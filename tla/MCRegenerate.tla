---------------------------- MODULE MCRegenerate ----------------------------
EXTENDS Regenerate

MCYes == <<On>>
MCNo == <<Off>>
MCBlank == <<On, Blank>>
MCQuoted == <<Quote, On, Blank, Quote>>
MCTexts == {MCYes, MCBlank, MCQuoted}

Sets(v) == [name |-> "set", value |-> v]
Caches(v, type, force) == [name |-> "cache", value |-> v, type |-> type, force |-> force]
Option(v) == [name |-> "option", value |-> v]
Marks(how) == [name |-> "mark_as_advanced", how |-> how]
Fails == [name |-> "message"]

MCProjects == {
  <<Caches(MCBlank, "STRING", FALSE)>>,
  <<Marks("plain"), Caches(MCNo, "STRING", FALSE), Marks("CLEAR")>>,
  <<Sets(MCYes), Caches(MCNo, "STRING", FALSE)>>,
  <<Caches(MCQuoted, "STRING", TRUE), Sets(Absent)>>,
  <<Caches(MCBlank, "INTERNAL", FALSE), Marks("FORCE")>>,
  <<Option(MCYes), Caches(MCNo, "STRING", FALSE)>>,
  <<Sets(MCBlank), Option(Absent)>>,
  <<Caches(MCNo, "STRING", FALSE), Fails>>
  }
=============================================================================
