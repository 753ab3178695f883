SPECIFICATION Spec
CONSTANTS Absent = Absent
          Missing = Missing
          On = On
          Off = Off
          Blank = Blank
          Quote = Quote
          Projects <- MCProjects
          Texts <- MCTexts
          InterruptedAt = {"configure", "check_cache", "Makefile", "DirectoryInformation", "Makefile.cmake"}

PROPERTY ForceOverwrites
