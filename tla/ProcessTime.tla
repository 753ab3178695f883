---------------------------- MODULE ProcessTime ----------------------------
(***************************************************************************)
(* The time arithmetic of Source/kwsys/ProcessUNIX.c: how WaitForData      *)
(* turns the timeout of the process and that of its caller into a deadline *)
(* and, before every select, the deadline into a length to sleep.          *)
(*                                                                         *)
(* A time is a pair of seconds and microseconds, as in the code; a double  *)
(* is an integral number of microseconds, whose conversion may lose one.   *)
(* KwsysProcess counts time with integers; here is what justifies that.    *)
(* No name is one of KwsysProcess, whose proofs extend both modules.       *)
(***************************************************************************)
EXTENDS Integers

CONSTANTS
  Second,          \* microseconds in a second: 1000000
  Timeouts,        \* what SetTimeout is given
  CallerTimeouts,  \* what a caller of WaitForData passes
  Epoch,           \* the clock starts here, and
  LastTime,        \* bound: stops here
  Null,            \* no user timeout is passed
  Never            \* select is given no timeout

ASSUME TimeAssumption ==
  /\ Second \in Nat \ {0, 1} /\ Epoch \in Nat /\ LastTime \in Nat
  /\ Timeouts \subseteq Int /\ CallerTimeouts \subseteq Int
  /\ Null \notin Int /\ Never \notin Int

VARIABLES
  clock,                                       \* gettimeofday, in microseconds
  cpTimeout, StartTime, TimeoutTime,           \* struct kwsysProcess_s
  callerTimeout, userStartTime, User, wdTime,  \* kwsysProcess_WaitForData
  wakeAt,  \* when the select in progress times out
  stage    \* where the caller is

cp   == <<cpTimeout, StartTime, TimeoutTime>>
wait == <<callerTimeout, userStartTime, User, wdTime>>
timeVars == <<clock, cp, wait, wakeAt, stage>>

kwsysProcessTime == [tv_sec : Int, tv_usec : Int]
Time(sec, usec) == [tv_sec |-> sec, tv_usec |-> usec]
NoTime == Time(-1, -1)

\* The microseconds a time stands for.
Micros(t) == t.tv_sec * Second + t.tv_usec

TimeGetCurrent == Time(clock \div Second, clock % Second)

\* The cast cuts the fraction off, towards zero, and a double that is not a
\* binary fraction may lose a microsecond.
TimeFromDouble(d) ==
  LET size == IF d < 0 THEN -d ELSE d
      sign == IF d < 0 THEN -1 ELSE 1
  IN {Time(sign * (size \div Second), sign * usec) :
        usec \in {size % Second, IF size % Second = 0 THEN 0 ELSE (size % Second) - 1}}

\* Mistake: the microseconds are not compared.
TimeLess_Seconds(in1, in2) == in1.tv_sec < in2.tv_sec

TimeLess(in1, in2) == \/ in1.tv_sec < in2.tv_sec
                      \/ in1.tv_sec = in2.tv_sec /\ in1.tv_usec < in2.tv_usec

TimeAdd(in1, in2) ==
  LET sec == in1.tv_sec + in2.tv_sec
      usec == in1.tv_usec + in2.tv_usec
  IN IF usec > Second THEN Time(sec + 1, usec - Second) ELSE Time(sec, usec)

\* Mistake: what is borrowed is not paid for.
TimeSubtract_Free(in1, in2) ==
  LET usec == in1.tv_usec - in2.tv_usec
  IN Time(in1.tv_sec - in2.tv_sec, IF usec < 0 THEN usec + Second ELSE usec)

TimeSubtract(in1, in2) ==
  LET sec == in1.tv_sec - in2.tv_sec
      usec == in1.tv_usec - in2.tv_usec
  IN IF usec < 0 THEN Time(sec - 1, usec + Second) ELSE Time(sec, usec)

-----------------------------------------------------------------------------

SetTimeout ==
  /\ stage \in {"idle", "executing"}
  /\ \E t \in Timeouts : cpTimeout' = IF t < 0 THEN 0 ELSE t
  /\ UNCHANGED <<clock, StartTime, TimeoutTime, wait, wakeAt, stage>>

Execute ==
  /\ stage = "idle" /\ stage' = "executing"
  /\ StartTime' = TimeGetCurrent /\ TimeoutTime' = NoTime
  /\ UNCHANGED <<clock, cpTimeout, wait, wakeAt>>

\* The caller passes no timeout, a new one, or what the last call left of it.
kwsysProcess_WaitForData ==
  /\ stage = "executing" /\ stage' = "deadline"
  /\ callerTimeout' \in CallerTimeouts \cup {Null, callerTimeout}
  /\ userStartTime' = TimeGetCurrent
  /\ UNCHANGED <<clock, cp, User, wdTime, wakeAt>>

\* Mistake: the process timeout starts with every wait.
ProcessDeadline_Restarts(length) ==
  TimeoutTime' = IF cpTimeout # 0 THEN TimeAdd(TimeGetCurrent, length) ELSE TimeoutTime

\* The deadline of the process is computed once, when it is first waited for.
ProcessDeadline(length) ==
  TimeoutTime' = IF cpTimeout # 0 /\ TimeoutTime.tv_sec < 0
                 THEN TimeAdd(StartTime, length) ELSE TimeoutTime

\* kwsysProcessGetTimeoutTime.
kwsysProcessGetTimeoutTime ==
  /\ stage = "deadline" /\ stage' = "wait"
  /\ \E length \in TimeFromDouble(cpTimeout) : ProcessDeadline(length)
  /\ \E length \in TimeFromDouble(IF callerTimeout = Null THEN 0 ELSE callerTimeout) :
       LET userTime == TimeAdd(TimeGetCurrent, length)
       IN /\ User' = /\ callerTimeout # Null
                     /\ TimeoutTime'.tv_sec < 0 \/ TimeLess(userTime, TimeoutTime')
          /\ wdTime' = IF User' THEN userTime ELSE TimeoutTime'
  /\ UNCHANGED <<clock, cpTimeout, StartTime, callerTimeout, userStartTime, wakeAt>>

\* What is left of the caller's timeout is written back.
End ==
  /\ stage' = "executing"
  /\ callerTimeout' =
       IF callerTimeout = Null THEN Null
       ELSE LET left == callerTimeout
                        - Micros(TimeSubtract(TimeGetCurrent, userStartTime))
            IN IF left < 0 THEN 0 ELSE left
  /\ UNCHANGED <<cp, userStartTime, User, wdTime, wakeAt>>

TimeLeft == TimeSubtract(wdTime, TimeGetCurrent)
Poll == User /\ callerTimeout <= 0

\* kwsysProcessGetTimeoutLeft: none is left.  A poll goes on with zero.
Expire ==
  /\ stage = "wait" /\ wdTime.tv_sec >= 0 /\ TimeLeft.tv_sec < 0 /\ ~Poll
  /\ End /\ UNCHANGED clock

Select ==
  /\ stage = "wait" /\ stage' = "select"
  /\ \/ wdTime.tv_sec < 0 /\ wakeAt' = Never
     \/ /\ wdTime.tv_sec >= 0 /\ (TimeLeft.tv_sec >= 0 \/ Poll)
        /\ wakeAt' = clock + IF TimeLeft.tv_sec < 0 THEN 0 ELSE Micros(TimeLeft)
  /\ UNCHANGED <<clock, cp, wait>>

\* A pipe is ready: its data end the wait, or there is nothing for the caller.
PipeReady ==
  /\ stage = "select"
  /\ \/ stage' = "wait" /\ UNCHANGED <<cp, wait, wakeAt>>
     \/ End
  /\ UNCHANGED clock

SelectTimesOut ==
  /\ stage = "select" /\ wakeAt # Never /\ clock >= wakeAt
  /\ End /\ UNCHANGED clock

\* WaitForExit, or a process that has timed out and is killed.
ProcessEnds == /\ stage = "executing" /\ stage' = "idle"
          /\ UNCHANGED <<clock, cp, wait, wakeAt>>

ClockTicks == /\ clock < LastTime /\ clock' = clock + 1
        /\ UNCHANGED <<cp, wait, wakeAt, stage>>

TimeInit ==
  /\ clock = Epoch /\ cpTimeout = 0 /\ StartTime = NoTime /\ TimeoutTime = NoTime
  /\ callerTimeout = Null /\ userStartTime = Time(0, 0) /\ User = FALSE
  /\ wdTime = Time(0, 0) /\ wakeAt = Never /\ stage = "idle"

TimeNext ==
  \/ SetTimeout \/ Execute \/ kwsysProcess_WaitForData
  \/ kwsysProcessGetTimeoutTime \/ Expire \/ Select \/ PipeReady
  \/ SelectTimesOut \/ ProcessEnds \/ ClockTicks

TimeSpec == TimeInit /\ [][TimeNext]_timeVars

-----------------------------------------------------------------------------
TimeTypeOK ==
  /\ clock \in Nat /\ cpTimeout \in Nat
  /\ {StartTime, TimeoutTime, userStartTime, wdTime} \subseteq kwsysProcessTime
  /\ callerTimeout \in Int \cup {Null} /\ User \in BOOLEAN
  /\ wakeAt \in Int \cup {Never}
  /\ stage \in {"idle", "executing", "deadline", "wait", "select"}

Waiting == stage \in {"wait", "select"}

\* The time of the process runs from its start, whenever it is first waited
\* for and however often: its deadline is what a SetTimeout has asked for, but
\* for the microsecond a conversion may lose.
DeadlineFromStart ==
  TimeoutTime # NoTime =>
    \E t \in Timeouts : /\ t > 0
                        /\ Micros(TimeoutTime) - Micros(StartTime) \in {t - 1, t}

\* A wait ends with the earlier of the two deadlines, and knows whose it is
\* (the process is killed for its own only).
EarlierDeadline ==
  Waiting /\ TimeoutTime # NoTime =>
    /\ Micros(wdTime) <= Micros(TimeoutTime)
    /\ ~User => wdTime = TimeoutTime
    /\ ~User /\ callerTimeout # Null /\ callerTimeout >= 0
         => Micros(wdTime) <= clock + callerTimeout

\* No time is left once the deadline has passed, and not before: a carry that
\* is left undone may only make it the very microsecond of the deadline.
ExpiresInTime ==
  stage = "wait" /\ wdTime.tv_sec >= 0 =>
    /\ Micros(wdTime) < clock => TimeLeft.tv_sec < 0
    /\ TimeLeft.tv_sec < 0 => Micros(wdTime) <= clock
=============================================================================
