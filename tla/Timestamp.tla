------------------------------ MODULE Timestamp ------------------------------
(***************************************************************************)
(* get_timestamp (misc/misc.c), which the three threads of a client call:  *)
(* the message thread for its statuses and for the date of its block, the  *)
(* P2P server and the listener for theirs. gmtime, external, returns a     *)
(* pointer to one struct tm for the whole process; strftime reads the      *)
(* fields of it one after the other. A time has two digits here, "high"    *)
(* (the date, the hour) and "low" (the minutes, the seconds).              *)
(***************************************************************************)
EXTENDS Naturals

CONSTANTS
  Threads,
  RADIX,      \* values of the low digit
  MAX_TIME    \* bound: the last instant of the clock

VARIABLES
  now,        \* the clock
  tm,         \* the struct tm of gmtime
  step,       \* of each thread: "out", "time", "high", "low" or "done"
  called,     \* the time the call read
  date        \* what the call has formatted

vars == <<now, tm, step, called, date>>

gmtime(t) == [high |-> t \div RADIX, low |-> t % RADIX]

Init ==
  /\ now = 0
  /\ tm = gmtime(0)
  /\ step = [t \in Threads |-> "out"]
  /\ called = [t \in Threads |-> 0]
  /\ date = [t \in Threads |-> gmtime(0)]

ReadClock(t) ==
  /\ step[t] = "out"
  /\ called' = [called EXCEPT ![t] = now]
  /\ step' = [step EXCEPT ![t] = "time"]
  /\ UNCHANGED <<now, tm, date>>

BreakDown(t) ==
  /\ step[t] = "time"
  /\ tm' = gmtime(called[t])
  /\ step' = [step EXCEPT ![t] = "high"]
  /\ UNCHANGED <<now, called, date>>

FormatHigh(t) ==
  /\ step[t] = "high"
  /\ date' = [date EXCEPT ![t].high = tm.high]
  /\ step' = [step EXCEPT ![t] = "low"]
  /\ UNCHANGED <<now, tm, called>>

FormatLow(t) ==
  /\ step[t] = "low"
  /\ date' = [date EXCEPT ![t].low = tm.low]
  /\ step' = [step EXCEPT ![t] = "done"]
  /\ UNCHANGED <<now, tm, called>>

Tick ==
  /\ now < MAX_TIME
  /\ now' = now + 1
  /\ UNCHANGED <<tm, step, called, date>>

Next ==
  \/ Tick
  \/ \E t \in Threads : ReadClock(t) \/ BreakDown(t) \/ FormatHigh(t) \/ FormatLow(t)

Spec == Init /\ [][Next]_vars

\* The date of a block, which the message thread formats, is that of its creation
\* (blockdata.c: "date creation"): at least a time the clock has shown.
DateIsCreation ==
  step["message"] = "done" => \E i \in 0 .. now : date["message"] = gmtime(i)
=============================================================================
