-------------------------------- MODULE Timing --------------------------------
(* When the calls of a trace are made: the part of the macro REPLICATE around  *)
(* the handlers (replicate.c), with -t diff, -t exact and -t asap.             *)
(*                                                                             *)
(* Times are natural numbers of one unit.  The program reads the processor's   *)
(* counter and computes (counter - base) * 1000000 / clock_rate, whose product *)
(* wraps at 2^64: what it takes for the time since the base is that time       *)
(* modulo WRAP, 1.7 hours at 3 GHz.  A duration is read back as 32 bits, so it *)
(* is modulo DUR_WRAP, 1.2 hours.                                              *)
EXTENDS Integers, Sequences

CONSTANTS Traces,     \* the traces that may be replayed
          Scales,     \* the factors of -s, as <<numerator, denominator>>
          SLACK,      \* a call may be this much early: 60 microseconds
          WRAP, DUR_WRAP,
          Delays,     \* the times between two readings of the counter
          CallTimes,  \* the times a call may take when it is replayed
          CAP         \* bound of the history variables gap and offset

ASSUME TimesAssumption ==
  /\ SLACK \in Nat /\ WRAP \in Nat \ {0} /\ DUR_WRAP \in Nat \ {0}
  /\ CAP \in Nat /\ CAP >= WRAP
  /\ Delays \subseteq Nat /\ CallTimes \subseteq Nat
ASSUME TracesAssumption ==
  Traces \subseteq Seq([start : Nat, dur : Nat]) /\ <<>> \notin Traces
(* The option -s, read with atof, which takes a negative number too.  Those    *)
(* are left out: they turn the differences between calls around.               *)
ASSUME ScalesAssumption == Scales \subseteq (Nat \ {0}) \X (Nat \ {0})

VARIABLES
  trace, mode, scale,   \* the list and the options
  i,                    \* the number of the record
  pc,                   \* "first", "next", "due" or "done"
  last_call_orig, first_call_orig,
  sinceLast, sinceFirst,  \* what is computed from counter_last, counter_first
  gap, offset           \* history: the time since the last call was over, and
                        \* since the replay began, up to CAP

options == <<trace, mode, scale>>
vars == <<options, i, pc, last_call_orig, first_call_orig, sinceLast, sinceFirst,
          gap, offset>>

Init ==
  /\ trace \in Traces /\ mode \in {"diff", "exact", "asap"} /\ scale \in Scales
  /\ i = 1 /\ pc = "first"
  /\ last_call_orig = 0 /\ first_call_orig = 0
  /\ sinceLast = 0 /\ sinceFirst = 0 /\ gap = 0 /\ offset = 0

-----------------------------------------------------------------------------
CALL_TIME(x) == x.start
DUR_TIME(x)  == x.dur % DUR_WRAP

(* diff_orig * scale, cut off to an integer.                                   *)
Scaled(n) == IF n >= 0 THEN (n * scale[1]) \div scale[2]
             ELSE -((-n * scale[1]) \div scale[2])

(* Mistakes: the gap is counted from the first call; the counter is compared   *)
(* with the wrong base.                                                        *)
DiffFromFirst ==
  CASE mode = "diff"  -> Scaled(CALL_TIME(trace[i]) - first_call_orig) - sinceLast
    [] mode = "exact" -> CALL_TIME(trace[i]) - first_call_orig - sinceFirst
    [] OTHER          -> 0
DiffSinceFirst ==
  CASE mode = "diff"  -> Scaled(CALL_TIME(trace[i]) - last_call_orig) - sinceFirst
    [] mode = "exact" -> CALL_TIME(trace[i]) - first_call_orig - sinceFirst
    [] OTHER          -> 0

(* diff: how long the call still has to wait.                                  *)
Diff ==
  CASE mode = "diff"  -> Scaled(CALL_TIME(trace[i]) - last_call_orig) - sinceLast
    [] mode = "exact" -> CALL_TIME(trace[i]) - first_call_orig - sinceFirst
    [] OTHER          -> 0

UpTo(n) == IF n < CAP THEN n ELSE CAP

(* Time passes.                                                                *)
Pass(d) ==
  /\ sinceLast' = (sinceLast + d) % WRAP
  /\ sinceFirst' = (sinceFirst + d) % WRAP
  /\ gap' = UpTo(gap + d) /\ offset' = UpTo(offset + d)

(* The first record sets the bases.                                            *)
First ==
  /\ pc = "first" /\ pc' = "due"
  /\ last_call_orig' = CALL_TIME(trace[1]) /\ first_call_orig' = CALL_TIME(trace[1])
  /\ UNCHANGED <<options, i, sinceLast, sinceFirst, gap, offset>>

(* The loop comes to a record and reads the counter.                           *)
Arrive ==
  /\ pc = "next" /\ pc' = "due"
  /\ \E d \in Delays : Pass(d)
  /\ UNCHANGED <<options, i, last_call_orig, first_call_orig>>

(* The busy loop, and the next reading of the counter.                         *)
Spin ==
  /\ pc = "due" /\ Diff > SLACK
  /\ \E d \in Delays : Pass(d)
  /\ UNCHANGED <<options, i, pc, last_call_orig, first_call_orig>>

(* A mistake: the duration of the call is not added.                           *)
CallWithoutDur ==
  /\ pc = "due" /\ Diff <= SLACK
  /\ \E d \in CallTimes :
       /\ sinceFirst' = (sinceFirst + d) % WRAP /\ offset' = UpTo(offset + d)
       /\ sinceLast' = IF mode = "diff" THEN 0 ELSE (sinceLast + d) % WRAP
  /\ last_call_orig' = IF mode = "diff" THEN CALL_TIME(trace[i]) ELSE last_call_orig
  /\ gap' = 0
  /\ i' = i + 1 /\ pc' = IF i = Len(trace) THEN "done" ELSE "next"
  /\ UNCHANGED <<options, first_call_orig>>

(* A mistake: the end of the list is seen one record late.                     *)
CallOneMore ==
  /\ pc = "due" /\ Diff <= SLACK
  /\ \E d \in CallTimes :
       /\ sinceFirst' = (sinceFirst + d) % WRAP /\ offset' = UpTo(offset + d)
       /\ sinceLast' = IF mode = "diff" THEN 0 ELSE (sinceLast + d) % WRAP
  /\ last_call_orig' = IF mode = "diff" THEN CALL_TIME(trace[i]) + DUR_TIME(trace[i])
                       ELSE last_call_orig
  /\ gap' = 0
  /\ i' = i + 1 /\ pc' = IF i > Len(trace) THEN "done" ELSE "next"
  /\ UNCHANGED <<options, first_call_orig>>

(* replicate_x, and what is noted for the next record.                         *)
Call ==
  /\ pc = "due" /\ Diff <= SLACK
  /\ \E d \in CallTimes :
       /\ sinceFirst' = (sinceFirst + d) % WRAP /\ offset' = UpTo(offset + d)
       /\ sinceLast' = IF mode = "diff" THEN 0 ELSE (sinceLast + d) % WRAP
  /\ last_call_orig' = IF mode = "diff" THEN CALL_TIME(trace[i]) + DUR_TIME(trace[i])
                       ELSE last_call_orig
  /\ gap' = 0
  /\ i' = i + 1 /\ pc' = IF i = Len(trace) THEN "done" ELSE "next"
  /\ UNCHANGED <<options, first_call_orig>>

Next == First \/ Arrive \/ Spin \/ Call

Spec == Init /\ [][Next]_vars
(* The replayer is one thread that never sleeps, so it goes on.                *)
FairSpec == Spec /\ WF_vars(Next)

-----------------------------------------------------------------------------
TypeOK ==
  /\ trace \in Traces /\ mode \in {"diff", "exact", "asap"} /\ scale \in Scales
  /\ i \in 1 .. Len(trace) + 1 /\ pc \in {"first", "next", "due", "done"}
  /\ pc = "done" <=> i > Len(trace)
  /\ last_call_orig \in Nat /\ first_call_orig \in Nat
  /\ sinceLast \in 0 .. WRAP - 1 /\ sinceFirst \in 0 .. WRAP - 1
  /\ gap \in 0 .. CAP /\ offset \in 0 .. CAP

(* What was recorded between the end of a call and the next one, and between   *)
(* the first call and another.                                                 *)
RecordedGap(n) == trace[n].start - (trace[n - 1].start + trace[n - 1].dur)
RecordedOffset(n) == trace[n].start - trace[1].start

(* With -t diff no call is made before the recorded gap, scaled, is over, up   *)
(* to SLACK and the cutting off; with -t exact none before its recorded time.  *)
NeverEarly ==
  [][i' # i =>
       /\ mode = "diff" /\ i > 1 =>
            scale[1] * RecordedGap(i) < scale[2] * (gap + SLACK + 1) \/ gap = CAP
       /\ mode = "exact" => RecordedOffset(i) <= offset + SLACK \/ offset = CAP]_vars

(* Durations, gaps and the whole trace are below the limits of the arithmetic. *)
ShortDurs == \A n \in DOMAIN trace : trace[n].dur < DUR_WRAP
ShortWaits ==
  \A n \in 2 .. Len(trace) :
    /\ mode = "diff" => ShortDurs /\ Scaled(RecordedGap(n)) < WRAP
    /\ mode = "exact" => RecordedOffset(n) < WRAP

(* The replayer waits only for a call that is not due yet.                     *)
WaitsOnlyIfEarly ==
  [][pc = "due" /\ i' = i =>
       /\ mode # "asap" /\ i > 1
       /\ mode = "diff" /\ ShortDurs /\ gap < WRAP =>
            scale[1] * RecordedGap(i) > scale[2] * (gap + SLACK)
       /\ mode = "exact" /\ offset < WRAP => RecordedOffset(i) > offset + SLACK]_vars

(* Every call of the trace is made in the end, when no wait is longer than     *)
(* what the arithmetic can tell: else the time that has passed, as it is       *)
(* computed, never reaches what was recorded, and Spin goes on for ever.       *)
ShortTraceEnds == ShortWaits ~> pc = "done"
=============================================================================
