----------------------------- MODULE TimingProofs -----------------------------
(* Proofs about Timing: no call is made too early, for any trace, any scale    *)
(* and any limits of the arithmetic.                                           *)
EXTENDS Timing, TLAPS

LEMMA Remainder ==
  ASSUME NEW x \in Nat, NEW w \in Nat, w > 0
  PROVE  x % w \in 0 .. w - 1 /\ x % w <= x
<1>1. x % w >= 0 /\ x % w \in Int
  BY SMT
<1>2. x % w < w
  BY SMT
<1>3. x % w <= x
  BY SMT
<1> QED
  BY <1>1, <1>2, <1>3

LEMMA CutOff ==
  ASSUME NEW a \in Nat, NEW d \in Nat, d > 0, NEW g \in Int, a \div d <= g
  PROVE  a < d * (g + 1)
<1>1. a < d * ((a \div d) + 1) /\ a \div d \in Int
  BY SMT
<1>2. \A p, q \in Int : p <= q => d * p <= d * q
  BY SMT
<1>3. d * ((a \div d) + 1) <= d * (g + 1)
  BY <1>1, <1>2
<1>4. d * ((a \div d) + 1) \in Int /\ d * (g + 1) \in Int
  BY <1>1, SMT
<1> QED
  BY ONLY <1>1, <1>3, <1>4, SMT

LEMMA Monotone ==
  ASSUME NEW a \in Int, NEW b \in Int, NEW n \in Nat, a <= b
  PROVE  n * a <= n * b
BY SMT

LEMMA ElementOf ==
  ASSUME NEW S, NEW s \in Seq(S), NEW n \in 1 .. Len(s)
  PROVE  s[n] \in S
OBVIOUS

LEMMA TraceFacts ==
  ASSUME trace \in Traces
  PROVE  /\ Len(trace) \in Nat /\ Len(trace) >= 1
         /\ \A n \in 1 .. Len(trace) :
              trace[n].start \in Nat /\ trace[n].dur \in Nat /\ DUR_TIME(trace[n]) \in Nat
              /\ DUR_TIME(trace[n]) <= trace[n].dur
<1>1. trace \in Seq([start : Nat, dur : Nat]) /\ trace # <<>>
  BY TracesAssumption
<1>2. Len(trace) \in Nat /\ Len(trace) >= 1
  BY <1>1
<1>3. ASSUME NEW n \in 1 .. Len(trace)
      PROVE  trace[n].start \in Nat /\ trace[n].dur \in Nat
  <2>1. trace[n] \in [start : Nat, dur : Nat]
    BY <1>1, ElementOf, Zenon
  <2> QED
    BY <2>1
<1>4. ASSUME NEW n \in 1 .. Len(trace)
      PROVE  DUR_TIME(trace[n]) \in Nat /\ DUR_TIME(trace[n]) <= trace[n].dur
  <2>1. DUR_WRAP \in Nat /\ DUR_WRAP > 0 /\ trace[n].dur \in Nat
    BY <1>3, TimesAssumption
  <2>2. /\ trace[n].dur % DUR_WRAP \in 0 .. DUR_WRAP - 1
        /\ trace[n].dur % DUR_WRAP <= trace[n].dur
    BY <2>1, Remainder
  <2> QED
    BY <2>1, <2>2 DEF DUR_TIME
<1> QED
  BY <1>2, <1>3, <1>4

(* What is taken for the time since a base is never more than that time, and   *)
(* never more was waited than the history tells.                               *)
Bases ==
  /\ sinceLast <= gap \/ mode # "diff"
  /\ sinceFirst <= offset
  /\ pc = "first" => i = 1
  /\ pc = "next" => i > 1
  /\ pc # "first" => first_call_orig = trace[1].start
  /\ mode = "diff" /\ i > 1 => last_call_orig = trace[i - 1].start + DUR_TIME(trace[i - 1])

IInv == TypeOK /\ Bases

LEMMA Starts == Init => IInv
<1> SUFFICES ASSUME Init PROVE IInv
  OBVIOUS
<1>1. Len(trace) \in Nat /\ Len(trace) >= 1
  BY TraceFacts DEF Init
<1> QED
  BY <1>1, TimesAssumption DEF Init, IInv, TypeOK, Bases

LEMMA Passes ==
  ASSUME IInv, NEW d \in Nat, Pass(d)
  PROVE  /\ sinceLast' \in 0 .. WRAP - 1 /\ sinceFirst' \in 0 .. WRAP - 1
         /\ gap' \in 0 .. CAP /\ offset' \in 0 .. CAP
         /\ sinceLast' <= gap' \/ mode # "diff"
         /\ sinceFirst' <= offset'
<1>1. /\ WRAP \in Nat /\ WRAP > 0 /\ CAP \in Nat /\ CAP >= WRAP
      /\ sinceLast \in Nat /\ sinceFirst \in Nat /\ gap \in Nat /\ offset \in Nat
  BY TimesAssumption DEF IInv, TypeOK
<1>2. /\ (sinceLast + d) % WRAP \in 0 .. WRAP - 1 /\ (sinceLast + d) % WRAP <= sinceLast + d
      /\ (sinceFirst + d) % WRAP \in 0 .. WRAP - 1
      /\ (sinceFirst + d) % WRAP <= sinceFirst + d
  BY <1>1, Remainder
<1>3. sinceLast' \in 0 .. WRAP - 1 /\ sinceFirst' \in 0 .. WRAP - 1
      /\ sinceLast' <= sinceLast + d /\ sinceFirst' <= sinceFirst + d
  BY <1>2 DEF Pass
<1>4. gap' = UpTo(gap + d) /\ offset' = UpTo(offset + d)
  BY DEF Pass
<1> QED
  BY <1>1, <1>3, <1>4 DEF UpTo, IInv, Bases

LEMMA Keeps == IInv /\ [Next]_vars => IInv'
<1> SUFFICES ASSUME IInv, [Next]_vars PROVE IInv'
  OBVIOUS
<1>0. /\ WRAP \in Nat /\ WRAP > 0 /\ CAP \in Nat /\ CAP >= WRAP
      /\ \A d \in Delays : d \in Nat
      /\ \A d \in CallTimes : d \in Nat
  BY TimesAssumption
<1>1. /\ Len(trace) \in Nat /\ Len(trace) >= 1
      /\ \A n \in 1 .. Len(trace) : trace[n].start \in Nat /\ DUR_TIME(trace[n]) \in Nat
  BY TraceFacts DEF IInv, TypeOK
<1>2. CASE First
  BY <1>1, <1>2 DEF First, options, IInv, TypeOK, Bases, CALL_TIME
<1>3. CASE Arrive
  <2>1. PICK d \in Delays : Pass(d)
    BY <1>3 DEF Arrive
  <2>2. d \in Nat
    BY <1>0
  <2> QED
    BY <1>1, <1>3, <2>1, <2>2, Passes DEF Arrive, options, IInv, TypeOK, Bases
<1>4. CASE Spin
  <2>1. PICK d \in Delays : Pass(d)
    BY <1>4 DEF Spin
  <2>2. d \in Nat
    BY <1>0
  <2> QED
    BY <1>1, <1>4, <2>1, <2>2, Passes DEF Spin, options, IInv, TypeOK, Bases
<1>5. CASE Call
  <2>1. PICK d \in CallTimes :
          /\ sinceFirst' = (sinceFirst + d) % WRAP /\ offset' = UpTo(offset + d)
          /\ sinceLast' = IF mode = "diff" THEN 0 ELSE (sinceLast + d) % WRAP
    BY <1>5 DEF Call
  <2>2. d \in Nat /\ sinceLast \in Nat /\ sinceFirst \in Nat /\ offset \in Nat
    BY <1>0 DEF IInv, TypeOK
  <2>3. /\ (sinceLast + d) % WRAP \in 0 .. WRAP - 1
        /\ (sinceFirst + d) % WRAP \in 0 .. WRAP - 1
        /\ (sinceFirst + d) % WRAP <= sinceFirst + d
    BY <1>0, <2>2, Remainder
  <2>4. /\ sinceLast' \in 0 .. WRAP - 1 /\ sinceFirst' \in 0 .. WRAP - 1
        /\ sinceFirst' <= sinceFirst + d /\ (mode = "diff" => sinceLast' = 0)
    BY <1>0, <2>1, <2>3
  <2>5. offset' \in 0 .. CAP /\ sinceFirst' <= offset'
    BY <1>0, <2>1, <2>2, <2>4 DEF UpTo, IInv, Bases
  <2>6. /\ UNCHANGED options /\ first_call_orig' = first_call_orig
        /\ gap' = 0 /\ i' = i + 1 /\ pc = "due"
        /\ pc' = IF i = Len(trace) THEN "done" ELSE "next"
        /\ last_call_orig' = IF mode = "diff" THEN CALL_TIME(trace[i]) + DUR_TIME(trace[i])
                             ELSE last_call_orig
    BY <1>5 DEF Call
  <2>7. i \in 1 .. Len(trace)
    BY <1>1, <2>6 DEF IInv, TypeOK
  <2>8. TypeOK'
    <3>1. /\ trace' \in Traces /\ mode' \in {"diff", "exact", "asap"} /\ scale' \in Scales
          /\ first_call_orig' \in Nat
      BY <2>6 DEF options, IInv, TypeOK
    <3>2. /\ i' \in 1 .. Len(trace') + 1 /\ pc' \in {"first", "next", "due", "done"}
          /\ pc' = "done" <=> i' > Len(trace')
      BY <1>1, <2>6, <2>7 DEF options
    <3>3. last_call_orig' \in Nat
      BY <1>0, <1>1, <2>6, <2>7 DEF IInv, TypeOK, CALL_TIME
    <3>4. gap' \in 0 .. CAP
      BY <1>0, <2>6
    <3> QED
      BY <2>4, <2>5, <3>1, <3>2, <3>3, <3>4 DEF TypeOK
  <2>9. Bases'
    BY <1>0, <1>1, <2>4, <2>5, <2>6, <2>7 DEF options, IInv, Bases, CALL_TIME
  <2> QED
    BY <2>8, <2>9 DEF IInv
<1>6. CASE UNCHANGED vars
  BY <1>6 DEF vars, options, IInv, TypeOK, Bases
<1> QED
  BY <1>2, <1>3, <1>4, <1>5, <1>6 DEF Next

(* The replayer's state keeps its type.                                        *)
THEOREM TypeCorrect == Spec => []TypeOK
<1>1. IInv => TypeOK
  BY DEF IInv
<1> QED
  BY <1>1, Starts, Keeps, PTL DEF Spec

(* A call made with -t diff is not early.                                      *)
LEMMA DiffInTime ==
  ASSUME IInv, mode = "diff", i \in 2 .. Len(trace), Diff <= SLACK
  PROVE  scale[1] * RecordedGap(i) < scale[2] * (gap + SLACK + 1)
<1> DEFINE x == CALL_TIME(trace[i]) - last_call_orig
           g == gap + SLACK
<1>1. scale[1] \in Nat /\ scale[2] \in Nat /\ scale[2] > 0
  BY ScalesAssumption DEF IInv, TypeOK
<1>2. /\ SLACK \in Nat /\ gap \in Nat /\ sinceLast \in Nat /\ sinceLast <= gap
  BY TimesAssumption DEF IInv, TypeOK, Bases
<1>3. RecordedGap(i) \in Int /\ x \in Int /\ RecordedGap(i) <= x
  <2>1. i \in 1 .. Len(trace) /\ i - 1 \in 1 .. Len(trace) /\ i > 1
    BY TraceFacts DEF IInv, TypeOK
  <2>2. /\ trace[i].start \in Nat /\ trace[i - 1].start \in Nat /\ trace[i - 1].dur \in Nat
        /\ DUR_TIME(trace[i - 1]) \in Nat /\ DUR_TIME(trace[i - 1]) <= trace[i - 1].dur
    BY <2>1, TraceFacts DEF IInv, TypeOK
  <2>3. last_call_orig = trace[i - 1].start + DUR_TIME(trace[i - 1])
    BY <2>1 DEF IInv, Bases
  <2>4. /\ RecordedGap(i) = trace[i].start - (trace[i - 1].start + trace[i - 1].dur)
        /\ x = trace[i].start - (trace[i - 1].start + DUR_TIME(trace[i - 1]))
    BY <2>3 DEF RecordedGap, CALL_TIME
  <2> HIDE DEF x
  <2> QED
    BY <2>2, <2>4, SMTT(60)
<1>4. Scaled(x) - sinceLast <= SLACK
  BY DEF Diff
<1> HIDE DEF x
<1>5. scale[1] * RecordedGap(i) <= scale[1] * x
  BY <1>1, <1>3, Monotone
<1>6. g \in Int /\ g >= 0
  BY <1>2
<1>7. scale[1] * x < scale[2] * (g + 1)
  <2>1. CASE x >= 0
    <3> DEFINE a == scale[1] * x
    <3>1. a \in Nat
      BY <1>1, <1>3, <2>1, SMT
    <3>2. Scaled(x) = a \div scale[2]
      <4>1. scale[1] * x = x * scale[1]
        BY <1>1, <1>3, SMT
      <4> QED
        BY <2>1, <4>1 DEF Scaled
    <3> HIDE DEF a
    <3>3. a \div scale[2] \in Int
      BY <1>1, <3>1, SMT
    <3>4. a \div scale[2] <= g
      BY <1>2, <1>4, <3>2, <3>3
    <3>5. a < scale[2] * (g + 1)
      BY <1>1, <1>6, <3>1, <3>4, CutOff
    <3> QED
      BY <3>5 DEF a
  <2>2. CASE x < 0
    <3>1. scale[1] * x <= scale[1] * 0
      BY <1>1, <1>3, <2>2, Monotone
    <3>2. scale[1] * 0 = 0
      BY <1>1, SMT
    <3>3. scale[2] * 1 <= scale[2] * (g + 1)
      BY <1>1, <1>6, Monotone
    <3>4. scale[2] * 1 = scale[2]
      BY <1>1, SMT
    <3>5. scale[1] * x \in Int /\ scale[2] * (g + 1) \in Int
      BY <1>1, <1>3, <1>6, SMT
    <3> HIDE DEF g
    <3> QED
      BY <1>1, <3>1, <3>2, <3>3, <3>4, <3>5
  <2> QED
    BY <1>3, <2>1, <2>2
<1>8. /\ scale[1] * RecordedGap(i) \in Int /\ scale[1] * x \in Int
      /\ scale[2] * (g + 1) \in Int
  BY <1>1, <1>3, <1>6, SMTT(60)
<1>9. scale[1] * RecordedGap(i) < scale[2] * (g + 1)
  BY ONLY <1>5, <1>7, <1>8, SMT
<1> QED
  BY <1>9

(* A call made with -t exact is not early.                                     *)
LEMMA ExactInTime ==
  ASSUME IInv, mode = "exact", pc = "due", Diff <= SLACK
  PROVE  RecordedOffset(i) <= offset + SLACK
<1>1. /\ SLACK \in Nat /\ offset \in Nat /\ sinceFirst \in Nat /\ sinceFirst <= offset
  BY TimesAssumption DEF IInv, TypeOK, Bases
<1>2. i \in 1 .. Len(trace) /\ 1 \in 1 .. Len(trace)
  BY TraceFacts DEF IInv, TypeOK
<1>3. trace[i].start \in Nat /\ trace[1].start \in Nat
  BY <1>2, TraceFacts DEF IInv, TypeOK
<1>4. first_call_orig = trace[1].start
  BY DEF IInv, Bases
<1>5. trace[i].start - trace[1].start - sinceFirst <= SLACK
  BY <1>4 DEF Diff, CALL_TIME
<1> QED
  BY <1>1, <1>3, <1>5 DEF RecordedOffset

(* The replayer makes no call before the recorded gap, or its recorded time,   *)
(* is over: neither wrapping nor a duration that was cut makes it early.       *)
THEOREM NotEarly == Spec => NeverEarly
<1> DEFINE InTime ==
      /\ mode = "diff" /\ i > 1 =>
           scale[1] * RecordedGap(i) < scale[2] * (gap + SLACK + 1) \/ gap = CAP
      /\ mode = "exact" => RecordedOffset(i) <= offset + SLACK \/ offset = CAP
<1>1. IInv /\ [Next]_vars => [i' # i => InTime]_vars
  <2> SUFFICES ASSUME IInv, Next, i' # i PROVE InTime
    BY DEF vars
  <2>1. Call
    BY DEF Next, First, Arrive, Spin
  <2>2. pc = "due" /\ Diff <= SLACK
    BY <2>1 DEF Call
  <2>3. i \in 1 .. Len(trace)
    BY <2>2, TraceFacts DEF IInv, TypeOK
  <2>4. ASSUME mode = "diff", i > 1
        PROVE  scale[1] * RecordedGap(i) < scale[2] * (gap + SLACK + 1)
    BY <2>2, <2>3, <2>4, DiffInTime
  <2>5. ASSUME mode = "exact" PROVE RecordedOffset(i) <= offset + SLACK
    BY <2>2, <2>5, ExactInTime
  <2> QED
    BY <2>4, <2>5
<1>2. Spec => []IInv
  BY Starts, Keeps, PTL DEF Spec
<1> QED
  BY <1>1, <1>2, PTL DEF Spec, NeverEarly


-----------------------------------------------------------------------------
(* Below WRAP the program's clock tells the time exactly.                      *)
Counted ==
  /\ mode = "diff" /\ gap < WRAP => sinceLast = gap
  /\ offset < WRAP => sinceFirst = offset
  /\ pc = "due" /\ i = 1 => last_call_orig = trace[1].start

LEMMA SmallRemainder ==
  ASSUME NEW x \in Nat, NEW w \in Nat, x < w
  PROVE  x % w = x
BY SMT

LEMMA CutBelow ==
  ASSUME NEW a \in Nat, NEW d \in Nat, d > 0, NEW g \in Nat, a \div d > g
  PROVE  a > d * g
<1>1. a >= d * (a \div d) /\ a \div d \in Int
  BY SMT
<1>2. \A p, q \in Int : p <= q => d * p <= d * q
  BY SMT
<1>3. d * (g + 1) <= d * (a \div d)
  BY <1>1, <1>2
<1>4. d * (g + 1) = d * g + d
  BY SMT
<1>5. d * (a \div d) \in Int /\ d * g \in Int
  BY <1>1, SMT
<1>6. \A p, q \in Int : a >= p /\ q + d <= p => a > q
  BY SMT
<1>7. d * g + d <= d * (a \div d)
  BY <1>3, <1>4, Zenon
<1> QED
  BY <1>1, <1>5, <1>6, <1>7, Zenon

LEMMA StartsCounted == Init => Counted
BY TimesAssumption DEF Init, Counted

LEMMA PassesCounted ==
  ASSUME IInv, Counted, NEW d \in Nat, Pass(d)
  PROVE  /\ mode = "diff" /\ gap' < WRAP => sinceLast' = gap'
         /\ offset' < WRAP => sinceFirst' = offset'
<1>1. /\ WRAP \in Nat /\ CAP \in Nat /\ CAP >= WRAP
      /\ sinceLast \in Nat /\ sinceFirst \in Nat /\ gap \in Nat /\ offset \in Nat
  BY TimesAssumption DEF IInv, TypeOK
<1>2. gap' = UpTo(gap + d) /\ offset' = UpTo(offset + d)
  BY DEF Pass
<1>3. ASSUME mode = "diff", gap' < WRAP PROVE sinceLast' = gap'
  <2>1. gap' = gap + d /\ gap < WRAP /\ gap + d < WRAP
    BY <1>1, <1>2, <1>3 DEF UpTo
  <2>2. sinceLast + d \in Nat /\ sinceLast + d = gap + d
    BY <1>1, <1>3, <2>1 DEF Counted
  <2>3. (sinceLast + d) % WRAP = sinceLast + d
    BY <1>1, <2>1, <2>2, SmallRemainder
  <2> QED
    BY <2>1, <2>2, <2>3 DEF Pass
<1>4. ASSUME offset' < WRAP PROVE sinceFirst' = offset'
  <2>1. offset' = offset + d /\ offset < WRAP /\ offset + d < WRAP
    BY <1>1, <1>2, <1>4 DEF UpTo
  <2>2. sinceFirst + d \in Nat /\ sinceFirst + d = offset + d
    BY <1>1, <2>1 DEF Counted
  <2>3. (sinceFirst + d) % WRAP = sinceFirst + d
    BY <1>1, <2>1, <2>2, SmallRemainder
  <2> QED
    BY <2>1, <2>2, <2>3 DEF Pass
<1> QED
  BY <1>3, <1>4

LEMMA KeepsCounted == IInv /\ Counted /\ [Next]_vars => Counted'
<1> SUFFICES ASSUME IInv, Counted, [Next]_vars PROVE Counted'
  OBVIOUS
<1>0. (\A d \in Delays : d \in Nat) /\ (\A d \in CallTimes : d \in Nat)
  BY TimesAssumption
<1>1. CASE First
  BY <1>1 DEF First, options, Counted, CALL_TIME, IInv, Bases
<1>2. CASE Arrive
  <2>1. PICK d \in Delays : Pass(d)
    BY <1>2 DEF Arrive
  <2>2. UNCHANGED options /\ i' = i /\ i > 1 /\ i \in Int
    BY <1>2 DEF Arrive, IInv, Bases, TypeOK
  <2> QED
    BY <1>0, <2>1, <2>2, PassesCounted DEF options, Counted
<1>3. CASE Spin
  <2>1. PICK d \in Delays : Pass(d)
    BY <1>3 DEF Spin
  <2>2. /\ UNCHANGED options /\ i' = i /\ pc' = pc
        /\ last_call_orig' = last_call_orig
    BY <1>3 DEF Spin
  <2> QED
    BY <1>0, <2>1, <2>2, PassesCounted DEF options, Counted
<1>4. CASE Call
  <2>1. PICK d \in CallTimes :
          /\ sinceFirst' = (sinceFirst + d) % WRAP /\ offset' = UpTo(offset + d)
          /\ sinceLast' = IF mode = "diff" THEN 0 ELSE (sinceLast + d) % WRAP
    BY <1>4 DEF Call
  <2>2. /\ UNCHANGED options /\ gap' = 0 /\ pc' # "due"
    BY <1>4 DEF Call
  <2>3. /\ WRAP \in Nat /\ CAP \in Nat /\ CAP >= WRAP
        /\ sinceFirst \in Nat /\ offset \in Nat /\ d \in Nat
    BY <1>0, TimesAssumption DEF IInv, TypeOK
  <2>4. ASSUME offset' < WRAP PROVE sinceFirst' = offset'
    <3>1. offset' = offset + d /\ offset < WRAP /\ offset + d < WRAP
      BY <2>1, <2>3, <2>4 DEF UpTo
    <3>2. sinceFirst + d \in Nat /\ sinceFirst + d = offset + d
      BY <2>3, <3>1 DEF Counted
    <3>3. (sinceFirst + d) % WRAP = sinceFirst + d
      BY <2>3, <3>1, <3>2, SmallRemainder
    <3> QED
      BY <2>1, <3>1, <3>2, <3>3
  <2> QED
    BY <2>1, <2>2, <2>4 DEF options, Counted
<1>5. CASE UNCHANGED vars
  BY <1>5 DEF vars, options, Counted
<1> QED
  BY <1>1, <1>2, <1>3, <1>4, <1>5 DEF Next

(* A call that is waited for with -t diff is early by the trace.               *)
LEMMA DiffEarly ==
  ASSUME IInv, Counted, mode = "diff", i \in 2 .. Len(trace), Diff > SLACK,
         ShortDurs, gap < WRAP
  PROVE  scale[1] * RecordedGap(i) > scale[2] * (gap + SLACK)
<1> DEFINE x == RecordedGap(i)
           g == gap + SLACK
<1>1. scale[1] \in Nat /\ scale[2] \in Nat /\ scale[2] > 0
  BY ScalesAssumption DEF IInv, TypeOK
<1>2. SLACK \in Nat /\ gap \in Nat /\ sinceLast = gap
  BY TimesAssumption DEF IInv, TypeOK, Counted
<1>3. x \in Int /\ CALL_TIME(trace[i]) - last_call_orig = x
  <2>1. i \in 1 .. Len(trace) /\ i - 1 \in 1 .. Len(trace) /\ i > 1
    BY TraceFacts DEF IInv, TypeOK
  <2>2. trace[i].start \in Nat /\ trace[i - 1].start \in Nat /\ trace[i - 1].dur \in Nat
    BY <2>1, TraceFacts DEF IInv, TypeOK
  <2>3. trace[i - 1].dur < DUR_WRAP /\ DUR_WRAP \in Nat
    BY <2>1, TimesAssumption, TracesAssumption DEF ShortDurs, IInv, TypeOK
  <2>4. DUR_TIME(trace[i - 1]) = trace[i - 1].dur
    BY <2>2, <2>3, SmallRemainder DEF DUR_TIME
  <2>5. last_call_orig = trace[i - 1].start + trace[i - 1].dur
    BY <2>1, <2>4 DEF IInv, Bases
  <2> QED
    BY <2>2, <2>5 DEF RecordedGap, CALL_TIME
<1>4. Scaled(x) - sinceLast > SLACK
  BY <1>3 DEF Diff
<1> HIDE DEF x
<1>5. x >= 0
  <2> SUFFICES ASSUME x < 0 PROVE FALSE
    BY <1>3
  <2> DEFINE b == -x * scale[1]
  <2>1. b \in Nat
    BY <1>1, <1>3, SMT
  <2>2. Scaled(x) = -(b \div scale[2])
    BY <1>3 DEF Scaled
  <2> HIDE DEF b
  <2>3. b \div scale[2] >= 0 /\ b \div scale[2] \in Int
    BY <1>1, <2>1, SMT
  <2> QED
    BY <1>2, <1>4, <2>2, <2>3
<1> DEFINE a == x * scale[1]
<1>6. a \in Nat /\ a = scale[1] * x
  BY <1>1, <1>3, <1>5, SMT
<1>7. Scaled(x) = a \div scale[2]
  BY <1>5 DEF Scaled
<1> HIDE DEF a
<1>8. a \div scale[2] \in Int
  BY <1>1, <1>6, SMT
<1>9. a \div scale[2] > g /\ g \in Nat
  BY <1>2, <1>4, <1>7, <1>8
<1>10. a > scale[2] * g
  BY <1>1, <1>6, <1>9, CutBelow
<1> QED
  BY <1>6, <1>10 DEF x

(* The replayer waits, in its busy loop, only for a call that by the recorded  *)
(* times is not due yet, as long as its clock has not wrapped; for the first   *)
(* call and with -t asap it never waits.                                       *)
THEOREM WaitsAreDue == Spec => WaitsOnlyIfEarly
<1> DEFINE Early ==
      /\ mode # "asap" /\ i > 1
      /\ mode = "diff" /\ ShortDurs /\ gap < WRAP =>
           scale[1] * RecordedGap(i) > scale[2] * (gap + SLACK)
      /\ mode = "exact" /\ offset < WRAP => RecordedOffset(i) > offset + SLACK
<1>1. IInv /\ Counted /\ [Next]_vars => [pc = "due" /\ i' = i => Early]_vars
  <2> SUFFICES ASSUME IInv, Counted, Next, pc = "due", i' = i PROVE Early
    BY DEF vars
  <2>1. i \in 1 .. Len(trace) /\ 1 \in 1 .. Len(trace)
    BY TraceFacts DEF IInv, TypeOK
  <2>2. Diff > SLACK
    BY <2>1 DEF Next, First, Arrive, Spin, Call
  <2>3. SLACK \in Nat /\ sinceLast \in Nat /\ sinceFirst \in Nat /\ offset \in Nat
    BY TimesAssumption DEF IInv, TypeOK
  <2>4. trace[i].start \in Nat /\ trace[1].start \in Nat
    BY <2>1, TraceFacts DEF IInv, TypeOK
  <2>5. first_call_orig = trace[1].start
    BY DEF IInv, Bases
  <2>6. mode # "asap"
    BY <2>2, <2>3 DEF Diff
  <2>7. i > 1
    <3> SUFFICES ASSUME i = 1 PROVE FALSE
      BY <2>1
    <3>1. last_call_orig = trace[1].start
      BY DEF Counted
    <3>2. Scaled(0) = 0
      <4>1. scale[1] \in Nat /\ scale[2] \in Nat /\ scale[2] > 0
        BY ScalesAssumption DEF IInv, TypeOK
      <4> QED
        BY <4>1, SMT DEF Scaled
    <3>3. mode \in {"diff", "exact"}
      BY <2>6 DEF IInv, TypeOK
    <3>4. CALL_TIME(trace[i]) - last_call_orig = 0 /\ CALL_TIME(trace[i]) - first_call_orig = 0
      BY <2>4, <2>5, <3>1 DEF CALL_TIME
    <3> QED
      BY <2>2, <2>3, <3>2, <3>3, <3>4 DEF Diff
  <2>8. ASSUME mode = "diff", ShortDurs, gap < WRAP
        PROVE  scale[1] * RecordedGap(i) > scale[2] * (gap + SLACK)
    BY <2>1, <2>2, <2>7, <2>8, DiffEarly
  <2>9. ASSUME mode = "exact", offset < WRAP PROVE RecordedOffset(i) > offset + SLACK
    <3>1. sinceFirst = offset
      BY <2>9 DEF Counted
    <3>2. trace[i].start - trace[1].start - sinceFirst > SLACK
      BY <2>2, <2>5, <2>9 DEF Diff, CALL_TIME
    <3> QED
      BY <2>3, <2>4, <3>1, <3>2 DEF RecordedOffset
  <2> QED
    BY <2>6, <2>7, <2>8, <2>9
<1>2. Spec => [](IInv /\ Counted)
  BY Starts, Keeps, StartsCounted, KeepsCounted, PTL DEF Spec
<1> QED
  BY <1>1, <1>2, PTL DEF Spec, WaitsOnlyIfEarly
=============================================================================
