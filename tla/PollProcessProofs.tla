------------------------- MODULE PollProcessProofs -------------------------
(***************************************************************************)
(* Proofs about the poll process, for every table size, interval table and *)
(* width of an int.                                                        *)
(***************************************************************************)
EXTENDS PollProcess, TLAPS

\* A date below the horizon is stored in an int, and compared, as it is.
LEMMA StoredAsIs ==
  ASSUME NEW x \in Nat, 2 * x < WORD
  PROVE  ToInt(x) = x /\ ToUnsigned(x) = x
<1>1. x % WORD = x
  BY SizeAssumption
<1> QED
  BY <1>1 DEF ToInt, ToUnsigned

\* An int is an integer.
LEMMA ToIntIsInt ==
  ASSUME NEW x \in Int
  PROVE  ToInt(x) \in Int
<1>1. x % WORD \in Int
  BY SizeAssumption
<1> QED
  BY <1>1, SizeAssumption DEF ToInt

LEMMA StaggerType == MaxStagger \in Nat
BY SizeAssumption DEF MaxStagger

\* What poll_update() takes for the date of the next poll is a date within the
\* horizon, no sooner than the least interval after the last poll, and no later
\* than the host interval and the stagger after it unless that has passed.
LEMMA NextDateRange ==
  ASSUME Horizon,
         NEW t \in 1 .. MaxT, NEW out \in 1 .. t, NEW pp \in Nat, NEW hp \in MINPOLL .. MAXPOLL,
         last_nextdate \in 0 .. MaxStagger + Gap
  PROVE  LET n == NextDate(out, pp, hp, t)
         IN  /\ n \in 1 .. LastDate /\ n > t
             /\ n >= out + Interval[MINPOLL]
             /\ n <= out + Interval[hp] + MaxStagger \/ n <= t + 1
<1> DEFINE e == MaxOf(MinOf(pp, hp), MINPOLL)
           due == out + Interval[e]
           stag == IF Staggering THEN due + last_nextdate ELSE due
<1>1. e \in MINPOLL .. hp /\ e \in 0 .. MAXPOLL /\ MINPOLL \in 0 .. MAXPOLL /\ hp \in 0 .. MAXPOLL
      /\ MAXPOLL \in 0 .. MAXPOLL
  BY PollAssumption DEF MaxOf, MinOf
<1>2. /\ Interval[MINPOLL] <= Interval[e] /\ Interval[e] <= Interval[hp]
      /\ Interval[hp] <= Interval[MAXPOLL]
  BY <1>1, PollAssumption
<1>3. /\ Interval[e] \in Nat \ {0} /\ Interval[MINPOLL] \in Nat \ {0}
      /\ Interval[hp] \in Nat \ {0} /\ Interval[MAXPOLL] \in Nat \ {0}
  BY <1>1, PollAssumption
<1>4. MaxStagger \in Nat /\ MaxT \in Nat /\ WORD \in Nat
  BY SizeAssumption, StaggerType
<1>5. 2 * (MaxT + Interval[MAXPOLL] + MaxStagger + 1) < WORD
  BY DEF Horizon, LastDate
<1>6. due \in Nat /\ 2 * due < WORD
  <2> HIDE DEF e
  <2> QED
    BY <1>2, <1>3, <1>4, <1>5
<1>7. stag \in Nat /\ stag >= due /\ stag <= due + MaxStagger
  <2>1. last_nextdate \in Nat
    BY SizeAssumption, StaggerType
  <2>2. Staggering => last_nextdate <= MaxStagger
    BY DEF Staggering
  <2> HIDE DEF due
  <2> QED
    BY <1>4, <1>6, <2>1, <2>2
<1>8. 2 * stag < WORD
  <2> HIDE DEF e, stag
  <2> QED
    BY <1>2, <1>3, <1>4, <1>5, <1>7
<1>9. ToInt(due) = due /\ ToInt(stag) = stag
  <2> HIDE DEF due, stag
  <2> QED
    BY <1>6, <1>7, <1>8, StoredAsIs
<1>10. ToInt(t + 1) = t + 1
  <2>1. t + 1 \in Nat /\ 2 * (t + 1) < WORD
    <3> HIDE DEF e
    <3> QED
      BY <1>3, <1>4, <1>5
  <2> QED
    BY <2>1, StoredAsIs
<1>11. NextDate(out, pp, hp, t) = IF stag <= t THEN t + 1 ELSE stag
  <2>1. NextDate(out, pp, hp, t) = InFuture(stag, t)
    BY <1>9 DEF NextDate
  <2>2. 0 <= stag
    <3> HIDE DEF stag
    <3> QED
      BY <1>7
  <2> HIDE DEF stag
  <2> QED
    BY <2>1, <2>2, <1>10 DEF InFuture, Passed
<1> HIDE DEF e, stag
<1> QED
  BY <1>1, <1>2, <1>3, <1>4, <1>7, <1>11 DEF LastDate

----------------------------------------------------------------------------
\* The type correctness of the poll process needs no horizon.
LEMMA ClampedRange ==
  ASSUME NEW newpoll \in Int
  PROVE  Clamped(newpoll) \in MINPOLL .. MAXPOLL
BY PollAssumption DEF Clamped, MaxOf, MinOf

LEMMA NextDateType ==
  ASSUME NEW t \in Int, NEW out \in Int, NEW pp \in Nat, NEW hp \in MINPOLL .. MAXPOLL,
         last_nextdate \in Int
  PROVE  NextDate(out, pp, hp, t) \in Int
<1> DEFINE e == MaxOf(MinOf(pp, hp), MINPOLL)
<1>1. Interval[e] \in Nat
  BY PollAssumption DEF MaxOf, MinOf
<1> HIDE DEF e
<1>2. ToInt(out + Interval[e]) \in Int
  BY <1>1, ToIntIsInt
<1>3. ToInt(ToInt(out + Interval[e]) + last_nextdate) \in Int
  BY <1>2, ToIntIsInt
<1>4. ToInt(t + 1) \in Int
  BY ToIntIsInt
<1> QED
  BY <1>2, <1>3, <1>4 DEF NextDate, InFuture, e

\* poll_update() keeps the types of what it sets.
LEMMA PollUpdateType ==
  ASSUME TypeOK, NEW p \in Peers, NEW newpoll \in Int, NEW out \in Int, NEW pp \in Nat,
         NEW t \in Int, poll_update(p, newpoll, out, pp, t)
  PROVE  /\ hpoll' \in [Peers -> MINPOLL .. MAXPOLL]
         /\ nextdate' \in [Peers -> Int]
         /\ last_nextdate' \in 0 .. MaxStagger + Gap
         /\ scheduled' \subseteq Peers
<1>1. Clamped(newpoll) \in MINPOLL .. MAXPOLL
  BY ClampedRange
<1>2. NextDate(out, pp, Clamped(newpoll), t) \in Int
  <2>1. last_nextdate \in Int
    BY SizeAssumption DEF TypeOK
  <2> QED
    BY <1>1, <2>1, NextDateType
<1>3. last_nextdate' \in 0 .. MaxStagger + Gap
  BY StaggerType, SizeAssumption DEF TypeOK, poll_update, Staggering
<1> QED
  BY <1>1, <1>2, <1>3 DEF poll_update, TypeOK

\* Every visit of an association keeps the types.
LEMMA TypeStep == TypeOK /\ [Next]_vars => TypeOK'
<1> SUFFICES ASSUME TypeOK, [Next]_vars
             PROVE  TypeOK'
  OBVIOUS
<1> USE DEF TypeOK
<1>1. CASE clock_adjust
  BY <1>1, SizeAssumption DEF clock_adjust, assoc, history
<1>2. ASSUME NEW p \in Peers, poll(p)
      PROVE  TypeOK'
  <2>1. /\ cT' \in 1 .. MaxT /\ sPoll' \in MINPOLL .. MAXPOLL
    BY <1>2, SizeAssumption DEF poll, clock_filter, Host!clock_filter
  <2>2. /\ reach' \in [Peers -> 0 .. INTBITS] /\ outdate' \in [Peers -> Int]
        /\ polledAt' \in [Peers -> Nat] /\ ToInt(cT) \in Int
    <3>1. Shifted(p) \in 0 .. INTBITS
      BY SizeAssumption DEF Shifted, MinOf
    <3>2. ToInt(cT) \in Int /\ cT \in Nat
      BY ToIntIsInt
    <3> QED
      BY <1>2, <3>1, <3>2 DEF poll
  <2>3. CASE Unreachable(p)
    <3>1. /\ (IF unreach[p] < UNREACH THEN hpoll[p] ELSE hpoll[p] + 1) \in Int
          /\ cT' \in Int /\ ppoll[p] \in Nat
      <4>1. hpoll[p] \in MINPOLL .. MAXPOLL /\ ppoll[p] \in Nat
        OBVIOUS
      <4> HIDE DEF TypeOK
      <4>2. hpoll[p] \in Int /\ hpoll[p] + 1 \in Int
        BY <4>1, PollAssumption
      <4> QED
        BY <2>1, <4>1, <4>2
    <3>2. /\ hpoll' \in [Peers -> MINPOLL .. MAXPOLL] /\ nextdate' \in [Peers -> Int]
          /\ last_nextdate' \in 0 .. MaxStagger + Gap /\ scheduled' \subseteq Peers
      <4> HIDE DEF TypeOK
      <4> QED
        BY <2>2, <2>3, <3>1, PollUpdateType DEF Unreachable
    <3>3. unreach' \in [Peers -> Nat] /\ lost' \in [Peers -> Nat]
      BY <2>3 DEF Unreachable
    <3> QED
      BY <1>2, <2>1, <2>2, <3>2, <3>3 DEF poll
  <2>4. CASE Reachable(p)
    <3>1. sPoll' \in Int /\ cT' \in Int /\ ppoll[p] \in Nat
      BY <2>1, PollAssumption
    <3>2. /\ hpoll' \in [Peers -> MINPOLL .. MAXPOLL] /\ nextdate' \in [Peers -> Int]
          /\ last_nextdate' \in 0 .. MaxStagger + Gap /\ scheduled' \subseteq Peers
      <4> HIDE DEF TypeOK
      <4> QED
        BY <2>2, <2>4, <3>1, PollUpdateType DEF Reachable
    <3>3. unreach' \in [Peers -> Nat] /\ lost' \in [Peers -> Nat]
      BY <2>4 DEF Reachable
    <3> QED
      BY <1>2, <2>1, <2>2, <3>2, <3>3 DEF poll
  <2> QED
    BY <1>2, <2>3, <2>4 DEF poll
<1>3. ASSUME NEW loop \in {"sync", "poll"}, Advance(loop)
      PROVE  pc' \in {"sync", "delay", "poll", "reply"} /\ at' \in Peers
  <2>1. at \in Peers
    OBVIOUS
  <2> HIDE DEF TypeOK
  <2>2. NMAX \in Nat \ {0}
    BY SizeAssumption
  <2>3. CASE at < NMAX
    BY <1>3, <2>1, <2>2, <2>3 DEF Advance, Peers
  <2>4. CASE ~(at < NMAX)
    BY <1>3, <2>1, <2>2, <2>4 DEF Advance, Peers
  <2> QED
    BY <2>3, <2>4
<1>4. ASSUME NEW p \in Peers, NotDue(p)
      PROVE  TypeOK'
  BY <1>3, <1>4 DEF NotDue, assoc, history
<1>5. ASSUME NEW p \in Peers, Received(p)
      PROVE  pc' \in {"sync", "delay", "poll", "reply"} /\ at' \in Peers
  BY <1>3, <1>5 DEF Received
<1>6. ASSUME NEW p \in Peers, Ignored(p)
      PROVE  TypeOK'
  BY <1>5, <1>6 DEF Ignored, assoc, history
<1>7. ASSUME NEW p \in Peers, Lost(p)
      PROVE  TypeOK'
  BY <1>7 DEF Lost, assoc, history
<1>8. ASSUME NEW p \in Peers, NEW pp \in PeerPolls, Discarded(p, pp)
      PROVE  TypeOK'
  BY <1>5, <1>8, PollAssumption DEF Discarded, history
<1>9. ASSUME NEW p \in Peers, NEW pp \in PeerPolls, Accepted(p, pp)
      PROVE  TypeOK'
  <2>1. /\ hpoll' \in [Peers -> MINPOLL .. MAXPOLL] /\ nextdate' \in [Peers -> Int]
        /\ last_nextdate' \in 0 .. MaxStagger + Gap /\ scheduled' \subseteq Peers
    <3>1. hpoll[p] \in Int /\ outdate[p] \in Int /\ pp \in Nat /\ cT \in Int
      BY PollAssumption
    <3> HIDE DEF TypeOK
    <3> QED
      BY <1>9, <3>1, PollUpdateType DEF Accepted
  <2>2. pc' \in {"sync", "delay", "poll", "reply"} /\ at' \in Peers
    BY <1>5, <1>9 DEF Accepted
  <2>3. cT' \in 1 .. MaxT /\ sPoll' \in MINPOLL .. MAXPOLL
    BY <1>9, SizeAssumption DEF Accepted, clock_filter, Host!clock_filter
  <2>4. ppoll' \in [Peers -> Nat] /\ reach' \in [Peers -> 0 .. INTBITS]
    <3>1. pp \in Nat /\ 0 \in 0 .. INTBITS
      BY PollAssumption, SizeAssumption
    <3> QED
      BY <1>9, <3>1 DEF Accepted
  <2> QED
    BY <1>9, <2>1, <2>2, <2>3, <2>4 DEF Accepted
<1>10. CASE UNCHANGED vars
  BY <1>10 DEF vars, assoc, history
<1> QED
  BY <1>1, <1>2, <1>4, <1>6, <1>7, <1>8, <1>9, <1>10 DEF Next

LEMMA TypeInit == Init => TypeOK
<1> SUFFICES ASSUME Init
             PROVE  TypeOK
  OBVIOUS
<1>1. 1 \in Peers
  BY SizeAssumption DEF Peers
<1>2. nextdate \in [Peers -> Int]
  BY DEF Init
<1>3. MINPOLL \in MINPOLL .. MAXPOLL /\ MAXPOLL \in Nat /\ 2 \in 1 .. MaxT
  BY PollAssumption, SizeAssumption
<1>4. 0 \in 0 .. MaxStagger + Gap
  BY StaggerType, SizeAssumption
<1>5. INTBITS \in 0 .. INTBITS /\ MINPOLL \in Nat
  BY PollAssumption, SizeAssumption
<1>6. cT \in 1 .. MaxT /\ last_nextdate \in 0 .. MaxStagger + Gap
  BY <1>3, <1>4 DEF Init
<1>7. /\ reach \in [Peers -> 0 .. INTBITS] /\ unreach \in [Peers -> Nat]
      /\ hpoll \in [Peers -> MINPOLL .. MAXPOLL] /\ ppoll \in [Peers -> Nat]
      /\ outdate \in [Peers -> Int] /\ lost \in [Peers -> Nat]
      /\ polledAt \in [Peers -> Nat]
  BY <1>3, <1>5 DEF Init
<1> QED
  BY <1>1, <1>2, <1>3, <1>6, <1>7 DEF Init, TypeOK

\* Every variable of the poll process keeps its type, also beyond the horizon.
THEOREM TypeCorrect == Spec => []TypeOK
BY TypeInit, TypeStep, PTL DEF Spec

----------------------------------------------------------------------------
\* The inductive invariant below the horizon: every date is what the code
\* stores and compares, the last poll time is the time of the last poll, and a
\* scheduled peer is not due before its least interval is over.
ScheduleInv ==
  /\ TypeOK
  /\ \A p \in Peers : /\ outdate[p] \in 1 .. cT /\ polledAt[p] = outdate[p]
                       /\ nextdate[p] \in 1 .. LastDate
  /\ \A p \in scheduled : nextdate[p] >= outdate[p] + Interval[MINPOLL]
  /\ NextPollBounded

LEMMA NextSecond ==
  ASSUME NEW a \in Int, NEW b \in Int, NEW k \in Int, a <= b
  PROVE  k <= a + 1 => k <= b + 1
OBVIOUS

\* A call of poll_update() for p at time t with last poll time out keeps the
\* schedule of p within bounds, whatever it was before.
LEMMA PollUpdateStep ==
  ASSUME Horizon, ScheduleInv, NEW p \in Peers, NEW newpoll \in Int, NEW pp \in Nat,
         NEW t \in 1 .. MaxT, NEW out \in 1 .. t, poll_update(p, newpoll, out, pp, t),
         cT' \in cT .. MaxT, t <= cT',
         outdate' = [outdate EXCEPT ![p] = out], polledAt' = [polledAt EXCEPT ![p] = out],
         TypeOK'
  PROVE  ScheduleInv'
<1> DEFINE hp == Clamped(newpoll)
           n == NextDate(out, pp, hp, t)
<1>1. hp \in MINPOLL .. MAXPOLL
  BY ClampedRange
<1>2. /\ n \in 1 .. LastDate /\ n >= out + Interval[MINPOLL]
      /\ n <= out + Interval[hp] + MaxStagger \/ n <= t + 1
  <2> HIDE DEF hp
  <2> QED
    BY <1>1, NextDateRange DEF ScheduleInv, TypeOK
<1>3. /\ hpoll' = [hpoll EXCEPT ![p] = hp] /\ nextdate' = [nextdate EXCEPT ![p] = n]
      /\ scheduled' = scheduled \union {p}
  BY DEF poll_update
<1>4. /\ hpoll'[p] = hp /\ nextdate'[p] = n /\ outdate'[p] = out /\ polledAt'[p] = out
      /\ \A q \in Peers \ {p} : /\ hpoll'[q] = hpoll[q] /\ nextdate'[q] = nextdate[q]
                               /\ outdate'[q] = outdate[q] /\ polledAt'[q] = polledAt[q]
  BY <1>3 DEF ScheduleInv, TypeOK
<1> HIDE DEF n, hp
<1>5. cT \in Nat /\ cT' \in Nat /\ cT <= cT' /\ t \in Nat /\ out \in 1 .. cT'
  BY SizeAssumption DEF ScheduleInv, TypeOK
<1>9. t <= cT' /\ t \in Int /\ cT' \in Int
  BY <1>5
<1>6. ASSUME NEW q \in Peers
      PROVE  /\ outdate'[q] \in 1 .. cT' /\ polledAt'[q] = outdate'[q]
             /\ nextdate'[q] \in 1 .. LastDate
  <2>1. CASE q = p
    BY <1>2, <1>4, <1>5, <2>1
  <2>2. CASE q # p
    BY <1>4, <1>5, <2>2 DEF ScheduleInv
  <2> QED
    BY <2>1, <2>2
<1>7. ASSUME NEW q \in scheduled'
      PROVE  nextdate'[q] >= outdate'[q] + Interval[MINPOLL]
  <2>1. CASE q = p
    BY <1>2, <1>4, <2>1
  <2>2. CASE q # p
    <3>1. q \in scheduled /\ q \in Peers
      BY <1>3, <1>7, <2>2 DEF ScheduleInv, TypeOK
    <3> QED
      BY <1>4, <2>2, <3>1 DEF ScheduleInv
  <2> QED
    BY <2>1, <2>2
<1>8. ASSUME NEW q \in Peers
      PROVE  \/ nextdate'[q] <= outdate'[q] + Interval[hpoll'[q]] + MaxStagger
             \/ nextdate'[q] <= cT' + 1
  <2>1. CASE q = p
    <3>1. n \in Int
      <4>1. LastDate \in Int
        BY StaggerType, PollAssumption, SizeAssumption DEF LastDate
      <4> QED
        BY <1>2, <4>1
    <3>2. n <= t + 1 => n <= cT' + 1
      BY <1>9, <3>1, NextSecond, Zenon
    <3> QED
      BY <1>2, <1>4, <2>1, <3>2
  <2>2. CASE q # p
    <3>1. nextdate[q] \in Int
      BY DEF ScheduleInv, TypeOK
    <3>2. nextdate[q] <= outdate[q] + Interval[hpoll[q]] + MaxStagger \/ nextdate[q] <= cT + 1
      BY DEF ScheduleInv, NextPollBounded
    <3>3. nextdate[q] <= cT + 1 => nextdate[q] <= cT' + 1
      BY <1>5, <3>1
    <3> QED
      BY <1>4, <2>2, <3>2, <3>3
  <2> QED
    BY <2>1, <2>2
<1> QED
  BY <1>6, <1>7, <1>8 DEF ScheduleInv, NextPollBounded

\* A step that leaves the schedule alone keeps it within bounds.
LEMMA ScheduleKept ==
  ASSUME ScheduleInv, TypeOK', cT' \in cT .. MaxT,
         UNCHANGED <<hpoll, outdate, nextdate, scheduled, polledAt>>
  PROVE  ScheduleInv'
<1>1. cT \in Nat /\ cT' \in Nat /\ cT <= cT'
  BY SizeAssumption DEF ScheduleInv, TypeOK
<1>2. ASSUME NEW q \in Peers
      PROVE  /\ outdate'[q] \in 1 .. cT' /\ polledAt'[q] = outdate'[q]
             /\ nextdate'[q] \in 1 .. LastDate
  BY <1>1 DEF ScheduleInv
<1>3. ASSUME NEW q \in Peers
      PROVE  \/ nextdate'[q] <= outdate'[q] + Interval[hpoll'[q]] + MaxStagger
             \/ nextdate'[q] <= cT' + 1
  <2>1. nextdate[q] \in Int
    BY DEF ScheduleInv, TypeOK
  <2>2. nextdate[q] <= outdate[q] + Interval[hpoll[q]] + MaxStagger \/ nextdate[q] <= cT + 1
    BY DEF ScheduleInv, NextPollBounded
  <2>3. nextdate[q] <= cT + 1 => nextdate[q] <= cT' + 1
    BY <1>1, <2>1
  <2> QED
    BY <2>2, <2>3
<1>4. \A q \in scheduled' : nextdate'[q] >= outdate'[q] + Interval[MINPOLL]
  BY DEF ScheduleInv
<1> QED
  BY <1>2, <1>3, <1>4 DEF ScheduleInv, NextPollBounded

\* clock_filter() never sets c.t back.
LEMMA FilterAdvances ==
  ASSUME cT \in 1 .. MaxT, clock_filter
  PROVE  cT' \in cT .. MaxT
BY SizeAssumption DEF clock_filter, Host!clock_filter

\* Every visit keeps the schedule consistent, while dates fit an int.
LEMMA ScheduleStep ==
  ASSUME Horizon, ScheduleInv, [Next]_vars
  PROVE  ScheduleInv'
<1>1. TypeOK /\ TypeOK'
  BY TypeStep DEF ScheduleInv
<1>2. cT \in 1 .. MaxT /\ cT \in Nat /\ MaxT \in Nat /\ cT \in cT .. MaxT
  BY <1>1, SizeAssumption DEF TypeOK
<1>3. CASE clock_adjust
  <2>1. cT' \in cT .. MaxT
    BY <1>2, <1>3 DEF clock_adjust
  <2> QED
    BY <1>1, <1>3, <2>1, ScheduleKept DEF clock_adjust, assoc, history
<1>4. ASSUME NEW p \in Peers, poll(p)
      PROVE  ScheduleInv'
  <2>1. ToInt(cT) = cT
    <3>1. 2 * cT < WORD
      <4>1. Interval[MAXPOLL] \in Nat /\ WORD \in Nat
        BY PollAssumption, SizeAssumption
      <4>2. 2 * (MaxT + Interval[MAXPOLL] + MaxStagger + 1) < WORD
        BY DEF Horizon, LastDate
      <4> QED
        BY <1>2, <4>1, <4>2, StaggerType
    <3> QED
      BY <1>2, <3>1, StoredAsIs
  <2>2. cT' \in cT .. MaxT /\ cT' \in 1 .. MaxT /\ cT \in 1 .. cT' /\ cT' <= cT'
    <3>1. cT' \in cT .. MaxT
      BY <1>2, <1>4, FilterAdvances DEF poll
    <3> QED
      BY <1>2, <3>1
  <2>3. ppoll[p] \in Nat
    BY <1>1 DEF TypeOK
  <2>4. outdate' = [outdate EXCEPT ![p] = cT] /\ polledAt' = [polledAt EXCEPT ![p] = cT]
    BY <1>4, <2>1 DEF poll
  <2>5. CASE Unreachable(p)
    <3> DEFINE e == IF unreach[p] < UNREACH THEN hpoll[p] ELSE hpoll[p] + 1
    <3>1. e \in Int
      <4>1. hpoll[p] \in MINPOLL .. MAXPOLL
        BY <1>1 DEF TypeOK
      <4> QED
        BY <4>1, PollAssumption
    <3>2. poll_update(p, e, cT, ppoll[p], cT')
      BY <2>1, <2>5 DEF Unreachable
    <3> HIDE DEF e
    <3> QED
      BY <1>1, <2>2, <2>3, <2>4, <3>1, <3>2, PollUpdateStep
  <2>6. CASE Reachable(p)
    <3>1. sPoll' \in Int
      BY <1>1, PollAssumption DEF TypeOK
    <3>2. poll_update(p, sPoll', cT, ppoll[p], cT')
      BY <2>1, <2>6 DEF Reachable
    <3> QED
      BY <1>1, <2>2, <2>3, <2>4, <3>1, <3>2, PollUpdateStep
  <2> QED
    BY <1>4, <2>5, <2>6 DEF poll
<1>5. ASSUME NEW p \in Peers, NotDue(p)
      PROVE  ScheduleInv'
  BY <1>1, <1>2, <1>5, ScheduleKept DEF NotDue, assoc, history
<1>6. ASSUME NEW p \in Peers, Ignored(p)
      PROVE  ScheduleInv'
  BY <1>1, <1>2, <1>6, ScheduleKept DEF Ignored, assoc, history
<1>7. ASSUME NEW p \in Peers, Lost(p)
      PROVE  ScheduleInv'
  BY <1>1, <1>2, <1>7, ScheduleKept DEF Lost, assoc, history
<1>8. ASSUME NEW p \in Peers, NEW pp \in PeerPolls, Discarded(p, pp)
      PROVE  ScheduleInv'
  BY <1>1, <1>2, <1>8, ScheduleKept DEF Discarded, history
<1>9. ASSUME NEW p \in Peers, NEW pp \in PeerPolls, Accepted(p, pp)
      PROVE  ScheduleInv'
  <2>1. cT' \in cT .. MaxT /\ cT <= cT'
    <3>1. cT' \in cT .. MaxT
      BY <1>2, <1>9, FilterAdvances DEF Accepted
    <3> QED
      BY <1>2, <3>1
  <2>2. hpoll[p] \in Int /\ pp \in Nat
    BY <1>1, PollAssumption DEF TypeOK
  <2>3. outdate[p] \in 1 .. cT /\ polledAt[p] = outdate[p]
    BY DEF ScheduleInv
  <2>4. /\ outdate' = [outdate EXCEPT ![p] = outdate[p]]
        /\ polledAt' = [polledAt EXCEPT ![p] = outdate[p]]
    BY <1>1, <1>9, <2>3 DEF Accepted, TypeOK
  <2>5. poll_update(p, hpoll[p], outdate[p], pp, cT)
    BY <1>9 DEF Accepted
  <2> QED
    BY <1>1, <1>2, <2>1, <2>2, <2>3, <2>4, <2>5, PollUpdateStep
<1>10. CASE UNCHANGED vars
  BY <1>1, <1>2, <1>10, ScheduleKept DEF vars, assoc, history
<1> QED
  BY <1>3, <1>4, <1>5, <1>6, <1>7, <1>8, <1>9, <1>10 DEF Next

LEMMA ScheduleInit ==
  ASSUME Init
  PROVE  ScheduleInv
<1>1. TypeOK
  BY TypeInit
<1>2. /\ Interval[MINPOLL] \in Nat \ {0} /\ Interval[MAXPOLL] \in Nat /\ MINPOLL \in 0 .. MAXPOLL
      /\ Interval[MINPOLL] <= Interval[MAXPOLL]
  BY PollAssumption
<1>3. MaxT \in Nat \ {0}
  BY SizeAssumption
<1>4. ASSUME NEW p \in Peers
      PROVE  /\ outdate[p] = 1 /\ polledAt[p] = 1 /\ cT = 2 /\ hpoll[p] = MINPOLL
             /\ nextdate[p] \in 1 .. Interval[MINPOLL]
  BY <1>4 DEF Init
<1>5. ASSUME NEW p \in Peers
      PROVE  /\ outdate[p] \in 1 .. cT /\ polledAt[p] = outdate[p]
             /\ nextdate[p] \in 1 .. LastDate
             /\ nextdate[p] <= outdate[p] + Interval[hpoll[p]] + MaxStagger
  BY <1>2, <1>3, <1>4, StaggerType DEF LastDate
<1>6. scheduled = {}
  BY DEF Init
<1> QED
  BY <1>1, <1>5, <1>6 DEF ScheduleInv, NextPollBounded

\* Below the horizon the schedule is an invariant of every run.
THEOREM ScheduleCorrect ==
  ASSUME Horizon
  PROVE  Spec => []ScheduleInv
BY ScheduleInit, ScheduleStep, PTL DEF Spec

\* Below the horizon no poll is put off beyond the peer's host interval, the
\* stagger and a date that has passed.
THEOREM NextPollIsBounded ==
  ASSUME Horizon
  PROVE  Spec => []NextPollBounded
<1>1. ScheduleInv => NextPollBounded
  BY DEF ScheduleInv
<1> QED
  BY <1>1, ScheduleCorrect, PTL

\* Below the horizon the unsigned comparison of poll() is that of the dates.
LEMMA DueIsPassed ==
  ASSUME Horizon, ScheduleInv, NEW p \in Peers
  PROVE  Due(p) <=> cT >= nextdate[p]
<1>1. ToUnsigned(cT) = cT /\ ToUnsigned(nextdate[p]) = nextdate[p]
  <2>1. Interval[MAXPOLL] \in Nat /\ WORD \in Nat /\ MaxT \in Nat
    BY PollAssumption, SizeAssumption
  <2>2. 2 * LastDate < WORD /\ LastDate \in Nat /\ cT <= LastDate /\ cT \in Nat
    BY <2>1, StaggerType DEF Horizon, LastDate, ScheduleInv, TypeOK
  <2>3. nextdate[p] \in 1 .. LastDate
    BY DEF ScheduleInv
  <2>4. nextdate[p] \in Nat /\ 2 * nextdate[p] < WORD /\ 2 * cT < WORD
    BY <2>1, <2>2, <2>3
  <2> QED
    BY <2>2, <2>4, StoredAsIs
<1> QED
  BY <1>1 DEF Due

\* A poll of a scheduled peer comes no sooner than the least interval.
LEMMA SpacingStep ==
  ASSUME Horizon, ScheduleInv, [Next]_vars, NEW p \in scheduled, polledAt'[p] # polledAt[p]
  PROVE  polledAt'[p] >= polledAt[p] + Interval[MINPOLL]
<1>1. p \in Peers /\ cT \in Nat /\ nextdate[p] \in 1 .. LastDate
  BY SizeAssumption DEF ScheduleInv, TypeOK
<1>2. poll(p)
  BY <1>1 DEF Next, vars, history, clock_adjust, poll, NotDue, Ignored, Lost, Discarded,
              Accepted, ScheduleInv, TypeOK
<1>3. polledAt'[p] = cT
  BY <1>1, <1>2 DEF poll, ScheduleInv, TypeOK
<1>5. cT >= nextdate[p]
  BY <1>1, <1>2, DueIsPassed DEF poll
<1>6. nextdate[p] >= polledAt[p] + Interval[MINPOLL] /\ polledAt[p] \in Nat
      /\ Interval[MINPOLL] \in Nat
  BY <1>1, PollAssumption DEF ScheduleInv, TypeOK
<1> QED
  BY <1>1, <1>3, <1>5, <1>6

\* Below the horizon two polls of a scheduled peer are at least the least
\* interval apart.
THEOREM PollsAreSpaced ==
  ASSUME Horizon
  PROVE  Spec => PollSpacing
<1>1. ScheduleInv /\ [Next]_vars =>
        [\A p \in scheduled : polledAt'[p] # polledAt[p] =>
           polledAt'[p] >= polledAt[p] + Interval[MINPOLL]]_vars
  BY SpacingStep
<1> QED
  BY <1>1, ScheduleCorrect, PTL DEF Spec, PollSpacing
----------------------------------------------------------------------------
(* The back-off of an unreachable server.                                  *)

\* The unreach counter counts a lost poll at most twice.
LostCounted == \A p \in Peers : unreach[p] <= 2 * lost[p]

\* Every visit keeps the unreach counter within twice the lost polls.
LEMMA LostCountedStep ==
  ASSUME TypeOK, LostCounted, [Next]_vars
  PROVE  LostCounted'
<1>1. ASSUME NEW p \in Peers, poll(p)
      PROVE  LostCounted'
  <2> SUFFICES ASSUME NEW q \in Peers PROVE unreach'[q] <= 2 * lost'[q]
    BY DEF LostCounted
  <2>1. /\ unreach[q] \in Nat /\ lost[q] \in Nat /\ unreach[q] <= 2 * lost[q]
        /\ UNREACH \in Nat
    BY SizeAssumption DEF TypeOK, LostCounted
  <2>2. CASE Unreachable(p)
    <3>1. /\ unreach'[q] \in {unreach[q], unreach[q] + 1, unreach[q] + 2}
          /\ q = p => lost'[q] = lost[q] + 1
          /\ q # p => lost'[q] = lost[q] /\ unreach'[q] = unreach[q]
      BY <2>1, <2>2 DEF Unreachable, TypeOK
    <3> QED
      BY <2>1, <3>1
  <2>3. CASE Reachable(p)
    BY <2>1, <2>3 DEF Reachable, TypeOK
  <2> QED
    BY <1>1, <2>2, <2>3 DEF poll
<1>2. CASE UNCHANGED <<unreach, lost>>
  BY <1>2 DEF LostCounted
<1> QED
  BY <1>1, <1>2 DEF Next, vars, assoc, history, clock_adjust, NotDue, Ignored, Lost,
                    Discarded, Accepted

\* A longer host interval of a peer that stays unreachable is the work of poll(),
\* with the unreach counter at its threshold.
LEMMA BackOffStep ==
  ASSUME TypeOK, LostCounted, [Next]_vars, NEW p \in Peers,
         reach[p] = INTBITS, hpoll'[p] > hpoll[p], reach'[p] = INTBITS
  PROVE  2 * lost[p] >= UNREACH
<1>1. /\ INTBITS \in Nat /\ INTBITS # 0 /\ UNREACH \in Nat
      /\ hpoll[p] \in MINPOLL .. MAXPOLL /\ MINPOLL \in Nat /\ MAXPOLL \in Nat
      /\ unreach[p] \in Nat /\ lost[p] \in Nat /\ unreach[p] <= 2 * lost[p]
  BY PollAssumption, SizeAssumption DEF TypeOK, LostCounted
<1>2. hpoll' # hpoll /\ hpoll[p] \in Nat
  BY <1>1
<1>3. poll(p)
  <2>1. ASSUME NEW q \in Peers, poll(q) PROVE q = p
    <3>1. hpoll'[p] = hpoll[p] \/ q = p
      BY <2>1 DEF poll, Unreachable, Reachable, poll_update, TypeOK
    <3> QED
      BY <1>1, <3>1
  <2>2. ASSUME NEW q \in Peers, NEW pp \in PeerPolls, Accepted(q, pp) PROVE FALSE
    <3>1. q = p
      <4>1. hpoll'[p] = hpoll[p] \/ q = p
        BY <2>2 DEF Accepted, poll_update, TypeOK
      <4> QED
        BY <1>1, <4>1
    <3> QED
      BY <1>1, <2>2, <3>1 DEF Accepted, TypeOK
  <2> QED
    BY <1>2, <2>1, <2>2 DEF Next, vars, assoc, clock_adjust, NotDue, Ignored, Lost,
                            Discarded
<1>4. Unreachable(p)
  <2>1. Shifted(p) = INTBITS
    BY <1>1 DEF Shifted, MinOf
  <2> QED
    BY <1>3, <2>1 DEF poll
<1>5. CASE unreach[p] < UNREACH
  <2>1. hpoll'[p] = Clamped(hpoll[p])
    BY <1>4, <1>5 DEF Unreachable, poll_update, TypeOK
  <2>2. Clamped(hpoll[p]) = hpoll[p]
    BY <1>1 DEF Clamped, MaxOf, MinOf
  <2> QED
    BY <1>1, <2>1, <2>2
<1> QED
  BY <1>1, <1>5

\* The interval of an unreachable server backs off only after half of UNREACH
\* lost polls, also beyond the horizon.
THEOREM BackOffTakesLosses == Spec => BackOffIsEarned
<1>1. Init => LostCounted
  BY DEF Init, LostCounted
<1>2. TypeOK /\ LostCounted /\ [Next]_vars
        => [\A p \in Peers : reach[p] = INTBITS /\ hpoll'[p] > hpoll[p] /\ reach'[p] = INTBITS
              => 2 * lost[p] >= UNREACH]_vars
  BY BackOffStep
<1> QED
  BY <1>1, <1>2, LostCountedStep, TypeCorrect, PTL DEF Spec, BackOffIsEarned
----------------------------------------------------------------------------
(* The ticks that are left in a turn of the loop.                          *)

Within(p, d) == cT <= nextdate[p] + d

\* Every visit after that of p can advance c.t by two: once in poll() and once
\* in the reply.  What is due before its visit needs no bound, as the visit
\* moves it into the future.  In the first loop a visit advances c.t by one at
\* most, and settime() has advanced it once before.
TurnInv ==
  /\ pc = "sync" => /\ \A p \in Peers : Within(p, at)
                    /\ \A p \in 1 .. at - 1 : Within(p, at - 1)
  /\ pc = "delay" => at = 1 /\ \A p \in Peers : Within(p, TurnTicks)
  /\ pc = "poll" => \A p \in 1 .. at - 1 : Within(p, 2 * (at - 1 - p))
  /\ pc = "reply" => /\ cT < nextdate[at]
                     /\ \A p \in 1 .. at - 1 : Within(p, 2 * (at - 1 - p) + 1)
\* poll_update() moves the date of its peer, and of no other, into the future.
LEMMA MovedIntoFuture ==
  ASSUME Horizon, ScheduleInv, NEW p \in Peers, NEW newpoll \in Int, NEW pp \in Nat,
         NEW t \in 1 .. MaxT, NEW out \in 1 .. t, poll_update(p, newpoll, out, pp, t)
  PROVE  /\ nextdate'[p] > t
         /\ \A q \in Peers \ {p} : nextdate'[q] = nextdate[q]
<1>1. Clamped(newpoll) \in MINPOLL .. MAXPOLL
  BY ClampedRange
<1>2. NextDate(out, pp, Clamped(newpoll), t) > t
  BY <1>1, NextDateRange DEF ScheduleInv, TypeOK
<1> QED
  BY <1>2 DEF poll_update, ScheduleInv, TypeOK

\* The end of a visit.
LEMMA VisitEnds ==
  ASSUME TypeOK', at \in Peers, Advance("poll"),
         \A q \in 1 .. at : cT' <= nextdate'[q] + 2 * (at - q)
  PROVE  TurnInv'
<1>1. NMAX \in Nat \ {0} /\ at \in Nat /\ 1 <= at /\ at <= NMAX
  BY SizeAssumption DEF Peers
<1>2. cT' \in Int /\ \A q \in Peers : nextdate'[q] \in Int
  BY SizeAssumption DEF TypeOK
<1>3. CASE at < NMAX
  <2>1. pc' = "poll" /\ at' = at + 1
    BY <1>3 DEF Advance
  <2>2. ASSUME NEW q \in 1 .. at' - 1 PROVE cT' <= nextdate'[q] + 2 * (at' - 1 - q)
    BY <1>1, <2>1
  <2> QED
    BY <2>1, <2>2 DEF TurnInv, Within
<1>4. CASE at = NMAX
  <2>1. pc' = "delay" /\ at' = 1
    BY <1>1, <1>4 DEF Advance
  <2>2. ASSUME NEW q \in Peers PROVE cT' <= nextdate'[q] + TurnTicks
    BY <1>1, <1>2, <1>4 DEF Peers, TurnTicks, MaxOf
  <2> QED
    BY <2>1, <2>2 DEF TurnInv, Within
<1> QED
  BY <1>1, <1>3, <1>4

\* The end of a visit in the first loop, which polls nobody.
LEMMA FirstVisitEnds ==
  ASSUME TypeOK', at \in Peers, Advance("sync"),
         \A q \in Peers : cT' <= nextdate'[q] + (at + 1),
         \A q \in 1 .. at : cT' <= nextdate'[q] + at
  PROVE  TurnInv'
<1>1. NMAX \in Nat \ {0} /\ at \in Nat /\ 1 <= at /\ at <= NMAX
  BY SizeAssumption DEF Peers
<1>2. cT' \in Int /\ \A q \in Peers : nextdate'[q] \in Int
  BY SizeAssumption DEF TypeOK
<1>3. CASE at < NMAX
  <2>1. pc' = "sync" /\ at' = at + 1 /\ at' - 1 = at
    BY <1>1, <1>3 DEF Advance
  <2> QED
    BY <2>1 DEF TurnInv, Within
<1>4. CASE at = NMAX
  <2>1. pc' = "delay" /\ at' = 1
    BY <1>1, <1>4 DEF Advance
  <2>2. ASSUME NEW q \in Peers PROVE cT' <= nextdate'[q] + TurnTicks
    <3>1. cT' <= nextdate'[q] + NMAX
      BY <1>1, <1>4 DEF Peers
    <3>2. NMAX <= TurnTicks /\ TurnTicks \in Nat
      BY <1>1 DEF TurnTicks, MaxOf
    <3> QED
      BY <1>1, <1>2, <3>1, <3>2
  <2> QED
    BY <2>1, <2>2 DEF TurnInv, Within
<1> QED
  BY <1>1, <1>3, <1>4

\* Every visit keeps each association within its allowance for that place of the loop.
LEMMA TurnStep ==
  ASSUME Horizon, ScheduleInv, TurnInv, [Next]_vars
  PROVE  TurnInv'
<1>1. TypeOK /\ TypeOK'
  BY TypeStep DEF ScheduleInv
<1>2. /\ NMAX \in Nat \ {0} /\ at \in Nat /\ 1 <= at /\ at <= NMAX /\ at \in Peers
      /\ cT \in 1 .. MaxT /\ cT \in Nat
      /\ \A q \in 1 .. at : q \in Peers /\ q \in Int
      /\ \A q \in Peers : nextdate[q] \in Int /\ nextdate'[q] \in Int
  <2>1. at \in Peers /\ cT \in 1 .. MaxT /\ MaxT \in Nat /\ NMAX \in Nat \ {0}
    BY <1>1, SizeAssumption DEF TypeOK
  <2>2. \A q \in Peers : nextdate[q] \in Int /\ nextdate'[q] \in Int
    BY <1>1 DEF TypeOK
  <2> QED
    BY <2>1, <2>2 DEF Peers
<1>3. CASE clock_adjust
  <2>1. pc' = "poll" /\ at' = 1
    BY <1>3 DEF clock_adjust, TurnInv
  <2> QED
    BY <2>1 DEF TurnInv
<1>4. ASSUME NEW p \in Peers, NotDue(p)
      PROVE  TurnInv'
  <2>1. at = p /\ pc = "poll" /\ cT' = cT /\ nextdate' = nextdate /\ Advance("poll")
    BY <1>4 DEF NotDue, assoc
  <2>2. ~(cT >= nextdate[p])
    BY <1>4, DueIsPassed DEF NotDue
  <2>3. ASSUME NEW q \in 1 .. at PROVE cT' <= nextdate'[q] + 2 * (at - q)
    BY <1>2, <2>1, <2>2 DEF TurnInv, Within
  <2> QED
    BY <1>1, <1>2, <2>1, <2>3, VisitEnds
<1>5. ASSUME NEW p \in Peers, poll(p)
      PROVE  TurnInv'
  <2>1. /\ at = p /\ at' = p /\ pc = "poll" /\ pc' = "reply"
        /\ cT' \in 1 .. MaxT /\ cT' \in {cT, cT + 1}
    BY <1>1, <1>5 DEF poll, clock_filter, Host!clock_filter, TypeOK
  <2>2. /\ nextdate'[p] > cT'
        /\ \A q \in Peers \ {p} : nextdate'[q] = nextdate[q]
    <3>1. PICK newpoll \in Int : poll_update(p, newpoll, ToInt(cT), ppoll[p], cT')
      <4>1. sPoll' \in Int /\ hpoll[p] \in Int /\ hpoll[p] + 1 \in Int
        <5>1. MINPOLL .. MAXPOLL \subseteq Int
          OBVIOUS
        <5> QED
          BY <1>1, <5>1 DEF TypeOK
      <4> QED
        BY <1>5, <4>1 DEF poll, Unreachable, Reachable
    <3>2. ToInt(cT) = cT
      <4>1. Interval[MAXPOLL] \in Nat /\ WORD \in Nat /\ MaxT \in Nat
        BY PollAssumption, SizeAssumption
      <4>2. 2 * (MaxT + Interval[MAXPOLL] + MaxStagger + 1) < WORD
        BY DEF Horizon, LastDate
      <4>3. 2 * cT < WORD
        BY <1>2, <4>1, <4>2, StaggerType
      <4> QED
        BY <1>2, <4>3, StoredAsIs
    <3>3. cT \in 1 .. cT' /\ ppoll[p] \in Nat
      BY <1>1, <1>2, <2>1 DEF TypeOK
    <3> QED
      BY <2>1, <3>1, <3>2, <3>3, MovedIntoFuture
  <2>3. ASSUME NEW q \in 1 .. at - 1 PROVE cT' <= nextdate'[q] + (2 * (at - 1 - q) + 1)
    <3>1. q \in Peers \ {p} /\ cT <= nextdate[q] + 2 * (at - 1 - q)
      BY <1>2, <2>1 DEF TurnInv, Within
    <3> QED
      BY <1>2, <2>1, <2>2, <3>1
  <2> QED
    BY <1>2, <2>1, <2>2, <2>3 DEF TurnInv, Within
<1>6. ASSUME NEW p \in Peers, Received(p), cT' = cT, nextdate' = nextdate
      PROVE  TurnInv'
  <2>1. CASE pc = "sync"
    <3>1. Advance("sync") /\ at = p
      BY <1>6, <2>1 DEF Received
    <3>2. ASSUME NEW q \in Peers PROVE cT <= nextdate[q] + at
      BY <2>1 DEF TurnInv, Within
    <3>3. ASSUME NEW q \in Peers PROVE cT' <= nextdate'[q] + (at + 1)
      BY <1>2, <1>6, <3>2
    <3>4. ASSUME NEW q \in 1 .. at PROVE cT' <= nextdate'[q] + at
      BY <1>2, <1>6, <3>2
    <3> QED
      BY <1>1, <1>2, <3>1, <3>3, <3>4, FirstVisitEnds
  <2>2. CASE pc = "reply"
    <3>1. Advance("poll") /\ at = p
      BY <1>6, <2>2 DEF Received
    <3>2. ASSUME NEW q \in 1 .. at PROVE cT' <= nextdate'[q] + 2 * (at - q)
      BY <1>2, <1>6, <2>2 DEF TurnInv, Within
    <3> QED
      BY <1>1, <1>2, <3>1, <3>2, VisitEnds
  <2> QED
    BY <1>6, <2>1, <2>2 DEF Received
<1>7. ASSUME NEW p \in Peers, NEW pp \in PeerPolls, Accepted(p, pp)
      PROVE  TurnInv'
  <2>1. cT' \in {cT, cT + 1} /\ Received(p) /\ at = p
    BY <1>7 DEF Accepted, Received, clock_filter, Host!clock_filter
  <2>2. nextdate'[p] > cT /\ \A q \in Peers \ {p} : nextdate'[q] = nextdate[q]
    <3>1. poll_update(p, hpoll[p], outdate[p], pp, cT)
      BY <1>7 DEF Accepted
    <3>2. hpoll[p] \in Int /\ pp \in Nat /\ outdate[p] \in 1 .. cT
      BY <1>1, PollAssumption DEF ScheduleInv, TypeOK
    <3> QED
      BY <1>2, <3>1, <3>2, MovedIntoFuture
  <2>3. CASE pc = "sync"
    <3>1. Advance("sync")
      BY <2>1, <2>3 DEF Received
    <3>2. ASSUME NEW q \in Peers PROVE cT <= nextdate[q] + at
      BY <2>3 DEF TurnInv, Within
    <3>3. ASSUME NEW q \in Peers PROVE cT' <= nextdate'[q] + (at + 1)
      <4>1. CASE q = p
        BY <1>2, <2>1, <2>2, <4>1
      <4>2. CASE q # p
        BY <1>2, <2>1, <2>2, <3>2, <4>2
      <4> QED
        BY <4>1, <4>2
    <3>4. ASSUME NEW q \in 1 .. at PROVE cT' <= nextdate'[q] + at
      <4>1. CASE q = p
        BY <1>2, <2>1, <2>2, <4>1
      <4>2. CASE q # p
        <5>1. q \in Peers \ {p} /\ q \in 1 .. at - 1
          BY <1>2, <2>1, <4>2
        <5>2. cT <= nextdate[q] + (at - 1)
          BY <2>3, <5>1 DEF TurnInv, Within
        <5> QED
          BY <1>2, <2>1, <2>2, <5>1, <5>2
      <4> QED
        BY <4>1, <4>2
    <3> QED
      BY <1>1, <1>2, <3>1, <3>3, <3>4, FirstVisitEnds
  <2>4. CASE pc = "reply"
    <3>1. Advance("poll")
      BY <2>1, <2>4 DEF Received
    <3>2. ASSUME NEW q \in 1 .. at PROVE cT' <= nextdate'[q] + 2 * (at - q)
      <4>1. CASE q = at
        BY <1>2, <2>1, <2>2, <4>1
      <4>2. CASE q # at
        <5>1. q \in 1 .. at - 1 /\ q \in Peers \ {p}
          BY <1>2, <2>1, <4>2
        <5>2. cT <= nextdate[q] + (2 * (at - 1 - q) + 1)
          BY <2>4, <5>1 DEF TurnInv, Within
        <5> QED
          BY <1>2, <2>1, <2>2, <5>1, <5>2
      <4> QED
        BY <4>1, <4>2
    <3> QED
      BY <1>1, <1>2, <3>1, <3>2, VisitEnds
  <2> QED
    BY <2>1, <2>3, <2>4 DEF Received
<1>8. CASE UNCHANGED <<cT, nextdate, pc, at>>
  BY <1>8 DEF TurnInv, Within
<1> QED
  BY <1>3, <1>4, <1>5, <1>6, <1>7, <1>8
     DEF Next, vars, assoc, history, Lost, Ignored, Discarded

\* Below the horizon no association is overdue, at the end of a turn of the loop,
\* by more than the turn itself can have advanced c.t.
THEOREM NobodyIsOverdue ==
  ASSUME Horizon
  PROVE  Spec => []NobodyOverdue
<1>1. Init => TurnInv
  BY PollAssumption, SizeAssumption DEF Init, TurnInv, Within, Peers
<1>2. ScheduleInv /\ TurnInv => NobodyOverdue
  BY SizeAssumption DEF ScheduleInv, TypeOK, TurnInv, Within, NobodyOverdue
<1>3. ScheduleInv /\ TurnInv /\ [Next]_vars => TurnInv'
  BY TurnStep
<1> QED
  BY <1>1, <1>2, <1>3, ScheduleCorrect, PTL DEF Spec
============================================================================
