-------------------------- MODULE ClockFilterProofs -------------------------
(***************************************************************************)
(* What the clock filter guarantees, and what it can never do, for every   *)
(* unit, threshold, precision and set of replies that satisfies the        *)
(* assumptions of ClockFilter.                                             *)
(***************************************************************************)
EXTENDS ClockFilter, TLAPS

USE DEF MaxOf, Abs

----------------------------------------------------------------------------
(* Squares and their roots.                                                *)

LEMMA SquareType == ASSUME NEW x \in Int PROVE Sq(x) \in Nat
<1>1. CASE x >= 0
  BY <1>1 DEF Sq
<1>2. CASE x < 0
  <2>1. -x \in Nat /\ x * x = (-x) * (-x)
    BY <1>2
  <2> QED BY <2>1 DEF Sq
<1> QED BY <1>1, <1>2

LEMMA SquareMonotone ==
  ASSUME NEW x \in Nat, NEW y \in Nat, x <= y
  PROVE  Sq(x) <= Sq(y)
<1>1. x * x <= x * y
  OBVIOUS
<1>2. x * y <= y * y
  OBVIOUS
<1> QED BY <1>1, <1>2 DEF Sq

LEMMA SquareAbs == ASSUME NEW x \in Int PROVE Sq(Abs(x)) = Sq(x)
<1>1. (-x) * (-x) = x * x
  OBVIOUS
<1> QED BY <1>1 DEF Sq

\* Whatever is below n when squared is no greater than its root.
LEMMA RootAbove ==
  ASSUME NEW n \in Nat, NEW r \in Roots(n), NEW x \in Nat, Sq(x) <= n
  PROVE  r \in Nat /\ x <= r
<1>1. r \in Nat /\ n < Sq(r + 1)
  BY DEF Roots
<1>2. ASSUME x > r PROVE FALSE
  <2>1. Sq(r + 1) <= Sq(x)
    BY <1>1, <1>2, SquareMonotone
  <2> QED BY <1>1, <2>1, SquareType
<1> QED BY <1>1, <1>2

----------------------------------------------------------------------------
(* One call of clock_filter().                                             *)

\* The shift leaves the new sample in front and the last one in all stages behind.
LEMMA ShiftStages ==
  ASSUME f \in [Stages -> Stage], NEW new \in Stage
  PROVE  LET g == Shift(f, new)
         IN  /\ g \in [Stages -> Stage]
             /\ g[0] = new
             /\ \A i \in Stages : i # 0 => g[i] = f[0]
BY DEF Shift, Stages

\* Seven stages differ from the first, all by the same amount.
LEMMA SpreadOfTwo ==
  ASSUME f \in [Stages -> Stage], NEW new \in Stage
  PROVE  /\ Spread(Shift(f, new)) \in Nat
         /\ Spread(Shift(f, new)) = 7 * Sq(f[0].offset - new.offset)
<1> DEFINE g == Shift(f, new)
<1> DEFINE d == f[0].offset - new.offset
<1>1. /\ g[0] = new /\ g[1] = f[0] /\ g[2] = f[0] /\ g[3] = f[0] /\ g[4] = f[0]
      /\ g[5] = f[0] /\ g[6] = f[0] /\ g[7] = f[0]
  BY ShiftStages DEF Stages
<1>2. f[0] \in Stage /\ d \in Int /\ new.offset - new.offset = 0
  BY DEF Stages, Stage
<1>3. Sq(d) \in Nat /\ Sq(0) = 0
  BY <1>2, SquareType DEF Sq
<1>4. Spread(g) = Sq(0) + Sq(d) + Sq(d) + Sq(d) + Sq(d) + Sq(d) + Sq(d) + Sq(d)
  BY <1>1, <1>2 DEF Spread
<1> HIDE DEF g, d
<1>5. Spread(g) = 7 * Sq(d)
  BY <1>3, <1>4
<1> QED BY <1>3, <1>5 DEF g, d

\* The weights of the stages behind the first add up to 127 / 256.
LEMMA WeightedOfTwo ==
  ASSUME f \in [Stages -> Stage], NEW new \in Stage
  PROVE  Weighted(Shift(f, new)) = 128 * new.disp + 127 * f[0].disp
<1> DEFINE g == Shift(f, new)
<1>1. /\ g[0] = new /\ g[1] = f[0] /\ g[2] = f[0] /\ g[3] = f[0] /\ g[4] = f[0]
      /\ g[5] = f[0] /\ g[6] = f[0] /\ g[7] = f[0]
  BY ShiftStages DEF Stages
<1>2. f[0].disp \in Nat /\ new.disp \in Nat
  BY DEF Stages, Stage
<1> QED BY <1>1, <1>2 DEF Weighted

\* The new jitter is no less than the old one or a second, and no less than the
\* change of the offset, of which the spike gate asks three times the jitter.
LEMMA JitterBounds ==
  ASSUME f \in [Stages -> Stage], NEW new \in Stage, jitter \in Nat,
         NEW j \in Jitter(Shift(f, new))
  PROVE  /\ j \in Nat
         /\ j >= jitter \/ j >= UNIT
         /\ Abs(new.offset - f[0].offset) <= j
<1> DEFINE s == Spread(Shift(f, new))
<1> DEFINE d == new.offset - f[0].offset
<1>1. s \in Nat /\ s = 7 * Sq(f[0].offset - new.offset)
  BY SpreadOfTwo
<1>2. f[0].offset \in Int /\ new.offset \in Int /\ d \in Int
  BY DEF Stages, Stage
<1>3. Sq(f[0].offset - new.offset) = Sq(Abs(d)) /\ Abs(d) \in Nat
  <2>1. Abs(f[0].offset - new.offset) = Abs(d)
    BY <1>2
  <2> QED BY <1>2, <2>1, SquareAbs
<1> HIDE DEF s, d
<1>4. UNIT * jitter \in Nat /\ UNIT * jitter + s \in Nat
  BY <1>1, UnitAssumption
<1>5. PICK r \in Roots(UNIT * jitter + s) : j = MaxOf(r, PREC)
  BY DEF Jitter, s
<1>6. r \in Nat /\ j >= r /\ j \in Nat
  BY <1>4, <1>5, UnitAssumption DEF Roots
<1>7. Abs(d) <= j
  <2>1. Sq(Abs(d)) \in Nat
    BY <1>3, SquareType
  <2>2. Sq(Abs(d)) <= UNIT * jitter + s
    BY <1>1, <1>3, <1>4, <2>1
  <2> QED BY <1>3, <1>4, <1>6, <2>2, RootAbove
<1>8. j >= jitter \/ j >= UNIT
  <2>1. CASE jitter <= UNIT
    <3>1. Sq(jitter) <= UNIT * jitter
      BY <2>1, UnitAssumption DEF Sq
    <3>2. Sq(jitter) <= UNIT * jitter + s
      BY <1>1, <1>4, <3>1, SquareType
    <3> QED BY <1>4, <1>6, <3>2, RootAbove
  <2>2. CASE jitter > UNIT
    <3>1. Sq(UNIT) <= UNIT * jitter
      BY <2>2, UnitAssumption DEF Sq
    <3>2. Sq(UNIT) <= UNIT * jitter + s
      BY <1>1, <1>4, <3>1, SquareType, UnitAssumption
    <3> QED BY <1>4, <1>6, <3>2, RootAbove, UnitAssumption
  <2> QED BY <2>1, <2>2, UnitAssumption
<1> QED BY <1>6, <1>7, <1>8 DEF d

----------------------------------------------------------------------------
(* The inductive invariant: TwoSamplesKept makes the newest offset the one *)
(* that the spike gate compares with, and bounds what a sample adds to the *)
(* dispersion from below.                                                  *)

MissedDispersion == missed => disp >= 128 * MAXDISP

\* A poll is due a turn after the last sample, and while it reports nothing missing
\* that is still so when its reply comes.
PolledLater == pc = "idle" \/ (pc = "reply" /\ reach < 3) => t < cT

IInv == TypeOK /\ TwoSamplesKept /\ MissedDispersion /\ PolledLater

\* No sample is a spike.
LEMMA NoSpike ==
  ASSUME IInv, NEW new \in Stage, NEW j \in Jitter(Shift(f, new)), NEW e \in Polls
  PROVE  ~Spike(new.offset, j, e)
<1>1. f \in [Stages -> Stage] /\ jitter \in Nat /\ offset = f[0].offset
  BY DEF IInv, TypeOK, TwoSamplesKept
<1>2. j \in Nat /\ Abs(new.offset - offset) <= j
  BY <1>1, JitterBounds
<1>3. j <= SGATE * j
  BY <1>2, GateAssumption
<1>4. Abs(new.offset - offset) \in Int
  BY <1>1 DEF Stages, Stage
<1> QED BY <1>2, <1>3, <1>4, GateAssumption DEF Spike

\* What one call of clock_filter() does.
LEMMA FilterStep ==
  ASSUME IInv, NEW new \in Stage, clock_filter(new)
  PROVE  /\ cT' \in {cT, cT + 1} /\ synced' \in BOOLEAN
         /\ t' = cT
         /\ f' \in [Stages -> Stage] /\ TwoSamplesKept'
         /\ offset' \in Int /\ delay' \in Nat
         /\ disp' \in Nat /\ disp' >= disp /\ disp' >= 128 * new.disp
         /\ jitter' \in Nat /\ (jitter' >= jitter \/ jitter' >= UNIT)
         /\ samples' = samples + 1 /\ selections' \in {selections, selections + 1}
         /\ synced /\ selections' # selections => t < cT
         /\ t < cT => selections' # selections
<1>1. /\ f \in [Stages -> Stage] /\ jitter \in Nat /\ disp \in Nat
      /\ cT \in Nat /\ t \in 1 .. cT /\ synced \in BOOLEAN /\ selections \in Nat
  BY DEF IInv, TypeOK
<1>2. f' = Shift(f, new) /\ offset' = new.offset /\ delay' = new.delay
  BY DEF clock_filter
<1>3. f' \in [Stages -> Stage] /\ f'[0] = new /\ \A i \in Stages : i # 0 => f'[i] = f[0]
  BY <1>1, <1>2, ShiftStages
<1>4. TwoSamplesKept'
  BY <1>2, <1>3 DEF TwoSamplesKept, Stages
<1>5. disp' \in Nat /\ disp' >= disp /\ disp' >= 128 * new.disp
  <2>1. disp' = disp + (128 * new.disp + 127 * f[0].disp)
    BY <1>1, <1>2, WeightedOfTwo DEF clock_filter, AddDispersion
  <2>2. new.disp \in Nat /\ f[0].disp \in Nat
    BY <1>1 DEF Stages, Stage
  <2> QED BY <1>1, <2>1, <2>2
<1>6. jitter' \in Jitter(Shift(f, new))
  BY <1>2 DEF clock_filter
<1>7. jitter' \in Nat /\ (jitter' >= jitter \/ jitter' >= UNIT)
  BY <1>1, <1>6, JitterBounds
<1>8. PICK e \in Polls :
        IF Stale \/ Spike(new.offset, jitter', e)
        THEN UNCHANGED <<cT, synced, t, selections>>
        ELSE t' = cT /\ clock_select
  BY <1>2 DEF clock_filter
<1>9. ~Spike(new.offset, jitter', e)
  BY <1>6, NoSpike
<1>10. /\ cT' \in {cT, cT + 1} /\ synced' \in BOOLEAN /\ t' = cT
       /\ selections' \in {selections, selections + 1}
       /\ synced /\ selections' # selections => t < cT
       /\ t < cT => selections' # selections
  <2>1. CASE Stale
    BY <1>1, <1>8, <2>1 DEF Stale
  <2>2. CASE ~Stale
    <3>1. t' = cT /\ clock_select
      BY <1>8, <1>9, <2>2
    <3>2. synced' \in BOOLEAN
      BY <1>1, <3>1, Zenon DEF clock_select
    <3>3. synced => t < cT
      BY <1>1, <2>2 DEF Stale
    <3> QED BY <1>1, <3>1, <3>2, <3>3 DEF clock_select
  <2> QED BY <2>1, <2>2
<1>11. samples' = samples + 1 /\ offset' \in Int /\ delay' \in Nat
  BY <1>2 DEF clock_filter, Stage
<1> QED BY <1>3, <1>4, <1>5, <1>7, <1>10, <1>11

LEMMA ReplyStage ==
  ASSUME NEW r \in Replies
  PROVE  [offset |-> r.offset, delay |-> r.delay, disp |-> r.disp] \in Stage
BY ReplyAssumption DEF Stage

LEMMA MissingStage ==
  [offset |-> 0, delay |-> 0, disp |-> MAXDISP] \in Stage
BY DispersionAssumption DEF Stage

\* A header that is taken over has the types of its fields.
LEMMA HeaderType ==
  ASSUME NEW r \in Replies, TakeHeader(r)
  PROVE  valid' \in BOOLEAN /\ rootdelay' \in Nat /\ rootdisp' \in Nat
<1>1. /\ r.valid \in BOOLEAN /\ r.rootdelay \in Nat /\ r.rootdisp \in Nat
      /\ Short \in Nat /\ Short > 0
  BY ReplyAssumption, UnitAssumption
<1>2. \A n \in Nat : n \div Short \in Nat
  BY <1>1
<1> QED BY <1>1, <1>2 DEF TakeHeader

LEMMA InitIInv == Init => IInv
<1> SUFFICES ASSUME Init PROVE IInv
  OBVIOUS
<1>1. TypeOK
  <2>1. f \in [Stages -> Stage]
    BY DispersionAssumption DEF Init, Stage
  <2>2. disp \in Nat /\ jitter \in Nat
    BY DispersionAssumption, UnitAssumption DEF Init
  <2>3. synced \in BOOLEAN /\ valid \in BOOLEAN /\ missed \in BOOLEAN
    BY Zenon DEF Init
  <2>4. /\ cT \in Nat /\ t \in 1 .. cT /\ offset \in Int /\ delay \in Nat
        /\ rootdelay \in Nat /\ rootdisp \in Nat /\ reach \in 0 .. 3
        /\ samples \in Nat /\ selections \in 0 .. samples
    BY DEF Init
  <2>5. pc \in {"idle", "reply", "done"}
    BY DEF Init
  <2> QED BY <2>1, <2>2, <2>3, <2>4, <2>5 DEF TypeOK
<1>2. TwoSamplesKept /\ MissedDispersion /\ PolledLater
  BY DEF Init, TwoSamplesKept, MissedDispersion, PolledLater, Stages
<1> QED BY <1>1, <1>2 DEF IInv

\* Every sample, and every poll without one, keeps the invariant.
LEMMA NextIInv == IInv /\ [Next]_vars => IInv'
<1> SUFFICES ASSUME IInv, [Next]_vars PROVE IInv'
  OBVIOUS
<1> USE DEF IInv
<1>1. CASE poll
  <2>1. reach' \in 0 .. 3 /\ pc' = "reply" /\ UNCHANGED header
    BY <1>1 DEF poll, Shifted, TypeOK
  <2>2. CASE Silent
    <3> DEFINE new == [offset |-> 0, delay |-> 0, disp |-> MAXDISP]
    <3>1. new \in Stage /\ clock_filter(new) /\ missed' = TRUE
      BY <1>1, <2>2, MissingStage DEF poll
    <3>2. new.disp = MAXDISP
      OBVIOUS
    <3> HIDE DEF new
    <3>3. TwoSamplesKept' /\ MissedDispersion'
      BY <3>1, <3>2, FilterStep DEF MissedDispersion
    <3>5. PolledLater'
      BY <1>1, <2>1, <2>2 DEF poll, Shifted, Silent, PolledLater, TypeOK
    <3>4. TypeOK'
      BY <2>1, <3>1, FilterStep DEF TypeOK, header
    <3> QED BY <3>3, <3>4, <3>5
  <2>3. CASE ~Silent
    <3>1. UNCHANGED <<cT, synced, filter, samples, selections, missed>>
      BY <1>1, <2>3 DEF poll
    <3>2. PolledLater'
      BY <1>1, <3>1 DEF poll, PolledLater, filter
    <3> QED BY <2>1, <3>1, <3>2 DEF TypeOK, TwoSamplesKept, MissedDispersion, header, filter
  <2> QED BY <2>2, <2>3
<1>2. ASSUME NEW r \in Replies, packet(r) PROVE IInv'
  <2> DEFINE new == [offset |-> r.offset, delay |-> r.delay, disp |-> r.disp]
  <2>1. new \in Stage /\ clock_filter(new) /\ UNCHANGED missed
    BY <1>2, ReplyStage DEF packet
  <2>2. reach' = 0 /\ pc' = "done" /\ TakeHeader(r)
    BY <1>2 DEF packet
  <2> HIDE DEF new
  <2>3. TwoSamplesKept'
    BY <2>1, FilterStep
  <2>4. MissedDispersion'
    BY <2>1, FilterStep, DispersionAssumption DEF MissedDispersion, TypeOK
  <2>5. TypeOK'
    BY <2>1, <2>2, FilterStep, HeaderType DEF TypeOK
  <2>6. PolledLater'
    BY <2>2 DEF PolledLater
  <2> QED BY <2>3, <2>4, <2>5, <2>6
<1>3. ASSUME NEW r \in Replies, Discard(r) PROVE IInv'
  BY <1>3, HeaderType
  DEF Discard, TypeOK, TwoSamplesKept, MissedDispersion, PolledLater, filter
<1>4. CASE NoReply
  BY <1>4
  DEF NoReply, TypeOK, TwoSamplesKept, MissedDispersion, PolledLater, filter, header
<1>5. CASE clock_adjust
  <2>1. synced' \in BOOLEAN
    BY <1>5, Zenon DEF clock_adjust, TypeOK
  <2>2. cT' \in Nat /\ t' \in 1 .. cT'
    BY <1>5 DEF clock_adjust, TypeOK, filter
  <2> QED
    BY <1>5, <2>1, <2>2
    DEF clock_adjust, TypeOK, TwoSamplesKept, MissedDispersion, PolledLater, filter, header
<1>6. CASE UNCHANGED vars
  BY <1>6 DEF vars, TypeOK, TwoSamplesKept, MissedDispersion, PolledLater, filter, header
<1> QED BY <1>1, <1>2, <1>3, <1>4, <1>5, <1>6 DEF Next

\* clock_filter() keeps the register, the jitter and the dispersion as IInv has them.
THEOREM Invariance == Spec => []IInv
BY InitIInv, NextIInv, PTL DEF Spec

----------------------------------------------------------------------------
\* The types of the filter's state hold.
THEOREM TypeCorrect == Spec => []TypeOK
BY Invariance, PTL DEF IInv

\* Only two samples are ever remembered, and the newest stands.
THEOREM TwoSamplesKeptAlways == Spec => []TwoSamplesKept
BY Invariance, PTL DEF IInv

\* A server of which a missing reply was reported is unfit for good.
THEOREM SilentServerUnfitAlways == Spec => []SilentServerUnfit
<1>1. IInv => SilentServerUnfit
  <2> SUFFICES ASSUME IInv, missed PROVE ~(root_dist <= 256 * (MAXDIST + Wander))
    BY DEF SilentServerUnfit, fit
  <2>1. /\ disp \in Nat /\ jitter \in Nat /\ delay \in Nat
        /\ rootdelay \in Nat /\ rootdisp \in Nat /\ disp >= 128 * MAXDISP
    BY DEF IInv, TypeOK, MissedDispersion
  <2>2. MaxOf(MINDISP, rootdelay + delay) \in Nat
    BY <2>1, UnitAssumption
  <2>3. root_dist >= disp
    BY <2>1, <2>2 DEF root_dist
  <2>4. root_dist \in Nat
    BY <2>1, <2>2 DEF root_dist
  <2> QED BY <2>1, <2>3, <2>4, DispersionAssumption
<1> QED BY <1>1, Invariance, PTL

\* A step that takes a sample is a call of clock_filter() with it.
LEMMA SampleSteps ==
  ASSUME IInv, [Next]_vars
  PROVE  \/ \E new \in Stage : clock_filter(new)
         \/ UNCHANGED <<t, samples, selections, jitter>>
<1>1. CASE poll
  BY <1>1, MissingStage DEF poll, filter
<1>2. ASSUME NEW r \in Replies, packet(r)
      PROVE  \E new \in Stage : clock_filter(new)
  BY <1>2, ReplyStage DEF packet
<1>3. CASE NoReply \/ clock_adjust \/ (\E r \in Replies : Discard(r)) \/ UNCHANGED vars
  BY <1>3 DEF NoReply, clock_adjust, Discard, vars, filter
<1> QED BY <1>1, <1>2, <1>3 DEF Next

\* Unless its poll reported a missing reply, every answer enters the selection.
THEOREM EveryAnswerCountsAlways == Spec => EveryAnswerCounts
<1>1. IInv /\ [Next]_vars
        => [pc = "reply" /\ samples' # samples /\ reach < 3
              => selections' # selections]_vars
  <2> SUFFICES ASSUME IInv, [Next]_vars, pc = "reply", samples' # samples, reach < 3
               PROVE  selections' # selections
    OBVIOUS
  <2>1. t < cT
    BY DEF IInv, PolledLater
  <2>2. \E new \in Stage : clock_filter(new)
    BY SampleSteps
  <2> QED BY <2>1, <2>2, FilterStep
<1> QED BY <1>1, Invariance, PTL DEF Spec, EveryAnswerCounts

\* Below a second the jitter never falls.
THEOREM JitterRatchetsAlways == Spec => JitterRatchets
<1>1. IInv /\ [Next]_vars => [jitter' >= jitter \/ jitter' >= UNIT]_vars
  BY SampleSteps, FilterStep DEF IInv, TypeOK
<1> QED BY <1>1, Invariance, PTL DEF Spec, JitterRatchets

\* A synchronized system selects on one sample of the association a second.
THEOREM SampleUsedOnceAlways == Spec => SampleUsedOnce
<1>1. IInv /\ [Next]_vars => [synced /\ selections' # selections => t' > t]_vars
  BY SampleSteps, FilterStep
<1> QED BY <1>1, Invariance, PTL DEF Spec, SampleUsedOnce
============================================================================
