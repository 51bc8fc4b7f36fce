----------------------- MODULE ClockDisciplineProofs -----------------------
(***************************************************************************)
(* What the clock discipline guarantees for every choice of thresholds,    *)
(* poll bounds, offsets and peers that satisfies the assumptions of        *)
(* ClockDiscipline.                                                        *)
(***************************************************************************)
EXTENDS ClockDiscipline, TLAPS

USE DEF MaxOf, MinOf, Abs, Sign

\* The jitter of the next update is positive.
LEMMA JitterType ==
  ASSUME NEW off \in Int, cLast \in Int
  PROVE  Jitter(off) \in Nat \ {0}
BY ThresholdAssumption DEF Jitter

\* The clamped frequency is within the tolerance unless it is the NaN.
LEMMA ClampRange ==
  ASSUME NEW df \in Int, cFreq \in Int \union {NaN}
  PROVE  /\ AddFreq(df) \in Int \union {NaN}
         /\ cFreq # NaN => AddFreq(df) \in -MAXFREQ .. MAXFREQ
<1>1. CASE cFreq = NaN
  BY <1>1 DEF AddFreq, Clamp
<1>2. CASE cFreq # NaN
  <2>1. cFreq + df \in Int /\ cFreq + df # NaN
    BY <1>2, FreqAssumption
  <2>2. AddFreq(df) = MaxOf(MinOf(MAXFREQ, cFreq + df), -MAXFREQ)
    BY <1>2, <2>1 DEF AddFreq, Clamp
  <2> QED
    BY <2>1, <2>2, FreqAssumption, <1>2
<1> QED
  BY <1>1, <1>2

\* The frequency terms of FLL and PLL are integers, and none at a poll exponent
\* below FLLPOLL with a zero interval.
LEMMA TermsType ==
  ASSUME NEW off \in Int, NEW m \in Int, cOffset \in Int, sPoll \in Nat
  PROVE  /\ FllTerms(off) \subseteq Int
         /\ PllTerms(off, m) \subseteq Int
         /\ sPoll < FLLPOLL => FllTerms(off) = {0}
         /\ m = 0 => PllTerms(off, m) = {0}
BY PollAssumption DEF FllTerms, PllTerms

\* The poll exponent stays within its bounds and moves by at most one.
LEMMA NextPollRange ==
  ASSUME NEW off \in Int, NEW jit \in Nat, NEW count \in Int,
         NEW poll \in MINPOLL .. MAXPOLL
  PROVE  /\ NextPoll(off, jit, count, poll) \in MINPOLL .. MAXPOLL
         /\ NextPoll(off, jit, count, poll) \in (poll - 1) .. (poll + 1)
BY PollAssumption DEF NextPoll, Calm

\* The counter stays within the band.
LEMMA NextCountRange ==
  ASSUME NEW off \in Int, NEW jit \in Nat, NEW count \in -LIMIT .. LIMIT,
         NEW poll \in MINPOLL .. MAXPOLL
  PROVE  NextCount(off, jit, count, poll) \in -LIMIT .. LIMIT
BY PollAssumption DEF NextCount, Calm

\* One poll adjustment keeps the counter accounted for by the moves.
LEMMA NextCountEarned ==
  ASSUME NEW off \in Int, NEW jit \in Nat, NEW count \in -LIMIT .. LIMIT,
         NEW poll \in MINPOLL .. MAXPOLL, moves \in Nat,
         count <= moves * poll, -count <= 2 * moves * poll
  PROVE  /\ NextMoves(off, jit, count, poll) \in Nat
         /\ NextCount(off, jit, count, poll)
              <= NextMoves(off, jit, count, poll) * NextPoll(off, jit, count, poll)
         /\ -NextCount(off, jit, count, poll)
              <= 2 * NextMoves(off, jit, count, poll) * NextPoll(off, jit, count, poll)
<1> DEFINE n == NextCount(off, jit, count, poll)
           q == NextPoll(off, jit, count, poll)
           m == NextMoves(off, jit, count, poll)
<1>1. CASE q # poll
  BY <1>1, PollAssumption DEF NextMoves, NextCount, NextPoll, Calm
<1>2. CASE q = poll
  <2>1. n <= count + poll /\ -n <= -count + 2 * poll /\ n \in -LIMIT .. LIMIT
    BY <1>2, PollAssumption, NextCountRange DEF NextCount, NextPoll, Calm
  <2>2. poll \in Nat /\ poll >= 1 /\ LIMIT \in Nat
    BY PollAssumption
  <2>3. CASE m = moves + 1
    <3>1. (moves + 1) * poll = moves * poll + poll /\ 2 * (moves + 1) * poll = 2 * moves * poll + 2 * poll
      BY <2>2
    <3> QED
      BY <1>2, <2>1, <2>2, <2>3, <3>1
  <2>4. CASE m = LIMIT
    <3>1. LIMIT <= LIMIT * poll /\ LIMIT <= 2 * LIMIT * poll
      BY <2>2
    <3> QED
      BY <1>2, <2>1, <2>2, <2>4, <3>1
  <2>5. m = moves + 1 \/ m = LIMIT
    BY <1>2 DEF NextMoves
  <2> QED
    BY <2>3, <2>4, <2>5
<1> QED
  BY <1>1, <1>2

----------------------------------------------------------------------------
\* The inductive invariant: every part of it is an invariant the runs check.
DisciplineInv ==
  /\ TypeOK
  /\ CountInBand
  /\ StepsAtMostOnce
  /\ SyncFreqInTolerance

\* The poll adjustment of an update.
LEMMA PollAdjustStep ==
  ASSUME TypeOK, CountInBand, NEW off \in Int, NEW jit \in Nat, PollAdjust(off, jit)
  PROVE  /\ CountInBand' /\ cCount' \in Int /\ moves' \in Nat
         /\ sPoll' \in MINPOLL .. MAXPOLL
<1>1. /\ cCount \in Int /\ cCount \in -LIMIT .. LIMIT /\ sPoll \in MINPOLL .. MAXPOLL /\ moves \in Nat
      /\ cCount <= moves * sPoll /\ -cCount <= 2 * moves * sPoll
  BY DEF TypeOK, CountInBand
<1>2. NextCount(off, jit, cCount, sPoll) \in -LIMIT .. LIMIT
  BY <1>1, PollAssumption, NextCountRange
<1>3. NextPoll(off, jit, cCount, sPoll) \in MINPOLL .. MAXPOLL
  <2> HIDE DEF Abs, MaxOf, MinOf, Sign
  <2> QED
    BY <1>1, NextPollRange
<1>4. /\ moves' \in Nat /\ cCount' <= moves' * sPoll' /\ -cCount' <= 2 * moves' * sPoll'
  BY <1>1, NextCountEarned DEF PollAdjust
<1> QED
  BY <1>2, <1>3, <1>4, PollAssumption DEF PollAdjust, CountInBand

\* An update that leaves the poll exponent and its counter alone.
LEMMA KeepPollStep ==
  ASSUME TypeOK, CountInBand, KeepPoll
  PROVE  /\ CountInBand' /\ cCount' \in Int /\ moves' \in Nat
         /\ sPoll' \in MINPOLL .. MAXPOLL
BY DEF TypeOK, CountInBand, KeepPoll

----------------------------------------------------------------------------
\* local_clock() called with s.t already overwritten by the sample time, as
\* clock_update() does: the interval mu is zero, so neither the stepout of FREQ
\* nor a finite frequency measurement happens.
LEMMA LocalClockStep ==
  ASSUME TypeOK, CountInBand, StepsAtMostOnce, SyncFreqInTolerance,
         status = "running",
         NEW t \in Nat, NEW off \in Offsets, UseSample(t, off)
  PROVE  /\ cT' \in Nat /\ cState' \in States /\ cOffset' \in Int /\ cLast' \in Int
         /\ cCount' \in Int /\ cFreq' \in Int \union {NaN} /\ cJitter' \in Nat \ {0}
         /\ sT' = t /\ sPoll' \in MINPOLL .. MAXPOLL
         /\ status' \in {"running", "exited", "hung"} /\ rval' \in Codes
         /\ mu' = 0 /\ steps' \in Nat /\ moves' \in Nat
         /\ CountInBand' /\ StepsAtMostOnce'
         /\ SyncFreqInTolerance'
<1> USE DEF TypeOK, States, Codes, StepsAtMostOnce, SyncFreqInTolerance,
            KeepClock, rstclock
<1>0. /\ off \in Int /\ t - t = 0 /\ mu' = 0
      /\ WATCH \in Nat \ {0} /\ MAXFREQ \in Nat /\ NaN \notin Int
  BY OffsetsAssumption, ThresholdAssumption, FreqAssumption DEF UseSample, local_clock
<1>1. Jitter(off) \in Nat \ {0}
  BY <1>0, JitterType
<1>2. CASE PanicOffset(t, off)
  <2>1. KeepPoll
    BY <1>2 DEF PanicOffset
  <2> QED
    BY <1>0, <1>2, <2>1, KeepPollStep DEF PanicOffset
<1>3. CASE SyncOutlier(t, off)
  <2>1. KeepPoll
    BY <1>3 DEF SyncOutlier
  <2> QED
    BY <1>0, <1>3, <2>1, KeepPollStep DEF SyncOutlier
<1>4. CASE WaitOutlier(t, t, off)
  <2>1. KeepPoll
    BY <1>4 DEF WaitOutlier
  <2> QED
    BY <1>0, <1>4, <2>1, KeepPollStep DEF WaitOutlier
<1>5. CASE StepOutlier(t, t, off)
  <2>1. cState \in {"NSET", "FSET"} /\ steps' = 1
    BY <1>0, <1>5 DEF StepOutlier, MayStep
  <2>2. /\ NextCount(0, cJitter, 0, MINPOLL) = MINPOLL
        /\ MINPOLL \in Nat \ {0} /\ MINPOLL <= LIMIT /\ MINPOLL <= MAXPOLL
        /\ LIMIT \in Nat /\ MAXPOLL \in Nat
    BY PollAssumption DEF NextCount, Calm
  <2>3. CASE /\ rstclock("FREQ", t, 0) /\ cCount' = 0 /\ moves' = 0
             /\ UNCHANGED cFreq
    BY <1>0, <1>5, <2>1, <2>2, <2>3 DEF StepOutlier, CountInBand
  <2>4. CASE /\ rstclock("SYNC", t, 0) /\ moves' = 1
             /\ cCount' = NextCount(0, cJitter, 0, MINPOLL)
             /\ cFreq' = AddFreq(0)
    <3>1. cFreq # NaN
      BY <2>1
    <3>2. cFreq' \in -MAXFREQ .. MAXFREQ
      BY <2>4, <3>1, ClampRange
    <3>3. cFreq' \in Int /\ cFreq' # NaN
      BY <3>2, <1>0
    <3>4. CountInBand'
      BY <1>5, <2>2, <2>4 DEF StepOutlier, CountInBand
    <3> QED
      BY <1>0, <1>5, <2>1, <2>2, <2>4, <3>2, <3>3, <3>4 DEF StepOutlier
  <2> QED
    BY <1>5, <2>1, <2>3, <2>4 DEF StepOutlier
<1>6. CASE NsetInlier(t, off)
  <2>1. KeepPoll
    BY <1>6 DEF NsetInlier
  <2> QED
    BY <1>0, <1>1, <1>6, <2>1, KeepPollStep DEF NsetInlier
<1>7. CASE FsetInlier(t, off)
  <2>1. PollAdjust(off, Jitter(off)) /\ cFreq # NaN /\ cFreq' = AddFreq(0)
    BY <1>7 DEF FsetInlier
  <2>2. cFreq' \in -MAXFREQ .. MAXFREQ
    BY <2>1, ClampRange
  <2>3. cFreq' \in Int /\ cFreq' # NaN
    BY <2>2, <1>0
  <2>4. /\ CountInBand' /\ cCount' \in Int /\ moves' \in Nat
        /\ sPoll' \in MINPOLL .. MAXPOLL
    BY <1>0, <1>1, <2>1, PollAdjustStep
  <2> QED
    BY <1>0, <1>1, <1>7, <2>2, <2>3, <2>4 DEF FsetInlier
<1>8. CASE FreqInlierWait(t, off)
  <2>1. KeepPoll
    BY <1>8 DEF FreqInlierWait
  <2> QED
    BY <1>0, <1>1, <1>8, <2>1, KeepPollStep DEF FreqInlierWait
<1>9. CASE FreqInlier(t, t, off)
  <2>1. CASE status' = "hung" /\ KeepPoll /\ UNCHANGED rval
             /\ cFreq' = Sign(off - cOffset) * MAXFREQ
    <3>1. cFreq' \in Int \union {NaN}
      BY <1>0, <2>1
    <3> QED
      BY <1>0, <1>1, <1>9, <2>1, <3>1, KeepPollStep DEF FreqInlier, Measured
  <2>2. CASE /\ rval' = "SLEW" /\ cFreq' = NaN
             /\ PollAdjust(cOffset, Jitter(off)) /\ UNCHANGED status
    <3>1. /\ CountInBand' /\ cCount' \in Int /\ moves' \in Nat
          /\ sPoll' \in MINPOLL .. MAXPOLL
      BY <1>0, <1>1, <2>2, PollAdjustStep
    <3> QED
      BY <1>0, <1>1, <1>9, <2>2, <3>1 DEF FreqInlier, Measured
  <2> QED
    BY <1>9, <2>1, <2>2 DEF FreqInlier
<1>10. CASE SyncInlier(t, t, off)
  <2>1. cState = "SYNC" /\ cFreq # NaN
    BY <1>10 DEF SyncInlier
  <2>2. PICK f \in FllTerms(off), g \in PllTerms(off, t - t) : cFreq' = AddFreq(f + g)
    BY <1>10 DEF SyncInlier
  <2>3. sPoll \in Nat
    BY PollAssumption
  <2>4. f \in Int /\ g \in Int
    BY <1>0, <2>2, <2>3, TermsType
  <2>5. f + g \in Int
    BY <2>4
  <2>6. cFreq' \in -MAXFREQ .. MAXFREQ
    BY <2>1, <2>2, <2>5, ClampRange
  <2>7. cFreq' \in Int /\ cFreq' # NaN
    BY <2>6, <1>0
  <2>8. /\ CountInBand' /\ cCount' \in Int /\ moves' \in Nat
        /\ sPoll' \in MINPOLL .. MAXPOLL
    <3>1. PollAdjust(off, Jitter(off))
      BY <1>10 DEF SyncInlier
    <3> QED
      BY <1>0, <1>1, <3>1, PollAdjustStep
  <2> QED
    BY <1>0, <1>1, <1>10, <2>1, <2>6, <2>7, <2>8 DEF SyncInlier
<1> QED
  BY <1>2, <1>3, <1>4, <1>5, <1>6, <1>7, <1>8, <1>9, <1>10 DEF UseSample, local_clock

----------------------------------------------------------------------------
\* What vNTPTask() sets up before the first packet.
LEMMA InitInv == Init => DisciplineInv
<1> SUFFICES ASSUME Init PROVE DisciplineInv
  OBVIOUS
<1>1. TypeOK
  <2>1. /\ cT \in Nat /\ cState \in States /\ cOffset \in Int /\ cLast \in Int
        /\ cCount \in Int /\ sT \in Nat /\ mu \in Int /\ steps \in Nat /\ moves \in Nat
    BY DEF Init, States
  <2>2. cJitter \in Nat \ {0}
    BY ThresholdAssumption DEF Init
  <2>3. cFreq \in Int \union {NaN}
    BY FreqAssumption DEF Init
  <2>4. sPoll \in MINPOLL .. MAXPOLL /\ sStratum \in 1 .. MAXSTRAT
    BY PollAssumption, StratumAssumption DEF Init
  <2>5. /\ pT \in [Peers -> Nat] /\ heard \subseteq Peers /\ sSynced \in BOOLEAN
        /\ status \in {"running", "exited", "hung"} /\ rval \in Codes
        /\ used \in {<<>>} \union (Peers \X Nat \X Int)
    BY DEF Init, Codes
  <2> QED
    BY <2>1, <2>2, <2>3, <2>4, <2>5 DEF TypeOK
<1>2. CountInBand /\ StepsAtMostOnce
  BY PollAssumption DEF Init, CountInBand, StepsAtMostOnce
<1>3. SyncFreqInTolerance
  BY FreqAssumption DEF Init, SyncFreqInTolerance
<1> QED
  BY <1>1, <1>2, <1>3 DEF DisciplineInv

\* The three ways in which a sample of q ends: nobody selected, an old sample
\* of the system peer, a sample of the system peer that is used.
LEMMA FilterCases ==
  ASSUME TypeOK, NEW q \in Peers, NEW reply \in BOOLEAN, ClockFilter(q, reply)
  PROVE  /\ status = "running"
         /\ pT' \in [Peers -> Nat] /\ heard' \subseteq Peers
         /\ \/ UNCHANGED <<clockVars, sysVars, status, history>>
            \/ \E t \in Nat : OldSample(t)
            \/ \E p \in Peers, t \in Nat, off \in Offsets :
                 /\ Usable(t) /\ UseSample(t, off)
                 /\ used' = <<p, t, off>>
                 /\ sSynced' \in BOOLEAN /\ sStratum' \in 1 .. MAXSTRAT
<1>1. status = "running" /\ clock_filter(q, reply)
  BY DEF ClockFilter
<1>2. pT' \in [Peers -> Nat] /\ heard' \subseteq Peers
  BY <1>1 DEF clock_filter, TypeOK
<1>3. CASE UNCHANGED <<clockVars, sysVars, status, history>>
  BY <1>1, <1>2, <1>3
<1>4. ASSUME NEW p \in heard', NEW off \in Offsets, NEW synced \in BOOLEAN, NEW n \in Strata,
             clock_update(p, pT'[p], off, synced, n)
      PROVE  \/ \E t \in Nat : OldSample(t)
             \/ \E r \in Peers, t \in Nat, o \in Offsets :
                  /\ Usable(t) /\ UseSample(t, o)
                  /\ used' = <<r, t, o>>
                  /\ sSynced' \in BOOLEAN /\ sStratum' \in 1 .. MAXSTRAT
  <2>1. p \in Peers /\ pT'[p] \in Nat
    BY <1>2
  <2>2. n + 1 \in 1 .. MAXSTRAT /\ MAXSTRAT \in 1 .. MAXSTRAT
    BY StratumAssumption
  <2>3. CASE OldSample(pT'[p])
    BY <2>1, <2>3
  <2>4. CASE ~OldSample(pT'[p])
    <3>1. /\ Usable(pT'[p]) /\ UseSample(pT'[p], off)
          /\ used' = <<p, pT'[p], off>>
      BY <1>4, <2>4 DEF clock_update
    <3>2. sSynced' \in BOOLEAN /\ sStratum' \in 1 .. MAXSTRAT
      BY <1>4, <2>2, <2>4 DEF clock_update, TypeOK
    <3> QED
      BY <2>1, <3>1, <3>2
  <2> QED
    BY <2>3, <2>4
<1> QED
  BY <1>1, <1>2, <1>3, <1>4 DEF ClockFilter

\* Every path through local_clock() and every turn of the loop keeps the invariant.
LEMMA NextInv == DisciplineInv /\ [Next]_vars => DisciplineInv'
<1> SUFFICES ASSUME DisciplineInv, [Next]_vars PROVE DisciplineInv'
  OBVIOUS
<1> USE DEF DisciplineInv
<1>1. CASE UNCHANGED vars
  BY <1>1 DEF vars, clockVars, sysVars, history, TypeOK, CountInBand, StepsAtMostOnce,
              SyncFreqInTolerance
<1>2. CASE clock_adjust
  <2>1. cOffset' \in Int /\ cT' \in Nat
    BY <1>2 DEF clock_adjust, TypeOK
  <2> QED
    BY <1>2, <2>1 DEF clock_adjust, sysVars, history, TypeOK, CountInBand,
                      StepsAtMostOnce, SyncFreqInTolerance
<1>3. ASSUME NEW q \in Peers, NEW reply \in BOOLEAN, ClockFilter(q, reply)
      PROVE  DisciplineInv'
  <2>0. /\ status = "running" /\ pT' \in [Peers -> Nat] /\ heard' \subseteq Peers
    BY <1>3, FilterCases
  <2>1. CASE UNCHANGED <<clockVars, sysVars, status, history>>
    BY <2>0, <2>1 DEF clockVars, sysVars, history, TypeOK, CountInBand,
                      StepsAtMostOnce, SyncFreqInTolerance
  <2>2. ASSUME NEW t \in Nat, OldSample(t)
        PROVE  DisciplineInv'
    BY <2>0, <2>2 DEF OldSample, KeepClock, KeepPoll, Codes, TypeOK, CountInBand,
                      StepsAtMostOnce, SyncFreqInTolerance
  <2>3. ASSUME NEW p \in Peers, NEW t \in Nat, NEW off \in Offsets,
               Usable(t), UseSample(t, off), used' = <<p, t, off>>,
               sSynced' \in BOOLEAN, sStratum' \in 1 .. MAXSTRAT
        PROVE  DisciplineInv'
    <3>1. used' \in {<<>>} \union (Peers \X Nat \X Int)
      BY <2>3, OffsetsAssumption
    <3>2. /\ cT' \in Nat /\ cState' \in States /\ cOffset' \in Int /\ cLast' \in Int
          /\ cCount' \in Int /\ cFreq' \in Int \union {NaN}
          /\ cJitter' \in Nat \ {0} /\ sT' = t /\ sPoll' \in MINPOLL .. MAXPOLL
          /\ status' \in {"running", "exited", "hung"} /\ rval' \in Codes
          /\ mu' = 0 /\ steps' \in Nat /\ moves' \in Nat
          /\ CountInBand' /\ StepsAtMostOnce' /\ SyncFreqInTolerance'
      <4>1. TypeOK /\ CountInBand /\ StepsAtMostOnce /\ SyncFreqInTolerance
        OBVIOUS
      <4> HIDE DEF DisciplineInv, Abs, MaxOf, MinOf, Sign
      <4> QED
        BY <2>0, <2>3, <4>1, LocalClockStep, Zenon
    <3>3. TypeOK'
      <4> HIDE DEF DisciplineInv
      <4> QED
        BY <2>0, <2>3, <3>1, <3>2 DEF TypeOK
    <3> QED
      BY <3>2, <3>3
  <2> QED
    BY <1>3, FilterCases, <2>1, <2>2, <2>3
<1> QED
  BY <1>1, <1>2, <1>3 DEF Next

\* Every state of the client satisfies the inductive invariant.
THEOREM DisciplineSafe == Spec => []DisciplineInv
<1>1. Init => DisciplineInv
  BY InitInv
<1>2. DisciplineInv /\ [Next]_vars => DisciplineInv'
  BY NextInv
<1> QED
  BY <1>1, <1>2, PTL DEF Spec

\* The variables have their types.
THEOREM TypeCorrect == Spec => []TypeOK
BY DisciplineSafe, PTL DEF DisciplineInv

\* The jiggle counter of the poll-adjust code stays in its hysteresis band.
THEOREM CounterStaysInBand == Spec => []CountInBand
BY DisciplineSafe, PTL DEF DisciplineInv

\* The clock is stepped at most once in the life of the client.
THEOREM AtMostOneStep == Spec => []StepsAtMostOnce
BY DisciplineSafe, PTL DEF DisciplineInv

\* A synchronized client applies a frequency within the tolerance; local_clock()
\* can only yield a NaN, or fail to return, while it measures the frequency.
THEOREM FreqInTolerance == Spec => []SyncFreqInTolerance
BY DisciplineSafe, PTL DEF DisciplineInv

----------------------------------------------------------------------------
\* A used sample is not older than the last one, SYNC is kept, and below FLLPOLL
\* the frequency of a synchronized client stays what it was.
LEMMA UseSampleMoves ==
  ASSUME DisciplineInv, NEW t \in Nat, NEW off \in Offsets,
         Usable(t), UseSample(t, off)
  PROVE  /\ sT' >= sT
         /\ cState = "SYNC" => cState' = "SYNC"
         /\ cState = "SYNC" /\ sPoll < FLLPOLL => cFreq' = cFreq
<1> USE DEF KeepClock, rstclock, MayStep, Measured
<1>1. /\ off \in Int /\ t - t = 0 /\ cOffset \in Int /\ sPoll \in Nat /\ sT \in Nat
      /\ MAXFREQ \in Nat /\ NaN \notin Int
  BY OffsetsAssumption, PollAssumption, FreqAssumption DEF DisciplineInv, TypeOK
<1>2. sT' = t
  BY DEF UseSample, local_clock, PanicOffset, SyncOutlier, WaitOutlier, StepOutlier,
         NsetInlier, FsetInlier, FreqInlierWait, FreqInlier, SyncInlier
<1>3. ASSUME cState = "SYNC"
      PROVE  PanicOffset(t, off) \/ SyncOutlier(t, off) \/ SyncInlier(t, t, off)
  BY <1>3 DEF UseSample, local_clock, WaitOutlier, StepOutlier, NsetInlier,
              FsetInlier, FreqInlierWait, FreqInlier
<1>4. ASSUME cState = "SYNC"
      PROVE  cState' = "SYNC"
  BY <1>3, <1>4 DEF PanicOffset, SyncOutlier, SyncInlier
<1>5. ASSUME cState = "SYNC", sPoll < FLLPOLL
      PROVE  cFreq' = cFreq
  <2>1. CASE SyncInlier(t, t, off)
    <3>1. FllTerms(off) = {0} /\ PllTerms(off, t - t) = {0}
      BY <1>1, <1>5, TermsType
    <3>2. cFreq' = AddFreq(0)
      BY <2>1, <3>1 DEF SyncInlier
    <3>3. cFreq \in -MAXFREQ .. MAXFREQ /\ cFreq # NaN
      BY <1>1, <1>5 DEF DisciplineInv, SyncFreqInTolerance
    <3> QED
      BY <1>1, <3>2, <3>3 DEF AddFreq, Clamp
  <2> QED
    BY <1>3, <1>5, <2>1 DEF PanicOffset, SyncOutlier
<1> QED
  BY <1>1, <1>2, <1>4, <1>5 DEF Usable

\* What a step may not do to the update time, the state and the frequency.
LEMMA StepMoves ==
  DisciplineInv /\ [Next]_vars
    => /\ sT' >= sT
       /\ cState = "SYNC" => cState' = "SYNC"
       /\ cState = "SYNC" /\ sPoll < FLLPOLL => cFreq' = cFreq
<1> SUFFICES ASSUME DisciplineInv, [Next]_vars
             PROVE  /\ sT' >= sT
                    /\ cState = "SYNC" => cState' = "SYNC"
                    /\ cState = "SYNC" /\ sPoll < FLLPOLL => cFreq' = cFreq
  OBVIOUS
<1>0. TypeOK /\ sT \in Nat
  BY DEF DisciplineInv, TypeOK
<1>1. CASE UNCHANGED vars
  BY <1>0, <1>1 DEF vars, clockVars, sysVars
<1>2. CASE clock_adjust
  BY <1>0, <1>2 DEF clock_adjust, sysVars
<1>3. ASSUME NEW q \in Peers, NEW reply \in BOOLEAN, ClockFilter(q, reply)
      PROVE  /\ sT' >= sT
             /\ cState = "SYNC" => cState' = "SYNC"
             /\ cState = "SYNC" /\ sPoll < FLLPOLL => cFreq' = cFreq
  <2>1. CASE UNCHANGED <<clockVars, sysVars, status, history>>
    BY <1>0, <2>1 DEF clockVars, sysVars
  <2>2. ASSUME NEW t \in Nat, OldSample(t)
        PROVE  UNCHANGED <<sT, cState, cFreq>>
    BY <2>2 DEF OldSample, KeepClock
  <2> QED
    BY <1>0, <1>3, FilterCases, UseSampleMoves, <2>1, <2>2
<1> QED
  BY <1>1, <1>2, <1>3 DEF Next

\* The update time never runs backwards.
THEOREM UpdateTimeNeverBack == Spec => UpdateTimeMonotone
<1>1. DisciplineInv /\ [Next]_vars => [sT' >= sT]_vars
  BY StepMoves
<1> QED
  BY <1>1, DisciplineSafe, PTL DEF Spec, UpdateTimeMonotone

\* A synchronized client stays in SYNC for ever.
THEOREM SyncIsAbsorbing == Spec => SyncForever
<1>1. DisciplineInv /\ [Next]_vars => [cState = "SYNC" => cState' = "SYNC"]_vars
  BY StepMoves
<1> QED
  BY <1>1, DisciplineSafe, PTL DEF Spec, SyncForever

\* Below half the Allan intercept the frequency of a synchronized client is frozen.
THEOREM FreqIsFrozen == Spec => FreqFrozenAtShortPoll
<1>1. DisciplineInv /\ [Next]_vars
        => [cState = "SYNC" /\ sPoll < FLLPOLL => cFreq' = cFreq]_vars
  BY StepMoves
<1> QED
  BY <1>1, DisciplineSafe, PTL DEF Spec, FreqFrozenAtShortPoll

----------------------------------------------------------------------------
(* A change of the poll exponent.                                          *)

Earned ==
  /\ sPoll' = sPoll + 1 => (moves + 1) * sPoll > LIMIT
  /\ sPoll' = sPoll - 1 /\ rval' # "STEP" => (moves + 1) * 2 * sPoll > LIMIT
  /\ Abs(sPoll' - sPoll) > 1 => rval' = "STEP"

\* A count that falls below the band was brought there by its step.
LEMMA BelowTheBand ==
  ASSUME NEW count \in Int, NEW step \in Int, NEW bound \in Int, NEW limit \in Int,
         -count <= bound, count - step < -limit
  PROVE  bound + step > limit
OBVIOUS

\* The poll-adjust code moves the exponent only when the counter, which the
\* adjustments so far account for, passes LIMIT.
LEMMA PollAdjustEarns ==
  ASSUME TypeOK, CountInBand, NEW off \in Int, NEW jit \in Nat, PollAdjust(off, jit)
  PROVE  Earned
<1>1. /\ cCount \in Int /\ sPoll \in MINPOLL .. MAXPOLL /\ sPoll \in Nat /\ moves \in Nat
      /\ cCount <= moves * sPoll /\ -cCount <= 2 * moves * sPoll
      /\ LIMIT \in Nat /\ MINPOLL \in Nat /\ MAXPOLL \in Nat
  BY PollAssumption DEF TypeOK, CountInBand
<1>2. sPoll' = NextPoll(off, jit, cCount, sPoll)
  BY DEF PollAdjust
<1>3. sPoll' \in (sPoll - 1) .. (sPoll + 1)
  BY <1>1, <1>2, NextPollRange
<1>4. ASSUME sPoll' = sPoll + 1 PROVE (moves + 1) * sPoll > LIMIT
  <2>1. cCount + sPoll > LIMIT
    BY <1>1, <1>2, <1>4 DEF NextPoll
  <2>2. (moves + 1) * sPoll = moves * sPoll + sPoll /\ moves * sPoll \in Int
    BY <1>1
  <2> QED
    BY <1>1, <2>1, <2>2
<1>5. ASSUME sPoll' = sPoll - 1 PROVE (moves + 1) * 2 * sPoll > LIMIT
  <2>1. cCount - 2 * sPoll < -LIMIT
    BY <1>1, <1>2, <1>5 DEF NextPoll
  <2>2. /\ 2 * moves * sPoll \in Int /\ 2 * sPoll \in Int
        /\ -cCount <= 2 * moves * sPoll
    BY <1>1
  <2>3. 2 * moves * sPoll + 2 * sPoll > LIMIT
    BY <1>1, <2>1, <2>2, BelowTheBand
  <2>4. (moves + 1) * 2 * sPoll = 2 * moves * sPoll + 2 * sPoll
    BY <1>1
  <2> QED
    BY <2>3, <2>4
<1>6. ~(Abs(sPoll' - sPoll) > 1)
  <2>1. sPoll' = sPoll - 1 \/ sPoll' = sPoll \/ sPoll' = sPoll + 1
    BY <1>1, <1>3
  <2>2. sPoll' - sPoll = -1 \/ sPoll' - sPoll = 0 \/ sPoll' - sPoll = 1
    BY <1>1, <2>1
  <2> QED
    BY <2>2 DEF Abs
<1> QED
  BY <1>4, <1>5, <1>6 DEF Earned

\* An exponent that stays has nothing to earn.
LEMMA KeptIsEarned == ASSUME TypeOK, sPoll' = sPoll PROVE Earned
BY PollAssumption DEF TypeOK, Earned

\* A step brings the exponent down to MINPOLL.
LEMMA UseSampleEarns ==
  ASSUME DisciplineInv, NEW t \in Nat, NEW off \in Offsets, UseSample(t, off)
  PROVE  Earned
<1>1. /\ TypeOK /\ CountInBand /\ off \in Int /\ cOffset \in Int
      /\ Jitter(off) \in Nat
  BY OffsetsAssumption, JitterType DEF DisciplineInv, TypeOK
<1>2. CASE StepOutlier(t, t, off)
  <2>1. rval' = "STEP" /\ sPoll' = MINPOLL
    BY <1>2 DEF StepOutlier
  <2> QED
    BY <1>1, <2>1, PollAssumption DEF TypeOK, Earned
<1>3. CASE FsetInlier(t, off)
  <2>1. PollAdjust(off, Jitter(off))
    BY <1>3 DEF FsetInlier
  <2> QED
    BY <1>1, <2>1, PollAdjustEarns
<1>4. CASE SyncInlier(t, t, off)
  <2>1. PollAdjust(off, Jitter(off))
    BY <1>4 DEF SyncInlier
  <2> QED
    BY <1>1, <2>1, PollAdjustEarns
<1>5. CASE FreqInlier(t, t, off)
  <2>1. KeepPoll \/ PollAdjust(cOffset, Jitter(off))
    BY <1>5 DEF FreqInlier
  <2> QED
    BY <1>1, <2>1, PollAdjustEarns, KeptIsEarned DEF KeepPoll
<1>6. CASE KeepPoll
  BY <1>1, <1>6, KeptIsEarned DEF KeepPoll
<1>7. \/ KeepPoll \/ StepOutlier(t, t, off) \/ FsetInlier(t, off)
      \/ FreqInlier(t, t, off) \/ SyncInlier(t, t, off)
  BY DEF UseSample, local_clock, PanicOffset, SyncOutlier, WaitOutlier, NsetInlier,
         FreqInlierWait
<1> QED
  BY <1>2, <1>3, <1>4, <1>5, <1>6, <1>7

\* A poll exponent never changes but after enough adjustments in one direction.
THEOREM PollChangesAreEarned == Spec => PollChangeIsEarned
<1>1. DisciplineInv /\ [Next]_vars => [Earned]_vars
  <2> SUFFICES ASSUME DisciplineInv, [Next]_vars PROVE Earned
    OBVIOUS
  <2>0. TypeOK
    BY DEF DisciplineInv
  <2>1. CASE UNCHANGED vars
    BY <2>0, <2>1, KeptIsEarned DEF vars, sysVars
  <2>2. CASE clock_adjust
    BY <2>0, <2>2, KeptIsEarned DEF clock_adjust, sysVars
  <2>3. ASSUME NEW q \in Peers, NEW reply \in BOOLEAN, ClockFilter(q, reply)
        PROVE  Earned
    <3>1. CASE UNCHANGED <<clockVars, sysVars, status, history>>
      BY <2>0, <3>1, KeptIsEarned DEF sysVars
    <3>2. ASSUME NEW t \in Nat, OldSample(t) PROVE Earned
      BY <2>0, <3>2, KeptIsEarned DEF OldSample, KeepPoll
    <3> QED
      BY <2>0, <2>3, FilterCases, UseSampleEarns, <3>1, <3>2
  <2> QED
    BY <2>1, <2>2, <2>3 DEF Next
<1> QED
  BY <1>1, DisciplineSafe, PTL DEF Spec, PollChangeIsEarned, Earned

----------------------------------------------------------------------------
(* The abstract clock of the host.                                         *)

\* A sample moves process time by at most a second, and the poll exponent by one
\* or back to MINPOLL.
LEMMA UseSampleMovesHost ==
  ASSUME DisciplineInv, NEW t \in Nat, NEW off \in Offsets, UseSample(t, off)
  PROVE  Host!clock_filter
<1>1. /\ TypeOK /\ CountInBand /\ off \in Int /\ cOffset \in Int
      /\ sPoll \in MINPOLL .. MAXPOLL /\ Jitter(off) \in Nat
      /\ MINPOLL \in Nat /\ MAXPOLL \in Nat /\ MINPOLL <= MAXPOLL
  BY OffsetsAssumption, PollAssumption, JitterType DEF DisciplineInv, TypeOK
<1>2. cT' \in {cT, cT + 1}
  BY DEF UseSample, local_clock, PanicOffset, SyncOutlier, WaitOutlier, StepOutlier,
         NsetInlier, FsetInlier, FreqInlierWait, FreqInlier, SyncInlier,
         KeepClock, rstclock
<1>3. ASSUME NEW o \in Int, PollAdjust(o, Jitter(off))
      PROVE  sPoll' \in {sPoll - 1, sPoll, sPoll + 1} \intersect MINPOLL .. MAXPOLL
  <2>1. /\ sPoll' \in MINPOLL .. MAXPOLL
        /\ sPoll' \in (sPoll - 1) .. (sPoll + 1)
    <3> HIDE DEF Abs, MaxOf, MinOf, Sign
    <3>1. cCount \in Int
      BY <1>1 DEF TypeOK
    <3> QED
      BY <1>1, <1>3, <3>1, NextPollRange DEF PollAdjust
  <2> QED
    BY <1>1, <2>1
<1>4. \/ KeepPoll \/ sPoll' = MINPOLL
      \/ PollAdjust(off, Jitter(off)) \/ PollAdjust(cOffset, Jitter(off))
  BY DEF UseSample, local_clock, PanicOffset, SyncOutlier, WaitOutlier, StepOutlier,
         NsetInlier, FsetInlier, FreqInlierWait, FreqInlier, SyncInlier
<1>5. sPoll' \in {sPoll - 1, sPoll, sPoll + 1, MINPOLL} \intersect MINPOLL .. MAXPOLL
  BY <1>1, <1>3, <1>4 DEF KeepPoll
<1> QED
  BY <1>2, <1>5 DEF Host!clock_filter

\* The clock discipline implements the clock that the poll process relies on.
THEOREM Refinement == Spec => ImplementsHostClock
<1>1. Init => Host!Init
  BY DEF Init, Host!Init
<1>2. DisciplineInv /\ [Next]_vars => [Host!Next]_<<cT, sPoll>>
  <2> SUFFICES ASSUME DisciplineInv, [Next]_vars PROVE [Host!Next]_<<cT, sPoll>>
    OBVIOUS
  <2>1. CASE UNCHANGED vars
    BY <2>1 DEF vars, clockVars, sysVars
  <2>2. CASE clock_adjust
    BY <2>2 DEF clock_adjust, sysVars, Host!Next, Host!clock_adjust
  <2>3. ASSUME NEW q \in Peers, NEW reply \in BOOLEAN, ClockFilter(q, reply)
        PROVE  [Host!Next]_<<cT, sPoll>>
    <3>1. CASE UNCHANGED <<clockVars, sysVars, status, history>>
      BY <3>1 DEF clockVars, sysVars
    <3>2. ASSUME NEW t \in Nat, OldSample(t) PROVE [Host!Next]_<<cT, sPoll>>
      BY <3>2 DEF OldSample, KeepClock, KeepPoll
    <3>3. ASSUME NEW t \in Nat, NEW off \in Offsets, UseSample(t, off)
          PROVE  [Host!Next]_<<cT, sPoll>>
      BY <3>3, UseSampleMovesHost DEF Host!Next
    <3> QED
      BY <2>3, FilterCases, <3>1, <3>2, <3>3 DEF DisciplineInv
  <2> QED
    BY <2>1, <2>2, <2>3 DEF Next
<1> QED
  BY <1>1, <1>2, DisciplineSafe, PTL DEF Spec, ImplementsHostClock, Host!Spec
============================================================================
