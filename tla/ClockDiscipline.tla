-------------------------- MODULE ClockDiscipline --------------------------
(***************************************************************************)
(* The clock discipline of NTP_vfo.c and the part of clock_update() that   *)
(* drives it: local_clock(), rstclock(), clock_adjust().  Offsets are      *)
(* integers in an arbitrary unit; the exact gains of the frequency loop    *)
(* are reduced to their sign, and a quotient by zero to the infinity or    *)
(* the NaN that the floating point division returns.                       *)
(***************************************************************************)
EXTENDS Integers

CONSTANTS
  Peers,       \* the associations of assoc_table
  FREQ_EXISTS, \* freq.h: the builds with and without a frequency file
  Offsets,     \* the combined offsets s.offset that clock_combine() may find
  STEPT,       \* step threshold
  PANICT,      \* panic threshold
  PREC,        \* LOG2D(s.precision), the least offset difference
  WATCH,       \* stepout threshold
  LIMIT,       \* poll-adjust threshold
  MINPOLL, MAXPOLL,
  FLLPOLL,     \* least poll exponent whose interval exceeds ALLAN / 2
  MAXFREQ,     \* frequency tolerance
  TICKRATE,    \* configTICK_RATE_HZ, the first value of c.freq
  MAXSTRAT,
  Strata,      \* strata a selected peer may have
  NaN,         \* the floating point NaN
  MaxT         \* bound on process time, for model checking

ASSUME OffsetsAssumption == Offsets \subseteq Int
ASSUME ThresholdAssumption ==
  /\ STEPT \in Nat /\ PANICT \in Nat /\ STEPT < PANICT
  /\ PREC \in Nat \ {0} /\ WATCH \in Nat \ {0}
ASSUME PollAssumption ==
  /\ MINPOLL \in Nat \ {0} /\ MAXPOLL \in Nat /\ MINPOLL <= MAXPOLL
  /\ FLLPOLL \in Nat /\ LIMIT \in Nat /\ MINPOLL <= LIMIT
ASSUME FreqAssumption ==
  MAXFREQ \in Nat /\ TICKRATE \in Nat /\ MAXFREQ < TICKRATE /\ NaN \notin Int
ASSUME StratumAssumption ==
  MAXSTRAT \in Nat \ {0} /\ Strata \subseteq 1 .. (MAXSTRAT - 1)
ASSUME ModeAssumption == FREQ_EXISTS \subseteq BOOLEAN /\ MaxT \in Nat

VARIABLES
  cT, cState, cOffset, cLast, cCount, cFreq,  \* fields of the struct c
  cJitter,           \* twice c.jitter
  sT, sPoll, sStratum, sSynced,               \* fields of s; s.leap # NOSYNC
  pT,                \* p->t, the time of the peer's last sample
  heard,             \* peers whose packet() has accepted a packet
  status,            \* the task runs, has called exit(), or never returns
  rval, mu, used, steps, moves   \* history: the last update, steps so far,
                                 \* poll adjustments since the last reset

clockVars == <<cT, cState, cOffset, cLast, cCount, cFreq, cJitter>>
sysVars   == <<sT, sPoll, sStratum, sSynced>>
history   == <<rval, mu, used, steps, moves>>
vars      == <<clockVars, sysVars, pT, heard, status, history>>

States == {"NSET", "FSET", "SPIK", "FREQ", "SYNC"}
Codes  == {"NONE", "OLD", "IGNORE", "SLEW", "STEP", "PANIC"}

----------------------------------------------------------------------------
Abs(x)    == IF x < 0 THEN -x ELSE x
MaxOf(x, y) == IF x < y THEN y ELSE x
MinOf(x, y) == IF x < y THEN x ELSE y
Sign(x)   == IF x > 0 THEN 1 ELSE IF x < 0 THEN -1 ELSE 0

Outlier(off) == Abs(off) > STEPT

\* SQRT(SQUARE(max(...)) / AVG) with AVG = 4, doubled: the code's
\* etemp + (dtemp - etemp) is just dtemp, so no earlier jitter is averaged in.
Jitter(off) == MaxOf(Abs(off - cLast), PREC)

\* The frequency added by the FLL: nothing below half the Allan intercept,
\* else at most one unit in the direction of the change of the offset.
FllTermsAlways(off) == {0, Sign(off - cOffset)}
FllTerms(off) == IF sPoll >= FLLPOLL THEN {0, Sign(off - cOffset)} ELSE {0}

\* The frequency added by the PLL over min(mu, poll interval).
PllTerms(off, m) == IF m = 0 THEN {0} ELSE {0, Sign(off)}

\* freq += c.freq; c.freq = max(min(MAXFREQ, freq), -MAXFREQ).  No comparison with
\* the NaN is true: min() then returns its second argument and max() its first,
\* here the NaN both times.
Clamp(f) == IF f = NaN THEN NaN ELSE MaxOf(MinOf(MAXFREQ, f), -MAXFREQ)
AddFreqUnclamped(df) == IF cFreq = NaN THEN NaN ELSE cFreq + df
AddFreq(df) == Clamp(IF cFreq = NaN THEN NaN ELSE cFreq + df)

\* The poll-adjust code: c.count grows by s.poll while the offset is below
\* PGATE * c.jitter and shrinks by twice s.poll otherwise; past LIMIT it
\* carries into the poll exponent.
Calm(off, jit) == Abs(off) < 2 * jit

NextCountUnbounded(off, jit, count, poll) ==
  IF Calm(off, jit) THEN count + poll ELSE count - 2 * poll

NextCountKept(off, jit, count, poll) ==
  IF Calm(off, jit) THEN MinOf(count + poll, LIMIT)
                    ELSE MaxOf(count - 2 * poll, -LIMIT)

NextPollUnbounded(off, jit, count, poll) ==
  IF Calm(off, jit)
  THEN IF count + poll > LIMIT THEN poll + 1 ELSE poll
  ELSE IF count - 2 * poll < -LIMIT THEN poll - 1 ELSE poll

NextCount(off, jit, count, poll) ==
  IF Calm(off, jit)
  THEN IF count + poll <= LIMIT THEN count + poll
       ELSE IF poll < MAXPOLL THEN 0 ELSE LIMIT
  ELSE IF count - 2 * poll >= -LIMIT THEN count - 2 * poll
       ELSE IF poll > MINPOLL THEN 0 ELSE -LIMIT

NextPoll(off, jit, count, poll) ==
  IF Calm(off, jit)
  THEN IF count + poll > LIMIT /\ poll < MAXPOLL THEN poll + 1 ELSE poll
  ELSE IF count - 2 * poll < -LIMIT /\ poll > MINPOLL THEN poll - 1 ELSE poll

NextMoves(off, jit, count, poll) ==
  IF NextPoll(off, jit, count, poll) = poll THEN MinOf(moves + 1, LIMIT) ELSE 0

PollAdjust(off, jit) ==
  /\ cCount' = NextCount(off, jit, cCount, sPoll)
  /\ sPoll' = NextPoll(off, jit, cCount, sPoll)
  /\ moves' = NextMoves(off, jit, cCount, sPoll)

KeepPoll == UNCHANGED <<cCount, sPoll, moves>>

rstclockToSample(state, t, off) ==
  /\ cState' = state
  /\ cLast' = off
  /\ cOffset' = off
  /\ sT' = t
  /\ cT' = t + 1

rstclock(state, t, off) ==
  /\ cState' = state
  /\ cLast' = off
  /\ cOffset' = off
  /\ sT' = t
  /\ cT' = cT + 1

KeepClock(st) == sT' = st /\ UNCHANGED <<cT, cState, cOffset, cLast>>

----------------------------------------------------------------------------
(* local_clock(p, offset): t is p->t and st the value of s.t on entry.     *)

SyncOutlierSpikes(st, off) ==
  /\ Outlier(off) /\ cState = "SYNC"
  /\ rval' = "SLEW" /\ cState' = "SPIK"
  /\ sT' = st /\ KeepPoll
  /\ UNCHANGED <<cT, cOffset, cLast, cFreq, cJitter, steps, status>>

\* In SYNC an outlier assigns a local variable only and reports SLEW.
SyncOutlier(st, off) ==
  /\ Outlier(off) /\ cState = "SYNC"
  /\ rval' = "SLEW"
  /\ KeepClock(st) /\ KeepPoll
  /\ UNCHANGED <<cFreq, cJitter, steps, status>>

WaitOutlier(t, st, off) ==
  /\ Outlier(off) /\ cState \in {"FREQ", "SPIK"} /\ t - st < WATCH
  /\ rval' = "IGNORE"
  /\ KeepClock(st) /\ KeepPoll
  /\ UNCHANGED <<cFreq, cJitter, steps, status>>

MayStepEarly(t, st) == cState # "SYNC"
MayStep(t, st) ==
  \/ cState \in {"NSET", "FSET"}
  \/ cState \in {"FREQ", "SPIK"} /\ t - st >= WATCH

\* The step: the test `state == NSET` reads a local that no path to it has
\* assigned, so the build may take either branch.
StepOutlier(t, st, off) ==
  /\ Outlier(off) /\ MayStep(t, st)
  /\ rval' = "STEP"
  /\ steps' = steps + 1
  /\ sPoll' = MINPOLL
  /\ \/ /\ rstclock("FREQ", t, 0)
        /\ cCount' = 0 /\ moves' = 0
        /\ UNCHANGED cFreq
     \/ /\ rstclock("SYNC", t, 0)
        /\ moves' = 1
        /\ cCount' = NextCount(0, cJitter, 0, MINPOLL)
        /\ \E df \in IF cState = "FREQ" THEN {0, Sign(off - cOffset)} ELSE {0} :
              cFreq' = AddFreq(df)
  /\ UNCHANGED <<cJitter, status>>

NsetInlier(t, off) ==
  /\ ~Outlier(off) /\ cState = "NSET"
  /\ rval' = "IGNORE"
  /\ rstclock("FREQ", t, off)
  /\ cJitter' = Jitter(off)
  /\ KeepPoll
  /\ UNCHANGED <<cFreq, steps, status>>

FsetInlier(t, off) ==
  /\ ~Outlier(off) /\ cState = "FSET"
  /\ rval' = "SLEW"
  /\ rstclock("SYNC", t, off)
  /\ cJitter' = Jitter(off)
  /\ cFreq' = AddFreq(0)
  /\ PollAdjust(off, Jitter(off))
  /\ UNCHANGED <<steps, status>>

FreqInlierWait(st, off) ==
  /\ ~Outlier(off) /\ cState = "FREQ" /\ cT - st < WATCH
  /\ rval' = "IGNORE"
  /\ KeepClock(st) /\ KeepPoll
  /\ cJitter' = Jitter(off)
  /\ UNCHANGED <<cFreq, steps, status>>

Measured(st) == cState = "FREQ" /\ cT - st >= WATCH

\* freq = (offset - c.offset) / mu.  A zero mu makes it NaN or an infinity, and
\* c.freq is added.  The square root of an infinity never returns, that of the NaN
\* returns at once, and an infinity and the NaN add up to the NaN.
FreqInlier(t, st, off) ==
  /\ ~Outlier(off) /\ Measured(st)
  /\ cJitter' = Jitter(off)
  /\ KeepClock(st)
  /\ UNCHANGED steps
  /\ \/ /\ t = st /\ off # cOffset /\ cFreq # NaN
        /\ status' = "hung"
        /\ cFreq' = Sign(off - cOffset) * MAXFREQ
        /\ KeepPoll
        /\ UNCHANGED rval
     \/ /\ t = st => off = cOffset \/ cFreq = NaN
        /\ rval' = "SLEW"
        /\ cFreq' = IF t = st THEN NaN ELSE AddFreq(Sign(off - cOffset))
        /\ PollAdjust(cOffset, Jitter(off))
        /\ UNCHANGED status

SyncInlier(t, st, off) ==
  /\ ~Outlier(off) /\ cState \in {"SYNC", "SPIK"}
  /\ rval' = "SLEW"
  /\ \E f \in FllTerms(off), g \in PllTerms(off, t - st) : cFreq' = AddFreq(f + g)
  /\ rstclock("SYNC", t, off)
  /\ cJitter' = Jitter(off)
  /\ PollAdjust(off, Jitter(off))
  /\ UNCHANGED <<steps, status>>

PanicOffset(st, off) ==
  /\ rval' = "PANIC"
  /\ status' = "exited"
  /\ KeepClock(st) /\ KeepPoll
  /\ UNCHANGED <<cFreq, cJitter, steps>>

local_clock(t, st, off) ==
  /\ mu' = t - st
  /\ IF Abs(off) > PANICT
     THEN PanicOffset(st, off)
     ELSE \/ SyncOutlier(st, off)
          \/ WaitOutlier(t, st, off)
          \/ StepOutlier(t, st, off)
          \/ NsetInlier(t, off)
          \/ FsetInlier(t, off)
          \/ FreqInlierWait(st, off)
          \/ FreqInlier(t, st, off)
          \/ SyncInlier(t, st, off)

----------------------------------------------------------------------------
(* clock_update(p): the system peer p, the time t of its sample and the    *)
(* leap and stratum it announced.                                          *)

UseSample(t, off) == local_clock(t, t, off)   \* s.t = p->t comes first

UsableAlways(t) == TRUE
Usable(t) == sT <= t

OldSample(t) ==
  /\ ~Usable(t)
  /\ rval' = "OLD"
  /\ KeepClock(sT) /\ KeepPoll
  /\ UNCHANGED <<cFreq, cJitter, steps, status, mu, used, sStratum, sSynced>>

clock_update(p, t, off, synced, stratum) ==
  \/ OldSample(t)
  \/ /\ Usable(t)
     /\ UseSample(t, off)
     /\ used' = <<p, t, off>>
     /\ sStratum' = IF status' = "hung" THEN sStratum
                    ELSE CASE rval' = "STEP" -> MAXSTRAT
                           [] rval' = "SLEW" -> stratum + 1
                           [] OTHER -> sStratum
     /\ sSynced' = IF status' # "hung" /\ rval' = "SLEW" THEN synced ELSE sSynced

\* clock_filter(q, ...) stamps the sample, whether packet() had a reply or
\* poll() reports a missing one.  A second sample at the same process time is
\* dropped unless the system is still unsynchronized.
clock_filter(q, reply) ==
  /\ cT # pT[q] \/ ~sSynced
  /\ pT' = [pT EXCEPT ![q] = cT]
  /\ heard' = IF reply THEN heard \union {q} ELSE heard

\* clock_select() finds no survivor, or makes some peer heard before the
\* system peer and calls clock_update().
ClockFilter(q, reply) ==
  /\ status = "running" /\ cT < MaxT
  /\ clock_filter(q, reply)
  /\ \/ UNCHANGED <<clockVars, sysVars, status, history>>
     \/ \E p \in heard', off \in Offsets, synced \in BOOLEAN, n \in Strata :
           clock_update(p, pT'[p], off, synced, n)

\* The offset decays towards zero by a small part; one unit, or none of it
\* visible at this resolution.
clock_adjust ==
  /\ status = "running" /\ cT < MaxT
  /\ cT' = cT + 1
  /\ \E d \in {0, Sign(cOffset)} : cOffset' = cOffset - d
  /\ UNCHANGED <<cState, cLast, cCount, cFreq, cJitter, sysVars, pT, heard,
                 status, history>>

\* vNTPTask() before its first loop: rstclock() has advanced c.t to 1, with which
\* clear() has stamped every association, and settime() to 2.
Init ==
  /\ cT = 2
  /\ \E freqExists \in FREQ_EXISTS :
        /\ cState = IF freqExists THEN "FSET" ELSE "NSET"
        /\ cFreq = IF freqExists THEN TICKRATE ELSE 0
  /\ cOffset = 0 /\ cLast = 0 /\ cCount = 0
  /\ cJitter = 2 * PREC
  /\ sT = 0 /\ sPoll = MINPOLL /\ sStratum = MAXSTRAT /\ sSynced = FALSE
  /\ pT = [p \in Peers |-> 1]
  /\ heard = {}
  /\ status = "running"
  /\ rval = "NONE" /\ mu = 0 /\ used = <<>> /\ steps = 0 /\ moves = 0

Next ==
  \/ clock_adjust
  \/ \E q \in Peers, reply \in BOOLEAN : ClockFilter(q, reply)

Spec == Init /\ [][Next]_vars

----------------------------------------------------------------------------
(* What the discipline guarantees.                                         *)

TypeOK ==
  /\ cT \in Nat /\ cState \in States /\ cOffset \in Int /\ cLast \in Int
  /\ cCount \in Int /\ cFreq \in Int \union {NaN} /\ cJitter \in Nat \ {0}
  /\ sT \in Nat /\ sPoll \in MINPOLL .. MAXPOLL
  /\ sStratum \in 1 .. MAXSTRAT /\ sSynced \in BOOLEAN
  /\ pT \in [Peers -> Nat] /\ heard \subseteq Peers
  /\ status \in {"running", "exited", "hung"}
  /\ rval \in Codes /\ mu \in Int /\ used \in {<<>>} \union (Peers \X Nat \X Int)
  /\ steps \in Nat /\ moves \in Nat

\* The jiggle counter of local_clock() never leaves the hysteresis band, and is
\* never further from zero than the adjustments since its last reset account
\* for: no count is carried over a change of the poll exponent or a step.
CountInBand ==
  /\ cCount \in -LIMIT .. LIMIT
  /\ cCount <= moves * sPoll
  /\ -cCount <= 2 * moves * sPoll

\* local_clock() steps the clock at most once in the life of the client: only
\* the states before the first update step it, the update leaves them for good,
\* and SPIK, the one other state that may step, is never entered.
StepsAtMostOnce ==
  /\ steps <= 1
  /\ cState \in {"NSET", "FSET"} => steps = 0
  /\ cState # "SPIK"

\* In SYNC the frequency that clock_adjust() applies is a number within the
\* tolerance, whatever c.freq was before the first update.  Only the frequency
\* measurement of FREQ can make it the NaN, which it then stays, or an infinity,
\* and then the square root in local_clock() never returns and the task is lost.
SyncFreqInTolerance ==
  /\ cState = "SYNC" => cFreq \in -MAXFREQ .. MAXFREQ
  /\ cFreq = NaN \/ status = "hung" => cState = "FREQ"

\* The update time never runs backwards, although clock_select() may hop to a
\* peer whose last sample is older than the one last used.
UpdateTimeMonotone == [][sT' >= sT]_vars

\* NTP_vfo.c:53-54, in SYNC the first outlier switches to SPIK.
FirstOutlierSpikes ==
  [][used' # used /\ cState = "SYNC" /\ Outlier(used'[3]) /\ rval' # "PANIC"
       => cState' = "SPIK"]_vars

\* SYNC is absorbing: no later outlier, however long it lasts, takes the
\* client back to a state in which it could step or measure the frequency.
SyncForever == [][cState = "SYNC" => cState' = "SYNC"]_vars

\* Below half the Allan intercept a synchronized client never changes its
\* frequency: the FLL is off and the PLL integrates over a zero interval.
FreqFrozenAtShortPoll ==
  [][cState = "SYNC" /\ sPoll < FLLPOLL => cFreq' = cFreq]_vars

\* A change of the poll exponent is earned: LIMIT is only passed after enough
\* poll adjustments in one direction since the counter was last zeroed.
PollChangeIsEarned ==
  [][/\ sPoll' = sPoll + 1 => (moves + 1) * sPoll > LIMIT
     /\ sPoll' = sPoll - 1 /\ rval' # "STEP" => (moves + 1) * 2 * sPoll > LIMIT
     /\ Abs(sPoll' - sPoll) > 1 => rval' = "STEP"]_vars

\* local_clock() changes the process time and the poll exponent only as the poll
\* process expects of it: by a second and by one at a time, or back to MINPOLL.
Host == INSTANCE HostClock
ImplementsHostClock == Host!Spec
============================================================================
