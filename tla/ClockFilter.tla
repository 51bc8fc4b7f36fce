----------------------------- MODULE ClockFilter ----------------------------
(***************************************************************************)
(* The clock filter of one association: packet(), clock_filter() and       *)
(* clear() of NTP_peer.c with the part of poll() that reports a missing    *)
(* reply, and root_dist(), by which the selection judges the association.  *)
(* Offsets, delays, dispersions and the jitter count units, UNIT of them   *)
(* to the second; the dispersion of the association counts 256ths of one.  *)
(* What the process time adds to a dispersion, PHI / 2^32 a second, is 0.  *)
(***************************************************************************)
EXTENDS Integers

CONSTANTS
  UNIT,
  Short,        \* the 2^-16 s of a packet header in a unit
  MAXDISP,      \* 16 s, and as clear() has it MAXDISPAlg, half a second
  MAXDISPAlg,
  MAXDIST, Wander,   \* the distance threshold, and PHI times the longest poll
  MINDISP,      \* least delay in the root distance
  PREC,         \* LOG2D(s.precision)
  SGATE,
  Polls,        \* the exponents s.poll may have
  Replies,      \* replies of the server
  MaxT          \* bound on process time, for model checking

ASSUME UnitAssumption ==
  /\ UNIT \in Nat \ {0} /\ Short \in Nat \ {0} /\ PREC \in Nat /\ MINDISP \in Nat
ASSUME DispersionAssumption ==
  /\ MAXDISP \in Nat /\ MAXDISPAlg \in Nat /\ MAXDIST \in Nat /\ Wander \in Nat
  /\ MAXDISP > 2 * (MAXDIST + Wander)
ASSUME GateAssumption == SGATE \in Nat \ {0} /\ Polls \subseteq Nat
ASSUME ReplyAssumption ==
  Replies \subseteq [valid : BOOLEAN, rootdelay : Nat, rootdisp : Nat,
                     offset : Int, delay : Nat, disp : Nat]
ASSUME BoundAssumption == MaxT \in Nat \ {0}

Stages == 0 .. 7
Stage  == [offset : Int, delay : Nat, disp : Nat]

VARIABLES
  cT,                 \* c.t
  synced,             \* s.leap # NOSYNC
  t, f, offset, delay, disp, jitter,   \* p->t, p->f, ...
  valid, rootdelay, rootdisp,          \* the last header
  reach,              \* polls since the rightmost bit of p->reach was set, 3 at most
  pc,                 \* "idle", or a reply may come in
  samples, selections, missed  \* history: calls of clock_filter() and of
                               \* clock_select() from it, a missing reply reported

filter  == <<t, f, offset, delay, disp, jitter>>
header  == <<valid, rootdelay, rootdisp>>
vars    == <<cT, synced, filter, header, reach, pc, samples, selections, missed>>

----------------------------------------------------------------------------
MaxOf(x, y) == IF x < y THEN y ELSE x
Abs(x) == IF x < 0 THEN -x ELSE x
Sq(x) == x * x

\* sqrt(), rounded down to a unit.
Roots(n) == {r \in 0 .. n : Sq(r) <= n /\ n < Sq(r + 1)}

\* The loop copies f[i-1] to f[i] for ascending i, so that every stage but the
\* first ends with what the first one held.
ShiftEach(g, new) == [i \in Stages |-> IF i = 0 THEN new ELSE g[i - 1]]
Shift(g, new) == [i \in Stages |-> IF i = 0 THEN new ELSE g[0]]

\* The sum of f[i].disp / 2^(i+1), in 256ths.
Weighted(g) ==
  128 * g[0].disp + 64 * g[1].disp + 32 * g[2].disp + 16 * g[3].disp
  + 8 * g[4].disp + 4 * g[5].disp + 2 * g[6].disp + g[7].disp

Spread(g) ==
  LET d(i) == Sq(g[i].offset - g[0].offset)
  IN  d(0) + d(1) + d(2) + d(3) + d(4) + d(5) + d(6) + d(7)

\* p->disp and p->jitter are sums that nothing resets, and the old jitter is
\* under the root as it is, not squared.
NewDispersion(g) == Weighted(g)
AddDispersion(g) == disp + Weighted(g)
JitterAfresh(g) == {MaxOf(r, PREC) : r \in Roots(Spread(g))}
Jitter(g) == {MaxOf(r, PREC) : r \in Roots(UNIT * jitter + Spread(g))}

\* The prime directive, and the popcorn spike suppressor, which compares
\* seconds with twice the exponent of the poll interval.
StaleIfOlder == cT < t /\ synced
Stale == cT <= t /\ synced
SpikeGate(new, j, poll) ==
  Abs(new - offset) > SGATE * jitter /\ cT - t < 2 * poll
Spike(new, j, poll) ==
  Abs(new - offset) > SGATE * j /\ cT - t < 2 * poll

\* clock_select() may synchronize the system, or lose that again (it keeps a
\* system peer whose last header may be unsynchronized); rstclock() advances c.t.
clock_select ==
  /\ selections' = selections + 1
  /\ synced' \in BOOLEAN
  /\ cT' \in {cT, cT + 1}

clock_filter(new) ==
  /\ f' = Shift(f, new)
  /\ offset' = new.offset /\ delay' = new.delay
  /\ disp' = AddDispersion(f')
  /\ jitter' \in Jitter(f')
  /\ samples' = samples + 1
  /\ \E poll \in Polls :
       IF Stale \/ Spike(new.offset, jitter', poll)
       THEN UNCHANGED <<cT, synced, t, selections>>
       ELSE t' = cT /\ clock_select

----------------------------------------------------------------------------
\* poll(): the third poll without a reply, and every one after it, is entered
\* as a sample at no offset and no delay.
ShiftUnbounded == reach + 1
Shifted == IF reach < 3 THEN reach + 1 ELSE 3

Silent == reach >= 2
poll ==
  /\ pc = "idle"
  /\ reach' = Shifted
  /\ pc' = "reply"
  /\ IF Silent
     THEN /\ clock_filter([offset |-> 0, delay |-> 0, disp |-> MAXDISP])
          /\ missed' = TRUE
     ELSE UNCHANGED <<cT, synced, filter, samples, selections, missed>>
  /\ UNCHANGED header

\* packet(): the header is taken over before it is tested, and the test takes
\* its 2^-16 s for seconds.
TakeHeader(r) ==
  /\ valid' = r.valid
  /\ rootdelay' = r.rootdelay \div Short /\ rootdisp' = r.rootdisp \div Short

HeaderFits(r) == r.valid /\ r.rootdelay \div 2 + r.rootdisp < 16

packet(r) ==
  /\ pc = "reply" /\ HeaderFits(r)
  /\ TakeHeader(r)
  /\ reach' = 0 /\ pc' = "done"
  /\ clock_filter([offset |-> r.offset, delay |-> r.delay, disp |-> r.disp])
  /\ UNCHANGED missed

Discard(r) ==
  /\ pc = "reply" /\ ~HeaderFits(r)
  /\ TakeHeader(r)
  /\ pc' = "done"
  /\ UNCHANGED <<cT, synced, filter, reach, samples, selections, missed>>

\* No reply, or one that a test of receive() refuses.
NoReply ==
  /\ pc = "reply" /\ pc' = "done"
  /\ UNCHANGED <<cT, synced, filter, header, reach, samples, selections, missed>>

\* c.t advances; meanwhile samples of other associations may enter clock_select().
clock_adjust ==
  /\ pc \in {"idle", "done"} /\ cT < MaxT
  /\ cT' = cT + 1 /\ pc' = "idle"
  /\ synced' \in BOOLEAN
  /\ UNCHANGED <<filter, header, reach, samples, selections, missed>>

\* clear() of a zeroed association, after rstclock() has set c.t to 1; settime()
\* sets it to 2, and the first request is that of the loop of vNTPTask().
Init ==
  /\ cT = 2 /\ synced \in BOOLEAN
  /\ t = 1
  /\ f = [i \in Stages |-> [offset |-> 0, delay |-> 0, disp |-> MAXDISPAlg]]
  /\ offset = 0 /\ delay = 0
  /\ disp = 256 * MAXDISPAlg /\ jitter = PREC
  /\ valid = FALSE /\ rootdelay = 0 /\ rootdisp = 0
  /\ reach = 3 /\ pc = "reply"
  /\ samples = 0 /\ selections = 0 /\ missed = FALSE

Next ==
  \/ poll \/ NoReply \/ clock_adjust
  \/ \E r \in Replies : packet(r) \/ Discard(r)

Spec == Init /\ [][Next]_vars
----------------------------------------------------------------------------
TypeOK ==
  /\ cT \in Nat /\ synced \in BOOLEAN
  /\ t \in 1 .. cT /\ f \in [Stages -> Stage] /\ offset \in Int /\ delay \in Nat
  /\ disp \in Nat /\ jitter \in Nat
  /\ valid \in BOOLEAN /\ rootdelay \in Nat /\ rootdisp \in Nat
  /\ reach \in 0 .. 3 /\ pc \in {"idle", "reply", "done"}
  /\ samples \in Nat /\ selections \in 0 .. samples /\ missed \in BOOLEAN

\* The register of eight stages remembers two samples, and the association
\* stands for the newest one however large its delay.
TwoSamplesKept ==
  /\ \A i \in Stages : i # 0 => f[i] = f[1]
  /\ offset = f[0].offset /\ delay = f[0].delay

\* An answer is kept from the selection by nothing but a missing reply that its
\* own poll reported: the prime directive finds no other answer stale, and the spike
\* suppressor never dumps one, because the sample is part of the jitter it is
\* compared with.
EveryAnswerCounts ==
  [][pc = "reply" /\ samples' # samples /\ reach < 3
       => selections' # selections]_vars

\* Quiet offsets do not bring the jitter down: below a second it never falls,
\* and from above it never falls below a second.
JitterRatchets == [][jitter' >= jitter \/ jitter' >= UNIT]_vars

\* root_dist(), in 256ths, against the threshold of fit() at the longest poll.
root_dist ==
  128 * MaxOf(MINDISP, rootdelay + delay) + 256 * rootdisp + disp + 256 * jitter
fit == valid /\ root_dist <= 256 * (MAXDIST + Wander) /\ reach < 3

\* A server of which a missing reply was reported is never fit again, whatever
\* it answers afterwards, because its dispersion only grows.
SilentServerUnfit == missed => ~fit

\* Once the system is synchronized no second of process time brings more than
\* one sample of the association into the selection.
SampleUsedOnce == [][synced /\ selections' # selections => t' > t]_vars

----------------------------------------------------------------------------
(* What the comments of clock_filter() say it does with a sample.          *)

\* NTP_peer.c:138-140, each tuple is shifted and only the leftmost discarded.
TuplesShifted == \A i \in Stages \ {0} : f'[i] = f[i - 1]

\* NTP_peer.c:162-164, the list is sorted by delay and its first entry is the
\* best sample.
BestStands == \A i \in Stages : f'[i].disp < MAXDISPAlg => delay' <= f'[i].delay

\* NTP_peer.c:194-197, a sample whose offset differs from the last one by more
\* than SGATE jitters, within twice the poll interval of it, is dumped.
SpikeDumped ==
  /\ samples > 0 /\ ~missed'
  /\ Abs(offset' - offset) > SGATE * jitter
  /\ \A e \in Polls : cT - t < 2 * e
  => selections' = selections

\* The least that these comments claim together, that every sample has at least one of
\* the three.  Where this fails all of them do.
SomeCommentHolds ==
  [][samples' # samples => TuplesShifted \/ BestStands \/ SpikeDumped]_vars
============================================================================
