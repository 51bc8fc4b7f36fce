--------------------------- MODULE SystemProcess ---------------------------
(***************************************************************************)
(* The system process of NTP_system_process.c: clock_select() with its     *)
(* cull(), intersection() and clustering, and the system variables that    *)
(* clock_update() sets, over associations whose samples arrive in any      *)
(* order.  Offsets and root distances are integers, Second of them to the  *)
(* second.  No two associations have the same address, so the entry that   *)
(* assoc_table_update() finds for p is p.                                  *)
(***************************************************************************)
EXTENDS Integers, Sequences, FiniteSets, FiniteSetsExt, SequencesExt

CONSTANTS
  Peers,
  NULL,
  Samples,  \* what the header and the clock filter may leave in an association
  NoRef,    \* reference id 0: p->dstaddr, and s.refid after the memset
  Second,
  MAXDIST, MAXSTRAT, NSANE, NMIN,
  MaxPackets  \* bound on the packets of a run, for model checking

ASSUME PeersAssumption == IsFiniteSet(Peers) /\ NULL \notin Peers
ASSUME BoundsAssumption ==
  Second \in Nat \ {0} /\ MAXDIST \in Nat \ {0} /\ MAXSTRAT \in Nat \ {0} /\ NSANE = 1
  /\ NMIN \in Nat /\ MaxPackets \in Nat

\* root_dist() is at least MINDISP / 2, packet() maps stratum 0 to MAXSTRAT and
\* sets the reach register before the clock filter runs.
ASSUME SamplesAssumption ==
  \A a \in Samples :
     a \in [offset : Int, dist : Nat \ {0}, jitter : Nat, stratum : Nat \ {0},
           refid : {a.refid}, synced : BOOLEAN, reached : {TRUE}]

\* An association after clear(): synced is leap # NOSYNC, reached is reach # 0.
Cleared == [offset |-> 0, dist |-> MAXDIST, jitter |-> 1, stratum |-> MAXSTRAT,
            refid |-> NoRef, synced |-> FALSE, reached |-> FALSE]

VARIABLES
  att,                      \* the association of each peer
  sP, sV, sN,               \* s.p, the array s.v up to its first NULL, s.n
  sRefid,
  seen, fits, found,        \* history: the associations, the fit peers and the
                            \* survivors of the last selection
  heard,                    \* history: peers whose packet() has accepted a packet
  packets                   \* packets, or missing ones, so far

sys  == <<sP, sV, sN, sRefid>>
vars == <<att, sys, seen, fits, found, heard, packets>>

----------------------------------------------------------------------------
(* fit(p) for an association a.                                            *)
LoopError(a) == a.stratum # 1 /\ a.refid \in {NoRef, sRefid}

fit(a) ==
  /\ a.synced /\ a.stratum < MAXSTRAT
  /\ a.dist <= MAXDIST
  /\ ~LoopError(a)
  /\ a.reached

----------------------------------------------------------------------------
(* cull(): the chime list.  qsort() leaves entries of equal edge in any    *)
(* order: the next entry is any of the least of those still to place.      *)
Chimes(A, p) ==
  {[p |-> p, type |-> k, edge |-> A[p].offset + k * A[p].dist] : k \in {-1, 0, 1}}

cull(A, F) ==
  LET entries == UNION {Chimes(A, p) : p \in F}
      Least(E) == {e \in E : \A x \in E : e.edge <= x.edge}
      Sorted[k \in 0 .. Cardinality(entries)] ==
        IF k = 0 THEN {<<>>}
        ELSE UNION {{Append(m, e) : e \in Least(entries \ Range(m))} : m \in Sorted[k - 1]}
  IN  Sorted[Cardinality(entries)]

\* intersection(): both scans run upwards.  The count chime of the first falls
\* at the first upper edge; that of the second repeats at the first midpoint,
\* and the entry before it gives the lower end.
FirstOf(m, k) == Min({i \in DOMAIN m : m[i].type = k})

HighAtLower(m) == m[FirstOf(m, -1)].edge
HighLast(m) == m[Len(m)].edge
High(m) == m[FirstOf(m, 1)].edge

LowLast(m) == m[Max({i \in DOMAIN m : m[i].type = 0}) - 1].edge
Low(m) == m[FirstOf(m, 0) - 1].edge

Survivors(m) ==
  LET low == Low(m)  high == High(m)
      Kept[i \in 0 .. Len(m)] ==
        IF i = 0 THEN <<>>
        ELSE Kept[i - 1] \o
             IF low <= m[i].edge /\ m[i].edge <= high THEN <<m[i]>> ELSE <<>>
  IN  Kept[Len(m)]

\* The survivors overwrite the front of s.v; what lies behind them stays.
OverwriteAppend(v, s) == v \o s
Overwrite(v, s) == s \o SubSeq(v, Len(s) + 1, Len(v))

\* The clustering loop.  SQUARE(p->offset - q->offset) expands to
\* p->offset - q->offset * p->offset - q->offset, here summed over q; the sum
\* runs over the n entries of the chime list, not the s.n survivors, so it reads
\* old entries of s.v and, behind them, the null pointer, whose offset is zero.
OffsetSum(A, v, n) ==
  SumFunction([j \in 1 .. n |-> IF j <= Len(v) THEN A[v[j]].offset ELSE 0])

SelectionJitter(o, n, sum) == n * o * Second - sum * o - sum * Second

Square(x) == x * x

\* Only the counter s.n is decremented, until the greatest selection jitter is
\* below the least peer jitter; n never changes.
Clustered(A, v, n, k) ==
  LET sum == OffsetSum(A, v, n)
      Settled(i) == \A p, q \in {v[j] : j \in 1 .. i} :
                       SelectionJitter(A[p].offset, n, sum) < Square(A[q].jitter)
  IN  IF n <= NMIN THEN k ELSE Max({i \in 0 .. k : Settled(i)})

\* Without a system peer the code reads the stratum through a null pointer,
\* which in this image is zero.
StratumOf(A, p) == IF p = NULL THEN 0 ELSE A[p].stratum

SystemPeerAlways(A, v, osys) == IF osys # NULL THEN osys ELSE v[1]
SystemPeer(A, v, osys) ==
  IF StratumOf(A, osys) = A[v[1]].stratum THEN osys ELSE v[1]

\* clock_update() takes over the reference id of the system peer when
\* local_clock() slews, and not on an old sample, a step or IGNORE.
clock_update(a) == sRefid' \in {sRefid, a.refid}

\* clock_select() after intersection() has left the survivors s of n chimes.
SelectAmong(A, F, s, n) ==
  LET k == Len(s)
      v == Overwrite(sV, [i \in 1 .. k |-> s[i].p])
      p == SystemPeer(A, v, sP)
  IN  /\ seen' = A /\ fits' = F
      /\ found' = {s[i].p : i \in 1 .. k}
      /\ sV' = v
      /\ IF k < NSANE
         THEN sP' = NULL /\ sN' = k /\ UNCHANGED sRefid
         ELSE sP' = p /\ sN' = Clustered(A, v, n, k) /\ clock_update(A[p])

clock_select(A) ==
  LET F == {p \in Peers : fit(A[p])}
  IN  \E m \in cull(A, F) :
        \E s \in {IF m = <<>> THEN <<>> ELSE Survivors(m)} : SelectAmong(A, F, s, Len(m))

\* clock_filter() has changed the association before it drops an old sample or
\* a spike; any other ends in a selection.  ClockFilter tells which is which.
clock_filter(A) == clock_select(A) \/ UNCHANGED <<sys, seen, fits, found>>

----------------------------------------------------------------------------
Init ==
  /\ att = [p \in Peers |-> Cleared]
  /\ sP = NULL /\ sV = <<>> /\ sN = 0
  /\ sRefid = NoRef
  /\ seen = att /\ fits = {} /\ found = {} /\ heard = {} /\ packets = 0

\* packet() takes over the header of p and brings a sample of it.
Sample(p, a) ==
  /\ packets < MaxPackets /\ packets' = packets + 1
  /\ att' = [att EXCEPT ![p] = a]
  /\ clock_filter(att')
  /\ heard' = heard \union {p}

\* packet() takes over the header of a server that is unsynchronized, or whose
\* root distance it rejects, and returns before the clock filter.
Discarded(p, header) ==
  /\ packets < MaxPackets /\ packets' = packets + 1
  /\ att' = [att EXCEPT ![p] = [header EXCEPT !.offset = att[p].offset,
                                              !.jitter = att[p].jitter,
                                              !.reached = att[p].reached]]
  /\ UNCHANGED <<sys, seen, fits, found, heard>>

\* poll() shifts the reach register, which may end empty, and enters a missing
\* reply as a sample at no offset, whose dispersion puts p beyond the distance
\* threshold.  Later samples of p may be fit here, which SilentServerUnfit of ClockFilter rules out.
Missing(p) ==
  /\ packets < MaxPackets /\ packets' = packets + 1
  /\ \E r \in {att[p].reached, FALSE} :
       att' = [att EXCEPT ![p].offset = 0, ![p].dist = MAXDIST + 1, ![p].reached = r]
  /\ clock_filter(att')
  /\ UNCHANGED heard

Next ==
  \E p \in Peers :
     \/ Missing(p)
     \/ \E a \in Samples : Sample(p, a)
     \/ \E header \in Samples \union {Cleared} : Discarded(p, header)

Spec == Init /\ [][Next]_vars

----------------------------------------------------------------------------
(* What a selection guarantees.                                            *)

TypeOK ==
  /\ \A p \in Peers : att[p].offset \in Int /\ att[p].stratum \in Nat \ {0}
  /\ \A p \in Peers : ~att[p].reached => att[p].offset = 0
  /\ sP \in Peers \union {NULL} /\ sV \in Seq(Peers) /\ sN \in Nat
  /\ Len(sV) <= 3 * Cardinality(Peers) /\ sN <= Len(sV)
  /\ sRefid \in {NoRef} \union {a.refid : a \in Samples}
  /\ fits \subseteq Peers /\ found \subseteq fits /\ heard \subseteq Peers
  /\ packets \in 0 .. MaxPackets

\* Edges of the correctness interval of p.
Lower(p) == seen[p].offset - seen[p].dist
Upper(p) == seen[p].offset + seen[p].dist

\* clock_select() has a system peer exactly when some peer is fit: whatever the
\* intervals, intersection() leaves a range with an edge of some peer in it.
SelectsIffFit == sP # NULL <=> fits # {}

\* The survivors of clock_select() agree: there is a point that the correctness
\* intervals of all of them contain.
SurvivorsIntersect ==
  found # {} => \E q \in found : \A p \in found : Lower(p) <= Upper(q) /\ Upper(q) <= Upper(p)

\* The fit peer of the least offset always survives, however many peers
\* contradict it.
EarliestSurvives ==
  \A p \in fits : (\A q \in fits : seen[p].offset <= seen[q].offset) => p \in found

\* An old system peer that clock_select() keeps without looking for it among
\* the survivors is at least of the stratum of the first of them, a stratum one
\* may follow, and a packet of it has been accepted: so much the discipline
\* takes for granted.
KeptPeerSharesStratum ==
  sP # NULL => /\ seen[sP].stratum = seen[sV[1]].stratum
               /\ seen[sP].stratum < MAXSTRAT
               /\ sP \in heard

----------------------------------------------------------------------------
(* What the comments of the code say, and the code does not do.            *)

\* NTP_system_process.c:28, only the truechimers are left: no peer outside a
\* majority that agrees survives when its interval meets none of theirs.
FalsetickersCulled ==
  \A Q \in SUBSET fits :
     /\ 2 * Cardinality(Q) > Cardinality(fits)
     /\ \A p, q \in Q : Lower(p) <= Upper(q)
     /\ \A p \in Q, q \in fits \ Q : Lower(p) > Upper(q) \/ Lower(q) > Upper(p)
     => found \subseteq Q
============================================================================
