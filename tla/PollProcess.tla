---------------------------- MODULE PollProcess ----------------------------
(***************************************************************************)
(* The poll process: poll() and poll_update() of NTP_poll.c, the part of   *)
(* packet() that reschedules, clear(), and the loops of vNTPTask() and     *)
(* clock_adjust() that visit the associations 1 .. NMAX in turn.  All time *)
(* here is the process time c.t.  The clock filter is reduced to what it   *)
(* can do to the schedule.                                                 *)
(***************************************************************************)
EXTENDS Integers

CONSTANTS
  NMAX,
  MINPOLL, MAXPOLL,
  Interval,   \* 1 << n, the interval of a poll exponent
  PeerPolls,  \* poll exponents that replies announce
  UNREACH,
  INTBITS,    \* width of the reach register, an int
  WORD,       \* 2^32, one more than the greatest uint32_t
  Gap,        \* the 5 seconds of the stagger in poll_update()
  MaxT        \* bound on process time, for model checking

ASSUME PollAssumption ==
  /\ MINPOLL \in Nat /\ MAXPOLL \in Nat /\ MINPOLL <= MAXPOLL
  /\ Interval \in [0 .. MAXPOLL -> Nat \ {0}]
  /\ \A i, j \in 0 .. MAXPOLL : i <= j => Interval[i] <= Interval[j]
  /\ PeerPolls \subseteq Nat
ASSUME SizeAssumption ==
  /\ NMAX \in Nat \ {0} /\ UNREACH \in Nat /\ Gap \in Nat
  /\ INTBITS \in Nat /\ 3 <= INTBITS
  /\ WORD \in Nat \ {0} /\ MaxT \in Nat \ {0, 1}

Peers == 1 .. NMAX

VARIABLES
  cT,                \* c.t
  sPoll,             \* s.poll
  reach,             \* lowest bit set in the reach register, INTBITS if none is
  unreach, hpoll, ppoll, outdate, nextdate,
  last_nextdate,     \* the static variable of poll_update()
  pc, at,            \* where vNTPTask() is, and the association it visits
  stopped,           \* the task has exited, hung or faulted
  scheduled, lost, polledAt  \* history: peers that poll_update() has scheduled,
                             \* polls since each peer was last reachable, and
                             \* the value of c.t at its last poll

assoc   == <<reach, unreach, hpoll, ppoll, outdate, nextdate>>
history == <<scheduled, lost, polledAt>>
vars    == <<cT, sPoll, assoc, last_nextdate, pc, at, stopped, history>>

----------------------------------------------------------------------------
MinOf(x, y) == IF x < y THEN x ELSE y
MaxOf(x, y) == IF x < y THEN y ELSE x

\* A value stored in an int (an addition that overflows wraps, as the add
\* instruction of the build does), and an int taken for a uint32_t.
ToInt(x) == LET u == x % WORD IN IF 2 * u < WORD THEN u ELSE u - WORD
ToUnsigned(n) == n % WORD

\* c_t_low >= assoc->nextdate compares unsigned; p->nextdate <= c.t compares
\* 64 bits wide, where a negative nextdate is beyond any c.t.
DueExactly(p) == ToUnsigned(cT) = ToUnsigned(nextdate[p])
Due(p) == ToUnsigned(cT) >= ToUnsigned(nextdate[p])
Passed(n, t) == 0 <= n /\ n <= t

Clamped(poll) == MaxOf(MinOf(MAXPOLL, poll), MINPOLL)

\* Six calls of poll_update() are staggered, each by Gap more than the one
\* before; a date that has passed is moved to the next second.
MaxStagger == Gap * NMAX
StaggerAlways == TRUE
Staggering == last_nextdate <= MaxStagger

InFuture(date, t) == IF Passed(date, t) THEN ToInt(t + 1) ELSE date

NextDateStaggered(out, pp, hp, t) ==
  LET due == ToInt(out + Interval[MaxOf(MinOf(pp, hp), MINPOLL)])
  IN  InFuture(ToInt(due + last_nextdate), t)
NextDateUnfloored(out, pp, hp, t) ==
  LET due == ToInt(out + Interval[MinOf(pp, hp)])
  IN  InFuture(IF Staggering THEN ToInt(due + last_nextdate) ELSE due, t)
NextDate(out, pp, hp, t) ==
  LET due == ToInt(out + Interval[MaxOf(MinOf(pp, hp), MINPOLL)])
  IN  InFuture(IF Staggering THEN ToInt(due + last_nextdate) ELSE due, t)

poll_update(p, poll, out, pp, t) ==
  /\ hpoll' = [hpoll EXCEPT ![p] = Clamped(poll)]
  /\ nextdate' = [nextdate EXCEPT ![p] = NextDate(out, pp, Clamped(poll), t)]
  /\ last_nextdate' = IF Staggering THEN last_nextdate + Gap ELSE last_nextdate
  /\ scheduled' = scheduled \union {p}

\* clock_filter() may reach local_clock(), which moves s.poll and c.t as the
\* clock discipline promises.
Host == INSTANCE HostClock
clock_filter == Host!clock_filter /\ cT' <= MaxT

----------------------------------------------------------------------------
(* poll(p) when it is due.                                                 *)

Shifted(p) == MinOf(reach[p] + 1, INTBITS)

BackOffAtOnce(p) ==
  /\ unreach' = [unreach EXCEPT ![p] = @ + 1]
  /\ lost' = [lost EXCEPT ![p] = @ + 1]
  /\ poll_update(p, hpoll[p] + 1, ToInt(cT), ppoll[p], cT')

Unreachable(p) ==
  /\ unreach' = [unreach EXCEPT ![p] = IF @ < UNREACH THEN @ + 2 ELSE @ + 1]
  /\ lost' = [lost EXCEPT ![p] = @ + 1]
  /\ poll_update(p, IF unreach[p] < UNREACH THEN hpoll[p] ELSE hpoll[p] + 1,
                 ToInt(cT), ppoll[p], cT')

\* s.poll is read after the clock filter has seen the missing replies.
Reachable(p) ==
  /\ unreach' = [unreach EXCEPT ![p] = 0]
  /\ lost' = [lost EXCEPT ![p] = 0]
  /\ poll_update(p, sPoll', ToInt(cT), ppoll[p], cT')

poll(p) ==
  /\ pc = "poll" /\ at = p /\ ~stopped
  /\ Due(p)
  /\ outdate' = [outdate EXCEPT ![p] = ToInt(cT)]
  /\ polledAt' = [polledAt EXCEPT ![p] = cT]
  /\ reach' = [reach EXCEPT ![p] = Shifted(p)]
  /\ IF Shifted(p) >= 3 THEN clock_filter ELSE UNCHANGED <<cT, sPoll>>
  /\ IF Shifted(p) = INTBITS THEN Unreachable(p) ELSE Reachable(p)
  /\ pc' = "reply"
  /\ UNCHANGED <<ppoll, at, stopped>>

\* The next association of the loop, or its end.
Advance(loop) ==
  IF at < NMAX THEN pc' = loop /\ at' = at + 1
  ELSE pc' = "delay" /\ at' = 1

NotDue(p) ==
  /\ pc = "poll" /\ at = p /\ ~stopped
  /\ ~Due(p)
  /\ Advance("poll")
  /\ UNCHANGED <<cT, sPoll, assoc, last_nextdate, stopped, history>>

----------------------------------------------------------------------------
(* recv_packet() and receive(), after poll(p) or in the first loop.        *)

Received(p) ==
  /\ pc \in {"sync", "reply"} /\ at = p /\ ~stopped
  /\ Advance(IF pc = "sync" THEN "sync" ELSE "poll")

\* packet() accepts the reply and its poll exponent.
Accepted(p, pp) ==
  /\ Received(p)
  /\ ppoll' = [ppoll EXCEPT ![p] = pp]
  /\ poll_update(p, hpoll[p], outdate[p], pp, cT)
  /\ reach' = [reach EXCEPT ![p] = 0]
  /\ clock_filter
  /\ UNCHANGED <<unreach, outdate, stopped, lost, polledAt>>

\* packet() takes over the header and returns before poll_update().
Discarded(p, pp) ==
  /\ Received(p)
  /\ ppoll' = [ppoll EXCEPT ![p] = pp]
  /\ UNCHANGED <<cT, sPoll, reach, unreach, hpoll, outdate, nextdate, last_nextdate,
                 stopped, history>>

\* The reply fails a test of receive(), or none comes before the timeout.
Ignored(p) ==
  /\ Received(p)
  /\ UNCHANGED <<cT, sPoll, assoc, last_nextdate, stopped, history>>

\* The task is lost: without a reply receive() reads a null association, and the
\* clock filter may end in exit() or in a square root of an infinity.
Lost(p) ==
  /\ at = p /\ ~stopped
  /\ \/ pc \in {"sync", "reply"}
     \/ pc = "poll" /\ Due(p) /\ Shifted(p) >= 3
  /\ stopped' = TRUE
  /\ UNCHANGED <<cT, sPoll, assoc, last_nextdate, pc, at, history>>

\* vTaskDelay() of 100 ms and the head of clock_adjust().
clock_adjust ==
  /\ pc = "delay" /\ ~stopped /\ cT < MaxT
  /\ cT' = cT + 1
  /\ pc' = "poll"
  /\ UNCHANGED <<sPoll, assoc, last_nextdate, at, stopped, history>>

\* clear() with the random first poll, once rstclock() has advanced c.t to 1;
\* settime() then advances it to 2.
Init ==
  /\ cT = 2 /\ sPoll = MINPOLL
  /\ reach = [p \in Peers |-> INTBITS]
  /\ unreach = [p \in Peers |-> 0]
  /\ hpoll = [p \in Peers |-> MINPOLL]
  /\ ppoll = [p \in Peers |-> MAXPOLL]
  /\ outdate = [p \in Peers |-> 1]
  /\ nextdate \in [Peers -> 1 .. Interval[MINPOLL]]
  /\ last_nextdate = 0
  /\ pc = "sync" /\ at = 1 /\ stopped = FALSE
  /\ scheduled = {} /\ lost = [p \in Peers |-> 0]
  /\ polledAt = [p \in Peers |-> 1]

Next ==
  \/ clock_adjust
  \/ \E p \in Peers :
       \/ poll(p) \/ NotDue(p) \/ Ignored(p) \/ Lost(p)
       \/ \E pp \in PeerPolls : Accepted(p, pp) \/ Discarded(p, pp)

\* The scheduler runs the only task, and recv_packet() returns after a timeout.
Fairness == WF_vars(Next)

Spec == Init /\ [][Next]_vars /\ Fairness
----------------------------------------------------------------------------
(* What the poll process guarantees while every date fits an int.          *)

LastDate == MaxT + Interval[MAXPOLL] + MaxStagger + 1
Horizon == 2 * LastDate < WORD

TypeOK ==
  /\ cT \in 1 .. MaxT /\ sPoll \in MINPOLL .. MAXPOLL
  /\ reach \in [Peers -> 0 .. INTBITS] /\ unreach \in [Peers -> Nat]
  /\ hpoll \in [Peers -> MINPOLL .. MAXPOLL] /\ ppoll \in [Peers -> Nat]
  /\ outdate \in [Peers -> Int] /\ nextdate \in [Peers -> Int]
  /\ last_nextdate \in 0 .. MaxStagger + Gap
  /\ pc \in {"sync", "delay", "poll", "reply"} /\ at \in Peers
  /\ stopped \in BOOLEAN
  /\ scheduled \subseteq Peers /\ lost \in [Peers -> Nat]
  /\ polledAt \in [Peers -> Nat]

\* Once poll_update() has scheduled a peer, two polls of it are never closer
\* than the least interval, whatever exponent the replies announce and however
\* often packet() reschedules in between.
\* NTP_poll.c:153-155 says the same without the horizon.
PollSpacing ==
  [][\A p \in scheduled : polledAt'[p] # polledAt[p] =>
       polledAt'[p] >= polledAt[p] + Interval[MINPOLL]]_vars

\* No poll is put off beyond the peer's own host interval and the stagger of a
\* table of NMAX peers, or the second that follows a date that has passed.
NextPollBounded ==
  \A p \in Peers : \/ nextdate[p] <= outdate[p] + Interval[hpoll[p]] + MaxStagger
                   \/ nextdate[p] <= cT + 1

\* When the loop of clock_adjust() is done no association has been due for
\* longer than the loop itself can have advanced c.t after its visit, twice for
\* each later one.  A table of one peer may start as overdue as settime() left it.
TurnTicks == MaxOf(2 * NMAX - 2, 1)
NobodyOverdue ==
  pc = "delay" => \A p \in Peers : cT <= nextdate[p] + TurnTicks

\* The interval of an unreachable server backs off only after the polls that
\* the threshold asks for.
BackOffIsEarned ==
  [][\A p \in Peers : reach[p] = INTBITS /\ hpoll'[p] > hpoll[p] /\ reach'[p] = INTBITS
       => 2 * lost[p] >= UNREACH]_vars

\* Every due date passes: the peer is polled or rescheduled, or the task is lost.
\* The last dates before the bound are left out.
DueDatePasses ==
  \A p \in Peers : \A d \in 1 .. MaxT - 2 * NMAX :
     nextdate[p] = d ~> nextdate[p] # d \/ stopped
============================================================================
