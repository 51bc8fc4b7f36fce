------------------------------ MODULE Exchange -----------------------------
(***************************************************************************)
(* The exchange of packets with the servers: xmit_packet(), recv_packet(), *)
(* the association table, the tests of receive() and the local clock they  *)
(* read and set, in the order in which vNTPTask() calls them: one exchange *)
(* to set the clock, one with every server, then those of the poll loop.   *)
(* Servers keep true time, Base ahead of the tick count of the client; a   *)
(* timestamp is a number of ticks, SECOND of them to the second.           *)
(***************************************************************************)
EXTENDS Integers, Sequences, FiniteSetsExt

CONSTANTS
  NMAX,
  SECOND,      \* ticks in a second
  SMALL,       \* ticks that gettime(0) ignores
  TIMEOUT,     \* ticks that FreeRTOS_recvfrom() waits
  Base,        \* the time of the servers at tick 0
  EPOCH,       \* 1 January 1970, which receive() takes for a zero timestamp: a
               \* client that counts from 0 is before it, the servers are after it
  Unreliable,  \* the network delays replies beyond the timeout and repeats them
  MaxT, MaxRequests, \* bounds on ticks and requests, for model checking
  MaxCorrection      \* bound on the corrections of the clock between two replies

ASSUME SizeAssumption ==
  /\ NMAX \in Nat \ {0} /\ SECOND \in Nat \ {0} /\ SMALL \in Nat \ {0}
  /\ TIMEOUT \in Nat \ {0} /\ SMALL <= TIMEOUT
ASSUME BoundAssumption == MaxT \in Nat /\ MaxRequests \in Nat
ASSUME TimeAssumption ==
  /\ Base \in Nat /\ MaxCorrection \in Nat /\ SECOND <= MaxCorrection + 1
  /\ EPOCH \in MaxT + MaxCorrection + 1 .. Base - MaxCorrection - 1
  /\ Unreliable \in BOOLEAN

Peers == 1 .. NMAX

VARIABLES
  now,              \* the tick count
  localTime, lastTick,  \* c.localTime, c.lastTimeStampTick
  xmt,              \* p->xmt of each association
  resolved,         \* hosts that DNS resolved before the client gave up
  phase, at,        \* the part of vNTPTask(), and the host its first loop visits
  pc, timer,        \* "idle" until timer at least, "waiting" until timer at most
  n, asked,         \* requests so far, and the host of the last one
  requests, replies, inbox,   \* datagrams on the wire and in the socket
  accepted, heard,  \* history: the accepted replies; whether any reply was read;
  corrected         \* what adjust_time() and step_time() have done to c.localTime
                    \* since a reply last set it

clock   == <<localTime, lastTick, corrected>>
task    == <<phase, at, pc, timer>>
network == <<requests, replies, inbox>>
vars    == <<now, clock, xmt, resolved, task, n, asked, network, accepted, heard>>

----------------------------------------------------------------------------
(* Addresses.  An unresolved host has address 0, and then the port of the  *)
(* destination is not set either, so that no request reaches a server.     *)

Address(p) == IF p <= resolved THEN p ELSE 0
Reachable  == resolved = NMAX

\* find_assoc() and assoc_table_add() take the first association with the
\* address; every association has the mode of the client.
FirstMatches(addr) == Peers
Matches(addr) == {p \in Peers : Address(p) = addr}
find_assoc(addr) == Min(Matches(addr))
KeepsEntry(addr, t) == UNCHANGED xmt
assoc_table_add(addr, t) == xmt' = [xmt EXCEPT ![find_assoc(addr)] = t]

\* gettime(override)
Elapsed == now - lastTick
Skipped(override) == Elapsed < SMALL /\ ~override
TimeAfter(override) == IF Skipped(override) THEN localTime ELSE localTime + Elapsed
TickAfter(override) == IF Skipped(override) THEN lastTick ELSE now

----------------------------------------------------------------------------
(* xmit_packet(), reached from prep_xmit() or peer_xmit().  The time that  *)
(* peer_xmit() puts in p->xmt is overwritten by assoc_table_add().         *)

Sends(p) ==
  CASE phase = "start" -> p = 1
    [] phase = "sync" -> p = at
    [] phase = "poll" -> p \in Peers

xmit_packet(p) ==
  /\ pc = "idle" /\ timer <= now /\ Sends(p)
  /\ n < MaxRequests /\ now + TIMEOUT <= MaxT
  /\ localTime' = TimeAfter(phase # "poll") /\ lastTick' = TickAfter(phase # "poll")
  /\ assoc_table_add(Address(p), localTime')
  /\ n' = n + 1 /\ asked' = p
  /\ requests' = IF Reachable
                 THEN requests \union {[req |-> n', from |-> p, org |-> localTime']}
                 ELSE requests
  /\ pc' = "waiting" /\ timer' = now + TIMEOUT
  /\ UNCHANGED <<now, resolved, phase, at, replies, inbox, accepted, heard, corrected>>

----------------------------------------------------------------------------
(* The tests of receive() on a datagram d that recv_packet() attributes to *)
(* the host asked last.  Servers answer in server mode, the one mode that  *)
(* the row of the dispatch table for a client processes.                   *)

Replayed(d, p) == d.xmt = xmt[p]
OriginDiffers(d, p) ==
  /\ d.org \div SECOND # xmt[p] \div SECOND
  /\ d.org % SECOND # xmt[p] % SECOND

Accepts(d, p) ==
  /\ d.xmt # EPOCH
  /\ ~Replayed(d, p)
  /\ d.org # EPOCH /\ ~OriginDiffers(d, p)

\* What vNTPTask() does after an exchange.
PassesLast ==
  /\ pc' = "idle" /\ timer' = now
  /\ phase' = IF phase = "start" THEN "sync" ELSE phase
  /\ at' = IF phase = "sync" THEN at + 1 ELSE at
TriesAgain ==
  /\ pc' = "idle" /\ timer' = now + SECOND
  /\ phase' = IF phase = "start" THEN "sync" ELSE phase
  /\ UNCHANGED at
Proceed ==
  /\ pc' = "idle"
  /\ CASE phase = "start" -> phase' = "sync" /\ at' = 1 /\ timer' = now
       [] phase = "sync"  -> /\ timer' = now + SECOND
                             /\ IF at < NMAX THEN at' = at + 1 /\ UNCHANGED phase
                                ELSE phase' = "poll" /\ UNCHANGED at
       [] phase = "poll"  -> timer' = now /\ UNCHANGED <<phase, at>>

\* adjust_time() and step_time() keep no whole second of their argument, and one
\* adds what is left of it, the other subtracts it.
Fractions == 0 .. SECOND - 1
Steps == {0 - s : s \in Fractions}

\* recv_packet() takes the oldest datagram; c.localTime becomes its receive
\* time, in the first exchange its transmit time.  An accepted one may reach
\* step_time().
SetOnTop(time) == localTime' = time + corrected
SetClock(time) == localTime' = time
Receive ==
  /\ pc = "waiting" /\ inbox # <<>>
  /\ LET d == Head(inbox)  p == find_assoc(Address(asked))
     IN  IF phase = "start"
         THEN SetClock(d.xmt) /\ lastTick' = now /\ UNCHANGED accepted /\ corrected' = 0
         ELSE /\ lastTick' = TickAfter(FALSE)
              /\ IF Accepts(d, p)
                 THEN /\ accepted' = accepted \union {<<d.req, p>>}
                      /\ corrected' \in Steps
                 ELSE UNCHANGED accepted /\ corrected' = 0
              /\ SetClock(d.rec + corrected')
  /\ inbox' = Tail(inbox) /\ heard' = TRUE
  /\ Proceed
  /\ UNCHANGED <<now, xmt, resolved, n, asked, requests, replies>>

\* Without a datagram the packet is all zeros.  The first exchange sets the
\* clock to it.  Otherwise it belongs to the first unresolved host, if there is
\* one, and is discarded for its mode; else receive() reads through a null
\* association, which may go unnoticed or lose the task.
WaitsForever == FALSE
TimedOut == pc = "waiting" /\ inbox = <<>> /\ timer <= now

Forgotten == IF Unreliable THEN UNCHANGED <<requests, replies>>
                           ELSE requests' = {} /\ replies' = {}

NoReply ==
  /\ TimedOut
  /\ IF phase = "start"
     THEN SetClock(0) /\ lastTick' = now /\ UNCHANGED corrected
     ELSE UNCHANGED clock
  /\ Proceed /\ Forgotten
  /\ UNCHANGED <<now, xmt, resolved, n, asked, inbox, accepted, heard>>

NullAssociation ==
  /\ TimedOut /\ phase # "start" /\ Matches(0) = {}
  /\ pc' = "lost" /\ Forgotten
  /\ UNCHANGED <<now, clock, xmt, resolved, phase, at, timer, n, asked, inbox,
                 accepted, heard>>

\* A turn of the poll loop: adjust_time(), and in poll() a missing reply whose
\* report may end in step_time().  That takes a survivor, hence an earlier reply.
clock_adjust ==
  /\ phase = "poll" /\ pc = "idle" /\ timer <= now
  /\ \E a \in Fractions, s \in IF heard THEN Steps ELSE {0} :
        /\ localTime' = localTime + a + s
        /\ corrected' = corrected + a + s
  /\ corrected' \in -MaxCorrection .. MaxCorrection
  /\ UNCHANGED <<now, lastTick, xmt, resolved, task, n, asked, network, accepted,
                 heard>>

----------------------------------------------------------------------------
(* The servers and the network.                                            *)

Serve(q) ==
  /\ q \in requests
  /\ requests' = requests \ {q}
  /\ replies' = replies \union {[req |-> q.req, org |-> q.org,
                                 rec |-> now + Base, xmt |-> now + Base]}
  /\ UNCHANGED <<now, clock, xmt, resolved, task, n, asked, inbox, accepted, heard>>

Deliver(d) ==
  /\ d \in replies
  /\ inbox' = Append(inbox, d)
  /\ replies' \in {replies \ {d}} \union
                  (IF Unreliable /\ Len(inbox) < 2 THEN {replies} ELSE {})
  /\ UNCHANGED <<now, clock, xmt, resolved, task, n, asked, requests, accepted, heard>>

Lose ==
  /\ \/ \E q \in requests : requests' = requests \ {q} /\ UNCHANGED replies
     \/ \E d \in replies : replies' = replies \ {d} /\ UNCHANGED requests
  /\ UNCHANGED <<now, clock, xmt, resolved, task, n, asked, inbox, accepted, heard>>

\* The task is woken by a datagram or by the end of its wait; between two polls
\* it waits as long as it likes.
Tick ==
  /\ now < MaxT /\ pc # "lost"
  /\ pc = "waiting" => inbox = <<>>
  /\ pc = "waiting" \/ phase # "poll" => now < timer
  /\ now' = now + 1
  /\ UNCHANGED <<clock, xmt, resolved, task, n, asked, network, accepted, heard>>

Init ==
  /\ now = 0 /\ localTime = 0 /\ lastTick = 0
  /\ xmt = [p \in Peers |-> 0]
  /\ resolved \in 0 .. NMAX
  /\ phase = "start" /\ at = 1 /\ pc = "idle" /\ timer = 0
  /\ n = 0 /\ asked = 1
  /\ requests = {} /\ replies = {} /\ inbox = <<>>
  /\ accepted = {} /\ heard = FALSE /\ corrected = 0

Client ==
  \/ \E p \in Peers : xmit_packet(p)
  \/ Receive \/ NoReply \/ NullAssociation \/ clock_adjust

Next ==
  \/ Client
  \/ \E q \in requests : Serve(q)
  \/ \E d \in replies : Deliver(d)
  \/ Lose
  \/ Tick

\* Time passes, and the scheduler runs the one task when it is ready.
Fairness == WF_vars(Tick) /\ WF_vars(Client)

Spec == Init /\ [][Next]_vars /\ Fairness
----------------------------------------------------------------------------
TypeOK ==
  /\ now \in 0 .. MaxT /\ localTime \in Nat /\ lastTick \in 0 .. now
  /\ xmt \in [Peers -> Nat] /\ resolved \in 0 .. NMAX
  /\ phase \in {"start", "sync", "poll"} /\ at \in Peers
  /\ pc \in {"idle", "waiting", "lost"} /\ timer \in Nat
  /\ n \in 0 .. MaxRequests /\ asked \in Peers
  /\ \A q \in requests : q.req \in 1 .. n /\ q.org \in Nat
  /\ \A d \in replies : d.req \in 1 .. n /\ d.org \in Nat /\ d.rec \in Nat /\ d.xmt \in Nat
  /\ accepted \subseteq (1 .. n) \X Peers /\ heard \in BOOLEAN
  /\ corrected \in -MaxCorrection .. MaxCorrection

\* The exchange as OnWire sees it.
ReplyAnswers == INSTANCE OnWire WITH
  request <- n, open <- (pc = "waiting")

\* In a network that only loses datagrams every reply that is accepted answers
\* the open request, and is accepted by the association that asked, once.
ImplementsOnWire == ReplyAnswers!Spec

\* No answer is refused: the reply to the open request passes every test of
\* receive(), unless the server sent it at the very time of the request.
AnswerAccepted ==
  [][/\ pc = "waiting" /\ phase # "start" /\ inbox # <<>> /\ inbox' = Tail(inbox)
     /\ Head(inbox).req = n /\ Head(inbox).xmt # Head(inbox).org
     => <<n, asked>> \in accepted']_vars

\* Corrections of the clock do not last: what the clock is off the servers' time is
\* made up of the corrections since the last reply was read, of the wait for that
\* reply, and of the ticks that gettime() ignored and counts a second time.  All
\* that clock_adjust() and step_time() did before that reply, it has undone.
Shown == localTime + Elapsed
OnlyNewCorrections ==
  heard => /\ now + Base - TIMEOUT <= Shown - corrected
           /\ Shown - corrected <= now + Base + SMALL - 1

\* Every exchange ends: with a reply, with the timeout, or with the loss of the
\* task; and the first loop with it.
ExchangeEnds == pc = "waiting" ~> pc # "waiting"
PollingStarts == <>(phase = "poll" \/ pc = "lost")

\* NTP_peer.c:674-675, the receive packet matches the last one sent.
MatchesLastSent ==
  [][\A a \in accepted' \ accepted : a[1] = n]_vars
============================================================================
