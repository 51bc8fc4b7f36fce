--------------------------- MODULE ExchangeProofs ---------------------------
(***************************************************************************)
(* The exchange in a network that may lose datagrams and does nothing      *)
(* worse: it implements OnWire, no answer to the open request is refused,  *)
(* and the local clock is true to the servers but for the corrections made *)
(* since the last reply, for every number of servers and every timeout.    *)
(***************************************************************************)
EXTENDS Exchange, TLAPS

\* The assumption on the network.
Reliable == ~Unreliable

\* The one datagram that can be under way: the open request or its answer.
Request == [req |-> n, from |-> asked, org |-> xmt[asked]]
Answer(s) == [req |-> n, org |-> xmt[asked], rec |-> s, xmt |-> s]

Answering(s) ==
  /\ requests = {}
  /\ \/ replies = {Answer(s)} /\ inbox = <<>>
     \/ replies = {} /\ inbox = <<Answer(s)>>

InFlight ==
  \/ requests = {} /\ replies = {} /\ inbox = <<>>
  \/ /\ pc = "waiting" /\ Reachable
     /\ \/ requests = {Request} /\ replies = {} /\ inbox = <<>>
        \/ \E s \in (timer - TIMEOUT + Base) .. (now + Base) : Answering(s)

TaskType ==
  /\ now \in 0 .. MaxT /\ localTime \in Nat /\ lastTick \in 0 .. now
  /\ xmt \in [Peers -> Nat] /\ resolved \in 0 .. NMAX
  /\ phase \in {"start", "sync", "poll"} /\ at \in Peers
  /\ pc \in {"idle", "waiting", "lost"} /\ timer \in Nat
  /\ n \in 0 .. MaxRequests /\ asked \in Peers
  /\ corrected \in -MaxCorrection .. MaxCorrection

HistoryType == accepted \subseteq (1 .. n) \X Peers /\ heard \in BOOLEAN

Waiting ==
  pc = "waiting" => /\ n > 0 /\ TIMEOUT <= timer
                    /\ timer - TIMEOUT <= now /\ now <= timer
                    /\ Reachable => xmt[asked] = localTime

\* Before a reply is read the client counts from zero, after that the clock is
\* a server's, and no correction takes either of them to EPOCH.
Counted ==
  IF heard THEN localTime >= Base + corrected
           ELSE corrected >= 0 /\ localTime <= lastTick + corrected

StartUnheard == phase = "start" => ~heard

IInv ==
  /\ TaskType /\ HistoryType /\ Waiting /\ InFlight
  /\ Counted /\ StartUnheard /\ OnlyNewCorrections

USE SizeAssumption, BoundAssumption, TimeAssumption

----------------------------------------------------------------------------
(* Lookups and the clock.                                                  *)

\* Once every host is resolved find_assoc() tells their associations apart.
LEMMA FindsItself ==
  ASSUME Reachable, NEW p \in Peers
  PROVE  find_assoc(Address(p)) = p
<1>1. \A q \in Peers : Address(q) = q
  BY DEF Reachable, Address, Peers
<1>2. Matches(Address(p)) = {p}
  BY <1>1 DEF Matches
<1>3. p <= p
  BY DEF Peers
<1> QED BY <1>2, <1>3 DEF find_assoc, Min

\* gettime() keeps the time that the clock shows.
LEMMA GettimeKeepsTime ==
  ASSUME TaskType, NEW o \in BOOLEAN
  PROVE  /\ TimeAfter(o) \in Nat /\ TickAfter(o) \in 0 .. now
         /\ TimeAfter(o) >= localTime
         /\ TimeAfter(o) + (now - TickAfter(o)) = Shown
         /\ localTime <= lastTick + corrected => TimeAfter(o) <= TickAfter(o) + corrected
BY DEF TaskType, TimeAfter, TickAfter, Skipped, Elapsed, Shown

\* An answer carries the origin that the association stored and one server time.
LEMMA AnswerFields ==
  ASSUME NEW s
  PROVE  /\ Answer(s).req = n /\ Answer(s).org = xmt[asked]
         /\ Answer(s).rec = s /\ Answer(s).xmt = s
BY DEF Answer

\* A datagram in the socket is the answer to the open request.
LEMMA HeadIsAnswer ==
  ASSUME IInv, inbox # <<>>
  PROVE  /\ pc = "waiting" /\ Reachable
         /\ requests = {} /\ replies = {}
         /\ \E s \in (timer - TIMEOUT + Base) .. (now + Base) : inbox = <<Answer(s)>>
BY DEF IInv, InFlight, Answering

----------------------------------------------------------------------------
(* Every step keeps the invariant.                                         *)

LEMMA InitIInv == Init => IInv
<1> SUFFICES ASSUME Init PROVE IInv
  OBVIOUS
<1>1. TaskType
  BY DEF Init, TaskType, Peers
<1>3. HistoryType
  BY Zenon DEF Init, HistoryType
<1>2. Waiting /\ InFlight /\ Counted /\ StartUnheard /\ OnlyNewCorrections
  BY DEF Init, Waiting, InFlight, Counted, StartUnheard, OnlyNewCorrections
<1> QED BY <1>1, <1>2, <1>3 DEF IInv

\* A request is sent only when none is open and none of its kind is under way.
LEMMA XmitStep ==
  ASSUME IInv, NEW p \in Peers, xmit_packet(p)
  PROVE  IInv'
<1> DEFINE o == phase # "poll"
<1>1. /\ pc = "idle" /\ requests = {} /\ replies = {} /\ inbox = <<>> /\ TaskType
  BY DEF IInv, InFlight, xmit_packet
<1>2. o \in BOOLEAN
  OBVIOUS
<1>3. /\ localTime' = TimeAfter(o) /\ lastTick' = TickAfter(o) /\ now' = now
      /\ UNCHANGED <<resolved, phase, at, replies, inbox, accepted, heard, corrected>>
      /\ n' = n + 1 /\ asked' = p /\ pc' = "waiting" /\ timer' = now + TIMEOUT
      /\ n < MaxRequests
      /\ xmt' = [xmt EXCEPT ![find_assoc(Address(p))] = localTime']
  BY DEF xmit_packet, assoc_table_add
<1> HIDE DEF o
<1>4. /\ localTime' \in Nat /\ lastTick' \in 0 .. now' /\ localTime' >= localTime
      /\ localTime' + (now' - lastTick') = Shown
      /\ localTime <= lastTick + corrected => localTime' <= lastTick' + corrected
  BY <1>1, <1>2, <1>3, GettimeKeepsTime
<1>5. TaskType'
  <2>1. xmt' \in [Peers -> Nat]
    BY <1>1, <1>3, <1>4 DEF TaskType
  <2>2. n' \in 0 .. MaxRequests /\ timer' \in Nat
    BY <1>1, <1>3 DEF TaskType
  <2>3. now' \in 0 .. MaxT /\ pc' \in {"idle", "waiting", "lost"}
    BY <1>1, <1>3 DEF TaskType
  <2>4. /\ resolved' \in 0 .. NMAX /\ phase' \in {"start", "sync", "poll"}
        /\ at' \in Peers /\ asked' \in Peers
        /\ corrected' \in -MaxCorrection .. MaxCorrection
    BY <1>1, <1>3 DEF TaskType
  <2> QED BY <1>4, <2>1, <2>2, <2>3, <2>4 DEF TaskType
<1>6. Reachable => find_assoc(Address(p)) = p
  BY FindsItself
<1>10. HistoryType'
  BY <1>1, <1>3 DEF IInv, HistoryType, TaskType
<1>7. Waiting'
  BY <1>1, <1>3, <1>6 DEF Waiting, TaskType, Reachable
<1>8. InFlight'
  <2>1. CASE Reachable
    <3>1. requests' = {[req |-> n', from |-> p, org |-> localTime']}
      BY <1>1, <2>1 DEF xmit_packet
    <3>2. xmt'[asked'] = localTime'
      BY <1>1, <1>3, <1>6, <2>1 DEF TaskType
    <3>3. requests' = {Request'}
      BY <1>3, <3>1, <3>2 DEF Request
    <3> QED BY <1>1, <1>3, <2>1, <3>3 DEF InFlight, Reachable
  <2>2. CASE ~Reachable
    BY <1>1, <1>3, <2>2 DEF InFlight, xmit_packet
  <2> QED BY <2>1, <2>2
<1>9. Counted' /\ StartUnheard' /\ OnlyNewCorrections'
  BY <1>1, <1>3, <1>4 DEF IInv, Counted, StartUnheard, OnlyNewCorrections, Shown, Elapsed, TaskType
<1> QED BY <1>5, <1>7, <1>8, <1>9, <1>10 DEF IInv

\* The loops of vNTPTask() go on to the next association or part.
LEMMA ProceedType ==
  ASSUME TaskType, Proceed
  PROVE  /\ pc' = "idle" /\ phase' \in {"start", "sync", "poll"} /\ phase' # "start"
         /\ at' \in Peers /\ timer' \in Nat
<1>1. CASE phase = "start"
  <2>1. pc' = "idle" /\ phase' = "sync" /\ at' = 1 /\ timer' = now
    BY <1>1 DEF Proceed
  <2> QED BY <2>1 DEF TaskType, Peers
<1>2. CASE phase = "sync"
  <2>1. pc' = "idle" /\ timer' = now + SECOND
    BY <1>2 DEF Proceed
  <2>2. IF at < NMAX THEN at' = at + 1 /\ phase' = phase ELSE phase' = "poll" /\ at' = at
    BY <1>2 DEF Proceed
  <2>3. at' \in Peers /\ phase' \in {"sync", "poll"}
    BY <1>2, <2>2 DEF TaskType, Peers
  <2> QED BY <2>1, <2>3 DEF TaskType
<1>3. CASE phase = "poll"
  <2>1. pc' = "idle" /\ phase' = phase /\ at' = at /\ timer' = now
    BY <1>3 DEF Proceed
  <2> QED BY <1>3, <2>1 DEF TaskType
<1> QED BY <1>1, <1>2, <1>3 DEF TaskType

\* The one datagram that recv_packet() takes is the answer to the open request.
LEMMA ReceiveStep ==
  ASSUME IInv, Receive
  PROVE  IInv'
<1>1. TaskType /\ inbox # <<>>
  BY DEF IInv, Receive
<1>2. PICK s \in (timer - TIMEOUT + Base) .. (now + Base) : inbox = <<Answer(s)>>
  BY <1>1, HeadIsAnswer
<1>3. /\ pc = "waiting" /\ Reachable /\ requests = {} /\ replies = {}
      /\ n > 0 /\ now <= timer /\ TIMEOUT <= timer
  BY <1>1, HeadIsAnswer DEF IInv, Waiting
<1>4. Head(inbox) = Answer(s) /\ Tail(inbox) = <<>>
  BY <1>2
<1>5. s \in Nat /\ now + Base - TIMEOUT <= s /\ s <= now + Base /\ s >= Base
  BY <1>1, <1>2, <1>3 DEF TaskType
<1>6. /\ localTime' = s + corrected' /\ lastTick' \in {now, TickAfter(FALSE)}
      /\ corrected' \in Steps
      /\ heard' = TRUE
      /\ UNCHANGED <<now, xmt, resolved, n, asked, requests, replies>>
  <2>1. heard' = TRUE /\ UNCHANGED <<now, xmt, resolved, n, asked, requests, replies>>
    BY DEF Receive
  <2>4. 0 \in Steps
    BY DEF Steps, Fractions
  <2>2. CASE phase = "start"
    <3>1. localTime' = Head(inbox).xmt /\ lastTick' = now /\ corrected' = 0
      BY <2>2 DEF Receive, SetClock
    <3> QED BY <1>4, <1>5, <2>1, <2>4, <3>1, AnswerFields
  <2>3. CASE phase # "start"
    <3>1. localTime' = Head(inbox).rec + corrected' /\ lastTick' = TickAfter(FALSE)
      BY <2>3 DEF Receive, SetClock
    <3>2. corrected' \in Steps
      BY <2>3, <2>4 DEF Receive
    <3> QED BY <1>4, <2>1, <3>1, <3>2, AnswerFields
  <2> QED BY <2>2, <2>3
<1>14. PICK k \in -MaxCorrection .. MaxCorrection : corrected' = k /\ localTime' = s + k
  <2>1. \A k \in Steps : k \in -MaxCorrection .. MaxCorrection
    BY DEF Steps, Fractions
  <2> QED BY <1>6, <2>1
<1>7. HistoryType'
  <2>1. find_assoc(Address(asked)) = asked
    BY <1>1, <1>3, FindsItself DEF TaskType
  <2>2. accepted' \subseteq accepted \union {<<n, asked>>}
    BY <1>4, <2>1, AnswerFields DEF Receive
  <2>3. heard' = TRUE /\ n' = n
    BY <1>6
  <2>4. <<n, asked>> \in (1 .. n) \X Peers
    BY <1>1, <1>3 DEF TaskType
  <2> QED BY <2>2, <2>3, <2>4 DEF HistoryType, IInv
<1>8. PICK l \in 0 .. now : lastTick' = l /\ now - l <= SMALL - 1
  <2>1. now \in Nat /\ lastTick \in 0 .. now
    BY <1>1 DEF TaskType
  <2>2. lastTick' = now \/ (lastTick' = lastTick /\ now - lastTick < SMALL)
    BY <1>6 DEF TickAfter, Skipped, Elapsed
  <2> QED BY <2>1, <2>2
<1>9. /\ pc' = "idle" /\ phase' \in {"start", "sync", "poll"} /\ phase' # "start"
      /\ at' \in Peers /\ timer' \in Nat
  BY <1>1, ProceedType DEF Receive
<1>10. TaskType'
  <2>1. s + k \in Nat
    BY <1>5, <1>14
  <2> QED BY <1>1, <1>6, <1>8, <1>9, <1>14, <2>1 DEF TaskType
<1>11. InFlight' /\ Waiting'
  BY <1>3, <1>4, <1>6, <1>9 DEF InFlight, Waiting, Receive
<1>12. Counted' /\ StartUnheard'
  BY <1>5, <1>6, <1>9, <1>14 DEF Counted, StartUnheard
<1>13. OnlyNewCorrections'
  <2>1. now' = now /\ localTime' = s + k /\ corrected' = k
    BY <1>6, <1>14
  <2>3. now \in Nat /\ timer \in Nat
    BY <1>1 DEF TaskType
  <2>5. Shown' = s + k + (now - l)
    BY <1>8, <2>1 DEF Shown, Elapsed
  <2>2. Shown' - corrected' = s + (now - l)
    BY <1>5, <2>1, <2>3, <2>5
  <2>4. now + Base - TIMEOUT <= s + (now - l) /\ s + (now - l) <= now + Base + SMALL - 1
    BY <1>5, <1>8, <2>3
  <2> QED BY <2>1, <2>2, <2>4 DEF OnlyNewCorrections
<1> QED BY <1>13, <1>7, <1>10, <1>11, <1>12 DEF IInv

\* In a reliable network no datagram outlives the wait it is for.
LEMMA ForgottenStep ==
  ASSUME Reliable, Forgotten
  PROVE  requests' = {} /\ replies' = {}
BY DEF Reliable, Forgotten

LEMMA NoReplyStep ==
  ASSUME Reliable, IInv, NoReply
  PROVE  IInv'
<1>1. TaskType /\ inbox = <<>>
  BY DEF IInv, NoReply, TimedOut
<1>2. /\ requests' = {} /\ replies' = {} /\ inbox' = <<>>
      /\ UNCHANGED <<now, xmt, resolved, n, asked, accepted, heard>>
  BY <1>1, ForgottenStep DEF NoReply
<1>3. /\ pc' = "idle" /\ phase' \in {"start", "sync", "poll"} /\ phase' # "start"
      /\ at' \in Peers /\ timer' \in Nat
  BY <1>1, ProceedType DEF NoReply
<1>4. CASE phase = "start"
  <2>1. localTime' = 0 /\ lastTick' = now /\ corrected' = corrected /\ ~heard
    BY <1>4 DEF NoReply, SetClock, IInv, StartUnheard
  <2>2. TaskType'
    BY <1>1, <1>2, <1>3, <2>1 DEF TaskType
  <2> QED
    BY <1>1, <1>2, <1>3, <2>1, <2>2
    DEF IInv, HistoryType, Waiting, InFlight, Counted, StartUnheard, OnlyNewCorrections, TaskType
<1>5. CASE phase # "start"
  <2>1. UNCHANGED <<localTime, lastTick, corrected>>
    BY <1>5 DEF NoReply, clock
  <2>2. TaskType'
    BY <1>1, <1>2, <1>3, <2>1 DEF TaskType
  <2> QED
    BY <1>1, <1>2, <1>3, <2>1, <2>2
    DEF IInv, HistoryType, Waiting, InFlight, Counted, StartUnheard, OnlyNewCorrections, Shown, Elapsed
<1> QED BY <1>4, <1>5

LEMMA NullAssociationStep ==
  ASSUME Reliable, IInv, NullAssociation
  PROVE  IInv'
<1>1. TaskType /\ inbox = <<>>
  BY DEF IInv, NullAssociation, TimedOut
<1>2. /\ requests' = {} /\ replies' = {} /\ inbox' = <<>> /\ pc' = "lost"
      /\ UNCHANGED <<now, localTime, lastTick, corrected, xmt, resolved, phase, at,
                     timer, n, asked, accepted, heard>>
  BY <1>1, ForgottenStep DEF NullAssociation, clock
<1>3. TaskType'
  BY <1>1, <1>2 DEF TaskType
<1> QED
  BY <1>2, <1>3
  DEF IInv, HistoryType, Waiting, InFlight, Counted, StartUnheard, OnlyNewCorrections, Shown, Elapsed

\* A correction between two exchanges moves the clock and what is booked of it.
LEMMA AdjustStep ==
  ASSUME IInv, clock_adjust
  PROVE  IInv'
<1>1. /\ TaskType /\ pc = "idle" /\ phase = "poll"
      /\ UNCHANGED <<now, lastTick, xmt, resolved, phase, at, pc, timer, n, asked,
                     requests, replies, inbox, accepted, heard>>
      /\ corrected' \in -MaxCorrection .. MaxCorrection
  BY DEF IInv, clock_adjust, task, network
<1>2. PICK d \in Int : /\ localTime' = localTime + d /\ corrected' = corrected + d
                       /\ ~heard => d >= 0
  <2>1. PICK a \in Fractions, s \in IF heard THEN Steps ELSE {0} :
          localTime' = localTime + a + s /\ corrected' = corrected + a + s
    BY DEF clock_adjust
  <2>2. a \in Nat /\ s \in Int /\ (~heard => s = 0)
    BY <2>1 DEF Fractions, Steps
  <2>3. a + s \in Int /\ (~heard => a + s >= 0)
    BY <2>2
  <2>4. localTime \in Int /\ corrected \in Int
    BY <1>1 DEF TaskType
  <2> QED BY <2>1, <2>2, <2>3, <2>4
<1>3. Counted'
  BY <1>1, <1>2 DEF IInv, Counted, TaskType
<1>4. TaskType'
  <2>1. localTime' \in Nat
    BY <1>1, <1>2, <1>3 DEF Counted, TaskType
  <2> QED BY <1>1, <2>1 DEF TaskType
<1>5. OnlyNewCorrections'
  BY <1>1, <1>2 DEF IInv, OnlyNewCorrections, Shown, Elapsed, TaskType
<1>6. InFlight'
  BY <1>1 DEF IInv, InFlight
<1> QED
  BY <1>1, <1>3, <1>4, <1>5, <1>6 DEF IInv, HistoryType, Waiting, StartUnheard

\* What a step of the network leaves alone.
LEMMA NetworkStep ==
  ASSUME IInv,
         UNCHANGED <<now, clock, xmt, resolved, task, n, asked, accepted, heard>>,
         InFlight'
  PROVE  IInv'
BY DEF IInv, TaskType, HistoryType, Waiting, Counted, StartUnheard, OnlyNewCorrections,
       Shown, Elapsed, Reachable, clock, task

\* A server turns the request under way into its answer.
LEMMA ServeStep ==
  ASSUME IInv, NEW q \in requests, Serve(q)
  PROVE  IInv'
<1>1. UNCHANGED <<now, clock, xmt, resolved, task, n, asked, inbox, accepted, heard>>
  BY DEF Serve
<1>2. pc = "waiting" /\ Reachable /\ requests = {Request} /\ replies = {} /\ inbox = <<>>
  BY DEF IInv, InFlight, Answering
<1>3. q.req = n /\ q.org = xmt[asked]
  BY <1>2 DEF Request
<1>4. requests' = {} /\ replies' = {Answer(now + Base)}
  BY <1>2, <1>3 DEF Serve, Answer
<1>5. now + Base \in (timer - TIMEOUT + Base) .. (now + Base)
  BY <1>2 DEF IInv, TaskType, Waiting
<1>6. InFlight'
  <2>1. Answering(now + Base)'
    BY <1>1, <1>2, <1>4 DEF Answering, Answer
  <2> QED BY <1>1, <1>2, <1>5, <2>1 DEF InFlight, Reachable, task
<1> QED BY <1>1, <1>6, NetworkStep

LEMMA DeliverStep ==
  ASSUME Reliable, IInv, NEW d \in replies, Deliver(d)
  PROVE  IInv'
<1>1. UNCHANGED <<now, clock, xmt, resolved, task, n, asked, requests, accepted, heard>>
  BY DEF Deliver
<1>2. PICK s \in (timer - TIMEOUT + Base) .. (now + Base) :
        /\ pc = "waiting" /\ Reachable
        /\ requests = {} /\ replies = {Answer(s)} /\ inbox = <<>>
  BY DEF IInv, InFlight, Answering
<1>3. replies' = {} /\ inbox' = <<Answer(s)>>
  BY <1>2 DEF Deliver, Reliable
<1>4. InFlight'
  <2>1. Answering(s)'
    BY <1>1, <1>2, <1>3 DEF Answering, Answer
  <2> QED BY <1>1, <1>2, <2>1 DEF InFlight, Reachable, task
<1> QED BY <1>1, <1>4, NetworkStep

LEMMA LoseStep ==
  ASSUME IInv, Lose
  PROVE  IInv'
<1>1. UNCHANGED <<now, clock, xmt, resolved, task, n, asked, inbox, accepted, heard>>
  BY DEF Lose
<1>2. requests' = {} /\ replies' = {} /\ inbox = <<>>
  BY DEF IInv, InFlight, Answering, Lose
<1>3. InFlight'
  BY <1>1, <1>2 DEF InFlight
<1> QED BY <1>1, <1>3, NetworkStep

\* A tick moves the clock and the wait together.
LEMMA TickStep ==
  ASSUME IInv, Tick
  PROVE  IInv'
<1>1. /\ now < MaxT /\ now' = now + 1 /\ TaskType
      /\ pc = "waiting" => inbox = <<>> /\ now < timer
      /\ UNCHANGED <<localTime, lastTick, corrected, xmt, resolved, phase, at, pc, timer,
                     n, asked, requests, replies, inbox, accepted, heard>>
  BY DEF Tick, IInv, clock, task, network
<1>2. TaskType'
  BY <1>1 DEF TaskType
<1>3. Waiting'
  BY <1>1 DEF IInv, Waiting, TaskType, Reachable
<1>4. OnlyNewCorrections'
  BY <1>1 DEF IInv, OnlyNewCorrections, Shown, Elapsed, TaskType
<1>5. InFlight'
  <2>1. \A s : Answering(s)' <=> Answering(s)
    BY <1>1 DEF Answering, Answer
  <2>2. \A s \in (timer - TIMEOUT + Base) .. (now + Base) :
          s \in (timer' - TIMEOUT + Base) .. (now' + Base)
    BY <1>1 DEF TaskType
  <2>3. Request' = Request
    BY <1>1 DEF Request
  <2> QED BY <1>1, <2>1, <2>2, <2>3 DEF IInv, InFlight, Reachable
<1> QED
  BY <1>1, <1>2, <1>3, <1>4, <1>5 DEF IInv, HistoryType, Counted, StartUnheard

LEMMA NextIInv == Reliable /\ IInv /\ [Next]_vars => IInv'
<1> SUFFICES ASSUME Reliable, IInv, [Next]_vars PROVE IInv'
  OBVIOUS
<1>1. CASE Client
  BY <1>1, XmitStep, ReceiveStep, NoReplyStep, NullAssociationStep, AdjustStep DEF Client
<1>2. ASSUME NEW q \in requests, Serve(q) PROVE IInv'
  BY <1>2, ServeStep
<1>3. ASSUME NEW d \in replies, Deliver(d) PROVE IInv'
  BY <1>3, DeliverStep
<1>4. CASE Lose
  BY <1>4, LoseStep
<1>5. CASE Tick
  BY <1>5, TickStep
<1>6. CASE UNCHANGED vars
  <2>1. InFlight'
    BY <1>6 DEF vars, IInv, InFlight, Answering, Answer, Request, Reachable, clock, task, network
  <2> QED BY <1>6, <2>1, NetworkStep DEF vars
<1> QED BY <1>1, <1>2, <1>3, <1>4, <1>5, <1>6 DEF Next

\* What xmit_packet(), receive() and gettime() leave behind in every state of an
\* exchange over a network that only loses datagrams.
THEOREM Invariance == ASSUME Reliable PROVE Spec => []IInv
<1>1. IInv /\ [Next]_vars => IInv'
  BY NextIInv
<1> QED BY <1>1, InitIInv, PTL DEF Spec

----------------------------------------------------------------------------
\* The types of the exchange hold.
THEOREM TypeCorrect == ASSUME Reliable PROVE Spec => []TypeOK
<1>1. IInv => TypeOK
  <2> SUFFICES ASSUME IInv PROVE TypeOK
    OBVIOUS
  <2>1. TaskType /\ HistoryType
    BY DEF IInv
  <2>2. pc = "waiting" => n \in 1 .. n /\ xmt[asked] \in Nat
    BY DEF IInv, Waiting, TaskType
  <2>3. \A q \in requests : q.req \in 1 .. n /\ q.org \in Nat
    BY <2>2 DEF IInv, InFlight, Answering, Request
  <2>4. \A s \in (timer - TIMEOUT + Base) .. (now + Base) :
          pc = "waiting" => s \in Nat
    BY DEF IInv, TaskType, Waiting
  <2>5. \A d \in replies :
          d.req \in 1 .. n /\ d.org \in Nat /\ d.rec \in Nat /\ d.xmt \in Nat
    BY <2>2, <2>4 DEF IInv, InFlight, Answering, Answer
  <2> QED BY <2>1, <2>3, <2>5 DEF TypeOK, TaskType, HistoryType
<1> QED BY <1>1, Invariance, PTL

\* Once a reply has been read, nothing but the wait for it, ticks counted twice and
\* the corrections made since sets the clock apart from the servers' time, whatever
\* the network loses.
THEOREM OnlyNewCorrectionsAlways == ASSUME Reliable PROVE Spec => []OnlyNewCorrections
<1>1. IInv => OnlyNewCorrections
  BY DEF IInv
<1> QED BY <1>1, Invariance, PTL

\* The answer to the open request passes every test of receive().
THEOREM AnswerAcceptedAlways == ASSUME Reliable PROVE Spec => AnswerAccepted
<1> DEFINE A ==
      pc = "waiting" /\ phase # "start" /\ inbox # <<>> /\ inbox' = Tail(inbox)
      /\ Head(inbox).req = n /\ Head(inbox).xmt # Head(inbox).org
      => <<n, asked>> \in accepted'
<1>1. IInv /\ [Next]_vars => [A]_vars
  <2> SUFFICES ASSUME IInv, Next, pc = "waiting", phase # "start", inbox # <<>>,
                      inbox' = Tail(inbox), Head(inbox).xmt # Head(inbox).org
               PROVE  <<n, asked>> \in accepted'
    OBVIOUS
  <2>1. PICK s \in (timer - TIMEOUT + Base) .. (now + Base) : inbox = <<Answer(s)>>
    BY HeadIsAnswer
  <2>2. /\ Reachable /\ requests = {} /\ replies = {} /\ TaskType
        /\ xmt[asked] = localTime /\ timer >= TIMEOUT
    BY HeadIsAnswer DEF IInv, Waiting
  <2>3. inbox' # inbox /\ Head(inbox) = Answer(s)
    BY <2>1
  <2>4. Receive
    BY <2>2, <2>3
    DEF Next, Client, Lose, Tick, NoReply, NullAssociation, xmit_packet, clock_adjust,
        TimedOut, network
  <2>5. find_assoc(Address(asked)) = asked
    BY <2>2, FindsItself DEF TaskType
  <2>6. s # EPOCH /\ localTime # EPOCH
    <3>1. s >= Base /\ s \in Int
      BY <2>1, <2>2 DEF TaskType
    <3>2. localTime >= Base - MaxCorrection \/ localTime <= MaxT + MaxCorrection
      BY <2>2 DEF IInv, Counted, TaskType
    <3> QED BY <2>2, <3>1, <3>2 DEF TaskType
  <2>7. Accepts(Answer(s), asked)
    BY <2>1, <2>2, <2>3, <2>6, AnswerFields DEF Accepts, Replayed, OriginDiffers
  <2> QED BY <2>3, <2>4, <2>5, <2>7, AnswerFields DEF Receive
<1> QED BY <1>1, Invariance, PTL DEF Spec, AnswerAccepted

\* In a network that only loses datagrams the exchange implements OnWire: the
\* open request is the only one whose reply is accepted, by the association that
\* asked, at most once.
THEOREM Refinement == ASSUME Reliable PROVE Spec => ImplementsOnWire
<1>1. Init => ReplyAnswers!Init
  BY DEF Init, ReplyAnswers!Init, Peers
<1>2. IInv /\ [Next]_vars => [ReplyAnswers!Next]_(ReplyAnswers!vars)
  <2> SUFFICES ASSUME IInv, [Next]_vars
               PROVE  ReplyAnswers!Next \/ UNCHANGED ReplyAnswers!vars
    OBVIOUS
  <2>1. ASSUME NEW p \in Peers, xmit_packet(p) PROVE ReplyAnswers!Ask(p)
    BY <2>1 DEF xmit_packet, ReplyAnswers!Ask
  <2>2. CASE Receive
    <3>1. PICK s \in (timer - TIMEOUT + Base) .. (now + Base) : inbox = <<Answer(s)>>
      BY <2>2, HeadIsAnswer DEF Receive
    <3>2. Reachable /\ TaskType /\ Head(inbox) = Answer(s)
      BY <2>2, <3>1, HeadIsAnswer DEF IInv, Receive
    <3>3. find_assoc(Address(asked)) = asked
      BY <3>2, FindsItself DEF TaskType
    <3>4. accepted' \in {accepted, accepted \union {<<n, asked>>}}
      BY <2>2, <3>2, <3>3, AnswerFields DEF Receive
    <3>5. pc = "waiting" /\ pc' = "idle" /\ n' = n /\ asked' = asked
      BY <2>2, <3>2, ProceedType DEF Receive
    <3> QED BY <3>4, <3>5 DEF ReplyAnswers!Accept, ReplyAnswers!GiveUp, ReplyAnswers!Next
  <2>3. CASE NoReply \/ NullAssociation
    <3>1. pc = "waiting" /\ pc' # "waiting" /\ UNCHANGED <<n, asked, accepted>>
      BY <2>3, ProceedType DEF NoReply, NullAssociation, TimedOut, IInv
    <3> QED BY <3>1 DEF ReplyAnswers!GiveUp, ReplyAnswers!Next
  <2>4. ASSUME NEW q \in requests, Serve(q) PROVE UNCHANGED ReplyAnswers!vars
    BY <2>4 DEF Serve, ReplyAnswers!vars, task
  <2>5. ASSUME NEW d \in replies, Deliver(d) PROVE UNCHANGED ReplyAnswers!vars
    BY <2>5 DEF Deliver, ReplyAnswers!vars, task
  <2>6. CASE clock_adjust \/ Lose \/ Tick \/ UNCHANGED vars
    BY <2>6 DEF clock_adjust, Lose, Tick, vars, ReplyAnswers!vars, task
  <2> QED BY <2>1, <2>2, <2>3, <2>4, <2>5, <2>6 DEF Next, Client, ReplyAnswers!Next
<1> QED BY <1>1, <1>2, Invariance, PTL DEF Spec, ImplementsOnWire, ReplyAnswers!Spec
============================================================================
