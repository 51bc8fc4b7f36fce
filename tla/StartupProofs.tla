---------------------------- MODULE StartupProofs --------------------------
(***************************************************************************)
(* Proofs about Startup for any number of hosts and lookups, any heap and  *)
(* any answers of DNS.                                                     *)
(***************************************************************************)
EXTENDS Startup, TLAPS

LEMMA ConstantFacts ==
  /\ NMAX \in Nat /\ NMAX >= 1 /\ RETRIES \in Nat /\ RETRIES >= 1 /\ HEAP \in Nat
  /\ NoAddress \notin Addresses
BY StartupAssumption

----------------------------------------------------------------------------
(* The inductive invariant.  OneClient needs that the task exists as soon  *)
(* as it has a place to be; OneFailureSilencesAll and WaitsAreBounded need *)
(* what each turn of the loops of init_network_and_DNS() has done so far.  *)

After == pc \in {"mutex", "packets", "table", "run", "wild"}

ExistsOnce ==
  /\ xTasksAlreadyCreated => tasks = 1
  /\ ~xTasksAlreadyCreated => tasks = 0 /\ pc \in {"none", "halted"}
  /\ pc = "none" => ~xTasksAlreadyCreated

LookupsSoFar ==
  /\ pc \in {"none", "socket"} =>
       i = 0 /\ retry = 0 /\ NTP_server_IPs = Nothing /\ sin_port = FALSE /\ waited = 0
  /\ pc = "lookup" =>
       /\ i < NMAX /\ sin_port = FALSE
       /\ \A h \in Hosts : NTP_server_IPs[h] # NoAddress <=> h < i
       /\ waited <= i * (RETRIES - 1) + retry
  /\ After =>
       \E k \in 0 .. NMAX :
         /\ \A h \in Hosts : NTP_server_IPs[h] # NoAddress <=> h < k
         /\ sin_port <=> k = NMAX
  /\ WaitsAreBounded

IInv == Types /\ ExistsOnce /\ LookupsSoFar

----------------------------------------------------------------------------
(* Waiting: a host that resolves has cost at most RETRIES - 1 seconds.     *)

LEMMA NextHostWaits ==
  ASSUME NEW k \in Nat, NEW m \in Nat
  PROVE  (k + 1) * m = k * m + m /\ k * m \in Int
OBVIOUS

LEMMA Monotone ==
  ASSUME NEW k \in Nat, NEW l \in Nat, NEW m \in Nat, k <= l
  PROVE  k * m <= l * m
<1>1. (l - k) * m >= 0
  OBVIOUS
<1>2. (l - k) * m = l * m - k * m /\ l * m \in Int /\ k * m \in Int
  OBVIOUS
<1> QED
  BY <1>1, <1>2

\* The waits of the lookups so far are within those of all of them.
LEMMA BoundHolds ==
  ASSUME NEW k \in Nat, k < NMAX, NEW r \in Nat, r <= RETRIES,
         NEW w \in Nat, w <= k * (RETRIES - 1) + r
  PROVE  w <= (NMAX - 1) * (RETRIES - 1) + RETRIES
<1>1. RETRIES - 1 \in Nat /\ NMAX - 1 \in Nat /\ k <= NMAX - 1
  BY ConstantFacts
<1>2. k * (RETRIES - 1) <= (NMAX - 1) * (RETRIES - 1)
  BY <1>1, Monotone
<1>3. k * (RETRIES - 1) \in Int /\ (NMAX - 1) * (RETRIES - 1) \in Int /\ RETRIES \in Nat
  BY <1>1, ConstantFacts
<1> QED
  BY <1>2, <1>3

----------------------------------------------------------------------------
LEMMA InitHolds == Init => IInv
<1> SUFFICES ASSUME Init PROVE IInv
  OBVIOUS
<1>1. Nothing \in [Hosts -> Addresses \union {NoAddress}]
  BY DEF Nothing
<1>2. Types
  <2>1. up \in BOOLEAN /\ xTasksAlreadyCreated \in BOOLEAN /\ sin_port \in BOOLEAN
    BY Zenon DEF Init
  <2>2. /\ i \in 0 .. NMAX /\ retry \in 0 .. RETRIES - 1 /\ heap_end \in 0 .. HEAP
        /\ tasks \in Nat /\ waited \in Nat
    BY ConstantFacts DEF Init
  <2> QED
    BY <1>1, <2>1, <2>2 DEF Init, Types
<1>3. ExistsOnce
  BY DEF Init, ExistsOnce
<1>4. WaitsAreBounded
  BY BoundHolds, ConstantFacts DEF Init, WaitsAreBounded
<1>5. LookupsSoFar
  BY <1>4 DEF Init, LookupsSoFar, After
<1> QED
  BY <1>2, <1>3, <1>5 DEF IInv

\* _sbrk() keeps the end of the heap within it.
LEMMA HeapStep ==
  ASSUME heap_end \in 0 .. HEAP, NEW incr \in Nat, _sbrk(incr) \/ Fails(incr)
  PROVE  heap_end' \in 0 .. HEAP
BY ConstantFacts DEF _sbrk, Fails

(* A step that leaves the lookups alone keeps what they have done, as long *)
(* as the task stays in the same part of its start or goes past it.        *)
LEMMA LookupsKept ==
  ASSUME LookupsSoFar, UNCHANGED lookup,
         \/ pc' \in {pc, "halted"}
         \/ pc = "none" /\ pc' = "socket"
         \/ After /\ pc' \in {"mutex", "packets", "table", "run", "wild"}
  PROVE  LookupsSoFar'
BY DEF LookupsSoFar, lookup, After, WaitsAreBounded

\* Network events create one task at most.
LEMMA EventSteps ==
  ASSUME IInv, NetworkChanges \/ vApplicationIPNetworkEventHook \/ Allocates
  PROVE  IInv'
<1> USE DEF IInv
<1>1. CASE NetworkChanges
  <2>1. up' \in BOOLEAN /\ UNCHANGED <<xTasksAlreadyCreated, tasks, pc, lookup, heap_end, peers>>
    BY <1>1, Zenon DEF NetworkChanges, Types
  <2>2. Types'
    BY <2>1 DEF Types, lookup
  <2>3. ExistsOnce'
    BY <2>1 DEF ExistsOnce
  <2> QED
    BY <2>1, <2>2, <2>3, LookupsKept
<1>2. CASE vApplicationIPNetworkEventHook /\ Creates
  <2>1. xTasksAlreadyCreated = FALSE /\ tasks = 0 /\ pc = "none"
    BY <1>2 DEF vApplicationIPNetworkEventHook, Creates, ExistsOnce, Types
  <2>2. UNCHANGED <<up, lookup, peers>>
    BY <1>2 DEF vApplicationIPNetworkEventHook
  <2>3. heap_end' \in 0 .. HEAP
    BY <1>2, HeapStep DEF vApplicationIPNetworkEventHook, Types
  <2>4. \/ tasks' = 1 /\ xTasksAlreadyCreated' = TRUE /\ pc' = "socket"
        \/ tasks' = 0 /\ xTasksAlreadyCreated' = FALSE /\ pc' = "halted"
    <3>1. tasks + 1 = 1
      BY <2>1
    <3>2. \/ tasks' = tasks + 1 /\ xTasksAlreadyCreated' = TRUE /\ pc' = "socket"
          \/ xTasksAlreadyCreated' = xTasksAlreadyCreated /\ tasks' = tasks /\ pc' = "halted"
      BY <1>2, <2>1, Zenon DEF vApplicationIPNetworkEventHook, vApplicationMallocFailedHook
    <3> QED
      BY <2>1, <3>1, <3>2
  <2>5. Types'
    <3>1. xTasksAlreadyCreated' \in BOOLEAN
      BY <2>4, Zenon
    <3>2. tasks' \in Nat /\ pc' \in {"socket", "halted"}
      BY <2>4
    <3> QED
      BY <2>2, <2>3, <3>1, <3>2 DEF Types, lookup
  <2>6. ExistsOnce'
    BY <2>4 DEF ExistsOnce
  <2> QED
    BY <2>1, <2>2, <2>4, <2>5, <2>6, LookupsKept
<1>3. CASE vApplicationIPNetworkEventHook /\ ~Creates
  <2>1. UNCHANGED vars
    BY <1>3 DEF vApplicationIPNetworkEventHook, vars, events
  <2> QED
    BY <2>1, LookupsKept DEF vars, events, lookup, Types, ExistsOnce
<1>4. CASE Allocates
  <2>1. heap_end' \in 0 .. HEAP /\ pc' \in {pc, "halted"} /\ UNCHANGED <<events, lookup, peers>>
    BY <1>4, HeapStep DEF Allocates, vApplicationMallocFailedHook, Types
  <2>2. Types'
    BY <2>1 DEF Types, events, lookup
  <2>3. ExistsOnce'
    BY <2>1 DEF ExistsOnce, events
  <2> QED
    BY <2>1, <2>2, <2>3, LookupsKept
<1> QED
  BY <1>1, <1>2, <1>3, <1>4

----------------------------------------------------------------------------
(* The lookups.                                                            *)

LEMMA SocketStep ==
  ASSUME IInv, FreeRTOS_socket
  PROVE  IInv'
<1> USE DEF IInv
<1>1. pc = "socket" /\ pc' \in {"lookup", "halted"} /\ UNCHANGED <<events, lookup, heap_end, peers>>
  BY DEF FreeRTOS_socket
<1>2. Types' /\ ExistsOnce'
  BY <1>1 DEF Types, ExistsOnce, events, lookup
<1>3. LookupsSoFar'
  <2>1. CASE pc' = "halted"
    BY <1>1, <2>1, LookupsKept
  <2>2. CASE pc' = "lookup"
    <3>1. i = 0 /\ retry = 0 /\ NTP_server_IPs = Nothing /\ sin_port = FALSE /\ waited = 0
      BY <1>1 DEF LookupsSoFar
    <3>2. \A h \in Hosts : NTP_server_IPs[h] # NoAddress <=> h < 0
      BY <3>1 DEF Nothing, Hosts
    <3>3. waited <= 0 * (RETRIES - 1) + 0
      BY <3>1, ConstantFacts
    <3> QED
      BY <1>1, <2>2, <3>1, <3>2, <3>3, ConstantFacts
      DEF LookupsSoFar, After, lookup, WaitsAreBounded
  <2> QED
    BY <1>1, <2>1, <2>2
<1> QED
  BY <1>2, <1>3

\* A lookup that succeeds leaves the addresses of the hosts so far known.
LEMMA ResolvedStep ==
  ASSUME IInv, NEW addr \in Addresses, Resolved(addr)
  PROVE  IInv'
<1> USE DEF IInv
<1>1. /\ pc = "lookup" /\ UNCHANGED <<events, heap_end, peers, waited>>
      /\ NTP_server_IPs' = [NTP_server_IPs EXCEPT ![i] = addr]
      /\ i' = i + 1 /\ retry' = 0
      /\ \/ i + 1 < NMAX /\ pc' = "lookup" /\ sin_port' = sin_port
         \/ ~(i + 1 < NMAX) /\ pc' = "mutex" /\ sin_port' = TRUE
  BY DEF Resolved, MovesOn
<1>2. /\ i \in Nat /\ i < NMAX /\ sin_port = FALSE /\ waited \in Nat /\ retry \in 0 .. RETRIES - 1
      /\ \A h \in Hosts : NTP_server_IPs[h] # NoAddress <=> h < i
      /\ waited <= i * (RETRIES - 1) + retry
      /\ NTP_server_IPs \in [Hosts -> Addresses \union {NoAddress}]
  BY <1>1 DEF LookupsSoFar, Types
<1>3. /\ NTP_server_IPs' \in [Hosts -> Addresses \union {NoAddress}]
      /\ \A h \in Hosts : NTP_server_IPs'[h] # NoAddress <=> h < i + 1
  BY <1>1, <1>2, ConstantFacts DEF Hosts
<1>4. Types'
  <2>1. sin_port' \in BOOLEAN
    BY <1>1, <1>2, Zenon
  <2>2. i' \in 0 .. NMAX /\ retry' \in 0 .. RETRIES - 1
    BY <1>1, <1>2, ConstantFacts
  <2>3. pc' \in {"lookup", "mutex"}
    BY <1>1
  <2> QED
    BY <1>1, <1>3, <2>1, <2>2, <2>3 DEF Types, events
<1>5. ExistsOnce'
  BY <1>1 DEF ExistsOnce, events
<1>6. waited <= (i + 1) * (RETRIES - 1) + 0
  <2>1. RETRIES - 1 \in Nat
    BY ConstantFacts
  <2>2. (i + 1) * (RETRIES - 1) = i * (RETRIES - 1) + (RETRIES - 1) /\ i * (RETRIES - 1) \in Int
    BY <1>2, <2>1, NextHostWaits
  <2> QED
    BY <1>2, <2>1, <2>2
<1>7. LookupsSoFar'
  <2>1. WaitsAreBounded'
    BY <1>1 DEF LookupsSoFar, WaitsAreBounded
  <2>2. CASE i + 1 < NMAX
    <3>1. pc' = "lookup" /\ sin_port' = FALSE /\ i' = i + 1 /\ retry' = 0 /\ waited' = waited
      BY <1>1, <1>2, <2>2
    <3> QED
      BY <1>3, <1>6, <2>1, <2>2, <3>1 DEF LookupsSoFar, After
  <2>3. CASE ~(i + 1 < NMAX)
    <3>1. pc' = "mutex" /\ sin_port' = TRUE /\ i + 1 = NMAX
      BY <1>1, <1>2, <2>3, ConstantFacts
    <3>2. NMAX \in 0 .. NMAX /\ (sin_port' <=> NMAX = NMAX)
      BY <3>1, ConstantFacts
    <3>3. \A h \in Hosts : NTP_server_IPs'[h] # NoAddress <=> h < NMAX
      BY <1>3, <3>1
    <3> QED
      BY <2>1, <3>1, <3>2, <3>3 DEF LookupsSoFar, After
  <2> QED
    BY <2>2, <2>3
<1> QED
  BY <1>4, <1>5, <1>7

\* A lookup that fails is tried again, or ends the loop over the hosts.
LEMMA NotResolvedStep ==
  ASSUME IInv, NotResolved
  PROVE  IInv'
<1> USE DEF IInv
<1>1. /\ pc = "lookup" /\ UNCHANGED <<events, heap_end, peers>>
      /\ NTP_server_IPs' = [NTP_server_IPs EXCEPT ![i] = NoAddress]
      /\ waited' = waited + 1 /\ i' = i /\ sin_port' = sin_port
      /\ \/ retry + 1 < RETRIES /\ retry' = retry + 1 /\ pc' = pc
         \/ ~(retry + 1 < RETRIES) /\ retry' = retry /\ pc' = "mutex"
  BY DEF NotResolved, GivesUp
<1>2. /\ i \in Nat /\ i < NMAX /\ sin_port = FALSE /\ waited \in Nat /\ retry \in 0 .. RETRIES - 1
      /\ \A h \in Hosts : NTP_server_IPs[h] # NoAddress <=> h < i
      /\ waited <= i * (RETRIES - 1) + retry /\ i * (RETRIES - 1) \in Int
      /\ NTP_server_IPs \in [Hosts -> Addresses \union {NoAddress}]
  BY <1>1, ConstantFacts DEF LookupsSoFar, Types
<1>3. /\ NTP_server_IPs' \in [Hosts -> Addresses \union {NoAddress}]
      /\ \A h \in Hosts : NTP_server_IPs'[h] # NoAddress <=> h < i
  BY <1>1, <1>2, ConstantFacts DEF Hosts
<1>4. waited' <= i * (RETRIES - 1) + (retry + 1) /\ retry + 1 \in Nat /\ retry + 1 <= RETRIES
  BY <1>1, <1>2, ConstantFacts
<1>5. Types'
  <2>1. retry' \in 0 .. RETRIES - 1 /\ waited' \in Nat
    BY <1>1, <1>2, ConstantFacts
  <2>2. pc' \in {"lookup", "mutex"}
    BY <1>1
  <2> QED
    BY <1>1, <1>3, <2>1, <2>2 DEF Types, events
<1>6. ExistsOnce'
  BY <1>1 DEF ExistsOnce, events
<1>7. LookupsSoFar'
  <2>1. WaitsAreBounded'
    <3>1. waited' \in Nat
      BY <1>1, <1>2
    <3> QED
      BY <1>2, <1>4, <3>1, BoundHolds DEF WaitsAreBounded
  <2>2. CASE retry + 1 < RETRIES
    BY <1>1, <1>2, <1>3, <1>4, <2>1, <2>2 DEF LookupsSoFar, After
  <2>3. CASE ~(retry + 1 < RETRIES)
    <3>1. i \in 0 .. NMAX /\ (sin_port' <=> i = NMAX)
      BY <1>1, <1>2, ConstantFacts
    <3> QED
      BY <1>1, <1>3, <2>1, <2>3, <3>1 DEF LookupsSoFar, After
  <2> QED
    BY <2>2, <2>3
<1> QED
  BY <1>5, <1>6, <1>7

----------------------------------------------------------------------------
LEMMA SetUpSteps ==
  ASSUME IInv, initTimeMutex \/ Packets \/ assoc_table_init
  PROVE  IInv'
<1> USE DEF IInv
<1>1. /\ UNCHANGED <<events, lookup>> /\ pc \in {"mutex", "packets", "table"}
      /\ pc' \in {"packets", "table", "run", "wild", "halted"}
      /\ peers' \in {peers, NTP_server_IPs}
  BY DEF initTimeMutex, Packets, assoc_table_init, vApplicationMallocFailedHook
<1>2. heap_end' \in 0 .. HEAP
  BY HeapStep, ConstantFacts DEF initTimeMutex, Packets, assoc_table_init, Types
<1>3. Types'
  BY <1>1, <1>2 DEF Types, events, lookup
<1>4. ExistsOnce'
  BY <1>1 DEF ExistsOnce, events
<1>5. LookupsSoFar'
  BY <1>1, LookupsKept DEF After
<1> QED
  BY <1>3, <1>4, <1>5

\* Every step of the start-up keeps the invariant.
LEMMA StepHolds == IInv /\ [Next]_vars => IInv'
<1> SUFFICES ASSUME IInv, [Next]_vars PROVE IInv'
  OBVIOUS
<1>1. CASE UNCHANGED vars
  BY <1>1, LookupsKept DEF vars, events, lookup, IInv, Types, ExistsOnce
<1> QED
  BY <1>1, EventSteps, SocketStep, ResolvedStep, NotResolvedStep, SetUpSteps DEF Next, Client

(* The invariant that the theorems below rest on.                          *)
THEOREM Invariance == Spec => []IInv
BY InitHolds, StepHolds, PTL DEF Spec

(* The loops and the heap stay in their bounds, the event hook creates one *)
(* client (main_networking.c:202), and its lookups wait a bounded number   *)
(* of seconds (NTPTask.c:59-81).                                           *)
THEOREM TypeCorrect == Spec => []TypeOK
<1>1. IInv => OneClient
  BY DEF IInv, Types, ExistsOnce, OneClient
<1>2. IInv => TypeOK
  BY <1>1 DEF IInv, LookupsSoFar, TypeOK
<1> QED
  BY Invariance, <1>2, PTL

(* NTPTask.c:57-87: the hosts known are the first ones, and without all of *)
(* them the port of the servers is never set.                              *)
THEOREM OneFailureSilencesAllAlways == Spec => []OneFailureSilencesAll
<1>1. IInv => OneFailureSilencesAll
  <2> SUFFICES ASSUME IInv, After PROVE \E k \in 0 .. NMAX : Known = 0 .. k - 1 /\ (sin_port <=> k = NMAX)
    BY DEF OneFailureSilencesAll, Started, After
  <2>1. PICK k \in 0 .. NMAX :
          /\ \A h \in Hosts : NTP_server_IPs[h] # NoAddress <=> h < k
          /\ sin_port <=> k = NMAX
    BY DEF IInv, LookupsSoFar
  <2>2. Known = 0 .. k - 1
    BY <2>1, ConstantFacts DEF Known, Hosts
  <2> QED
    BY <2>1, <2>2
<1> QED
  BY Invariance, <1>1, PTL

============================================================================
