------------------------------ MODULE Startup ------------------------------
(***************************************************************************)
(* From main() to the synchronization loop: the network events that create *)
(* the client's task, the socket, the DNS lookups with their retries, the  *)
(* allocations and the association table.  Exchange begins where this      *)
(* module ends.                                                            *)
(***************************************************************************)
EXTENDS Integers, FiniteSets

CONSTANTS
  NMAX,
  RETRIES,    \* lookups of a host before giving up: 10
  HEAP,       \* memory above the heap's bottom, in allocations
  Addresses,  \* what DNS may answer
  NoAddress   \* the zero that FreeRTOS_gethostbyname() returns in vain

ASSUME StartupAssumption ==
  /\ NMAX \in Nat \ {0} /\ RETRIES \in Nat \ {0} /\ HEAP \in Nat
  /\ NoAddress \notin Addresses

Hosts == 0 .. NMAX - 1

VARIABLES
  up,                    \* the network is up
  xTasksAlreadyCreated,
  tasks,                 \* client tasks in existence
  pc,                    \* where the client's task is
  i, retry,              \* the loops of init_network_and_DNS()
  NTP_server_IPs,
  sin_port,              \* xDestinationAddress has its family and port
  heap_end,              \* what _sbrk() has handed out
  peers,                 \* associations of the table, by their source address
  waited                 \* history: seconds of vTaskDelay() between lookups

lookup == <<i, retry, NTP_server_IPs, sin_port, waited>>
events == <<up, xTasksAlreadyCreated, tasks>>
vars   == <<events, pc, lookup, heap_end, peers>>

Halted  == pc = "halted"
Started == pc \in {"run", "wild"}

----------------------------------------------------------------------------
(* The heap.  pvPortMalloc(), under the kernel's and the IP stack's own    *)
(* allocations, calls a hook that stops the machine when it fails;         *)
(* malloc() and calloc() return a null pointer, which their callers use.   *)

_sbrk(incr) == heap_end + incr <= HEAP /\ heap_end' = heap_end + incr
Fails(incr) == heap_end + incr > HEAP /\ UNCHANGED heap_end
vApplicationMallocFailedHook == pc' = "halted"

----------------------------------------------------------------------------
(* main_udp_ntp_tasks() and the events of the IP stack, whose task has a   *)
(* higher priority than the client.                                        *)

NetworkChanges ==
  /\ pc # "halted" /\ up' = ~up
  /\ UNCHANGED <<xTasksAlreadyCreated, tasks, pc, lookup, heap_end, peers>>

CreatesAlways == TRUE
Creates == ~xTasksAlreadyCreated

\* The hook on a network up event, which may come again without a down event.
vApplicationIPNetworkEventHook ==
  /\ pc # "halted" /\ up
  /\ IF Creates
     THEN \/ /\ _sbrk(1) /\ tasks' = tasks + 1 /\ xTasksAlreadyCreated' = TRUE
             /\ pc' = IF tasks = 0 THEN "socket" ELSE pc
          \/ /\ Fails(1) /\ vApplicationMallocFailedHook
             /\ UNCHANGED <<xTasksAlreadyCreated, tasks>>
     ELSE UNCHANGED <<xTasksAlreadyCreated, tasks, pc, heap_end>>
  /\ UNCHANGED <<up, lookup, peers>>

\* Buffers and sockets of the IP stack share the heap.
Allocates ==
  /\ pc # "halted"
  /\ \/ _sbrk(1) /\ UNCHANGED pc
     \/ Fails(1) /\ vApplicationMallocFailedHook
  /\ UNCHANGED <<events, lookup, peers>>

----------------------------------------------------------------------------
(* init_network_and_DNS()                                                  *)

\* An invalid socket fails the assertion, which loops in a critical section.
FreeRTOS_socket ==
  /\ pc = "socket"
  /\ pc' \in {"lookup", "halted"}
  /\ UNCHANGED <<events, lookup, heap_end, peers>>

MovesOn == /\ i' = i + 1 /\ retry' = 0
           /\ IF i + 1 < NMAX THEN pc' = "lookup" /\ UNCHANGED sin_port
              ELSE pc' = "mutex" /\ sin_port' = TRUE

Resolved(addr) ==
  /\ pc = "lookup" /\ up
  /\ NTP_server_IPs' = [NTP_server_IPs EXCEPT ![i] = addr]
  /\ MovesOn
  /\ UNCHANGED <<events, heap_end, peers, waited>>

\* The last failure waits as well, and then returns from the function.  The
\* lookup fails, after its own timeout, whether the network is up or not.
SkipsHost == IF retry + 1 < RETRIES
             THEN retry' = retry + 1 /\ UNCHANGED <<i, sin_port, pc>>
             ELSE MovesOn
GivesUp == IF retry + 1 < RETRIES
           THEN retry' = retry + 1 /\ UNCHANGED <<i, sin_port, pc>>
           ELSE pc' = "mutex" /\ UNCHANGED <<i, retry, sin_port>>

WaitsForNetwork == up
GivesNoAnswer == TRUE
NotResolved ==
  /\ pc = "lookup" /\ GivesNoAnswer
  /\ NTP_server_IPs' = [NTP_server_IPs EXCEPT ![i] = NoAddress]
  /\ waited' = waited + 1
  /\ GivesUp
  /\ UNCHANGED <<events, heap_end, peers>>

----------------------------------------------------------------------------
(* vNTPTask(), up to the first exchange.                                   *)

initTimeMutex ==
  /\ pc = "mutex"
  /\ \/ _sbrk(1) /\ pc' = "packets"
     \/ Fails(1) /\ vApplicationMallocFailedHook
  /\ UNCHANGED <<events, lookup, peers>>

\* r, x and the array of the table; only the array is tested for null, and
\* then the task goes on with the size that happens to be there.
Packets ==
  /\ pc = "packets"
  /\ \/ _sbrk(3) /\ pc' = "table"
     \/ Fails(3) /\ pc' = "wild"
  /\ UNCHANGED <<events, lookup, peers>>

\* assoc_table_init() mobilizes an association for each address in order.
assoc_table_init ==
  /\ pc = "table"
  /\ \/ /\ _sbrk(NMAX) /\ peers' = NTP_server_IPs /\ pc' = "run"
     \/ /\ Fails(NMAX) /\ pc' = "wild" /\ UNCHANGED peers
  /\ UNCHANGED <<events, lookup>>

----------------------------------------------------------------------------
Nothing == [h \in Hosts |-> NoAddress]

Init ==
  /\ up = FALSE /\ xTasksAlreadyCreated = FALSE /\ tasks = 0
  /\ pc = "none" /\ i = 0 /\ retry = 0
  /\ NTP_server_IPs = Nothing /\ sin_port = FALSE
  /\ heap_end = 0 /\ peers = Nothing /\ waited = 0

Client ==
  \/ FreeRTOS_socket \/ NotResolved \/ \E addr \in Addresses : Resolved(addr)
  \/ initTimeMutex \/ Packets \/ assoc_table_init

Next ==
  \/ NetworkChanges \/ vApplicationIPNetworkEventHook \/ Allocates
  \/ Client

\* The scheduler runs the client whenever it is ready, and its lookups return.
Spec == Init /\ [][Next]_vars /\ WF_vars(Client)

----------------------------------------------------------------------------
Types ==
  /\ up \in BOOLEAN /\ xTasksAlreadyCreated \in BOOLEAN /\ tasks \in Nat
  /\ pc \in {"none", "socket", "lookup", "mutex", "packets", "table", "run", "wild", "halted"}
  /\ i \in 0 .. NMAX /\ retry \in 0 .. RETRIES - 1
  /\ NTP_server_IPs \in [Hosts -> Addresses \union {NoAddress}]
  /\ peers \in [Hosts -> Addresses \union {NoAddress}]
  /\ sin_port \in BOOLEAN /\ heap_end \in 0 .. HEAP /\ waited \in Nat

(* main_networking.c:202: however often the network comes and goes, there  *)
(* is one client, and it is the one that the flag records.                 *)
OneClient ==
  /\ tasks <= 1
  /\ tasks = 1 <=> xTasksAlreadyCreated
  /\ pc \notin {"none", "halted"} => tasks = 1

(* NTPTask.c:59-81: the lookups take a bounded number of one-second waits, *)
(* RETRIES for the host that fails and one fewer for those before it.      *)
WaitsAreBounded == waited <= (NMAX - 1) * (RETRIES - 1) + RETRIES

(* The loops, the heap, the number of clients and their waits stay in      *)
(* their bounds.                                                           *)
TypeOK == Types /\ OneClient /\ WaitsAreBounded

(* NTPTask.c:57-87: one host that does not resolve ends the lookups, so    *)
(* the addresses known are those of the first hosts, and the port that     *)
(* every later request needs is set only when it is all of them: a client  *)
(* with four servers out of five asks none.                                *)
Known == {h \in Hosts : NTP_server_IPs[h] # NoAddress}
OneFailureSilencesAll ==
  Started \/ pc \in {"mutex", "packets", "table"} =>
    \E k \in 0 .. NMAX : Known = 0 .. k - 1 /\ (sin_port <=> k = NMAX)

(* Once the network has come up, and even when it goes down again, the     *)
(* lookups end, with or without an answer from DNS; and a client that has  *)
(* looked up every host reaches its loop, whatever the IP stack allocates, *)
(* unless the machine stops in a hook.                                     *)
LookupsOver == pc \notin {"none", "socket", "lookup"}
StartUpEnds ==
  /\ xTasksAlreadyCreated ~> (LookupsOver \/ Halted)
  /\ sin_port ~> (Started \/ Halted)
============================================================================
