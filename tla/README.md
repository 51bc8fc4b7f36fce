# Verification of the atomic-pvk NTP client

The program is an NTP client for a small board (FreeRTOS, FreeRTOS+TCP, one
Ethernet port).  It follows the example code of RFC 5905, cut down to one task
that polls `NMAX` fixed servers in client mode.  This directory holds TLA+
modules of its core logic, TLC configurations that check them on small
instances, and theorems about them that TLAPS proves for every value of the
constants.

Source lines are quoted as `file:line`, relative to `src/src/`.

## 1. The system

### Components, their state and their operations

| component | code | state | operations |
|---|---|---|---|
| clock discipline | `NTP_vfo.c`, part of `clock_update()` | struct `c` (process time `t`, state, offset, last offset, jiggle counter, frequency, jitter), `s.t`, `s.poll`, `s.stratum`, `s.leap` | `local_clock`, `rstclock`, `clock_adjust`, `clock_update` |
| system process | `NTP_system_process.c`, `fit()` of `NTP_peer.c` | chime list `s.m`, survivor list `s.v`, its counter `s.n`, system peer `s.p`, `s.refid` | `clock_select`, `cull`, `intersection`, `clock_combine` |
| poll process | `NTP_poll.c`, the loops of `vNTPTask()` and `clock_adjust()` | per association: reach, unreach, hpoll, ppoll, outdate, nextdate; the static `last_nextdate` | `poll`, `poll_update`, `peer_xmit` |
| peer process: on-wire checks | `receive()`, `access()`, `fast_xmit()` of `NTP_peer.c` | per association: org, rec, xmt, leap, mode | the mode table, the replay/bogus/unsynchronized tests |
| peer process: clock filter | `packet()`, `clock_filter()`, `clear()` of `NTP_peer.c` | per association: the eight stages, offset, delay, disp, jitter, `p->t` | add a sample, sort, choose the best one |
| exchange of packets | `NTP_main_utility.c`, the loops of `vNTPTask()` | the socket, the address polled last | `xmit_packet`, `recv_packet`, `find_assoc`, `prep_xmit` |
| timestamp arithmetic and local clock | `NTP_TDMG.c`, `NTP_main_utility.c` | `c.localTime` with its mutex, `c.lastTimeStampTick` | `subtract_uint64_t`, `add_int64_t`, `sqrt`, `settime`, `gettime`, `step_time`, `adjust_time` |
| association table | `NTP_TDMG.c`, `NTP_main_utility.c` | `assoc_table`, filled once | `assoc_table_init/add/update`, `mobilize` |
| start-up and network | `NTPTask.c`, `main_networking.c`, `main.c` | whether the task exists, the resolved addresses | network event hook, DNS with retries, the start of `vNTPTask()` |
| time formatting | `NTP_TDMG.c` | none | `printTimestamp`, `uint64_to_str`, `double_to_str` |
| test server | `src/testing/ntp-example-server` | none | answers with the local clock |
| skeletons, board code | `skeleton/`, `CMSIS/`, `startup.c`, `syscalls.c` | | not part of the client's logic |

### How they interact

There is one client task, `vNTPTask`, beside the IP task of FreeRTOS+TCP.  The
two share the socket and the heap; the IP task creates the client at the first
network event.  Everything else is one chain of calls over global structs (`s`,
`c`, `assoc_table`):

```
vNTPTask loop --> clock_adjust --> poll(p), for each p --> peer_xmit --> recv_packet --> receive
                       |              |  (missing replies)                        |
                       | c.t++        +--> clock_filter                        packet --> poll_update
                                           |        ^------------------------------+
                                           v
                             clock_select --> clock_update --> local_clock --> rstclock (c.t++)
                             (cull, intersection, clustering, clock_combine)
```

One packet can therefore change the process time, the poll exponent of the host
and the schedule of the peer while the loop over the associations is still
running.

### Which behaviours are hard

- *State overwritten before it is used.*  `clock_update()` sets `s.t` and then
  calls `local_clock()`, which subtracts it; a local variable is assigned where
  a field is meant, and another is read that nothing has assigned.
- *Order.*  `c.t` advances in the middle of `poll()` and in the middle of the
  loop; samples of several peers interleave; the system peer hops to a peer
  whose sample is older.
- *Old entries.*  Survivor lists, sample stages and the system peer outlive the
  selection that produced them.
- *Lost, late and duplicated datagrams.*  One request, one wait, and the reply
  is matched to the server that was polled last.
- *Widths.*  32-bit dates against a 64-bit clock, unsigned differences,
  quotients by zero, infinities and NaNs that pass a clamp.
- *Liveness.*  One silent server holds the only task.

- *Races at the start.*  Network events repeat; the IP stack and the task take
  their memory from the same heap, and an allocation that fails goes on with a
  null pointer.

`PROJECT.json` lists each hazard at its line with the properties that cover it,
and a note where none does.

### What makes each component correct

- *clock discipline*: a counter within its band, poll exponents that change only
  when earned, at most one step, a finite frequency within the tolerance, update
  times that never go back.
- *system process*: a system peer exactly when some peer is fit; survivors that
  agree; a system peer that fits them, kept or new.
- *poll process*: polls neither too close nor put off too far; nobody overdue;
  back-off earned by lost polls; every due date passes.
- *exchange*: each accepted reply answers the request that is open and goes to
  the association that asked, once; an answer is never refused; loss never
  blocks the task; what the client did to its clock before a reply does not
  outlast it.
- *clock filter*: which samples a register remembers, that no sample is used
  twice, that jitter and dispersion come down again.
- *timestamps and local clock*: differences, sums and readings equal those of
  the exact arithmetic, within the range where they fit.
- *start-up*: one client whatever network events come; it reaches its loop or
  the machine halts; the servers that did resolve are asked.

Several of the properties below are not what one would wish of an NTP client.
They say what this client does, in the form in which it is invariant.

## 2. The modules

| module | models | extends |
|---|---|---|
| `HostClock` | what the discipline promises of `c.t` and `s.poll` (abstract) | |
| `ClockDiscipline` | the clock discipline | instantiates `HostClock` |
| `SystemProcess` | fit, cull, intersection, clustering, system peer | |
| `PollProcess` | the poll process and the loops of the task | instantiates `HostClock` |
| `OnWire` | what an exchange of packets promises (abstract) | |
| `Exchange` | requests, replies, the network, the tests of `receive()` | instantiates `OnWire` |
| `ClockFilter` | the register, dispersion, jitter and fitness of one association | |
| `Timestamps` | the 64-bit arithmetic on timestamps | |
| `LocalClock` | the local clock, and the samples computed from it | `Timestamps` |
| `Startup` | network events, the task, lookups, allocations | |
| `...Proofs` | theorems about the module they are named for | that module, TLAPS |
| `MC...` | the constants of the TLC instances | the module they are named for |

`map` of `PROJECT.json` gives the lines of every definition.  Some definitions
are alternatives that nothing uses (`NeverCarries`, `DueExactly`, ...): the
mutants of `PROJECT.json` put them in the place of another to see a property
fail.

### HostClock and ClockDiscipline

`HostClock` is all that the poll process needs to know of a sample: process time
advances by at most one, the poll exponent moves by one or back to `MINPOLL`,
and stays in its bounds.  `ClockDiscipline` implements it (`ImplementsHostClock`);
`PollProcess` takes its `clock_filter` from it, so that neither module assumes
of the other more than is checked and proved.

*State of `ClockDiscipline`.*  `cT .. cJitter` are the fields of `c`,
`sT .. sSynced` those of `s`; `pT[p]` is `p->t`; `heard` are the peers that have sent an accepted packet;
`status` tells whether the task still runs.  `rval`, `mu`, `used`, `steps` and
`moves` are history and influence nothing.

*Actions.*  `clock_adjust` is a turn of the loop.  `ClockFilter(q, reply)` is a
whole call of `clock_filter()`: it stamps the sample, then selects nothing or
some peer heard before, with any offset and a stratum one may follow, and calls
`clock_update`.  That the selection picks no other is `KeptPeerSharesStratum` of
`SystemProcess`.  `local_clock` has one disjunct for each path through the `switch`:
`PanicOffset`, `SyncOutlier`, `WaitOutlier`, `StepOutlier`, `NsetInlier`,
`FsetInlier`, `FreqInlierWait`, `FreqInlier`, `SyncInlier`.  Which peer is
selected is left open: `SystemProcess` decides that.

*Two outcomes of the build.*  `NTP_vfo.c:117` tests a local that no path has
assigned: `StepOutlier` takes either branch.  A measured frequency is a quotient
by the zero interval: `FreqInlier` yields a NaN or, when the offset changed, an
infinity whose square root never returns (`status = "hung"`); once `c.freq` is a
NaN the sum is one too, `sqrt()` returns at once, and the call goes on to the
adjustment of the poll exponent and to SLEW.

*Start.*  `rstclock()` sets `c.t` to 1 and `settime()` increments it before the
first loop (`NTPTask.c:155`): the modules with a process time begin at 2, with
every association stamped 1.

*Abstracted.*  Offsets are integers of either sign: each difference is an
absolute value (`NTP_TDMG.c:142`), but their sum is sign-extended by
`add_int64_t()`.  The gains of the frequency loop are reduced to the sign of
what they add; the jitter is doubled to stay an integer.  `FREQ_EXISTS` is the
set of builds to consider.  With a frequency file `c.freq` starts at the tick
rate, is clamped to the tolerance by the first update and can then only be
lowered, by the FLL; the build without one is where the PLL could move it.

*Code that never runs.*  As `mu` is always 0, the disjunct `t - st >= WATCH` of
`MayStep` can never hold, and `SPIK` is never entered.  They are kept because
the code has them, and the theorems below say that they are dead.  That the code disagrees with its comment there is the run
`first_outlier`.

### SystemProcess

*State.*  `att[p]` is the association of `p` (offset, root distance, jitter,
stratum, reference id, whether synchronized and reached); `sP`, `sV`, `sN`,
`sRefid` are fields of `s`, where `sV` is the array up to its first null
pointer.  `seen`, `fits`, `found` and `heard` are history: the associations, the
fit peers and the survivors of the last selection, and the peers of which a
packet has been accepted.

*Actions.*  `Sample(p, a)`: a packet of `p` changes its association, and then
either a gate of the filter drops the sample or a whole `clock_select()`
follows.  `Missing(p)`: `poll()` enters a missing reply as a sample, with the
same two ends.  Which sample a gate drops is the matter of `ClockFilter`; here
any may be.  `Discarded(p, h)`: `packet()` takes over
the header of a server that is unsynchronized or too far away, and returns.

*Algorithms.*  `cull` and `Survivors` are recursive functions over the entries
of the chime list, one step for each.  `cull` gives every order that `qsort()`
may leave among equal edges: the next entry is any of the least of the others.
`High` and `Low` are what the two scans of `intersection()` find, which break at
their first hit.  `Overwrite` keeps what lies behind the survivors in the array.
`Clustered` is the loop that decrements `s.n` without changing what it tests.

*Abstracted.*  The root distance is an input of the model (`ClockFilter` has
`root_dist()`), positive by `SamplesAssumption` as it is at least half of
`MINDISP`; a missing reply puts a server beyond the threshold, and a sample after
it may be fit again, which `SilentServerUnfit` of `ClockFilter` rules out.
`clock_combine()`, with its weights and the `s.offset` and `s.jitter` it
computes, and the root dispersion are left out: `ClockDiscipline` takes any
offset.  No two associations have the same address:
`assoc_table_update()`, called before each selection (`NTP_peer.c:210`), then
puts `p` into the entry where it is.  With two hosts of one address it would
replace the first of them, a case that only `Exchange` has, for the lookup by
address.

### PollProcess

*State.*  One function over `1 .. NMAX` for each field of an association; the
reach register is kept as the position of its lowest bit, which is all that the
code tests of it; `pc` and `at` say where the task is: in the first loop
(`"sync"`), in the delay, before `poll(at)`, or waiting for its reply.

*Actions.*  `clock_adjust` (the delay and the tick), `NotDue(p)`, `poll(p)` (with
the clock filter's report of a missing reply, the back-off and `poll_update`),
and what follows the request: `Accepted`, `Discarded`, `Ignored` (which is also
the timeout) or `Lost` (the task is gone: a null association is dereferenced,
or the filter ends in `exit()` or in a square root that never returns).

*Widths.*  `ToInt` and `ToUnsigned` are the conversions between `int` and
`uint32_t`, modulo `WORD`.  `Due` compares unsigned and 32 bits wide,
`Passed` compares 64 bits wide, as the code does at the two places.

*Abstracted.*  The clock filter is what it can do to the schedule, the
`clock_filter` of `HostClock`.  Burst, broadcast and
manycast associations are left out; nothing configures them.

All dates are in process time, which runs ahead of real time (section 5).

### OnWire and Exchange

`OnWire` asks one association at a time; the open request is accepted once, by
the association that was asked, or given up.

*State of `Exchange`.*  The tick count; `localTime` and `lastTick` of `c`; `xmt`
of each association; how many hosts DNS resolved; the part of `vNTPTask()`
(`phase`: the exchange that sets the clock, the first loop, the poll loop);
datagrams on the wire (`requests`, `replies`) and in the socket (`inbox`).

*Actions.*  `xmit_packet(p)`, `Receive` (one datagram of `recv_packet()`, all
tests of `receive()`), `NoReply` and `NullAssociation` (the two ends of a
timeout), `clock_adjust` (the correction of a turn of the poll loop), `Serve`, `Deliver`, `Lose`, `Tick`.  With `Unreliable` the network
also delays a reply beyond the wait it is for, and repeats it.

*Refinement.*  `request` is the number of requests, `asked` the host asked last,
`open` that the task waits.

*Corrections.*  `adjust_time(c.freq + dtemp)` moves the clock forward in every
turn of the poll loop, `step_time()` back, after an accepted reply or after
`poll()` has reported a missing one; the second takes a survivor, so some reply
has been read before.  Both drop the whole seconds of their argument, so any
fraction is possible (`Fractions`, `Steps`).  `corrected` is their sum since a
reply last set the clock.  `MaxCorrection` bounds it; the first reply comes
before any correction.  Which offset the discipline computes is left to
`ClockDiscipline`.

*Abstracted.*  A timestamp is a number of ticks; servers answer at once and
with the true time.  They set the origin of a reply as RFC 5905 has it.  The
test server under `src/testing` copies the client's origin field instead, which
is not the client's transmit time, so the client refuses its answers as bogus.

### ClockFilter

*State.*  The eight stages `f`, `p->t`, offset, delay, dispersion and jitter of
one association, what it keeps of the last header, and the polls since its
reach register was set.

*Actions.*  `poll` (which reports a missing reply to the filter), `packet(r)`
and `Discard(r)` for a reply whose header fits or not, `NoReply`,
`clock_adjust`.  Each sample goes through the whole of `clock_filter()`: the
shift, the sums, the two gates, and what a selection may do to `c.t` and to
`s.leap`: it may synchronize the system, and it may lose that again, because a
kept system peer hands on the leap of a header that `packet()` discarded.

*Abstracted.*  Numbers count units of 1/UNIT s, `sqrt()` is rounded down to a
unit, where the code's is within 5e-6 of the root: within microseconds of a
second `JitterRatchets` need not hold of the code.  What process time adds to a
dispersion is divided by 2^32 by the code, and is 0 here.

### Timestamps and LocalClock

A timestamp is a pair of words of `WORD = 2 * HALF` values.  `Timestamps` has
the pure operators; `add_int64_t` is a set, as the carry test is undefined in C
when its signed sum overflows and compilers differ on it.

*State of `LocalClock`.*  The tick count, `localTime` and `lastTick`, the four
timestamps of the exchange under way and the sample of the last one.  `truth`
and `reads` are history: the same clock in exact arithmetic.

*Actions.*  `Tick`, `xmit_packet`, the two steps of the server, the first reply
or its absence (`SetFromReply`, `SetFromNothing`), `NoReply`, `recv_packet`,
`ReceiveAndStep`, `clock_adjust(offset)` and `PollAndStep(offset)`, the step
that a missing reply reported by `poll()` may end in.  Words, the era of the timestamps and
the tick count all wrap.

### Startup

*State.*  Whether the network is up, the flag and the number of tasks, the two
loops of the lookups, the addresses, the socket's port, the heap, the table.

*Actions.*  Network events, the hook that creates the task, allocations of the
IP stack, the socket, lookups that succeed or fail, and the task's own
allocations up to its first exchange.  `"halted"` is the hook that loops when
`pvPortMalloc()` fails; `"wild"` is the task going on with a null pointer of
`malloc()`, where the model ends.

## 3. The runs

CHECK_DEADLOCK is off in every run: each instance stops at its bound, and the
client itself can stop (`exit()` on a panic offset, a lost task, a halted
machine).

| run | instance | what it shows |
|---|---|---|
| `clock` | two peers, both builds | the discipline while samples of two peers interleave |
| `selection` | three interchangeable peers, three kinds of sample | the selection after any order of samples |
| `poll` | two servers | the schedule, through loss, back-off and recovery |
| `exchange` | two servers, resolved or not, a network that loses | the exchange implements `OnWire` and ends |
| `filter` | one association, five replies | the register, the gates, the fitness |
| `arithmetic` | one server, words of four bits, across the end of an era | the clock and the samples are those of exact arithmetic |
| `startup` | three hosts, three tries, nine allocations | from the first network event to the loop |
| `first_outlier`, `falsetickers`, `onwire`, `filter_comments`, `signed_difference` | as the passing run of the same module | section 5 |

### The properties of the passing runs

`TypeOK` of each module; beside types, it bounds the survivor list by its array
and the counter `s.n` by the list (`SystemProcess`), the reach register and the
selections by the samples (`ClockFilter`), every word through every wrap
(`LocalClock`), and the number of clients and their waits (`Startup`).

- `clock`:
  - `CountInBand`: the jiggle counter stays in the hysteresis band and is
    accounted for by the adjustments since its reset.
  - `StepsAtMostOnce`: the clock is stepped at most once, `SPIK` never entered.
  - `SyncFreqInTolerance`: a synchronized client applies a number within the
    tolerance; a NaN never reaches SYNC, and only the frequency measurement can
    hang the task.
  - `UpdateTimeMonotone`, `SyncForever`, `FreqFrozenAtShortPoll`,
    `PollChangeIsEarned`: what no step may do.
  - `ImplementsHostClock`: what the poll process relies on.
- `selection`:
  - `SelectsIffFit`: a system peer exactly when a peer is fit.
  - `SurvivorsIntersect`: the survivors' intervals share a point.
  - `EarliestSurvives`: the fit peer of least offset always survives.
  - `KeptPeerSharesStratum`: a system peer that is kept without being looked
    for among the survivors has the stratum of the first of them, and a packet
    of it has been accepted.
- `poll`:
  - `PollSpacing`, `NextPollBounded`, `NobodyOverdue`: polls are not too close,
    not put off too far, and not overdue by more than the loop itself can
    advance the clock (`TurnTicks`).
  - `BackOffIsEarned`: an interval grows only after lost polls.
  - `DueDatePasses`: every due date is left behind, or the task is lost.
- `exchange`:
  - `ImplementsOnWire`: every step is a step of `OnWire` or changes nothing of
    it, in a network that delivers no datagram after the wait it is for.
  - `AnswerAccepted`: the answer to the open request passes every test.
  - `OnlyNewCorrections`: once a reply was read, what the clock is off the
    servers is what the corrections since the last reply add up to, less at most
    a wait and plus less than the ticks `gettime()` counts twice.  Whatever the
    discipline did to the clock before that reply, reading it undoes: also when
    the reply is refused.
  - `ExchangeEnds`, `PollingStarts`: every exchange ends, and so does the first
    loop, whatever is lost.
- `filter`:
  - `TwoSamplesKept`: the eight stages remember two samples, and the newest
    stands for the association.
  - `SilentServerUnfit`: a server with one missing reply reported is unfit for
    good.
  - `EveryAnswerCounts`: nothing keeps an answer from the selection but a missing
    reply that its own poll reported; no other answer is stale, and the popcorn
    spike suppressor dumps none.
  - `JitterRatchets`: below a second the jitter never falls.
  - `SampleUsedOnce`: once the system is synchronized no second of process time
    brings two samples of one association into the selection.
- `arithmetic`:
  - `ClockKeepsTicks`: the clock keeps the time of the tick count, but for the
    truncation of each reading and the ticks counted twice.
  - `DelayIsTripTime`: a delay is the time the packets spent on the way, unless
    an era ended meanwhile.
  - `OffsetIsLarger`: an offset is the larger of half the delay and the
    magnitude of the error, below half a second.
  - `CorrectionsAreFractions`: a correction moves the clock by less than a
    second, a step never forward and an adjustment never back.
- `startup`:
  - `OneFailureSilencesAll`: one host that does not resolve ends the lookups,
    and no server is ever asked.
  - `StartUpEnds`: once the network was up the lookups end, with or without an
    answer, and a client that has looked up every host reaches its loop, unless
    the machine stops in a hook.

### Bounds, and why they are enough

- *clock*: `MaxT = 6` bounds process time.  The thresholds are scaled with it:
  `WATCH = 2`, `LIMIT = 10` and exponents 6 to 8, so that two calm updates, or
  one restless one, carry the counter over the limit and the exponent reaches
  both of its bounds.  `OffsetClasses = {0, 1, 4, 9, -9, 21}` has a member for
  each class `local_clock()` tells apart: none, below the jitter gate, above it,
  beyond the step threshold (8) on either side, beyond the panic threshold (20).
  Two peers suffice for the interleavings: the last and the next one selected.
  `SYMMETRY` is over peers; all properties of the run, the refinement among them,
  are safety properties.
- *selection*: three peers make a majority and a minority; `FewSamples` are two
  primary servers with disjoint intervals and a secondary one that meets the
  first.  `MaxPackets = 4`: three packets fill the table, one more changes it.
  `SYMMETRY` is over peers, which the model treats alike; no liveness property
  is checked under it.
- *poll*: `MaxT = 11` with intervals of at most 4, so that a server goes from
  unreachable through back-off to recovery and is lost again.  `INTBITS = 4`,
  `UNREACH = 4`: the least register that tells one, three and all missing
  replies apart, and an even threshold that is met and passed.  `WORD = 128`
  keeps every date below the horizon.  `Gap = 1` scales the five seconds.
- *exchange*: `NMAX = 2`, a second and the ignored ticks are 2, a wait 3 ticks;
  `MaxRequests = 4` and `MaxT = 16` reach the poll loop with a request to spare.
  `MaxCorrection = 2` lets a clock be off by a second either way, by one
  correction or by several.  `Base = 40` and `EPOCH = 30` keep the client's
  first time before 1970 and the servers' after it, corrections included.
- *filter*: a unit is 1/16 s; the real ratios of 16 s, 5 s (with what 36 hours
  add) and half a second are kept.  The polls of exponents 6 and 17 are the two
  ends of the suppressor's window.  `MaxT = 8` is enough for three polls without
  a reply and replies before and after them.
- *arithmetic*: words of 16 values; `HZ = 5` does not divide a word, so that
  readings truncate; the tick count wraps at 8 and the era ends at tick 7 of 9
  (`Base = 236`).  Three requests: one sets the clock, two compute samples.
  Offsets and adjustments of either sign, one of them beyond a second.
- *startup*: three hosts, so that the first, a middle and the last can fail;
  three tries; nine allocations.  The client needs eight (task, mutex, three
  packets, three associations), so that the IP stack can take one and do no
  harm, or more and exhaust the heap before any of them.

### Fairness

- `PollProcess`: `WF_vars(Next)`.  The scheduler always runs the one client task
  again, `vTaskDelay()` returns, and `recv_packet()` returns because the socket
  has a receive timeout of five seconds.  No action is fair by itself: a reply
  may stay out for ever.
- `Exchange`: weak fairness of `Tick` and of `Client`, for the same reasons.
  Nothing is assumed of the servers and the network.
- `Startup`: weak fairness of `Client`; a lookup returns after its own timeout
  (external: `FreeRTOS_gethostbyname`).  Network events may cease.

The other modules have safety properties only.  `DueDatePasses` leaves out the
last `2 * NMAX` seconds before `MaxT`, where the bound and not the code stops
the clock.  `ExchangeEnds` is not touched by a bound, as no request is sent whose
wait would end after `MaxT`.

## 4. What is proved

All theorems hold for every number of peers, every threshold and every bound
that the named assumptions of the modules allow (which the runs evaluate on the
instances).  Each module of proofs has an inductive invariant, a lemma with one
case for each action, and the theorems as corollaries.

### ClockDisciplineProofs

`DisciplineInv`: types, `CountInBand`, `StepsAtMostOnce` and
`SyncFreqInTolerance`.  They need each other: that a step happens at most once
needs that SYNC and FREQ do not step, which needs the zero interval; that the
frequency in SYNC is a number needs that a NaN only arises where FREQ stays;
`CountInBand` bounds the counter by the number of adjustments times an exponent
that must be in its range.

`LocalClockStep` treats `local_clock()` once, called as `clock_update()` calls
it, with the update time already overwritten; one case for each of its paths.
`NextCountRange`, `NextPollRange` and `NextCountEarned` are the arithmetic of
the poll-adjust code, `ClampRange` that of the clamp.  `Earned` is what a change
of the exponent takes; `PollAdjustEarns` gets it from `CountInBand`.
`Refinement` is `Spec => ImplementsHostClock`: initial states map to initial
states, and every step to a step of `HostClock` or a stutter.

Theorems: `TypeCorrect`, `CounterStaysInBand`, `AtMostOneStep`,
`FreqInTolerance`, `UpdateTimeNeverBack`, `SyncIsAbsorbing`, `FreqIsFrozen`,
`PollChangesAreEarned`, `Refinement`: all properties of the run.

### SystemProcessProofs

The invariant is `Typed` (associations, lists and references; whoever was reached
has been heard, and so has the system peer) and `Selected`, the four guarantees
of the last selection.  A packet that is discarded changes neither the survivors
nor the associations they were chosen from, nor does a sample that the filter drops
(`FilterInv`), so all the work is in one lemma, `SelectionTyped`, for a
`clock_select()` over any well-formed associations.

It rests on what the algorithms compute, for every list:
- `ChimeListIsSorted`: each order that `cull` yields is a sorted list of the
  three edges of every fit peer, each of them once.
- `RangeOfIntersection`: `High` of such a list is the least upper edge, and `Low`
  is no higher than the least midpoint, so that the range between them holds both.
- `SurvivorsAreWithin`: `Survivors` keeps the entries within the range, and
  only those.
- `SelectionSurvivors`: so someone survives, all survivors contain the first
  upper edge, and a peer of the least offset is among them.

`cull` and `Survivors` are recursive functions, and the induction theorems of the
library cannot be instantiated here.  `RecursiveFunction` builds the function
that the definition describes, and every induction is one over the length of the
list by a least counterexample (`LeastNatural`).

Theorems: `Invariance`, `TypeCorrect`, `SelectionSucceeds`, `SurvivorsAgree`,
`EarliestFitSurvives`, `SystemPeerStratum`: all properties of the run.

### PollProcessProofs

`TypeCorrect` and `BackOffTakesLosses` hold also where dates wrap.  The others
assume `Horizon`, `2 * LastDate < WORD`: the greatest date of the run fits an
`int`.  That is the condition under which the two comparisons of different
widths agree (`StoredAsIs`, `DueIsPassed`).  With the real constants the horizon
is 2^31 seconds of process time, close to seven years at ten ticks a second;
beyond it an interval can be lost.

- `ScheduleInv`: types, every `outdate` is the time of the last poll and no
  later than now, every `nextdate` is a real date, a scheduled peer is not due
  before its least interval is over, and `NextPollBounded`.  The third part is
  needed for the spacing: a poll happens when a date has passed, and only the
  invariant relates that date to the poll before.
- `LostCounted`: the unreach counter counts a lost poll at most twice.
- `TurnInv`: how far every association may be overdue at each place of the loop.
  A visit leaves its association at most due now, and each later visit can
  advance `c.t` by two, in `poll()` and in the reply; what is due before its
  visit needs no bound.  At the end that is `2 * NMAX - 2`, but at least 1, as
  `settime()` advances `c.t` once before the first loop, in which a visit adds
  one at most.

Theorems: `TypeCorrect`, `ScheduleCorrect`, `NextPollIsBounded`,
`PollsAreSpaced`, `BackOffTakesLosses`, `NobodyIsOverdue`: all safety properties
of the run.

### ExchangeProofs

The theorems assume `Reliable`, a network that delivers nothing after the wait it
is for; the run `onwire` shows why.  Beside the types the invariant has
`InFlight` (only the open request or its answer is under way), `Waiting` (when
the request was sent, and what the association stored for it), `Counted` (before
a reply is read the clock counts from zero, after that it is a server's; in both
cases `corrected` apart, which `MaxCorrection` keeps small enough that the clock
never reads 1970), `StartUnheard` and `OnlyNewCorrections`.  That an answer is never
refused needs all of them: the origin it carries is what the association stored,
and neither that nor the server's time is what `receive()` takes for zero.
`Refinement` is `Spec => ImplementsOnWire`: initial states map to initial states
and every step to a step of `OnWire` or a stutter.  The others are
`Invariance`, `TypeCorrect`, `OnlyNewCorrectionsAlways`, `AnswerAcceptedAlways`.

### ClockFilterProofs

The invariant adds `MissedDispersion` to types and `TwoSamplesKept`: once a
missing reply was reported the dispersion is at least half of `MAXDISP`, because
its sum is never reset.  With `DispersionAssumption` (16 s is more than twice
the threshold of `fit()`) that makes the server unfit for good.  `PolledLater`: while
an answer is awaited whose poll reported nothing, the last sample is older than
now.  With it `EveryAnswerCounts` follows, as `NoSpike` shows that no sample
exceeds a jitter it is part of.  Every property
of the run `filter` is a theorem.

### LocalClockProofs

There are two invariants.  `IInv` is the types, and that a sample was computed
from its timestamps.  `OffsetIsLargerAlways` rests on lemmas that compare
`subtract_uint64_t` and `add_int64_t` with the exact differences when these are
under half a second; `CorrectionsAlways` on what `Added` and `Subtracted` do to a
value.

`TInv` adds what a wait does to the clock.
- `Drift` (`Ahead`): `localTime`, with the ticks since the last reading, is the
  true time but for a truncation at each reading and the ticks counted twice.
  `ReadingIsExact` gives the value of a reading through the carry of the
  fraction and the wraps of the seconds; its quotients and remainders are named
  by `DivMod` and found again by `ModUnique`, as the SMT backend knows neither
  by a variable.  `StepDrift` has one case for each action.
- `InFlight`: while an exchange is under way the clock stands at its origin
  timestamp and the ticks not yet read are those since then, but for skipped
  ones; the server received the request in between and held it no longer.
- `DelayIsTripTime` itself: `TripIsShown` and `HeldIsShown` bound the time that
  the client's and the server's pairs of timestamps show, `DelayIsMagnitude`
  takes the difference.

`WidthAssumption` says what widths this takes: the tick count wraps before half
an era has passed, and no tick is shorter than a unit of the fraction.  At
1000 Hz the first is 49 days against 68 years, the second a thousandth of a
second against 2^-32.

`DifferenceIsMagnitude` is the finding of the run `signed_difference` for every
pair of timestamps and every width.

Theorems: `Invariance`, `TimeInvariance`, `TypeCorrect`, `OffsetIsLargerAlways`,
`CorrectionsAlways`, `ClockKeepsTicksAlways`, `DelayIsTripTimeAlways`: all
properties of the run.

### StartupProofs

The invariant is the types, `ExistsOnce` (one client, the one that the flag
records) and `LookupsSoFar` (the addresses known are those of the hosts before
`i`, and what they cost in waits).  Theorems: `Invariance`, `TypeCorrect`,
`OneFailureSilencesAllAlways`.

### What is only model-checked

Every safety property and every refinement that a passing run checks is a theorem.
Liveness is out of the prover's reach: `DueDatePasses`, `ExchangeEnds`,
`PollingStarts`, `StartUpEnds`.

No module uses RECURSIVE.

## 5. Disagreements between code and comments

Each is a run that TLC ends with a counterexample.

| run | the comment | the code |
|---|---|---|
| `first_outlier` | in SYNC the first outlier switches to SPIK (`NTP_vfo.c:53-54`) | a local variable is assigned: the client stays in SYNC for good |
| `falsetickers` | only truechimers are left (`NTP_system_process.c:28`) | both scans break at their first find, the majority plays no part |
| `onwire` | the received packet matches the last one sent (`NTP_peer.c:674-675`) | a late reply to an earlier request passes when it shares a fraction or a second with the current one |
| `filter_comments` | tuples are shifted, only the leftmost discarded (`NTP_peer.c:138-140`) | the copy runs in the wrong order: two samples remain |
| | the list is sorted by delay, its first entry is the best (`NTP_peer.c:162-164`) | nothing is sorted; the newest sample stands for the association |
| | a spike is dumped (`NTP_peer.c:194-197`) | the sample is part of the jitter it is compared with, none is dumped |
| `signed_difference` | the difference as a signed 64-bit integer (`NTP_TDMG.c:132`) | the magnitude |

`SomeCommentHolds`, the property of `filter_comments`, asks only that a sample
has one of the three; the step that refutes it refutes each.

Met on the way, and without a run of their own.

Clock discipline:
- a local is read unassigned after a step (`NTP_vfo.c:117`);
- `mu` is always 0, since `s.t` is overwritten first (`NTP_vfo.c:22`);
- the jitter forgets its history (`NTP_vfo.c:142`); the measured frequency never
  leads to SYNC by itself (`NTP_vfo.c:166-173`);
- a step clears no association: the loop is `while (0)`
  (`NTP_system_process.c:396`).

System process:
- `clock_combine()` is to combine the survivors (`NTP_system_process.c:442`), and
  combines entries of earlier selections behind them too
  (`NTP_system_process.c:453`);
- the clustering loop tests a number that it does not change
  (`NTP_system_process.c:239`); survivors are never sorted by their metric
  (`NTP_system_process.c:168-185`); `SQUARE` of a difference lacks parentheses
  (`NTP_system_process.c:225`); a kept system peer is not looked for among the
  survivors (`NTP_system_process.c:259`);
- the same sample may be used twice (`NTP_system_process.c:354-357`);
- the loop test compares with the reference of the system peer's own source
  (`NTP_peer.c:239`).

Poll process and exchange:
- process time does not advance one second per second (`NTP_TDMG.h:251-252`): a
  turn of the loop takes 100 ms (`NTPTask.c:189`), and `rstclock()` advances it
  too, so that the 64 s of `MINPOLL` pass in 6.4 s;
- an interval is lost once dates pass 32 bits (`NTP_poll.c:153`);
- the first exchange is never repeated: without a reply it sets the clock to 0;
- hosts with one address share an association; `fast_xmit()` cannot be reached.

Packets and clock:
- the header test adds units of 2^-16 s and compares with 16 s
  (`NTP_peer.c:64`);
- the growth of a dispersion with process time is divided by 2^32;
- a sum of half a second or more is sign-extended over its seconds
  (`add_int64_t`); a delay that spans an era is wrong;
- `step_time()` and `adjust_time()` take the fraction only
  (`NTP_main_utility.c:366-371`), so that the tick rate read from the frequency
  file has no effect.

Start-up:
- when a host does not resolve, `Exiting task.` is logged (`NTPTask.c:75-78`), but
  only the function returns, and the task goes on with the hosts it has: that is
  in the states of `OneFailureSilencesAll`, and `StartUpEnds` asks for the loop
  only when every host has resolved;
- `malloc()` and `calloc()` are used unchecked, and share the heap with the IP
  stack (`NTPTask.c:110`); the table is a null pointer until it is filled.

## 6. Not modelled, and what is left

*Not modelled.*  Time formatting (`printTimestamp`, `uint64_to_str`,
`double_to_str`) turns numbers into log text: it changes no state, and nothing
reads its output.  `access()`, the symmetric, broadcast and manycast rows of the
dispatch table and the burst modes cannot be reached from this configuration.
`assoc_table_deinit()` is never called; `assoc_table_update()` changes nothing
while the hosts have distinct addresses, and what it does when they have not is
left out.  The
initialisation of the board, the FreeRTOS kernel and IP stack are external: they
appear as the scheduler, the delay, the socket timeout, DNS and the heap.  The
test server is a separate program without state.  More than half of the
repository's lines are not this client at all: `skeleton/` holds earlier
listings of the RFC that no build uses, `CMSIS/`, `startup.c` and `syscalls.c`
are headers and start-up code of the board, which is why the lines mapped are a
small part of the whole.

*Left.*  The composition of several filters with the selection and the
discipline.  What the modules leave open in each other is joined at two places,
the `clock_filter` of `PollProcess` (`HostClock`) and the selection of
`ClockDiscipline` (`KeptPeerSharesStratum`).  The root distance of
`SystemProcess` is still an input that `ClockFilter` computes by itself.
