----------------------------- MODULE LocalClock ----------------------------
(***************************************************************************)
(* The local clock c.localTime, which the task reads from the tick count,  *)
(* sets from a reply and corrects by the offset of the discipline, and the *)
(* samples that packet() computes from it.  The server keeps true time.    *)
(* Exchange has the protocol around the same calls; here a timestamp has   *)
(* its two words, and both the words and the tick count wrap.              *)
(***************************************************************************)
EXTENDS Timestamps

CONSTANTS
  HZ,           \* ticks in a second: configTICK_RATE_HZ
  SMALL,        \* ticks that gettime(0) ignores
  TICKS,        \* the tick count wraps here: 2^32
  Base,         \* the time of the server at tick 0, in fractions of a second
  Offsets,      \* offsets the discipline may step by, in the same unit
  Adjustments,  \* c.freq + dtemp of clock_adjust(), in the same unit
  MaxT, MaxRequests, MaxAdjusts  \* bounds on ticks, requests and corrections of
                                 \* the poll loop, for model checking

ASSUME ClockAssumption ==
  /\ HZ \in Nat \ {0} /\ SMALL \in Nat \ {0} /\ TICKS \in Nat \ {0}
  /\ SMALL < TICKS
  /\ Base \in Nat /\ Offsets \subseteq Int /\ Adjustments \subseteq Int
\* The count wraps after 49 days, an era ends after 136 years, and a tick is
\* longer than a fraction.
ASSUME WidthAssumption == 2 * TICKS <= HZ * WORD /\ HZ <= WORD
ASSUME BoundAssumption == MaxT \in Nat /\ MaxRequests \in Nat /\ MaxAdjusts \in Nat

NoSample == [taken |-> FALSE]
Zero     == <<0, 0>>

VARIABLES
  now,                 \* ticks since the scheduler started
  localTime, lastTick, \* c.localTime, c.lastTimeStampTick
  stage,               \* "start", "sync" or "poll": the part of vNTPTask()
  pc,                  \* "idle", "sent", "served" or "replied": the exchange under way
  org, rec, xmt, sentAt,  \* its timestamps, and the tick it was sent at
  sample,              \* the sample packet() computed in the last exchange, if any
  n, adjusts,          \* requests and corrections of the poll loop so far
  truth, reads         \* history: the same clock in exact arithmetic, in units
                       \* of 1/(HZ * WORD) s, and the readings since it was set

clock    == <<localTime, lastTick>>
exchange == <<org, rec, xmt, sentAt>>
history  == <<truth, reads>>
vars == <<now, clock, stage, pc, exchange, sample, n, adjusts, history>>

----------------------------------------------------------------------------
(* gettime(override): whole seconds and the rest of the ticks since the    *)
(* last reading, the latter truncated to a fraction.                       *)

ERA == WORD * WORD
Elapsed == (now - lastTick) % TICKS
Skipped(override) == Elapsed < SMALL /\ ~override

NewFractions == ((Elapsed % HZ) * WORD) \div HZ
NeverCarries == 0
Carry == IF (Fraction(localTime) + NewFractions) % WORD < Fraction(localTime) THEN 1 ELSE 0
ReadingUnwrapped ==
  <<Seconds(localTime) + Elapsed \div HZ + Carry, (Fraction(localTime) + NewFractions) % WORD>>
Reading ==
  <<(Seconds(localTime) + Elapsed \div HZ + Carry) % WORD,
    (Fraction(localTime) + NewFractions) % WORD>>

TimeAfter(override) == IF Skipped(override) THEN localTime ELSE Reading
TickAfter(override) == IF Skipped(override) THEN lastTick ELSE now % TICKS
ReadsAfter(override) == IF Skipped(override) THEN reads ELSE reads + 1

----------------------------------------------------------------------------
(* prv_update_localTime(): D2LFP() makes a 64-bit count of fractions of    *)
(* the offset and the cast keeps its low word.  The conversion of a        *)
(* negative offset to an unsigned type is undefined: it wraps or gives 0.  *)

LowWords(offset) == IF offset >= 0 THEN {offset % WORD} ELSE {0, offset % WORD}

Added(t, f) ==
  LET sum == (Fraction(t) + f) % WORD
  IN <<(Seconds(t) + (IF sum < Fraction(t) THEN 1 ELSE 0)) % WORD, sum>>
SubtractedAnyway(t, f) == <<Seconds(t), (Fraction(t) - f) % WORD>>
Subtracted(t, f) ==
  LET rest == (Fraction(t) - f) % WORD
  IN <<(Seconds(t) - (IF rest > Fraction(t) THEN 1 ELSE 0)) % WORD, rest>>

step_time(t, offset)   == {Subtracted(t, f) : f \in LowWords(offset)}
adjust_time(t, offset) == {Added(t, f) : f \in LowWords(offset)}

----------------------------------------------------------------------------
ServerTime == LET v == (Base + (now * WORD) \div HZ) % ERA IN <<v \div WORD, v % WORD>>

\* The tick count goes on; the exchanges of the poll loop, hours apart at most,
\* read the clock many times before the count of 49 days comes round.
Tick ==
  /\ now < MaxT /\ Elapsed < TICKS - 1
  /\ now' = now + 1 /\ truth' = truth + WORD
  /\ UNCHANGED <<clock, stage, pc, exchange, sample, n, adjusts, reads>>

\* prep_xmit() and xmit_packet(), or peer_xmit() and xmit_packet() in the loop.
xmit_packet ==
  /\ pc = "idle" /\ n < MaxRequests
  /\ pc' = "sent" /\ n' = n + 1 /\ sentAt' = now
  /\ localTime' = TimeAfter(stage # "poll") /\ lastTick' = TickAfter(stage # "poll")
  /\ reads' = ReadsAfter(stage # "poll")
  /\ org' = localTime' /\ sample' = NoSample
  /\ UNCHANGED <<now, stage, rec, xmt, adjusts, truth>>

ServerReceives ==
  /\ pc = "sent" /\ pc' = "served" /\ rec' = ServerTime
  /\ UNCHANGED <<now, clock, stage, org, xmt, sentAt, sample, n, adjusts, history>>

ServerReplies ==
  /\ pc = "served" /\ pc' = "replied" /\ xmt' = ServerTime
  /\ UNCHANGED <<now, clock, stage, org, rec, sentAt, sample, n, adjusts, history>>

----------------------------------------------------------------------------
NextStages == CASE stage = "start" -> {"sync"}
                [] stage = "sync"  -> {"sync", "poll"}
                [] stage = "poll"  -> {"poll"}

\* The exchange is over, and with it its timestamps.
Ends == /\ pc' = "idle"
        /\ org' = Zero /\ rec' = Zero /\ xmt' = Zero /\ sentAt' = 0

\* The clock is set to t at this tick, exactly.
Set(t) == localTime' = t /\ truth' = HZ * Value(t) /\ reads' = 0

\* vNTPTask(): the first reply sets the clock; without one the cleared packet does.
settime(t) ==
  /\ stage = "start" /\ stage' = "sync"
  /\ Set(t) /\ lastTick' = now % TICKS
  /\ Ends /\ UNCHANGED <<now, sample, n, adjusts>>
SetFromReply == pc = "replied" /\ settime(xmt)
SetFromNothing == pc # "idle" /\ settime(Zero)

NoReply ==
  /\ pc # "idle" /\ stage # "start"
  /\ Ends /\ stage' \in NextStages
  /\ UNCHANGED <<now, clock, sample, n, adjusts, history>>

\* recv_packet() and, when receive() accepts the packet, packet().
Taken(dst) ==
  sample' \in [taken : {TRUE}, org : {org}, rec : {rec}, xmt : {xmt}, dst : {dst},
               trip : {now - sentAt},
               sum : Sums(org, rec, xmt, dst), delay : {Delay(org, rec, xmt, dst)}]

recv_packet ==
  /\ pc = "replied" /\ stage # "start"
  /\ Set(rec) /\ lastTick' = TickAfter(FALSE)
  /\ Taken(TimeAfter(FALSE)) \/ UNCHANGED sample
  /\ Ends /\ stage' \in NextStages
  /\ UNCHANGED <<now, n, adjusts>>

\* The same, when the discipline steps the clock by an offset of the survivors.
ReceiveAndStep(offset) ==
  /\ pc = "replied" /\ stage # "start"
  /\ localTime' \in step_time(rec, offset) /\ lastTick' = TickAfter(FALSE)
  /\ truth' = HZ * Value(localTime') /\ reads' = 0
  /\ Taken(TimeAfter(FALSE))
  /\ Ends /\ stage' \in NextStages
  /\ UNCHANGED <<now, n, adjusts>>

\* A correction in the poll loop moves the clock without a reading, forward to a
\* later time or, which is the same in a clock of one era, back.
Moved(t, u) == IF Value(u) >= Value(t) THEN Value(u) - Value(t) ELSE Value(u) + ERA - Value(t)
Correct(times) ==
  /\ pc = "idle" /\ stage = "poll" /\ adjusts < MaxAdjusts
  /\ adjusts' = adjusts + 1
  /\ localTime' \in times
  /\ truth' = truth + HZ * Moved(localTime, localTime')
  /\ UNCHANGED <<now, lastTick, stage, pc, exchange, sample, n, reads>>
clock_adjust(offset) == Correct(adjust_time(localTime, offset))

\* poll() enters a missing reply in the clock filter, and the discipline steps.
PollAndStep(offset) == Correct(step_time(localTime, offset))

----------------------------------------------------------------------------
Init ==
  /\ now = 0 /\ localTime = Zero /\ lastTick = 0
  /\ stage = "start" /\ pc = "idle"
  /\ org = Zero /\ rec = Zero /\ xmt = Zero /\ sentAt = 0
  /\ sample = NoSample /\ n = 0 /\ adjusts = 0
  /\ truth = 0 /\ reads = 0

Next ==
  \/ Tick \/ xmit_packet \/ ServerReceives \/ ServerReplies
  \/ SetFromReply \/ SetFromNothing \/ NoReply \/ recv_packet
  \/ \E offset \in Offsets : ReceiveAndStep(offset) \/ PollAndStep(offset)
  \/ \E offset \in Adjustments : clock_adjust(offset)

Spec == Init /\ [][Next]_vars

----------------------------------------------------------------------------
(* The clock and the timestamps of an exchange stay in their words through *)
(* every wrap of the fraction, the seconds and the tick count.             *)
TypeOK ==
  /\ now \in Nat /\ localTime \in Stamps /\ lastTick \in 0 .. TICKS - 1
  /\ stage \in {"start", "sync", "poll"} /\ pc \in {"idle", "sent", "served", "replied"}
  /\ org \in Stamps /\ rec \in Stamps /\ xmt \in Stamps /\ sentAt \in 0 .. now
  /\ n \in 0 .. MaxRequests /\ adjusts \in 0 .. MaxAdjusts

(* NTP_TDMG.c:217-258: gettime() keeps the time of the tick count.  What   *)
(* it truncates is less than a unit for every reading since the clock was  *)
(* set, and what recv_packet() counts twice, by setting the time without   *)
(* the tick, is less than SMALL ticks; no carry and no wrap is lost.       *)
ClockKeepsTicks ==
  LET error == (HZ * Value(Reading) - truth) % (HZ * ERA)
  IN error < SMALL * WORD \/ error > HZ * ERA - HZ * (reads + 1)

(* NTP_peer.c:97: the delay of a sample is the time its packets spent on   *)
(* the way, to within the ticks that gettime(0) ignores at either end and  *)
(* the truncation, whatever the two clocks show; unless the era of the     *)
(* timestamps, 136 years, ended while they were on it.                     *)
SameEra == ~Before(sample.dst, sample.org) /\ ~Before(sample.xmt, sample.rec)
DelayIsTripTime ==
  sample.taken /\ SameEra =>
    LET held  == Value(sample.xmt) - Value(sample.rec)
        error == HZ * sample.delay - (sample.trip * WORD - HZ * held)
    IN \/ error < 0 /\ 0 - error < SMALL * WORD + 2 * HZ
       \/ error >= 0 /\ error < SMALL * WORD + 2 * HZ

(* NTP_peer.c:96: both differences of the offset lose their sign, so the   *)
(* offset is half of the delay or the magnitude of the clock's error, and  *)
(* always the larger of them: the sum stays under half a second here,      *)
(* beyond which add_int64_t() loses the seconds.                           *)
OffsetIsLarger ==
  sample.taken =>
    LET out  == Value(sample.rec) - Value(sample.org)
        back == Value(sample.dst) - Value(sample.xmt)
        trip == IF out + back < 0 THEN 0 - (out + back) ELSE out + back
        off  == IF out - back < 0 THEN back - out ELSE out - back
        larger == IF trip < off THEN off ELSE trip
    IN larger < HALF => sample.sum = larger

(* NTP_main_utility.c:309-364: a correction moves the clock by less than a *)
(* second, whatever its offset, a step never forward and an adjustment     *)
(* never back.                                                             *)
UnderASecond ==
  /\ \A offset \in Adjustments :
       clock_adjust(offset) => Moved(localTime, localTime') < WORD
  /\ \A offset \in Offsets :
       /\ ReceiveAndStep(offset) => Moved(localTime', rec) < WORD
       /\ PollAndStep(offset) => Moved(localTime', localTime) < WORD
CorrectionsAreFractions == [][UnderASecond]_vars

----------------------------------------------------------------------------
(* NTP_TDMG.c:132, "The difference between x and y as a signed 64-bit      *)
(* integer": that of the times a reply was received and sent at keeps its  *)
(* sign, whenever 64 bits can hold it.                                     *)
DifferencesAreSigned ==
  sample.taken =>
    LET back == Value(sample.dst) - Value(sample.xmt)
    IN back \in -(HALF * WORD) .. HALF * WORD - 1 =>
         Signed(subtract_uint64_t(sample.dst, sample.xmt)) = back
============================================================================
