---------------------------- MODULE RegionSearch ----------------------------
(***************************************************************************)
(* The regions a request may play in, which widen as it waits (utils.go).  *)
(* Of a rule set                                                           *)
(*   initial    RegionLatencyInitialRangeMs                                *)
(*   rate       RegionExpansionRateMs, how long one step takes             *)
(*   range      RegionExpansionRangeMs, how far it goes, 0 for 50          *)
(*   max        RegionLatencyMaxMs, 0 for none                             *)
(*   skipAfter  DisableBidirectionalLatencyAfterMs, 0 for never            *)
(* matter.  Times have one unit; the code takes seconds and milliseconds.  *)
(***************************************************************************)
EXTENDS Tickets

\* getTicketRegionExpansionStep: the age over the rate, rounded up.  RulesFromJSON
\* leaves no rate of zero, so the attempt count is never used.
ExpansionStep(t, rs, now) == (now - t.createdAt + rs.rate - 1) \div rs.rate

ExpansionRange(rs) == IF rs.range > 0 THEN rs.range ELSE 50

\* The latency a request accepts, from its best one up.
LatencyLimit(t, rs, now) ==
    LET further == ExpansionStep(t, rs, now) - 1
    IN  t.latency[1].ms + rs.initial + (IF further > 0 THEN further ELSE 0) * ExpansionRange(rs)

WithinMax(ms, rs) == rs.max <= 0 \/ ms <= rs.max

InReach(ms, t, rs, now) == ms <= LatencyLimit(t, rs, now) /\ WithinMax(ms, rs)

\* Mutant: a region counts one step too early.
FilterRegionByStepEarly(t, rs, now) ==
    Picked(t.latency, {i \in DOMAIN t.latency : InReach(t.latency[i].ms, t, rs, now + rs.rate)})

\* filterRegionByStep.
FilterRegionByStep(t, rs, now) ==
    Picked(t.latency, {i \in DOMAIN t.latency : InReach(t.latency[i].ms, t, rs, now)})

RegionNames(regions) == {regions[i].region : i \in DOMAIN regions}

SkipFilterCandidateRegion(t, rs, now) == rs.skipAfter > 0 /\ rs.skipAfter < now - t.createdAt
=============================================================================
