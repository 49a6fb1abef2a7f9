# A TLA+ development for extend-core-matchmaker

The repository is a gRPC match-function server.  A client (the matchmaking
service) streams tickets to it and receives matches, or streams backfill
tickets and tickets and receives backfill proposals.  This directory models that
server in TLA+, checks the models with TLC and proves properties of its core with
TLAPS.  Paths below are relative to `src/pkg/`; `defaultmatchmaker/` stands for
`matchmaker/defaultmatchmaker/`.

## 1. The system

| component | source | state it keeps | operations |
|---|---|---|---|
| MakeMatches call | `server/matchFunctionService.go:110-201`, `defaultmatchmaker/matchlogic.go:123-158, 225-241, 676-700` | a gRPC stream, two unbuffered channels, four kinds of goroutine, two wait groups | first message, reader loop, chunking, a worker per chunk, sender loop |
| BackfillMatches call | `server/matchFunctionService.go:204-299`, `defaultmatchmaker/matchlogic.go:162-221, 245-295` | a stream that feeds two unbuffered channels, one results channel | rounds of two collecting goroutines, a worker per round, the handler that sends |
| MatchPlayers | `defaultmatchmaker/matchplayer.go:59-664` | requests not matched yet, results, a time limit | choose a pivot, search per region, order, fill teams in two passes, validate, check options, cut the pool, drop the pivot |
| Party combination | `defaultmatchmaker/matchplayer.go:668-730`, `partyfinder*.go` | the finder's `current`, `result` and `best` slices over one array | try an order, fill a team, keep the best |
| Reorder tool | `utils/reorder-tool` | two pointers, a loop counter, done | `HasNext`, `Get` |
| MatchSessions | `defaultmatchmaker/matchsession.go` | the slice of sessions, the tickets, updated and satisfied sessions, lists of blocked players | visit a session, place a ticket, fill or update a session |
| Candidate search | `defaultmatchmaker/manualSearch.go` | accumulated sets of users and blocked players | one pass over the requests |
| Rule flexing | `defaultmatchmaker/flexrule.go`, `allianceruleflex.go` | none | the rules active for a ticket's or a session's age |
| Region expansion | `defaultmatchmaker/utils.go` | none | the regions within reach for an age |
| Rules and validation | `defaultmatchmaker/matchlogic.go:51-119`, `models/models.go` | none | read and validate a rule set; validate a ticket, teams |
| Conversions | `pb/conversions.go`, `defaultmatchmaker/matchlogic.go:299-663` | none | tickets to requests, results to matches, backfill tickets to sessions and back to proposals |
| Surroundings | `main.go`, `common`, `config`, `constants`, `envelope`, `utils`, `testsetup`, generated `pb` | none of the matchmaker's | start-up, tracing, authorisation, test helpers |

**Interaction.**  A call's handler passes a ticket channel (for backfill: two) to
the match maker and gets a results channel back.  The match maker's chunker
gives each chunk to a goroutine of its own, which runs MatchPlayers (or
MatchSessions) and sends what it found on the results channel.  Workers share
nothing else: MatchPlayers and MatchSessions are sequential over their own
chunk.  They call the candidate search, the party combination, which calls the
reorder tool, and the rule helpers.

**Where it is hard.**

* *Goroutines and channels.*  Both channels of a call are unbuffered, closing
  is done by deferred calls, and two wait groups decide who waits for whom.
  A stream that fails at one end leaves goroutines at the other.
* *Backfill rounds.*  One reader feeds two channels in stream order while two
  goroutines each wait for a fixed number of messages of their own kind.
* *Lists cut while they are read.*  MatchPlayers removes matched requests from
  the pool in the middle of its loops; MatchSessions removes sessions in place
  from the slice its `range` statement is reading.
* *Shared arrays.*  The party finder's slices share one array as long as append
  finds room in it.
* *Cached lists.*  The list of blocked players of a session is rebuilt as
  tickets join, at some points and not at others; its options and averages
  change with every ticket, while its candidates were found before.
* *Candidates compared with one party.*  A pivot or a session looks at the
  candidates one by one; what they have to do with each other comes up later,
  when teams and options are counted, or never.
* *Ages.*  Rules, distances and regions widen with waiting, per pivot, per
  candidate and per session, while the time goes on.
* *Boundaries.*  The last chunk, the pass that caps a team at its minimum, the
  two pointers of the reorder tool, the steps by which regions widen.

There is nothing persistent, no retry and no timer except the time limit of
MatchPlayers and MatchSessions, so there is no crash recovery to model.  What
makes each component correct is listed with its module in section 2; the hazards
behind the properties are in `PROJECT.json`, each at its line.

## 2. The modules

### MatchFeed: what a call promises

`received`, `delivered`, `over` and three actions: a ticket is taken, a group of
tickets that were taken and are in no earlier group is given, the call ends.  With
`Repeats` a group may be given again as it is.
`MatchStream` and `BackfillStream` implement it (property `ImplementsFeed` of
each, `Feed == INSTANCE MatchFeed WITH ...`).

### MatchStream: a MakeMatches call

| variables | code |
|---|---|
| `inbox`, `sent`, `eof`, `broken` | the gRPC stream (external): messages under way, the client's CloseSend, a failed stream |
| `main` | how far the handler is: waiting for parameters, running, returned |
| `reader`, `inHand` | the first goroutine of the handler and the ticket it holds |
| `chunker`, `chunk` | the goroutine of `matchlogic.go:135-153` and what `getNextNRequests` has collected |
| `worker`, `work`, `out` | `runMatchMaking` per chunk: its phase, chunk and matches still to be sent |
| `sender`, `outHand`, `delivered` | the second goroutine of the handler |
| `crashed` | the process is gone: the reader dereferences the nil left by a failed type assertion (`matchFunctionService.go:169`) |

A send and the receive that takes it are one action (`PushTicket`, `TakeMatch`)
because the channels have no buffer.  What MatchPlayers returns is any sequence
of disjoint, non-empty groups of the chunk (`Grouping`), which `PivotMatching`
shows to be the case (`NoRequestTwice`).

### BackfillStream: a BackfillMatches call

The same stream; the handler is the sender, and one reader feeds two channels.
`reads`, `batch` and `sessions` are what the two goroutines of a round have read
(tickets for new sessions only are counted as read and dropped).  What
MatchSessions returns is any sequence of proposals, each for one session and
disjoint from those for others; with `AllianceFlexes` (the call's alliance rule
flexes with the age of a session) a proposal may be there twice, as section 4
explains.  `SessionBackfill` shows that this is what it yields: `TicketInOneTeam`
keeps the sessions' tickets apart, and by `ReportedOnce` a session is reported in no
list twice, and in only one of them when its rule cannot change.

### The helpers: what a ticket, a rule and a session are

These modules have no state.  Each is the pure part of one or two source files,
and `PivotMatching` and `SessionBackfill` are built from them, so that the runs
check them on parties, rules and sessions that change.

| module | code | what it defines |
|---|---|---|
| `Tickets` | `pb/conversions.go`, `toMatchRequest`, accessors of `models/models.go` | a ticket, what the wire keeps of it (`OverTheWire`: not the sessions it must not join), the request made of it: averages, sorted latencies |
| `RuleFlexing` | `flexrule.go`, `allianceruleflex.go` | the rule set active for somebody who waits since a given time |
| `RegionSearch` | `utils.go` | the regions a request may play in, by its best latency, its age and the maximum |
| `RuleValidation` | `RulesFromJSON`, the `Validate` methods of `models.go` | the rule sets a call can come with |
| `CandidateSearch` | `manualSearch.go` | the filters of both searches (`PivotAccepts`, `SessionAccepts`): distance, cross-play, options, attributes, blocked players, regions |
| `OptionRules` | `matchplayer.go:224-338`, `matchsession.go:144-227` | whether the options of a match or session agree, and the attributes that come of it |
| `MatchConversion` | `matchlogic.go:377-663`, `pb/conversions.go` | results to matches, backfill tickets to sessions, sessions to proposals, each with what its message keeps |

Three conventions hide data that nothing depends on.  An attribute is a set of
values (the code's string is a singleton, its absent key an absent key).  An
average is a fraction, and a comparison of floats a comparison of products.  A
latency list is sorted, and no ticket has two equal latencies, because the
code's sort would then depend on a map iteration.

A search goes through the list of requests and judges each against those accepted
so far, as the code's growing sets of users, blocked players and values do.
`Candidates` and `SessionCandidates` say of a set of requests what the pass makes of
it: each request is in it if and only if it is accepted after those before it.  That
determines the set, and can be reasoned about without induction.  For the same reason
the loops that drop empty teams and the filter of regions are `Picked`: what is at some
places of a sequence, in increasing order of the places; and a sorted list of
latencies is the latencies in increasing order, each with its region.

`IsTicket` and `IsRuleSet` say what a ticket and a rule set of the code consist of, as
far as the models read them; the assumptions of both matchers ask it of every ticket
and every rule set offered.

`OptionsMayAgree` and `OptionsMayDisagree` are two predicates and not one,
because the code judges options in the order of a map iteration and an option of
type any looks at what *all* options selected so far (`matchplayer.go:258`):
for some parties both are true, and the model takes either branch.

### PivotMatching: MatchPlayers

`pc` follows the code's control: `start`, `single` (the single-player
shortcut), `pivot`, `region`, `order`, `team` and `fill` (the two passes of
`findMatchingAlly`), `validate`, `options`, `dropPivot`, `done`.

| variables | code |
|---|---|
| `ruleset`, `active` | the call's rule set, and its copy flexed to the pivot's age |
| `now` | the time: it may pass between any two steps, and the loop ends when the limit has |
| `queue`, `pivot` | `matchmakingRequests`, sorted when a pivot is chosen; the pivot |
| `regions`, `region` | `filteredRegion` and the index of the one tried |
| `found`, `tried`, `order` | candidates in the order of the search, the orders of them tried, the order under way |
| `free`, `pass`, `teams`, `next`, `team`, `at` | the passes of `findMatchingAlly`: who is in no team yet, the teams built, the one under way and the place in the order |
| `results`, `sent` | the results of MatchPlayers, and the matches `runMatchMaking` makes and sends of them |

A call of `FindPartyCombination` with its default of one order is the scan
`Consider`.  The match is sent after MatchPlayers has returned (`SendMatch`), at
a later time: whether it asks for more players is judged then.

### PartyCombination: FindPartyCombination and the party finder

The slices `result` and `best` either share `current`'s array (`backing`) or own
one; `AppendResult` is Go's append, which writes in place while the array has
room.  Capacities are those of append, doubling from one (exact for slices of
up to 8 elements of this type's size).

### ReorderTool and Orders

`HasNext` of `OnePointer` and `TwoPointer`, with `Get` folded into it, as an
iterator; `Orders` has the orders it should give in closed form (rotations, and
each ordered pair put first).  PivotMatching and PartyCombination use `Orders`.

### SessionBackfill: MatchSessions

| variables | code |
|---|---|
| `round`, `pool` | the tickets of the round (those that want a new session are not part of it); those in no session yet, in order |
| `sessions`, `count`, `index` | the array behind the slice: `range` reads all of its first length, while `MovedDown` is the in-place removal of a full session |
| `session`, `active`, `candidates` | the session being visited, the rules flexed to its age, the tickets found for it and not looked at yet |
| `state` | per session its `MatchmakingResult`: teams, parties, attributes, averages, blocked players |
| `updated`, `satisfied`, `satisfiedTickets` | the sessions to report and the tickets they took |
| `proposals` | the proposals `runBackfilling` makes and sends of them |
| `visited` | history: which sessions were visited |

The sessions start as `FromBackfillTicket` makes them of backfill tickets that
went over the wire: their teams name users, and `TeamToMatchingParties` finds the
parties those belong to.  For each candidate the code looks again at users,
blocked players, options and regions, as the session has changed since it was
found; `Skip` and `Refuse` are these checks, `JoinTeam` is the rest of the body:
the smallest team with room, or a new one, then averages, attributes, the clean-up
of empty teams, the list of blocked players (`UpdateBlockedPlayerInSession`), and
the two lists of sessions to report.

### The proof modules

| module | what it proves |
|---|---|
| `Grouping_proofs`, `CommonLemmas` | lemmas about sequences (appending, removing, picking places, flattening), groupings, sets of requests and the number of their players, flexed rules, regions within reach, division, and the orders of `Orders` |
| `MatchStream_proofs`, `BackfillStream_proofs` | the safety and the refinement of both streams |
| `PivotMatching_proofs` | the safety of MatchPlayers, from the search to the matches sent, and that these are what MatchStream assumes |
| `PartyCombination_proofs` | that the party finder's answer is legal and the largest of the orders tried, while its slices do not overwrite each other |
| `ReorderTool_proofs` | that both iterators give exactly the orders of `Orders` |
| `SessionBackfill_proofs` | the safety of MatchSessions, from the search to the proposals sent, and that these are what BackfillStream assumes |

The theorems are those of section 5.  The modules `MC...` hold the values TLC
uses.

## 3. The runs

| run | expected | what it asks |
|---|---|---|
| `makematches` | pass | no ticket in two matches, none lost between chunks, results closed after the last send, every match sent, the call refines MatchFeed, the handler returns, all goroutines end |
| `makematches_cancel` | violation | `CancelClosesResults`, after `interfaces.go:21-23` |
| `backfill` | pass | each backfill ticket worked once, no ticket in two different proposals, every proposal sent, the call refines MatchFeed and ends unless a full collector stalls it |
| `backfill_stall` | violation | `CallEnds` of BackfillStream: that exception happens |
| `pivot` | pass | matches are disjoint groups within a rule their pivot's age warrants; no request in two teams; blocked players kept apart; options agree, nobody is further away in skill or region than they have waited for; what is sent are whole tickets, with players asked for as long as there is room; only pivots are given up; the search ends |
| `pivot_left_out` | violation | `PivotInMatch` |
| `party_orders` | pass | where orders do not share an array: the team returned is legal, without blocked players, and the largest of the orders tried |
| `party_overfull` | violation | `LegalTeam` when the array has room and several orders are tried |
| `reorder_orders` | pass | exactly the closed-form orders, and all of them |
| `session_safety` | pass | each ticket in one team, no player twice, limits kept, sessions reported once and rightly, blocked players kept apart, nobody leaves; options agree with a session that changes, tickets fit its region, server and attributes; proposals keep everybody |
| `session_skipped` | violation | `EverySessionVisited` |
| `session_blocked_team` | violation | `NoBlockedInTeam` |

### Bounds, and why they are enough

* *MatchStream*: three tickets in chunks of two (a full chunk and a short one,
  two workers at work at once), one stray message, at any position of the
  stream, a client that may fail at any moment.  Worker, chunk and channel are
  symmetric in the tickets, and the interactions are between two workers, or a
  worker and another goroutine.  `makematches_cancel` needs two workers only.
* *BackfillStream*: two tickets (one for new sessions only) and two backfill
  tickets in rounds of one, in every order: both collectors can be full, empty
  or waiting, and two workers run at once.
* *PivotMatching*: five requests (two solos of one second, a pair, two later
  solos) that differ in skill, platform, map, hero and region and some of whom
  block each other; six rule sets, each made for one group of filters (flexed
  distances and alliances, regions that widen to a maximum, cross-play with
  values common to all, options of each type, unique heroes, single players), and
  two that are refused; every non-empty subset as the queue, in every order; up
  to two orders per pivot; two units of time while the call runs.  A match needs two to four requests, so queues give one
  match, two matches, or a dropped pivot and then a match.
* *PartyCombination*: four tickets with parties of one to three players in any
  combination, teams of none, one, two (full array) or three tickets (array of
  four).  Several orders are tried with a full array only, so that in `party_orders`
  no order writes where another one's team is; `party_overfull` has the instance
  where one does.
* *ReorderTool*: inputs of 0 to 4 elements, at most two kept first (one may be
  missing from the input), any loop bound of none, 1 or 3.
* *SessionBackfill*: three sessions, which is what it takes to skip one and visit
  another twice: one with a place left and a player who came by hand, one with a
  team without players and a player nobody knows, one whose companion has left.
  Six tickets (two solos of one player, one of them barred from a session; a
  pair, a trio, a solo who blocked somebody, and one for new sessions only),
  every subset of them in every order as the pool, three rule sets and two units
  of time.  Two tickets join one session at most: a third place would repeat the
  same steps.

### Deadlock

`makematches`, `makematches_cancel`, `backfill` and `backfill_stall` switch
deadlock checking off: after a failed Send the goroutines do stop for good (the
code's behaviour, not the model's), and a client may stop talking.  All other
runs check it.

### Fairness

MatchStream and BackfillStream: weak fairness of each goroutine.  The Go
scheduler eventually runs a goroutine that can run, and the operations that can
block (channel send and receive, `Recv`, `Wait`) are guards of the actions.  No
fairness of the client: it may stop sending, never close, or fail, so every
liveness property starts from `eof` or `broken`.  PivotMatching: weak fairness
of the single thread; its time limit may or may not pass.

## 4. Disagreements between code and text

With a run each (see `findings` in `PROJECT.json`):

1. After a failed Send nobody reads the results channel: workers that still hold
   a match block for good, and nothing watches for cancellation although
   `matchmaker/interfaces.go` says MakeMatches should.
2. More tickets than the chunk size ahead of the backfill tickets stall a
   BackfillMatches call for good.
3. A pivot larger than the first pass allows is left out of the match that
   carries its ID.
4. With `FIND_PARTY_MAX_LOOP` above its default, and room in the array, the
   finder returns a mix of two teams.  For the same reason the best team may
   simply be overwritten by a later, smaller one.
5. Removing a full session in place makes MatchSessions skip one session and
   visit another twice.
6. A ticket can join the team of a player who blocked it, since the team is
   checked without the lists of its parties.

Seen while modelling, without a run of their own:

* on its second visit (5) a session may have room again, because its alliance rule
  has flexed in the meantime: it takes tickets after it was reported as satisfied,
  although it was to be removed "to avoid adding more players"
  (`matchsession.go:394`), is reported as updated as well, and the client gets the
  same proposal twice.  `ReportedOnce` has its condition for this, and BackfillStream
  its `AllianceFlexes`;
* two tickets of one player, neither of them the pivot, may be put in one match:
  candidates are compared with the pivot's users only (`manualSearch.go:76`);
* the single-player shortcut makes a match of a party of any size
  (`matchplayer.go:484`), so `RuleKept` excludes it;
* the list of blocked players a backfill ticket came with is replaced by the
  lists of its parties once a ticket joined (`matchsession.go:507`), and loses
  what it said of parties without attributes;
* a backfill ticket's teams name users, and whoever is known by a ticket of its
  partial match brings all players of that ticket: a companion who left the team
  comes back with the proposal (`matchlogic.go:618`), which `TeamsKept` allows;
* an option named `blocked_players` is checked against the list of who is blocked,
  which replaces what joined tickets had for it (`matchsession.go:504`), and if
  `current_platform` is an option as well as `cross_platform`, cross-play goes by what
  is left of the session's platforms (`matchsession.go:366`): `SessionOptionsAgree` is
  about the other options (`Agreeing`);
* an attribute that is empty in a session matches any ticket's, unless it is the server
  name or the client version, where an empty one is as good as none
  (`manualSearch.go:219-265`): `FitsIn` says so;
* the party session of a party is looked up among the tickets of the round, so
  the parties a session had before lose theirs in the proposal
  (`matchlogic.go:468`);
* the averages of a session are those of players its tickets know; a player
  without a ticket is left out, but counts once the next ticket has joined
  (`matchlogic.go:546`);
* the sessions a ticket must not join have no field in the message
  (`pb/conversions.go:61`), so the search's check never sees one: in the checked
  instance a ticket joins the session it had excluded;
* options are judged in the order of a map iteration, and one of type any looks
  at what all options selected so far (`matchplayer.go:258`): the same parties may
  match in one call and not in the next;
* the region of a match is read from the pivot's whole list by an index into the
  filtered one (`matchplayer.go:219`); the two agree because the list is sorted
  and the filter cuts off its end, unless no region passes;
* `ValidateTicket` compares latencies with the maximum although 0 means there is
  none elsewhere (`matchlogic.go:65`): it refuses every ticket with latencies then.

## 5. What is proved

Every theorem holds for all values of the constants that the assumption of its
module allows; TLC evaluates that assumption in each run.  The inductive
invariants of the streams and of MatchPlayers are invariants of runs as well; the
others stand in the module of the proofs that need them.

### The streams

`MatchStream_proofs`, for every set of tickets (infinite ones included), every
chunk size (zero included, unless stated) and every behaviour of the client:

| theorem | statement |
|---|---|
| `Invariance` | `Spec => []IInv` |
| `TypeCorrect` | `Spec => []TypeOK` |
| `TicketsUsedOnce` | `Spec => []NoTicketTwice` |
| `ResultsOutliveWorkers` | `Spec => []NoSendOnClosedResults` |
| `MatchesAllSent` | `Spec => []EveryMatchSent` |
| `TicketsAllWorked` | `ChunkSize > 0 => (Spec => []EveryTicketWorked)` |
| `StreamImplementsFeed` | `Spec => ImplementsFeed` |

`BackfillStream_proofs`, for every set of messages, chunk size and client:

| theorem | statement |
|---|---|
| `Invariance` | `Spec => []IInv` |
| `TypeCorrect` | `Spec => []TypeOK` |
| `EntriesUsedOnce` | `Spec => []NoEntryTwice`: no ticket and no session in two proposals |
| `ProposalsAllSent` | `Spec => []EveryProposalSent` |
| `SessionsAllWorked` | `ChunkSize > 0 => (Spec => []EverySessionWorked)` |
| `BackfillImplementsFeed` | `Spec => ImplementsFeed` |

**The argument.**  `NoTicketTwice` compares what is in the workers', the
sender's and the client's hands; alone it is not inductive, because a worker
that starts matching makes groups out of thin air as far as it can see.
`IInv` adds where the tickets are:

* `PlaceInv`: a ticket that left the inbox is in the reader's hand, in the chunk
  being collected or in the chunk of one worker, in one of them only;
* `OwnerInv`: what a worker holds comes from its chunk, and what has left the
  workers comes from the chunk of a worker that has done its matching;
* `PhaseInv`: which goroutines can be in which phase, among it that the results
  channel is closed only when all workers have ended.

When worker w makes its matches, by `OwnerInv` everything already out comes from
chunks of other workers, which by `PlaceInv` share no ticket with w's.  Taking
and sending a match move groups between hands that were disjoint before.
The refinement follows: a step of the reader is a `Take`, `SendMatch` is a
`Give` allowed by `NoTicketTwice`, the handler's return or a crash is `End`, all
else stutters.

The argument for backfill is the same, with entries (tickets and backfill
tickets) in the place of tickets and rounds in the place of chunks: a round's
entries move to the worker that takes the round, and one batch and one list of
sessions are filled at a time.

### MatchPlayers

`PivotMatching_proofs`, for every finite set of tickets, every set of offered
rule sets, every time limit and number of orders (`PivotAssumption`):

| theorem | statement |
|---|---|
| `Invariance` | `Spec => []IInv` |
| `RequestsOnce` | `Spec => []NoRequestTwice` |
| `TeamsWithinRules` | `Spec => []TeamsInRange` |
| `MatchesKeepRule` | `Spec => []RuleKept` |
| `BlocksRespected` | `Spec => []NoBlockedTogether` |
| `DistancesKept` | `Spec => []DistanceKept` |
| `RegionsKept` | `Spec => []RegionKept` |
| `OptionsOfMatchesAgree` | `Spec => []OptionsAgree` |
| `MatchesSentWhole` | `Spec => []MatchesSent` |
| `SentAsGrouped` | `Spec => []IsGrouping(SentTickets, Requests)` |
| `OthersNotDropped` | `Spec => OnlyPivotDropped` |

`SentAsGrouped` is what `MatchStream` assumes of MatchPlayers: the tickets of the
matches sent are a grouping of the requests (`Grouping`).  It follows from
`RequestsOnce`, which says so of the results, and `MatchesSentWhole`.

`PivotAssumption` says that there are finitely many tickets and `ExternalParty` is
not the id of one, that each is a ticket (`IsTicket`: it has finitely many players and
regions, and no two of its regions are equally near) that was not created in the
future, and that the rules offered are rule sets (`IsRuleSet`).

**The argument.**  A match is what the teams are when they pass validation, and
the teams are filled from what the search found; so the safety properties of
matches come from what is known of candidates and teams while a pivot is searched
for.  The parts of `IInv` follow the phases:

* `PhaseInv`: the pivot is in the pool while it is searched for, the options are
  looked at after validation only, and DropPivot is reached with the pivot in the
  pool or with too few requests to go on - why its search for the pivot cannot
  miss and remove another request;
* `RuleInv`: the active rules are the call's, or those flexed from the call's for
  the pivot's age at a time that has passed - never from those of an earlier pivot;
* `RegionInv`: the regions tried are those within the pivot's reach at a time that has
  passed, and the one being tried is among the first `RegionsToTry`;
* `FoundInv`: the candidates are other requests of the pool, each once, within the
  distance and able to play in the pivot's region at a time that has passed
  (`Compared`), agree with the pivot on options of type any (`AnyAgrees`), and nobody
  among them has blocked another;
* `TeamInv`: whoever is free or in a team is the pivot or a candidate, and the
  first pass adds a team at the end, while the second may replace one;
* `FillInv`: the team under way has those it started from, and free requests at
  places of the order that were passed - so nobody is added twice, and since
  `MayJoin` counts players first, it never has more than allowed;
* `CountInv` and `NoTeamEmpty`: a match uses up a request, and none of its teams is
  without one - so no team is skipped when it is sent (`ToTeams`).

`TeamsInRange` needs two bounds of its own: the first pass allows no more players
than the rule does, though it may allow a large party more than the minimum
(`AllowedBound`), and joining adds no more than the players of who joins
(`PlayersUnion`).  That a match keeps `RuleKept` and `DistanceKept` later on is
because an age that warrants a rule warrants it ever after; `RegionKept` because
regions only widen while a request waits.  `OptionsAgree` has two sources: the search
for type any, and for types all and unique the check before a match is made, which
goes through the requests of its teams.  `MatchesSent` rests on counting: the players of
a match are those of its teams, and what `IsMatchFull` compares them with is a rule
that a ticket of the match warrants (`Capacity`).  The step that makes a
match turns the teams' disjointness (`TeamsApart`) into that of matches
(`MatchesApart`), whose requests leave the pool.

### The party finder

`PartyCombination_proofs`, for every sequence of tickets, every set of teams and
numbers of orders to start with, all sizes of parties, blocks and limits, and every
growth of append (`Capacity`, an operator constant of which
`CombinationAssumption` asks only that a team fits in its array):

| theorem | statement |
|---|---|
| `TypeCorrect` | `Spec => []TypeOK` |
| `LegalAnswer` | `OneOwner` implies `Spec => []LegalTeam` |
| `BlocksKept` | `OneOwner` implies `Spec => []NoBlockedInTeam` |
| `BestAnswer` | `OneOwner` implies `Spec => []BestOfTried` |

`OneOwner` says of each way to call FindPartyCombination that it tries one order
or that the array of the team it starts from has no room.  A call for a new team
is of that kind (a nil slice has no array), so is every call while
`FIND_PARTY_MAX_LOOP` is at its default of 0.  Without the hypothesis the theorems
are false: the run `party_overfull` is a team of five in an array for eight with
six orders, and what is answered has too many players.

**The argument.**  `Shape` says what the slices are: all places they look at were
written, and the first places of the shared array hold the team to start from, as
append writes behind them only.  `FillInv` says that what was taken from an order
so far is a team with room and that what is still to be read is not in it; it
needs that an order has every ticket once (`OrderType`, from
`PairFirstProperties`).  Both are inductive with no hypothesis and give
`TypeCorrect`.  What `OneOwner` adds is `BestInv`: the best team may be answered,
and stays what it is, since either no append writes into the shared array, or the
best slice ends where the one order's appends begin.  `GreedyInv` compares that with
filling greedily by sequences: `Filled` is a recursive function, of which
`FilledSteps` shows that it exists (a shortest order without one would have a
shorter one before it) and that each of its steps is that of `Consider`; the best team
is as large as the team of any order done with, since a full one ends the search and a
larger one replaces it.

### The reorder tool

`ReorderTool_proofs`, for inputs of every length, any choice of elements kept first
and any loop bound (`ReorderAssumption`):

| theorem | statement |
|---|---|
| `Invariance` | `Spec => []IInv` |
| `OrdersGiven` | `Spec => []GivesTheOrders` |
| `AllOrdersGiven` | `Spec => []EndsWithAllOrders` |

**The argument.**  `Orders` gives the k-th order in closed form, with the quotient
and the remainder of k by n - 1; the iterator moves two pointers and never
divides.  `IInv` says that the pointers are where the division of the number of
orders given puts them (`PointerInv`), that the orders given so far are the first
ones (`GivenInv`), and that the iterator ends on the last (`DoneInv`).  A step of
HasNext counts up in base n - 1 (`DivisionNext`), skipping the place where both
pointers meet; the last order is the one whose quotient is n - 1 and whose
remainder is n - 2 (`QuotientBound`).

### MatchSessions

`SessionBackfill_proofs`, for every finite set of tickets, every sequence of backfill
tickets, every set of offered rule sets and every time limit (`BackfillAssumption`):

| theorem | statement |
|---|---|
| `Invariance` | `Spec => []IInv` |
| `Typed` | `Spec => []TypeOK` |
| `TicketInOnePlace` | `Spec => []TicketInOneTeam` |
| `NobodyTwice` | `Spec => []UserInSessionOnce` |
| `GrowsWithinRules` | `Spec => []SessionInRange` |
| `ReportedRight` | `Spec => []ReportedOnce` |
| `BlockedStayApart` | `Spec => []NoBlockedInSession` |
| `SessionOptionsFit` | `Spec => []SessionOptionsAgree` |
| `JoinedFit` | `Spec => []JoinedTicketsFit` |
| `ProposalsKeepTeams` | `Spec => []TeamsKept` |
| `ProposalsDiffer` | `Spec => []ProposalsApart` |
| `EverybodyStays` | `Spec => PlayersStay` |

`ProposalsDiffer` is what BackfillStream assumes of MatchSessions (`Proposals`): each
proposal adds tickets of the round to one session, two for different sessions have
no ticket in common, and a proposal is made again, once and as it was, only if
alliance rules flex.  It follows from `ProposalsKeepTeams`, `ReportedRight` and
the places of tickets.

`BackfillAssumption` says of the messages that no ticket looking for a session is one
of those of a backfill ticket, that tickets and rule sets are such (`IsTicket`,
`IsRuleSet`), that backfill tickets have different ids, that nobody
was created in the future, that teams and tickets have finitely many users, and that
the attributes of a backfill ticket list everyone its tickets have blocked, as those
of a match made here do (`CombinedAttributes`, `matchplayer.go:309-338`).

**The argument.**  The array behind the slice of sessions, the place in it and the
two lists to report say little about which session is visited: after a removal any
session may come again.  So no part of `IInv` looks at who was visited; a step
is shown to keep what it says for any session that may come next.

* `PoolInv` and `PlacesInv`: the tickets out of the pool are those in a team, each in
  one.  A candidate may have been found on an earlier visit, but `TypeOK` has the
  candidates within the pool, each once: who joins is taken off both at once.
* `TeamsInv`: every team has somebody between two steps.  A team that is opened gets
  the ticket in the same step, and what the clean-up drops (`Picked`) had nobody, so
  no party leaves; that gives `PlayersStay` as well.
* `RuleInv`: the active alliance rule is one that the session's age, or that of
  somebody in it, has warranted (`Warranted`), which once true stays true while time
  passes and tickets join.  `SessionInRange` and the second half of `ReportedOnce`
  rest on it.
* `BlockedInv`: before the first ticket joins, the session's own list has everybody
  its parties have blocked.  `Refreshed` and `UpdateBlockedPlayerInSession` rebuild
  the list at different moments, and `FillSession` not at all, so the list is not to
  be relied on afterwards; what is proved is that each check a ticket passes has the
  lists of all parties then in the session, either from there or rebuilt.
* The four safety properties are parts of `IInv` themselves.

Options, regions and attributes have an invariant of their own, `FitInv`, as the
attributes of a session change with every ticket while its candidates wait:

* `SessionInv`: a session keeps its region and every attribute that is neither an
  option nor the list of blocked players;
* `OptionsInv`: what a session has for an option is what it had, with what joined
  (type unique), or what is left of it that all have in common (type any);
* `CandidatesInv`: those found and not looked at yet still fit the session, and for
  options of type any agree with it and each other - one value is shared by all of
  them *and* is still the session's, which is why joining cannot empty it.

Proposals have `SentInv`: the teams that were given stay at their places and only
grow by tickets of the round (`GrownInv`), and what was sent is made of sessions that
do not change any more (`ProposalsInv`).  What a conversion keeps is in
`GivenTeams` (backfill ticket to session) and `SentTeams` (session to proposal).

The lemmas split a step in what was given (`GivenFields`), what a ticket does to the
teams (`OpenedShape`, `JoinedTeams`, `PartyAdded`: one team has one party more, the
others are what they were), and what is kept by any change that leaves teams alone
(`KeepsTeams`, `KeptSafe`), so that each property is proved for joining and for all
other steps.  `ReportedOnce` was first stated without its condition on the rule.  It
was found not to be inductive, and then not to hold: section 4 says how a session
comes to be in both lists.  `SessionOptionsAgree` and `JoinedTicketsFit` were stated for
every option and attribute at first; the proofs failed for those section 4 names.

### Only model-checked

* All liveness (`CallEnds`, `HandlerReturns`, `CallEndsOrStalls`, `Terminates`):
  fairness and ENABLED are out of the prover's reach.
* The properties of the party finder for calls `OneOwner` excludes, which are those
  where they may fail: `party_overfull` refutes `LegalTeam` there.
* The links between components.  PivotMatching and PartyCombination read the closed
  form `Orders`, which `OrdersGiven` proves of the iterator; the streams read
  `Groupings` and `Proposals`, which `SentAsGrouped` and `ProposalsDiffer` prove of what
  the matchers send.  No module composes both ends of such a link.

All safety invariants and action properties of the runs are proved.  Recursive
definitions of the libraries (folds, flattened sequences) are out of reach of induction
here; where a theorem depends on one, the model says what it computes by places
(`Picked`), or a lemma shows it by a smallest counterexample (`FlattenProperties`,
`FilledSteps`).

## 6. Abstractions, and what is not modelled

* Scores are left out, and with them weights and the normalisation of distances
  and latencies.  They only order candidates: where a candidate would have a
  score, the order is any, otherwise it is that of the code (age, or latency
  where a session has a region).
* No request has a priority (`toMatchRequest` sets none) and no rule has
  additional criteria (nothing sets them).
* Ids that are generated are `"new"`.  The order of teams, of users and of the
  parties of a team means nothing and is not kept; the swaps that remove empty
  teams are therefore left out.
* An attribute's value is the set of values listed for it: a single value and a list
  of that one are the same, and so are lists that differ in order.  The code, with
  `reflect.DeepEqual` in `matchByPartyAttribute`, tells them apart, and a ticket
  would then fit fewer seekers.  A rule set's list of match options is absent or has
  an option: given an empty list, the code compares `cross_platform` like any other
  attribute (`manualSearch.go:697`).
* No ticket has equal latencies to two regions, and no two tickets of one partial
  match have the same player: the code's answer would depend on the order of a
  map or of the list, and such a player would count twice in a session's averages
  (`matchlogic.go:546`).
* `FIND_PARTY_MAX_LOOP` is at its default in PivotMatching; PartyCombination
  models the other values.  The reorder tool's `MaxSecond` is set by nobody.
* `ValidateTicket`, `EnrichTicket` and `GetStatCodes` answer a call of their own
  and keep no state; they are not modelled.
* Code without a caller is not modelled: `getTicketRegionToTryCount`,
  `getTicketMaxLatency`, the conversions a client would use
  (`ProtoMatchToMatchfunctionMatch` and its like), and the records of
  `models/models.go` for other services' storage.
* JSON and protobuf parsing, generated code, start-up, tracing, authorisation and
  test helpers are not modelled.

## 7. Plan

Done: MatchFeed, MatchStream with its proofs, BackfillStream; the helpers of
section 2; PivotMatching and SessionBackfill over them, from the ticket on the
wire to the match or proposal on the wire; PartyCombination, ReorderTool.

Proved: every safety invariant and action property of the runs and the refinement of
both streams, for all values of the constants; what the streams assume of the matchers.

Left:

* an abstract matcher that PivotMatching and SessionBackfill implement and the streams
  are composed with, instead of theorems on what is sent;
* PartyCombination with several orders inside PivotMatching, where `OneOwner` holds for
  every new team and not for a team that is filled up.
