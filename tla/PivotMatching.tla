--------------------------- MODULE PivotMatching ---------------------------
(***************************************************************************)
(* One run of MatchPlayers (defaultmatchmaker/matchplayer.go) on the       *)
(* requests of a chunk, with findMatchingAlly and FindPartyCombination as  *)
(* it calls them, and the matches runMatchMaking sends of it.  The oldest  *)
(* request becomes the pivot, the rules are flexed to its age; for each of *)
(* its regions the candidates found for it are put in an order, teams are  *)
(* filled from that order in two passes (minimum teams first, then up to   *)
(* the maximum), and the teams are validated.  Valid teams whose options   *)
(* agree become a match; a pivot that led to none is dropped.              *)
(*                                                                         *)
(* FIND_PARTY_MAX_LOOP is at its default, so FindPartyCombination tries    *)
(* one order (PartyCombination models the others).  No request has a       *)
(* priority: toMatchRequest sets none.  Scores are left out: candidates    *)
(* that have one come in any order.                                        *)
(***************************************************************************)
EXTENDS Grouping, Orders, OptionRules, RuleValidation, CandidateSearch, MatchConversion

CONSTANTS
    Ticket,         \* per request: the ticket the client sent, its id the request
    Offered,        \* the rule sets a call may come with, also invalid ones;
                    \* besides what RuleFlexing, RegionSearch and CandidateSearch
                    \* read they have autoBackfill and largerFirst, which is
                    \* PrioritizeLargerParties
    Start,          \* when MatchPlayers is called
    TimeLimit,      \* how long it may go on; and how long time is watched
    AllyLoops       \* orders findMatchingAlly may try, FIND_ALLY_MAX_LOOP or 1

Requests == DOMAIN Ticket
RuleSets == RulesFromJSON(Offered)
Attributes == UNION {DOMAIN rs.rules : rs \in RuleSets}

\* What getNextNRequests makes of the tickets.
Source == [r \in Requests |-> OverTheWire(Ticket[r])]
Request == [r \in Requests |-> ToMatchRequest(Source[r], Attributes)]

ASSUME PivotAssumption ==
    /\ IsFiniteSet(Requests) /\ Requests # {} /\ ExternalParty \notin Requests
    /\ \A r \in Requests :
          /\ IsTicket(Ticket[r])
          /\ Ticket[r].id = r /\ Ticket[r].createdAt \in 0 .. Start
    /\ RuleSets # {}
    /\ \A rs \in Offered : IsRuleSet(rs)
    /\ AllyLoops \in Nat \ {0} /\ Start \in Nat /\ TimeLimit \in Nat

VARIABLES
    ruleset,    \* the rule set of this call
    now,        \* the time, from Start to Start + TimeLimit
    pc,         \* "start", "single", "pivot", "region", "order", "team", "fill",
                \* "validate", "options", "dropPivot", "done"
    queue,      \* matchmakingRequests: those not matched and not dropped
    pivot,      \* the pivot
    active,     \* the rule set flexed to the pivot's age
    regions,    \* filteredRegion: those the pivot may play in
    region,     \* the index of the one tried, from 0
    found,      \* the candidates found for the pivot, in order
    tried,      \* orders of them tried so far
    order,      \* the order being tried
    free,       \* requests of the order in no team yet
    pass,       \* 1: minimum teams and players, 2: up to the maximum
    teams,      \* the teams so far, each a sequence of requests
    next,       \* the team whose turn it is
    team,       \* the team being filled
    at,         \* how far the order has been read for it
    results,    \* matches made
    sent        \* what runMatchMaking has sent of them

callVars == <<ruleset, now>>
searchVars == <<pivot, active, regions, region, found, tried>>
teamVars == <<order, free, pass, teams, next, team, at>>
outVars == <<results, sent>>
vars == <<callVars, pc, queue, searchVars, teamVars, outVars>>

Pool == ToSet(queue)
Rule == active.alliance
Of(S) == {Request[r] : r \in S}
UsersIn(S) == UsersOf(Of(S))

\* countPlayers, of a set of requests.
Players(S) == Headcount(Of(S))
Size(q) == Players(ToSet(q))

\* Mutant: only the list of the newest request is looked at.
BlockedByNewest(S) ==
    \E r \in S : /\ \A s \in S : Request[s].createdAt <= Request[r].createdAt
                 /\ UsersIn(S) \cap BlockedBy({Request[r]}) # {}

\* isContainBlockedPlayers and the check of ValidateAllies: somebody is blocked
\* by somebody, be it by themselves.
Blocked(S) == UsersIn(S) \cap BlockedBy(Of(S)) # {}

MinTotalPlayer(rule) == rule.minTeams * rule.minPlayers

TooFew(S, rule) == Cardinality(S) < rule.minTeams \/ Players(S) < MinTotalPlayer(rule)

Flexing == ruleset.allianceFlex # <<>>

IsSinglePlayer(rule) == rule.maxPlayers = 1 /\ rule.minTeams = 1 /\ rule.maxTeams = 1

\* Everybody in some teams, and in a match.
Members(ts) == UNION {ToSet(ts[i]) : i \in DOMAIN ts}
InMatch(m) == Members(m.teams)

RegionsToTry == IF regions = <<>> THEN 1 ELSE Len(regions)

TypeOK ==
    /\ ruleset \in RuleSets
    /\ now \in Start .. Start + TimeLimit
    /\ pc \in {"start", "single", "pivot", "region", "order", "team", "fill",
               "validate", "options", "dropPivot", "done"}
    /\ queue \in Seq(Requests) /\ IsInjective(queue)
    /\ pivot \in Requests
    /\ region \in Nat /\ tried \in Nat
    /\ found \in Seq(Requests) /\ order \in Seq(Requests) /\ team \in Seq(Requests)
    /\ teams \in Seq(Seq(Requests))
    /\ free \subseteq Requests
    /\ pass \in {1, 2} /\ next \in Nat \ {0} /\ at \in Nat \ {0}
    /\ results \in Seq(ToSet(results))
    /\ \A m \in ToSet(results) : m.pivot \in Requests /\ m.teams \in Seq(Seq(Requests))
    /\ sent \in Seq(ToSet(sent)) /\ Len(sent) <= Len(results)

Init ==
    /\ ruleset \in RuleSets
    /\ now = Start
    /\ pc = "start"
    /\ queue \in UNION {SetToSeqs(S) : S \in (SUBSET Requests) \ {{}}}
    /\ pivot = Head(queue) /\ active = ruleset
    /\ regions = <<>> /\ region = 0 /\ found = <<>> /\ tried = 0
    /\ order = <<>> /\ free = {} /\ pass = 1 /\ teams = <<>> /\ next = 1 /\ team = <<>> /\ at = 1
    /\ results = <<>> /\ sent = <<>>

-----------------------------------------------------------------------------
(* MatchPlayers up to the first pivot.                                     *)

\* Too few requests or players for any match, and no rule that may ask for
\* fewer later.
ReturnEarly ==
    /\ pc = "start"
    /\ TooFew(Pool, ruleset.alliance) /\ ~Flexing
    /\ pc' = "done"
    /\ UNCHANGED <<callVars, queue, searchVars, teamVars, outVars>>

Begin ==
    /\ pc = "start"
    /\ ~TooFew(Pool, ruleset.alliance) \/ Flexing
    /\ pc' = IF IsSinglePlayer(ruleset.alliance) THEN "single" ELSE "pivot"
    /\ UNCHANGED <<callVars, queue, searchVars, teamVars, outVars>>

\* A result: who was matched, by which pivot and rule, where and with what.
Result(p, rule, ts, at_region, attributes) ==
    [pivot |-> p, rule |-> rule, teams |-> ts, region |-> at_region, attributes |-> attributes,
     serverName |-> Name(Request[p].attributes, "server_name"),
     clientVersion |-> Name(Request[p].attributes, "client_version")]

\* pivotRequest.SortedLatency[i], "" if it has none.
RegionAt(r, i) == IF i < Len(Request[r].latency) THEN Request[r].latency[i + 1].region ELSE ""

\* handleSinglePlayer: every request is a match of its own, in its best region.
SinglePlayer ==
    /\ pc = "single"
    /\ queue # <<>>
    /\ LET r == Head(queue)
       IN  results' = Append(results, Result(r, ruleset.alliance, <<<<r>>>>, RegionAt(r, 0),
                                             Request[r].attributes))
    /\ queue' = Tail(queue)
    /\ UNCHANGED <<callVars, pc, searchVars, teamVars, sent>>

SinglePlayerEnds ==
    /\ pc = "single"
    /\ queue = <<>>
    /\ pc' = "done"
    /\ UNCHANGED <<callVars, queue, searchVars, teamVars, outVars>>

-----------------------------------------------------------------------------
(* The pivot and its regions.                                              *)

\* sortOldestFirst is not stable: of equally old requests any may come first.
OldestFirst(S) ==
    {q \in SetToSeqs(S) : \A i \in 1 .. Len(q) - 1 :
        Request[q[i]].createdAt <= Request[q[i + 1]].createdAt}

\* Mutant: the rules are flexed further from what the last pivot made of them.
ChoosePivotLeaking ==
    /\ pc = "pivot"
    /\ queue' \in OldestFirst(Pool)
    /\ pivot' = Head(queue')
    /\ active' = ActiveRuleSet(active, Request[pivot'].createdAt, now)
    /\ regions' = FilterRegionByStep(Request[pivot'], ruleset, now)
    /\ region' = 0
    /\ pc' = "region"
    /\ UNCHANGED <<callVars, found, tried, teamVars, outVars>>

\* The oldest request, the rules its age calls for, and its regions.
ChoosePivot ==
    /\ pc = "pivot"
    /\ queue' \in OldestFirst(Pool)
    /\ pivot' = Head(queue')
    /\ active' = ActiveRuleSet(ruleset, Request[pivot'].createdAt, now)
    /\ regions' = FilterRegionByStep(Request[pivot'], ruleset, now)
    /\ region' = 0
    /\ pc' = "region"
    /\ UNCHANGED <<callVars, found, tried, teamVars, outVars>>

\* The region candidates are filtered by, if any.
PivotRegion == IF region < Len(regions) THEN {regions[region + 1].region} ELSE {}

\* SearchMatchTickets: the pivot goes through the queue, one request at a time, and
\* those accepted before a request decide with it.
Before(i) == {queue[j] : j \in 1 .. i - 1}
Candidates ==
    {accepted \in SUBSET Pool : \A i \in DOMAIN queue :
        queue[i] \in accepted <=>
            PivotAccepts(Request[pivot], active, ruleset, PivotRegion, Request[queue[i]],
                         Of(accepted \cap Before(i)), now)}

\* Nothing gives a candidate a score: neither a distance nor a latency.
Unscored == Distances(active) = {} /\ ruleset.max <= 0

\* sortMatchTickets, and sortDESC if larger parties come first.
SearchOrders(S) ==
    {q \in SetToSeqs(S) : \A i \in 1 .. Len(q) - 1 :
        IF ruleset.largerFirst THEN Players({q[i]}) >= Players({q[i + 1]})
        ELSE Unscored => Request[q[i]].createdAt <= Request[q[i + 1]].createdAt}

\* Too few candidates: the next region.  Otherwise they are ordered.
SearchRegion ==
    /\ pc = "region"
    /\ region < RegionsToTry
    /\ UsersIn({pivot}) # {}
    /\ \E accepted \in Candidates : LET usable == {r \in accepted : UsersIn({r}) # {}} IN
          IF TooFew(usable \cup {pivot}, Rule)
          THEN /\ region' = region + 1
               /\ UNCHANGED <<pc, found, tried>>
          ELSE /\ found' \in SearchOrders(usable)
               /\ tried' = 0
               /\ pc' = "order"
               /\ UNCHANGED region
    /\ UNCHANGED <<callVars, queue, pivot, active, regions, teamVars, outVars>>

RegionsEnd ==
    /\ pc = "region"
    /\ region >= RegionsToTry \/ UsersIn({pivot}) = {}
    /\ pc' = "dropPivot"
    /\ UNCHANGED <<callVars, queue, searchVars, teamVars, outVars>>

-----------------------------------------------------------------------------
(* findMatchingAlly: orders, passes, teams.                                *)

\* The k-th order of OnePointer: the pivot, then the others rotated.
OrderAt(k) == <<pivot>> \o Rotation(found, k)

\* A pivot without candidates still has one order.
OrderCount == IF found = <<>> THEN 1 ELSE IF Len(found) < AllyLoops THEN Len(found) ELSE AllyLoops

NextOrder ==
    /\ pc = "order"
    /\ tried < OrderCount
    /\ order' = OrderAt(tried)
    /\ tried' = tried + 1
    /\ free' = {pivot} \cup ToSet(found)
    /\ pass' = 1 /\ next' = 1 /\ teams' = <<>> /\ team' = <<>> /\ at' = 1
    /\ pc' = "team"
    /\ UNCHANGED <<callVars, queue, pivot, active, regions, region, found, outVars>>

\* Mutant: the same region is searched again.
OrdersEndSameRegion ==
    /\ pc = "order"
    /\ tried >= OrderCount
    /\ pc' = "region"
    /\ UNCHANGED <<callVars, queue, searchVars, teamVars, outVars>>

\* No order gave valid teams: the next region.
OrdersEnd ==
    /\ pc = "order"
    /\ tried >= OrderCount
    /\ region' = region + 1
    /\ pc' = "region"
    /\ UNCHANGED <<callVars, queue, pivot, active, regions, found, tried, teamVars, outVars>>

TeamsWanted == IF pass = 1 THEN Rule.minTeams ELSE Rule.maxTeams

\* The first pass fills a team to its minimum, or to the smallest party.
SmallestParty == LET sizes == {Players({r}) : r \in {pivot} \cup ToSet(found)} \cup {Rule.maxPlayers}
                 IN  CHOOSE n \in sizes : \A m \in sizes : n <= m

FirstMax == IF Rule.minPlayers < SmallestParty THEN SmallestParty ELSE Rule.minPlayers

PlayersAllowed == IF pass = 1 THEN FirstMax ELSE Rule.maxPlayers

\* The team FindPartyCombination starts from.
Current == IF next <= Len(teams) THEN teams[next] ELSE <<>>

\* Mutant: what was filled last is filled further.
StartTeamStale ==
    /\ pc = "team"
    /\ next <= TeamsWanted
    /\ at' = 1
    /\ pc' = "fill"
    /\ UNCHANGED <<callVars, queue, searchVars, order, free, pass, teams, next, team, outVars>>

StartTeam ==
    /\ pc = "team"
    /\ next <= TeamsWanted
    /\ team' = Current
    /\ at' = 1
    /\ pc' = "fill"
    /\ UNCHANGED <<callVars, queue, searchVars, order, free, pass, teams, next, outVars>>

EndPass ==
    IF pass = 1
    THEN pass' = 2 /\ next' = 1 /\ pc' = "team"
    ELSE pc' = "validate" /\ UNCHANGED <<pass, next>>

PassEnds ==
    /\ pc = "team"
    /\ next > TeamsWanted
    /\ EndPass
    /\ UNCHANGED <<callVars, queue, searchVars, order, free, teams, team, at, outVars>>

\* Mutant: a party joins as long as the team is not full.
MayJoinUnlessFull(r) ==
    /\ r \in free
    /\ ~(ruleset.block = "other team" /\ Blocked(ToSet(team) \cup {r}))
    /\ Size(team) < PlayersAllowed

\* FindPartyCombination's loop: take the request if it may join the team.
MayJoin(r) ==
    /\ r \in free
    /\ ~(ruleset.block = "other team" /\ Blocked(ToSet(team) \cup {r}))
    /\ Size(team) + Players({r}) <= PlayersAllowed

Consider ==
    /\ pc = "fill"
    /\ at <= Len(order)
    /\ team' = IF MayJoin(order[at]) THEN Append(team, order[at]) ELSE team
    /\ at' = at + 1
    /\ UNCHANGED <<callVars, pc, queue, searchVars, order, free, pass, teams, next, outVars>>

\* IsFulfilled and GetBestResult: what was filled, unless it has too few
\* players or no more than the team had before.
Filled ==
    IF /\ Size(team) \in Rule.minPlayers .. PlayersAllowed
       /\ Size(team) = PlayersAllowed \/ Size(team) > Size(Current)
    THEN team ELSE Current

\* A team that was there is replaced, a new one is added.
Placed(ts, n, q) == IF n <= Len(ts) THEN [ts EXCEPT ![n] = q] ELSE Append(ts, q)

\* Mutant: the team's requests may still join another team.
FillEndsKept ==
    /\ pc = "fill"
    /\ at > Len(order)
    /\ IF Filled = <<>>
       THEN EndPass /\ UNCHANGED teams
       ELSE /\ teams' = Placed(teams, next, Filled)
            /\ next' = next + 1
            /\ pc' = "team"
            /\ UNCHANGED pass
    /\ UNCHANGED <<callVars, free, queue, searchVars, order, team, at, outVars>>

FillEnds ==
    /\ pc = "fill"
    /\ at > Len(order)
    /\ IF Filled = <<>>
       THEN EndPass /\ UNCHANGED <<teams, free>>
       ELSE /\ teams' = Placed(teams, next, Filled)
            /\ free' = free \ ToSet(Filled)
            /\ next' = next + 1
            /\ pc' = "team"
            /\ UNCHANGED pass
    /\ UNCHANGED <<callVars, queue, searchVars, order, team, at, outVars>>

ValidAllies(ts) ==
    /\ Len(ts) \in Rule.minTeams .. Rule.maxTeams
    /\ \A i \in DOMAIN ts : Size(ts[i]) \in {0} \cup Rule.minPlayers .. Rule.maxPlayers
    /\ Cardinality({i \in DOMAIN ts : Size(ts[i]) > 0}) >= Rule.minTeams
    /\ ruleset.block = "other team" => \A i \in DOMAIN ts : ~Blocked(ToSet(ts[i]))

Validate ==
    /\ pc = "validate"
    /\ pc' = IF ValidAllies(teams) THEN "options" ELSE "order"
    /\ UNCHANGED <<callVars, queue, searchVars, teamVars, outVars>>

-----------------------------------------------------------------------------
(* The match.                                                              *)

\* The attributes of the parties, team by team.
PartyAttributes ==
    LET parties == FlattenSeq(teams)
    IN  [i \in DOMAIN parties |-> Request[parties[i]].attributes]

\* Values of a match option do not agree between the parties: next region.
OptionsDisagree ==
    /\ pc = "options"
    /\ OptionsMayDisagree(PartyAttributes, active)
    /\ region' = region + 1
    /\ pc' = "region"
    /\ UNCHANGED <<callVars, queue, pivot, active, regions, found, tried, teamVars, outVars>>

Found == Result(pivot, Rule, teams, RegionAt(pivot, region), CombinedAttributes(PartyAttributes, active))

\* A queue without some requests, the others in the order they had.
Without(q, S) ==
    {p \in SetToSeqs(ToSet(q) \ S) : \A i, j \in DOMAIN p :
        i < j => \E k, l \in DOMAIN q : k < l /\ p[i] = q[k] /\ p[j] = q[l]}

\* Mutant: as many requests as teams are not enough for another pivot.
MakeMatchStrict ==
    /\ pc = "options"
    /\ OptionsMayAgree(PartyAttributes, active)
    /\ results' = Append(results, Found)
    /\ queue' \in Without(queue, InMatch(Found))
    /\ pc' = IF queue' # <<>> /\ Len(queue') > Rule.minTeams THEN "pivot" ELSE "dropPivot"
    /\ UNCHANGED <<callVars, searchVars, teamVars, sent>>

\* The match is made, its requests leave the pool, and the next pivot is
\* chosen if there are enough requests left.
MakeMatch ==
    /\ pc = "options"
    /\ OptionsMayAgree(PartyAttributes, active)
    /\ results' = Append(results, Found)
    /\ queue' \in Without(queue, InMatch(Found))
    /\ pc' = IF queue' # <<>> /\ Len(queue') >= Rule.minTeams THEN "pivot" ELSE "dropPivot"
    /\ UNCHANGED <<callVars, searchVars, teamVars, sent>>

HasTime == now - Start < TimeLimit

AnotherPivot ==
    /\ queue # <<>> /\ Len(queue) >= Rule.minTeams
    /\ Players(Pool) >= MinTotalPlayer(Rule) \/ Flexing
    /\ HasTime

\* Another pivot may still find a match: drop this one and go on.  Were it not
\* there any more, the first request would go.
DropPivot ==
    /\ pc = "dropPivot"
    /\ AnotherPivot
    /\ queue' \in Without(queue, {IF pivot \in Pool THEN pivot ELSE Head(queue)})
    /\ pc' = IF queue' # <<>> THEN "pivot" ELSE "done"
    /\ UNCHANGED <<callVars, searchVars, teamVars, outVars>>

GiveUp ==
    /\ pc = "dropPivot"
    /\ ~AnotherPivot
    /\ pc' = "done"
    /\ UNCHANGED <<callVars, queue, searchVars, teamVars, outVars>>

\* A match as it is converted and sent, with the tickets of its requests.
Converted(m) ==
    LET Alliance(q) == [id |-> "", parties |-> {CreateMatchingParty(Request[r]) : r \in ToSet(q)}]
        result == [alliances |-> [i \in DOMAIN m.teams |-> Alliance(m.teams[i])],
                   region |-> m.region, attributes |-> m.attributes,
                   serverName |-> m.serverName, clientVersion |-> m.clientVersion]
    IN  MatchOverTheWire(FromMatchResult(result, {Source[r] : r \in Requests}, ruleset, now))

\* runMatchMaking converts and sends the results one after the other.
SendMatch ==
    /\ pc = "done"
    /\ Len(sent) < Len(results)
    /\ sent' = Append(sent, Converted(results[Len(sent) + 1]))
    /\ UNCHANGED <<callVars, pc, queue, searchVars, teamVars, results>>

AllSent == pc = "done" /\ Len(sent) = Len(results)

Tick ==
    /\ now < Start + TimeLimit
    /\ now' = now + 1
    /\ UNCHANGED <<ruleset, pc, queue, searchVars, teamVars, outVars>>

-----------------------------------------------------------------------------
Step ==
    \/ ReturnEarly \/ Begin \/ SinglePlayer \/ SinglePlayerEnds
    \/ ChoosePivot \/ SearchRegion \/ RegionsEnd
    \/ NextOrder \/ OrdersEnd \/ StartTeam \/ PassEnds \/ Consider \/ FillEnds \/ Validate
    \/ OptionsDisagree \/ MakeMatch \/ DropPivot \/ GiveUp \/ SendMatch

Finished == AllSent /\ UNCHANGED vars

Next == Step \/ Tick \/ Finished

Spec == Init /\ [][Next]_vars
FairSpec == Spec /\ WF_vars(Step)

-----------------------------------------------------------------------------
(* Properties.                                                             *)

\* Phases in which a pivot is searched for, has candidates, has teams.
Searching == {"region", "order", "team", "fill", "validate", "options"}
Teaming   == {"team", "fill", "validate", "options"}

\* No request is in two of the teams, or twice in one.
Apart(ts) ==
    /\ \A i \in DOMAIN ts : IsInjective(ts[i])
    /\ \A i, j \in DOMAIN ts : i # j => ToSet(ts[i]) \cap ToSet(ts[j]) = {}

\* What MatchStream assumes of MatchPlayers: matches are groups of the chunk's
\* requests and no request is in two of them, however often the pool is cut down
\* between pivots.  Nor is one in two teams, or in a team and still free to join
\* another (matchplayer.go:385-393, 444-460, 586-589, 617-620).
TeamsApart == pc \in Teaming => Apart(teams) /\ Members(teams) \subseteq Pool \ free

MatchesApart ==
    /\ \A m \in ToSet(results) : Apart(m.teams) /\ InMatch(m) \cap Pool = {}
    /\ IsGrouping([i \in DOMAIN results |-> InMatch(results[i])], Requests)

NoRequestTwice == TeamsApart /\ MatchesApart

\* The two passes never build a team that validation would refuse for its
\* size, or more teams than allowed: only a missing team can make an order fail
\* (matchplayer.go:559-623).
TeamsInRange ==
    pc \in Teaming =>
        /\ Len(teams) <= Rule.maxTeams
        /\ \A i \in DOMAIN teams : Size(teams[i]) \in Rule.minPlayers .. Rule.maxPlayers
        /\ Size(team) <= Rule.maxPlayers

\* The rules someone of that age may be matched by: the rule itself, and those
\* whose time has come.
Warranted(rule, list, since) ==
    {rule} \cup {list[i].rule : i \in {j \in DOMAIN list : since + list[j].duration < now}}

\* matchmaking.md:108: MatchPlayers "ensures minimum/maximum player counts per
\* team": every match keeps the rule that was active for its pivot, and that rule
\* is one the pivot's age warrants.  The single-player shortcut does not look at
\* the size of a party.
RuleKept ==
    ~IsSinglePlayer(ruleset.alliance) => \A m \in ToSet(results) :
        /\ Len(m.teams) \in m.rule.minTeams .. m.rule.maxTeams
        /\ \A i \in DOMAIN m.teams : Size(m.teams[i]) \in m.rule.minPlayers .. m.rule.maxPlayers
        /\ m.rule \in Warranted(ruleset.alliance, ruleset.allianceFlex, Request[m.pivot].createdAt)

\* Nobody has blocked a player of another request.
Peaceful(S) == \A r, s \in S : r # s => UsersIn({r}) \cap BlockedBy({Request[s]}) = {}

\* Nobody is matched with a player they blocked: in the same match, or in the
\* same team where blocking only counts there (manualSearch.go:752-793,
\* matchplayer.go:702-709).
NoBlockedTogether ==
    \A m \in ToSet(results) :
        /\ ruleset.block \in {"", "cannot"} => Peaceful(InMatch(m))
        /\ ruleset.block = "other team" => \A i \in DOMAIN m.teams : Peaceful(ToSet(m.teams[i]))

\* A request leaves the pool only in a match or as the pivot no match was found
\* for: never because another one was given up (matchplayer.go:444-460).
OnlyPivotDropped ==
    [][\A r \in Pool \ Pool' : r = pivot \/ r \in UNION {InMatch(m) : m \in ToSet(results')}]_vars

\* However the pivots, regions and orders go, the search comes to an end and its
\* matches are sent (the gotos of matchplayer.go:426-462).
Terminates == <>AllSent

\* The matches of MatchPlayers, the single-player ones apart, as pairs of a match
\* and one of its requests that is not the pivot.
Partners ==
    {mr \in ToSet(results) \X Requests :
        /\ ~IsSinglePlayer(ruleset.alliance)
        /\ mr[2] \in InMatch(mr[1]) \ {mr[1].pivot}}

Carried(r, key) == Values(Request[r].attributes, key)

\* An option of type any agrees if everybody shares a value with the pivot, or one
\* value with everybody; or, for cross-play, if they want each other's platforms.
AnyAgrees(p, S) ==
    \A o \in DOMAIN ruleset.options : ruleset.options[o] = "any" =>
        IF o = "cross_platform" /\ Carried(p, "current_platform") # {}
        THEN \A r, s \in S \cup {p} : r # s /\ (ruleset.anyCommon \/ r = p \/ s = p) =>
                Carried(r, "current_platform") \subseteq Carried(s, o)
        ELSE o \in DOMAIN Request[p].attributes /\ S \ {p} # {} =>
                IF ruleset.anyCommon
                THEN \E v \in Carried(p, o) : \A r \in S : v \in Carried(r, o)
                ELSE \A r \in S : Carried(r, o) \cap Carried(p, o) # {}

\* The values of the parties of a match agree in the way of each option: none is
\* shared, all are, or one is, by everybody or with the pivot; and cross-play is
\* mutual.  Options are compared with the pivot only, before the teams are known,
\* and counted afterwards; of those the pivot lacks, an option of type any is not
\* promised to anyone (manualSearch.go:466-585, matchplayer.go:258-306).
OptionsAgree ==
    \A m \in ToSet(results) : ~IsSinglePlayer(ruleset.alliance) =>
        /\ AnyAgrees(m.pivot, InMatch(m))
        /\ \A o \in DOMAIN ruleset.options : \A r, s \in InMatch(m) :
              /\ ruleset.options[o] = "unique" /\ r # s => Carried(r, o) \cap Carried(s, o) = {}
              /\ ruleset.options[o] = "all" => Carried(r, o) = Carried(s, o)

\* Who is asked where they can play, and whether a region is within reach for them,
\* or has become so by the time the pivot stops asking.
Asked(r) == Request[r].latency # <<>> /\ WithinMax(Request[r].latency[1].ms, ruleset)

Played(r, p, region_name) == \E i \in DOMAIN Request[r].latency :
    /\ Request[r].latency[i].region = region_name
    /\ \/ SkipFilterCandidateRegion(Request[p], ruleset, now)
       \/ /\ Request[r].latency[i].ms <= LatencyLimit(Request[r], ruleset, now)
          /\ WithinMax(Request[r].latency[i].ms, ruleset)

\* The regions of the pivot are tried one after the other and none beyond the last,
\* and a match is made in one that is within reach for everybody in it: no slower
\* than their best one, the initial range and one step per expansion allow, and
\* than the maximum.  A pivot that has waited long enough stops asking this of
\* others.  Parties without latencies, or whose best one is beyond the maximum,
\* are not asked; and with such a pivot the region may be any (utils.go:157-182,
\* manualSearch.go:795-835, matchplayer.go:135-141, 219-223).
RegionKept ==
    /\ region <= RegionsToTry
    /\ \A mr \in Partners : LET m == mr[1] IN
        Asked(m.pivot) /\ Asked(mr[2]) => Played(mr[2], m.pivot, m.region)

\* The rules about an attribute that somebody's age warrants, and whether two
\* averages are within one of those somebody has waited for.
RulesFor(r, a) ==
    {ruleset.rules[a]} \cup
    {[criteria |-> f.criteria, reference |-> f.reference] :
        f \in {g \in ToSet(ruleset.flex) : g.attribute = a /\ Request[r].createdAt + g.duration < now}}

Near(r, s, a, who) == \E rule \in RulesFor(who, a) :
    rule.criteria = "distance" => Within(Request[r].values[a], Request[s].values[a], rule.reference)

\* Nobody's average is further from the pivot's than the pivot has waited for, nor
\* than they have waited for themselves, whichever pivots were tried before with
\* wider rules (flexrule.go:48-56, manualSearch.go:291-364).
DistanceKept ==
    \A mr \in Partners : \A a \in DOMAIN ruleset.rules :
        LET p == mr[1].pivot
            r == mr[2]
        IN  /\ Near(r, p, a, p)
            /\ Near(r, p, a, r) \/ \E rule \in RulesFor(p, a) : rule.criteria # "distance"

\* How many players a match has room for, by the rules the age of its requests warrants.
Capacity(m) == {rule.maxTeams * rule.maxPlayers : rule \in
    UNION {Warranted(ruleset.alliance, ruleset.allianceFlex, Request[r].createdAt) : r \in InMatch(m)}}

\* What is sent of a match are the tickets of its parties, each whole and in one
\* team, under the party it queued with; and players are asked for as long as
\* there is room, but never for a match that no rule has room in any more
\* (matchlogic.go:379-490, conversions.go:122-165).
SentAs(m, s) ==
    /\ {t.id : t \in s.tickets} = InMatch(m)
    /\ Len(s.teams) = Len(m.teams)
    /\ \A j \in DOMAIN m.teams :
          {<<p.id, p.users>> : p \in s.teams[j].parties}
              = {<<Ticket[r].party, DOMAIN Ticket[r].players>> : r \in ToSet(m.teams[j])}
    /\ s.backfill => ruleset.autoBackfill /\ \E n \in Capacity(m) : Players(InMatch(m)) < n
    /\ ruleset.autoBackfill /\ ~s.backfill => \E n \in Capacity(m) : Players(InMatch(m)) >= n

\* Every match is sent like that, in the order they were made.
MatchesSent == \A i \in DOMAIN sent : SentAs(results[i], sent[i])

\* matchplayer.go:525: findMatchingAlly "attempts to find matching allies for a
\* pivot ticket", and dataobjects.go:81 calls PivotID the "ID of the pivot ticket
\* used for this match": the pivot should be in it.
PivotInMatch == \A m \in ToSet(results) : m.pivot \in InMatch(m)

-----------------------------------------------------------------------------
(* The inductive invariant: the safety properties above, and what keeps    *)
(* them from one step to the next.                                         *)

\* The pivot stays in the pool while it is searched for.  Once it was matched,
\* DropPivot would not find another one to give up.
PhaseInv ==
    /\ pc \in {"start", "pivot"} => queue # <<>>
    /\ pc = "single" => IsSinglePlayer(ruleset.alliance)
    /\ pc \in Searching => pivot \in Pool
    /\ pc = "dropPivot" => pivot \in Pool \/ queue = <<>> \/ Len(queue) < Rule.minTeams
    /\ pc = "options" => ValidAllies(teams)

\* The active rules are those of the call, or flexed from those of the call, at a
\* time that has passed.
RuleInv ==
    active = ruleset \/ \E t \in Start .. now :
        active = ActiveRuleSet(ruleset, Request[pivot].createdAt, t)

\* The regions are those the pivot could play in when it was chosen, and one of
\* them is being tried.
RegionInv ==
    /\ region <= RegionsToTry
    /\ pc \in Searching =>
          \E t \in Start .. now : regions = FilterRegionByStep(Request[pivot], ruleset, t)
    /\ pc \in Searching \ {"region"} => region < RegionsToTry

\* Somebody who was near enough to the pivot at some time, and played in its region.
Compared(r, t) ==
    /\ MatchByDistance(Request[pivot], active, Request[r], ruleset, t)
    /\ MatchByRegionLatency(PivotRegion, SkipFilterCandidateRegion(Request[pivot], ruleset, t),
                            ruleset, Request[r], t)

\* Candidates were compared with the pivot and with those accepted before them.
FoundInv == pc \in Searching \ {"region"} =>
    /\ IsInjective(found) /\ ToSet(found) \subseteq Pool \ {pivot}
    /\ RespectsBlocks(ruleset) => Peaceful({pivot} \cup ToSet(found))
    /\ AnyAgrees(pivot, ToSet(found))
    /\ \A r \in ToSet(found) : \E t \in Start .. now : Compared(r, t)

\* Everybody in the order is in one place: free, or in a team.  The first pass
\* only adds teams.
TeamInv == pc \in Teaming =>
    /\ IsInjective(order)
    /\ ToSet(order) \cup free \cup Members(teams) \subseteq {pivot} \cup ToSet(found)
    /\ next <= Len(teams) + 1
    /\ pass = 1 => next = Len(teams) + 1

\* The team being filled has those it had, and free requests passed in the order.
FillInv == pc = "fill" =>
    /\ next <= TeamsWanted
    /\ IsInjective(team)
    /\ ToSet(team) \subseteq ToSet(Current) \cup (free \cap {order[i] : i \in 1 .. at - 1})
    /\ Size(team) <= PlayersAllowed
    /\ at <= Len(order) + 1

\* No match has a team without requests.
NoTeamEmpty == \A m \in ToSet(results) : <<>> \notin ToSet(m.teams)

\* A match uses up at least one request.
CountInv == Len(results) + Cardinality(Pool) <= Cardinality(Requests)

IInv ==
    /\ TypeOK /\ PhaseInv /\ RuleInv /\ RegionInv /\ FoundInv /\ TeamInv /\ FillInv /\ CountInv
    /\ NoRequestTwice /\ TeamsInRange /\ RuleKept /\ NoBlockedTogether /\ DistanceKept
    /\ RegionKept /\ OptionsAgree /\ NoTeamEmpty /\ MatchesSent
=============================================================================
