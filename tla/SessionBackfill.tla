--------------------------- MODULE SessionBackfill ---------------------------
(***************************************************************************)
(* One run of MatchSessions (defaultmatchmaker/matchsession.go) on a       *)
(* backfill round, from the backfill tickets it is given to the proposals  *)
(* runBackfilling sends: the sessions are visited in turn, the tickets     *)
(* found for each join its smallest team with room, or a new team, and a   *)
(* session whose teams are all full is taken off the list that is being    *)
(* visited.                                                                *)
(*                                                                         *)
(* The order of a session's teams means nothing, so the swaps of           *)
(* RemoveEmptyMatchingParties are left out.  Scores are left out too:      *)
(* candidates that have one come in any order.  The backfill tickets of a  *)
(* round have different ids.                                               *)
(***************************************************************************)
EXTENDS OptionRules, RuleValidation, CandidateSearch, MatchConversion

CONSTANTS
    Ticket,         \* per request: the ticket looking for a session, its id the request
    Backfill,       \* a sequence: the backfill tickets
    Offered,        \* the rule sets a call may come with (see PivotMatching)
    Start,          \* when MatchSessions is called
    TimeLimit       \* how long it may go on; and how long time is watched

Requests == DOMAIN Ticket
Sessions == DOMAIN Backfill
RuleSets == RulesFromJSON(Offered)
Attributes == UNION {DOMAIN rs.rules : rs \in RuleSets}

\* What getNextNBackfillRequests makes of tickets and backfill tickets.
Source == [r \in Requests |-> OverTheWire(Ticket[r])]
Request == [r \in Requests |-> ToMatchRequest(Source[r], Attributes)]
Given == [s \in Sessions |-> FromBackfillTicket(BackfillOverTheWire(Backfill[s]), Attributes)]

\* A ticket that is in a session is not among those that look for one.
ASSUME BackfillAssumption ==
    /\ IsFiniteSet(Requests) /\ ExternalParty \notin Requests
    /\ \A r \in Requests :
          /\ IsTicket(Ticket[r])
          /\ Ticket[r].id = r /\ Ticket[r].createdAt \in 0 .. Start
          /\ DOMAIN Ticket[r].players # {}
    /\ Backfill # <<>> /\ Backfill \in Seq(ToSet(Backfill))
    /\ \A s, t \in Sessions : s # t => Backfill[s].id # Backfill[t].id
    /\ \A s \in Sessions :
          /\ {"id", "region", "attributes", "teams", "tickets"} \subseteq DOMAIN Backfill[s]
          /\ Backfill[s].createdAt \in 0 .. Start
          /\ Backfill[s].teams \in Seq(ToSet(Backfill[s].teams))
          /\ \A team \in ToSet(Backfill[s].teams) : IsFiniteSet(team.users)
          /\ Backfill[s].tickets \in Seq(ToSet(Backfill[s].tickets))
          /\ \A t \in ToSet(Backfill[s].tickets) :
                /\ {"id", "players", "attributes", "excluded"} \subseteq DOMAIN t
                /\ t.id \notin Requests /\ IsFiniteSet(DOMAIN t.players)
          /\ BlockedBy(ToSet(Backfill[s].tickets))    \* see CombinedAttributes
                \subseteq Values(Backfill[s].attributes, "blocked_players")
    /\ RuleSets # {}
    /\ \A rs \in Offered : IsRuleSet(rs)
    /\ Start \in Nat /\ TimeLimit \in Nat

VARIABLES
    ruleset,        \* the rule set of this call
    now,            \* the time, from Start to Start + TimeLimit
    pc,             \* "start", "session", "ticket", "done"
    round,          \* the requests of this round
    pool,           \* tickets: those in no session yet, in order
    sessions,       \* the array behind the slice of sessions; range reads all of it
    count,          \* the length the slice has now
    index,          \* sessions visited
    session,        \* the session being visited
    active,         \* the rule set flexed to its age
    candidates,     \* the requests found for it, in order
    state,          \* per session: its MatchmakingResult
    updated, satisfied,     \* the sessions to report
    satisfiedTickets,
    proposals,      \* those sent
    visited         \* history: the sessions visited

callVars == <<ruleset, now, round>>
listVars == <<sessions, count, index>>
visitVars == <<session, active, visited>>
outVars == <<updated, satisfied, satisfiedTickets, proposals>>
vars == <<callVars, pc, pool, listVars, visitVars, candidates, state, outVars>>

Rule == active.alliance
Of(S) == {Request[r] : r \in S}
PartiesOf(sess) == UNION {team.parties : team \in ToSet(sess.teams)}
PlayersIn(sess) == MapThenSumSet(LAMBDA i : Headcount(sess.teams[i].parties), DOMAIN sess.teams)
JoinedIn(s) == {r \in Requests : r \in {p.id : p \in PartiesOf(state[s])}}
Reported == ToSet(updated) \cup ToSet(satisfied)

\* The parties, the names and the teams there may be.
Parties == {CreateMatchingParty(Request[r]) : r \in Requests}
               \cup UNION {PartiesOf(Given[s]) : s \in Sessions}
TeamNames == {""} \cup UNION {{team.id : team \in ToSet(Given[s].teams)} : s \in Sessions}
AnyTeam == [id : TeamNames, parties : SUBSET Parties]

TypeOK ==
    /\ ruleset \in RuleSets /\ now \in Start .. Start + TimeLimit
    /\ pc \in {"start", "session", "ticket", "done"}
    /\ round \subseteq Requests
    /\ pool \in Seq(round) /\ IsInjective(pool)
    /\ sessions \in [Sessions -> Sessions]
    /\ count \in 0 .. Len(Backfill) /\ index \in 0 .. Len(Backfill)
    /\ session \in Sessions
    /\ candidates \in Seq(ToSet(pool)) /\ IsInjective(candidates)
    /\ DOMAIN state = Sessions
    /\ \A s \in Sessions :
          /\ DOMAIN state[s] = DOMAIN Given[s] /\ state[s].id = Backfill[s].id
          /\ state[s].teams \in Seq(AnyTeam)
    /\ updated \in Seq(Sessions) /\ satisfied \in Seq(Sessions)
    /\ satisfiedTickets \subseteq round
    /\ proposals \in Seq(ToSet(proposals)) /\ Len(proposals) <= Len(updated) + Len(satisfied)
    /\ visited \subseteq Sessions

\* Tickets that ask for a new session are not part of the round.
Init ==
    /\ ruleset \in RuleSets
    /\ now = Start
    /\ pc = "start"
    /\ round \in SUBSET {r \in Requests : ~NewSessionOnly(Source[r])}
    /\ pool \in SetToSeqs(round)
    /\ sessions = [i \in Sessions |-> i]
    /\ count = Len(Backfill)
    /\ index = 0 /\ session = 1 /\ active = ruleset /\ visited = {}
    /\ candidates = <<>>
    /\ state = Given
    /\ updated = <<>> /\ satisfied = <<>> /\ satisfiedTickets = {} /\ proposals = <<>>

-----------------------------------------------------------------------------
(* The loop over the sessions.                                             *)

ReturnEarly ==
    /\ pc = "start"
    /\ pool = <<>>
    /\ pc' = "done"
    /\ UNCHANGED <<callVars, pool, listVars, visitVars, candidates, state, outVars>>

\* sortDESC, of which no order of equally large parties comes first.
LargestFirst(S) ==
    {q \in SetToSeqs(S) : \A i \in 1 .. Len(q) - 1 :
        Headcount(Of({q[i]})) >= Headcount(Of({q[i + 1]}))}

Begin ==
    /\ pc = "start"
    /\ pool # <<>>
    /\ IF ruleset.largerFirst THEN pool' \in LargestFirst(ToSet(pool)) ELSE UNCHANGED pool
    /\ pc' = "session"
    /\ UNCHANGED <<callVars, listVars, visitVars, candidates, state, outVars>>

\* GetOldestTicketTimestamp: parties of the backfill ticket have the time 0, and
\* with it the session counts from when it was queued.
OldestTicketTimestamp(sess) ==
    LET times == {p.since : p \in PartiesOf(sess)}
        least == CHOOSE t \in times : \A u \in times : t <= u
    IN  IF times = {} \/ least = 0 THEN sess.queuedAt ELSE least

\* sortMatchTickets: by score, then by latency, or by age if there is no region.
SearchOrders(S, rs, region) ==
    LET latency(r) == IF region \in DOMAIN Ticket[r].latencies THEN Ticket[r].latencies[region] ELSE 0
    IN  {q \in SetToSeqs(S) : Distances(rs) = {} => \A i \in 1 .. Len(q) - 1 :
            IF region # "" THEN latency(q[i]) <= latency(q[i + 1])
            ELSE Request[q[i]].createdAt <= Request[q[i + 1]].createdAt}

\* The session as SearchMatchTicketsBySession looks at it.
Seeker(sess) ==
    [f \in DOMAIN sess \cup {"parties"} |-> IF f = "parties" THEN PartiesOf(sess) ELSE sess[f]]

\* SearchMatchTicketsBySession: the session goes through the pool, and those accepted
\* before a request decide with it.
Before(i) == {pool[j] : j \in 1 .. i - 1}
SessionCandidates(sess, rs) ==
    {accepted \in SUBSET ToSet(pool) : \A i \in DOMAIN pool :
        pool[i] \in accepted <=>
            SessionAccepts(Seeker(sess), rs, ruleset, Request[pool[i]], Of(accepted \cap Before(i)), now)}

Visit ==
    /\ pc = "session"
    /\ index < Len(Backfill)
    /\ index' = index + 1
    /\ session' = sessions[index + 1]
    /\ visited' = visited \cup {session'}
    /\ LET sess == state[session']
           rs   == ActiveRuleSet(ruleset, OldestTicketTimestamp(sess), now)
       IN  /\ active' = rs
           /\ \E accepted \in SessionCandidates(sess, rs) :
                 candidates' \in SearchOrders(accepted, rs, sess.region)
    /\ pc' = "ticket"
    /\ UNCHANGED <<callVars, pool, sessions, count, state, outVars>>

AllVisited ==
    /\ pc = "session"
    /\ index >= Len(Backfill)
    /\ pc' = "done"
    /\ UNCHANGED <<callVars, pool, listVars, visitVars, candidates, state, outVars>>

CandidatesEnd ==
    /\ pc = "ticket"
    /\ candidates = <<>>
    /\ pc' = "session"
    /\ UNCHANGED <<callVars, pool, listVars, visitVars, candidates, state, outVars>>

HasTime == now - Start < TimeLimit

\* break allsession.
TimeIsUp ==
    /\ pc = "ticket"
    /\ candidates # <<>> /\ ~HasTime
    /\ pc' = "done"
    /\ UNCHANGED <<callVars, pool, listVars, visitVars, candidates, state, outVars>>

-----------------------------------------------------------------------------
(* The candidates of a session, one by one.                                *)

Considering == pc = "ticket" /\ candidates # <<>> /\ HasTime
Candidate == Request[Head(candidates)]

IsPlaying == UsersOf({Candidate}) \cap UsersOf(PartiesOf(state[session])) # {}

IsFar == /\ state[session].region # ""
         /\ state[session].region \notin RegionNames(FilterRegionByStep(Candidate, ruleset, now))

\* A player of the ticket is in the session by now, or it is in the wrong region.
Skip ==
    /\ Considering
    /\ IsPlaying \/ IsFar
    /\ candidates' = Tail(candidates)
    /\ UNCHANGED <<callVars, pc, pool, listVars, visitVars, state, outVars>>

\* Attributes with a list of blocked players in place of what they had.
Listing(attributes, users) ==
    [k \in DOMAIN attributes \cup {"blocked_players"} |->
        IF k = "blocked_players" THEN users ELSE attributes[k]]

\* Mutant: the lists of those who joined are not looked at.
UpdateBlockedPlayerOnlyGiven(sess) ==
    [sess EXCEPT !.attributes = Listing(@, BlockedBy({p \in PartiesOf(sess) : p.id \notin Requests}))]

\* updateBlockedPlayerInSession: the lists of the session's parties, and nothing
\* else, make up the session's list.
UpdateBlockedPlayerInSession(sess) ==
    [sess EXCEPT !.attributes = Listing(@, BlockedBy(PartiesOf(sess)))]

\* Done for every ticket, before blocked players are looked for.
Refreshed ==
    [s \in Sessions |-> IF s \in Reported THEN UpdateBlockedPlayerInSession(state[s]) ELSE state[s]]

IsBlocked ==
    /\ ruleset.block \in {"", "cannot"}
    /\ \/ BlockedBy({Candidate}) \cap UsersOf(PartiesOf(state[session])) # {}
       \/ BlockedBy({Refreshed[session]}) \cap UsersOf({Candidate}) # {}

OptionAttributes == <<state[session].attributes, Candidate.attributes>>

\* A player is blocked, or the match options do not agree.
Refuse ==
    /\ Considering
    /\ ~IsPlaying /\ ~IsFar
    /\ IsBlocked \/ OptionsMayDisagree(OptionAttributes, active)
    /\ candidates' = Tail(candidates)
    /\ state' = Refreshed
    /\ UNCHANGED <<callVars, pc, pool, listVars, visitVars, outVars>>

\* Mutant: a team takes a ticket while it is not full.
MayJoinUnlessFull(parties) ==
    /\ ~(ruleset.block = "other team" /\
         BlockedBy({Candidate}) \cap UsersOf(parties \cup {Candidate}) # {})
    /\ Headcount(parties) < Rule.maxPlayers

\* The team is given to the party finder by its players alone: the lists of its
\* parties are not looked at.
MayJoin(parties) ==
    /\ ~(ruleset.block = "other team" /\
         BlockedBy({Candidate}) \cap UsersOf(parties \cup {Candidate}) # {})
    /\ Headcount(parties) + Headcount({Candidate}) <= Rule.maxPlayers

NewTeam == [id |-> "", parties |-> {}]

\* The session's teams, with as many new ones as had to be tried: one if the ticket
\* may join that, and all that are allowed if it may join none.
Opened ==
    LET ts == state[session].teams
        n  == IF Len(ts) >= Rule.maxTeams \/ \E i \in DOMAIN ts : MayJoin(ts[i].parties) THEN 0
              ELSE IF MayJoin({}) THEN 1
              ELSE Rule.maxTeams - Len(ts)
    IN  ts \o [i \in 1 .. n |-> NewTeam]

\* The teams the ticket may end up in: a smallest of those with room.
Places ==
    LET open == {i \in DOMAIN Opened : MayJoin(Opened[i].parties)}
        Smaller(i, j) == Headcount(Opened[i].parties) <= Headcount(Opened[j].parties)
    IN  {i \in open : \A j \in open : Smaller(i, j)}

\* Mutant: of several teams the first goes for an empty one.
NotEmptyCut(ts) ==
    IF \E i \in DOMAIN ts : ts[i].parties = {} THEN Tail(ts) ELSE ts

\* RemoveEmptyMatchingParties.
NotEmpty(ts) ==
    Picked(ts, {i \in DOMAIN ts : ts[i].parties # {}
        /\ ~(Cardinality(ts[i].parties) = 1 /\ Headcount(ts[i].parties) = 0)})

Agreed ==
    /\ Considering
    /\ ~IsPlaying /\ ~IsFar /\ ~IsBlocked
    /\ OptionsMayAgree(OptionAttributes, active)

NoTeam ==
    /\ Agreed
    /\ Places = {}
    /\ candidates' = Tail(candidates)
    /\ state' = [Refreshed EXCEPT ![session].teams = NotEmpty(Opened)]
    /\ UNCHANGED <<callVars, pc, pool, listVars, visitVars, outVars>>

-----------------------------------------------------------------------------
(* A ticket joins a team.                                                  *)

\* The averages of the session's players, weighted by their numbers before.
JoinedValues(sess) ==
    LET n == PlayersIn(sess)
        k == Headcount({Candidate})
        v(a) == sess.values[a]
        w(a) == Candidate.values[a]
    IN  [a \in DOMAIN sess.values |->
            IF a \in Distances(active)
            THEN [sum |-> n * v(a).sum * w(a).over + k * w(a).sum * v(a).over,
                  over |-> (n + k) * v(a).over * w(a).over]
            ELSE v(a)]

\* The teams after the ticket joined the i-th.
TeamsWith(i) == [Opened EXCEPT ![i].parties = @ \cup {CreateMatchingParty(Candidate)}]

\* The session after that.
Joined(i) ==
    LET sess == Refreshed[session]
    IN  [sess EXCEPT !.teams = NotEmpty(TeamsWith(i)),
                     !.attributes = JoinedAttributes(@, Candidate.attributes, active),
                     !.values = JoinedValues(sess)]

Full(ts) ==
    Len(ts) = Rule.maxTeams /\ \A i \in DOMAIN ts : Headcount(ts[i].parties) >= Rule.maxPlayers

\* append(list[0:id], list[id+1:]...) in place: what follows moves down, and the
\* last place keeps its old content.
MovedDown(array, n, s) ==
    LET id == CHOOSE i \in 1 .. n : array[i] = s /\ \A j \in 1 .. i - 1 : array[j] # s
    IN  [i \in DOMAIN array |-> IF i \in id .. n - 1 THEN array[i + 1] ELSE array[i]]

IsListed == \E i \in 1 .. count : sessions[i] = session

Added(q, s) == IF Contains(q, s) THEN q ELSE Append(q, s)

\* Mutant: a session that was updated before it was filled stays among the updated.
FillSessionKept(sess) ==
    /\ IF IsListed
       THEN sessions' = MovedDown(sessions, count, session) /\ count' = count - 1
       ELSE UNCHANGED <<sessions, count>>
    /\ state' = [Refreshed EXCEPT ![session] = sess]
    /\ satisfied' = Added(satisfied, session)
    /\ pc' = "session"
    /\ candidates' = <<>>
    /\ UNCHANGED updated

\* The session is full: off the list, reported as satisfied, and the next one.
FillSession(sess) ==
    /\ IF IsListed
       THEN sessions' = MovedDown(sessions, count, session) /\ count' = count - 1
       ELSE UNCHANGED <<sessions, count>>
    /\ state' = [Refreshed EXCEPT ![session] = sess]
    /\ satisfied' = Added(satisfied, session)
    /\ updated' = RemoveFirst(updated, session)
    /\ pc' = "session"
    /\ candidates' = <<>>

\* Mutant: the same ticket is looked at again.
UpdateSessionAgain(sess) ==
    /\ state' = [Refreshed EXCEPT ![session] = UpdateBlockedPlayerInSession(sess)]
    /\ updated' = Added(updated, session)
    /\ UNCHANGED <<candidates, pc, sessions, count, satisfied>>

\* There is room left: reported as updated, and on to the next ticket.
UpdateSession(sess) ==
    /\ state' = [Refreshed EXCEPT ![session] = UpdateBlockedPlayerInSession(sess)]
    /\ updated' = Added(updated, session)
    /\ candidates' = Tail(candidates)
    /\ UNCHANGED <<pc, sessions, count, satisfied>>

\* Mutant: the ticket stays in the pool.
JoinTeamKept ==
    /\ Agreed
    /\ \E i \in Places : IF Full(TeamsWith(i)) THEN FillSession(Joined(i)) ELSE UpdateSession(Joined(i))
    /\ satisfiedTickets' = satisfiedTickets \cup {Head(candidates)}
    /\ UNCHANGED <<callVars, pool, index, visitVars, proposals>>

\* Mutant: users of tickets that joined before are not looked at again.
JoinTeamUnchecked ==
    /\ Considering
    /\ ~IsFar /\ ~IsBlocked /\ OptionsMayAgree(OptionAttributes, active)
    /\ \E i \in Places : IF Full(TeamsWith(i)) THEN FillSession(Joined(i)) ELSE UpdateSession(Joined(i))
    /\ satisfiedTickets' = satisfiedTickets \cup {Head(candidates)}
    /\ pool' = RemoveFirst(pool, Head(candidates))
    /\ UNCHANGED <<callVars, index, visitVars, proposals>>

\* The ticket joins a team and leaves the pool, where no party is twice.
JoinTeam ==
    /\ Agreed
    /\ \E i \in Places : IF Full(TeamsWith(i)) THEN FillSession(Joined(i)) ELSE UpdateSession(Joined(i))
    /\ satisfiedTickets' = satisfiedTickets \cup {Head(candidates)}
    /\ pool' = RemoveFirst(pool, Head(candidates))
    /\ UNCHANGED <<callVars, index, visitVars, proposals>>

-----------------------------------------------------------------------------
\* What becomes of a session that is reported.
Proposed(s) == ProposalOverTheWire(FromMatchResultToBackfillProposal(
    state[s], Of(satisfiedTickets), {Source[r] : r \in round}))

\* runBackfilling: a proposal for every updated and every satisfied session.
Propose ==
    LET reported == updated \o satisfied
    IN  /\ pc = "done"
        /\ Len(proposals) < Len(reported)
        /\ proposals' = Append(proposals, Proposed(reported[Len(proposals) + 1]))
        /\ UNCHANGED <<callVars, pc, pool, listVars, visitVars, candidates, state,
                       updated, satisfied, satisfiedTickets>>

Tick ==
    /\ now < Start + TimeLimit
    /\ pc # "done"
    /\ now' = now + 1
    /\ UNCHANGED <<ruleset, round, pc, pool, listVars, visitVars, candidates, state, outVars>>

AllSent == pc = "done" /\ Len(proposals) = Len(updated) + Len(satisfied)

Finished == AllSent /\ UNCHANGED vars

Next ==
    \/ ReturnEarly \/ Begin \/ Visit \/ AllVisited \/ CandidatesEnd \/ TimeIsUp
    \/ Skip \/ Refuse \/ NoTeam \/ JoinTeam \/ Propose
    \/ Tick \/ Finished

Spec == Init /\ [][Next]_vars

-----------------------------------------------------------------------------
(* Properties.                                                             *)

\* A ticket of the round is in the pool or in one team of one session, and those
\* in a session are the satisfied ones, although a session may be visited twice
\* with the candidates of its first visit already placed (matchsession.go:399-402).
TicketInOneTeam ==
    LET Has(s, i, r) == r \in {p.id : p \in state[s].teams[i].parties}
        places(r) == UNION {{s} \X {i \in DOMAIN state[s].teams : Has(s, i, r)} : s \in Sessions}
    IN  \A r \in round :
            /\ Cardinality(places(r)) = IF r \in ToSet(pool) THEN 0 ELSE 1
            /\ r \in satisfiedTickets <=> r \notin ToSet(pool)

\* Nobody joins a session they are in already, though two candidates may share a
\* player (matchsession.go:73-80).
UserInSessionOnce ==
    \A s \in Sessions : \A p, q \in PartiesOf(state[s]) :
        p.id \in Requests /\ p # q => DOMAIN p.players \cap DOMAIN q.players = {}

\* The alliance rules a session may have been filled by: the rule itself, and those
\* whose time has come for the session or for somebody in it.
Warranted(s) ==
    LET times == {Backfill[s].createdAt} \cup {p.since : p \in PartiesOf(state[s])}
        flexed == {i \in DOMAIN ruleset.allianceFlex :
                      \E t \in times : t + ruleset.allianceFlex[i].duration < now}
    IN  {ruleset.alliance} \cup {ruleset.allianceFlex[i].rule : i \in flexed}

\* A session grows beyond neither limit of such a rule (matchsession.go:247-299).
SessionInRange ==
    \A s \in Sessions :
        /\ \/ Len(state[s].teams) <= Len(Given[s].teams)
           \/ \E rule \in Warranted(s) : Len(state[s].teams) <= rule.maxTeams
        /\ \A team \in ToSet(state[s].teams) :
              (\E p \in team.parties : p.id \in Requests) =>
                 \E rule \in Warranted(s) : Headcount(team.parties) <= rule.maxPlayers

\* A session is reported if and only if a ticket joined it, and in no list twice.
\* If the rules could not change for it, it is reported as satisfied when it is full
\* and as updated otherwise, though it moves from one list to the other, the lists
\* are cut in place and it may be visited again (matchsession.go:404-477).
ReportedOnce ==
    LET FullBy(rule, s) ==
            /\ Len(state[s].teams) = rule.maxTeams
            /\ \A team \in ToSet(state[s].teams) : Headcount(team.parties) >= rule.maxPlayers
    IN  /\ IsInjective(updated) /\ IsInjective(satisfied)
        /\ \A s \in Sessions : s \in Reported <=> JoinedIn(s) # {}
        /\ \A s \in Sessions : Warranted(s) = {ruleset.alliance} =>
              /\ s \in ToSet(satisfied) => FullBy(ruleset.alliance, s)
              /\ s \in ToSet(updated) => ~FullBy(ruleset.alliance, s)

\* Blocked players do not meet in a session: tickets found together, or one after
\* the other, respect the lists of those that joined before
\* (matchsession.go:121-142).
NoBlockedInSession ==
    ruleset.block \in {"", "cannot"} =>
        \A s \in Sessions : \A p, q \in PartiesOf(state[s]) : p # q /\ p.id \in Requests =>
            /\ DOMAIN p.players \cap Values(q.attributes, "blocked_players") = {}
            /\ DOMAIN q.players \cap Values(p.attributes, "blocked_players") = {}

\* Nobody leaves a session or changes teams, whatever clean-up its teams go through
\* (matchsession.go:319).
PlayersStay ==
    [][\A s \in Sessions : \A team \in ToSet(state[s].teams) :
          team.parties = {} \/ \E other \in ToSet(state'[s].teams) :
              other.id = team.id /\ team.parties \subseteq other.parties]_vars

\* What a ticket and a backfill ticket have for an attribute.
Its(r, key) == Values(Ticket[r].attributes, key)
Had(s, key) == Values(Backfill[s].attributes, key)

\* Cross-play is asked for by the platforms of the session.
CrossPlayed(s, o) == o = "cross_platform" /\ Had(s, "current_platform") # {}

\* An option of type any: platforms and wishes match each other's, or everybody shares
\* a value with the session, one and the same if values must be common to all.
AnyFits(s, o, joined) ==
    IF CrossPlayed(s, o)
    THEN \A r \in joined : Had(s, "current_platform") \subseteq Its(r, o)
                           /\ Its(r, "current_platform") \subseteq Had(s, o)
    ELSE o \in DOMAIN Backfill[s].attributes /\ joined # {} =>
            IF ruleset.anyCommon
            THEN \E v \in Had(s, o) : \A r \in joined : v \in Its(r, o)
            ELSE \A r \in joined : Its(r, o) \cap Had(s, o) # {}

\* The option "blocked_players" is overwritten by the lists of who is blocked, and if
\* the platforms were an option themselves, cross-play would go by what is left of them.
Agreeing == {o \in DOMAIN ruleset.options :
    o # "blocked_players" /\ (o = "cross_platform" => "current_platform" \notin DOMAIN ruleset.options)}

OptionFits(s, o, joined) ==
    LET type == ruleset.options[o]
    IN  /\ type = "all" => \A r \in joined : Its(r, o) = Had(s, o)
        /\ type = "unique" => /\ \A r \in joined : Its(r, o) \cap Had(s, o) = {}
                              /\ \A q, r \in joined : q # r => Its(q, o) \cap Its(r, o) = {}
        /\ type = "any" => AnyFits(s, o, joined)

\* The values of those who join agree, in the way of each option's type, with the
\* session they join and, where that needs everybody, with each other, although the
\* session's values change with every ticket and candidates are found before
\* (matchsession.go:144-227, 326-353).
SessionOptionsAgree == \A s \in Sessions : \A o \in Agreeing : OptionFits(s, o, JoinedIn(s))

\* The region of a session is within reach for a ticket.
Reaches(r, region) ==
    region # "" => \E i \in DOMAIN Request[r].latency :
        /\ Request[r].latency[i].region = region
        /\ Request[r].latency[i].ms <= LatencyLimit(Request[r], ruleset, now)
        /\ ruleset.max = 0 \/ Request[r].latency[i].ms <= ruleset.max

\* The attributes a ticket must have in common with a session: for servers and clients
\* an empty version is as good as none, and any other attribute may be empty in the
\* session, or is not looked at if only options are.
Compared(s) == DOMAIN Backfill[s].attributes
    \ (DOMAIN ruleset.options \cup Unfiltered \cup {"cross_platform"})

FitsIn(r, s, k) ==
    \/ Its(r, k) = Had(s, k)
    \/ IF k \in {"server_name", "client_version"}
       THEN {Its(r, k), Had(s, k)} \subseteq {{}, {""}}
       ELSE ruleset.refersOptions \/ Had(s, k) = {""}

\* Whoever joins a session is within reach of its region, has its server and client
\* version, and has the attributes it must match, whatever the session's attributes
\* became since (manualSearch.go:209-265).
JoinedTicketsFit ==
    \A s \in Sessions : \A r \in JoinedIn(s) :
        /\ Reaches(r, Given[s].region)
        /\ \A k \in Compared(s) : FitsIn(r, s, k)

\* The id a team is sent with.
SentName(team) == IF team.id = "" THEN "new" ELSE team.id

\* What is sent of a session keeps everybody who played where they played, adds
\* exactly the tickets that joined, and nobody else - but for companions a partial
\* match knew by their ticket, who come back even if they have left the team
\* (matchlogic.go:443-490, 573-663).
SentFor(s, p) ==
    LET was   == {team \in ToSet(Backfill[s].teams) : team.users # {}}
        added == UNION {DOMAIN t.players : t \in p.added}
        Known(users) == UNION {DOMAIN t.players : t \in
            {u \in ToSet(Backfill[s].tickets) : DOMAIN u.players \cap users # {}}}
    IN  /\ p.session = Backfill[s].id
        /\ {t.id : t \in p.added} = JoinedIn(s)
        /\ \A team \in was : \E new \in ToSet(p.teams) :
              /\ new.id = SentName(team)
              /\ team.users \subseteq new.users
              /\ new.users \subseteq team.users \cup Known(team.users) \cup added
        /\ \A new \in ToSet(p.teams) :
              new.id \in {SentName(team) : team \in was} \/ new.users \subseteq added

\* Every proposal is one for the session reported in its place.
TeamsKept == \A i \in DOMAIN proposals : SentFor((updated \o satisfied)[i], proposals[i])

\* matchsession.go:49: "Process each session to find suitable tickets" while there
\* are tickets, unless the time limit passes (with candidates left).
EverySessionVisited ==
    pc = "done" /\ candidates = <<>> /\ pool # <<>> => visited = Sessions

\* models.go:845: the option is to "respect block only for the same team": no
\* ticket is put in a team with a player who blocked one of its players.
NoBlockedInTeam ==
    ruleset.block = "other team" =>
        \A s \in Sessions : \A team \in ToSet(state[s].teams) :
            \A p, q \in team.parties : p # q /\ p.id \in Requests =>
                DOMAIN p.players \cap Values(q.attributes, "blocked_players") = {}
=============================================================================
