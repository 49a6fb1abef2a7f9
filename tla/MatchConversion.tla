-------------------------- MODULE MatchConversion --------------------------
(***************************************************************************)
(* From what MatchPlayers and MatchSessions work on to matches, backfill   *)
(* tickets and proposals, and back (matchlogic.go), with what the          *)
(* protobuf messages keep of them (pb/conversions.go).                     *)
(*                                                                         *)
(* A party of a match or session is a record [id, players, attributes,     *)
(* since], since being the time its ticket was created.  A team is         *)
(* [id, users, parties], a party in it [id, users]; "new" stands for a     *)
(* generated team id.  The order of users, parties and tickets within      *)
(* teams and matches is not kept.                                          *)
(***************************************************************************)
EXTENDS RuleFlexing, Tickets

ExternalParty == "external"

\* createMatchingParty, without the attempts that are no attribute here.
CreateMatchingParty(request) ==
    [id |-> request.id, players |-> request.players, attributes |-> request.attributes,
     since |-> request.createdAt]

-----------------------------------------------------------------------------
(* To matches and proposals.                                               *)

TicketsOf(parties, sources) == {t \in sources : \E p \in parties : p.id = t.id}

\* The party session of a party, if its ticket is one of the sources.
PartySession(party, sources) ==
    IF party.id = ExternalParty THEN ExternalParty
    ELSE IF \E t \in sources : t.id = party.id
         THEN (CHOOSE t \in sources : t.id = party.id).party
         ELSE ""

\* toTeams: teams without parties are skipped, those without an id get one.
ToTeams(sources, alliances) ==
    LET Team(a) == [id |-> IF a.id = "" THEN "new" ELSE a.id,
                    users |-> UsersOf(a.parties),
                    parties |-> {[id |-> PartySession(p, sources), users |-> DOMAIN p.players] :
                                 p \in a.parties}]
        filled == Picked(alliances, {i \in DOMAIN alliances : alliances[i].parties # {}})
    IN  [i \in DOMAIN filled |-> Team(filled[i])]

\* The alliance rule that is active for the oldest of the tickets when the match
\* is converted.
RuleOfOldest(tickets, rs, now) ==
    LET oldest == CHOOSE t \in tickets : \A u \in tickets : t.createdAt <= u.createdAt
    IN  ApplyAllianceFlexingRules(rs, oldest.createdAt, now).alliance

\* Mutant: a match is full when it has more players than allowed.
IsMatchFullStrict(tickets, rs, now) ==
    LET rule == RuleOfOldest(tickets, rs, now)
    IN  rule.maxTeams * rule.maxPlayers < Headcount(tickets)

\* isMatchFull.
IsMatchFull(tickets, rs, now) ==
    LET rule == RuleOfOldest(tickets, rs, now)
    IN  rule.maxTeams * rule.maxPlayers <= Headcount(tickets)

\* fromMatchResult.  Of a result, alliances has the parties; a match has neither
\* its pivot nor its time.
FromMatchResult(result, sources, rs, now) ==
    LET parties == UNION {result.alliances[i].parties : i \in DOMAIN result.alliances}
        tickets == TicketsOf(parties, sources)
        name(key, value) == IF value = "" THEN <<>> ELSE key :> {value}
    IN  [tickets |-> tickets,
         teams |-> ToTeams(sources, result.alliances),
         region |-> result.region,
         attributes |-> name("server_name", result.serverName)
                        @@ name("client_version", result.clientVersion) @@ result.attributes,
         backfill |-> rs.autoBackfill /\ ~IsMatchFull(tickets, rs, now)]

\* MatchfunctionMatchToProtoMatch.
MatchOverTheWire(match) == [match EXCEPT !.tickets = {OverTheWire(t) : t \in @}]

\* fromMatchResultToBackfillProposal: the tickets added are those the round took
\* in, of all sessions, that are in this one.
FromMatchResultToBackfillProposal(session, satisfied, sources) ==
    LET parties == UNION {session.teams[i].parties : i \in DOMAIN session.teams}
        joined  == {p \in parties : \E t \in satisfied : t.id = p.id}
    IN  [session |-> session.id,
         added |-> TicketsOf(joined, sources),
         teams |-> ToTeams(sources, session.teams)]

\* MatchfunctionBackfillProposalToProtoBackfillProposal.
ProposalOverTheWire(proposal) == [proposal EXCEPT !.added = {OverTheWire(t) : t \in @}]

-----------------------------------------------------------------------------
(* From backfill tickets.  One is a record [id, matchSession, createdAt,   *)
(* region, attributes, teams, tickets]: teams a sequence of [id, users],   *)
(* tickets that of its partial match, dashed those whose id has a dash.    *)

\* The message has no team without users, and tickets lose what OverTheWire drops.
BackfillOverTheWire(backfill) ==
    [backfill EXCEPT !.teams = Picked(@, {i \in DOMAIN @ : @[i].users # {}}),
                     !.tickets = [i \in DOMAIN @ |-> OverTheWire(@[i])]]

\* Mutant: players no ticket is known of are left out.
TeamToMatchingPartiesKnown(users, tickets, dashed) ==
    LET Has(i, u)  == u \in DOMAIN tickets[i].players
        found      == {i \in DOMAIN tickets : \E u \in users :
                           Has(i, u) /\ \A j \in 1 .. i - 1 : ~Has(j, u)}
        PartyOf(t) == [id |-> IF t.id \in dashed THEN ExternalParty ELSE t.id,
                       players |-> t.players, attributes |-> t.attributes, since |-> 0]
    IN  {PartyOf(tickets[i]) : i \in found}

\* teamToMatchingParties: whoever has a ticket brings all of its players, the
\* others make one party without attributes.
TeamToMatchingParties(users, tickets, dashed) ==
    LET Has(i, u)   == u \in DOMAIN tickets[i].players
        found       == {i \in DOMAIN tickets : \E u \in users :
                            Has(i, u) /\ \A j \in 1 .. i - 1 : ~Has(j, u)}
        unknown     == {u \in users : \A i \in DOMAIN tickets : ~Has(i, u)}
        PartyOf(t)  == [id |-> IF t.id \in dashed THEN ExternalParty ELSE t.id,
                        players |-> t.players, attributes |-> t.attributes, since |-> 0]
        external    == [id |-> ExternalParty, players |-> [u \in unknown |-> <<>>],
                        attributes |-> <<>>, since |-> 0]
    IN  {PartyOf(tickets[i]) : i \in found} \cup (IF unknown = {} THEN {} ELSE {external})

\* The value of an attribute that is a name, "" if absent.
Name(attributes, key) ==
    IF key \in DOMAIN attributes THEN CHOOSE v \in attributes[key] : TRUE ELSE ""

\* The numeric attributes of all players that tickets of the partial match know; no
\* player is known by two of them, who would count twice in the code.
PlayerData(tickets) == FoldFunction(LAMBDA t, all : t.players @@ all, <<>>, tickets)

\* fromBackfillTicketsToMatchResult.  The field PartyID stays empty.
FromBackfillTicket(backfill, attributes) ==
    [id |-> backfill.id,
     ids |-> {backfill.matchSession, ""},
     queuedAt |-> backfill.createdAt,
     region |-> IF backfill.region = <<>> THEN "" ELSE Head(backfill.region),
     serverName |-> Name(backfill.attributes, "server_name"),
     clientVersion |-> Name(backfill.attributes, "client_version"),
     attributes |-> backfill.attributes,
     values |-> Averages(PlayerData(backfill.tickets), attributes),
     teams |-> [i \in DOMAIN backfill.teams |->
                   [id |-> backfill.teams[i].id,
                    parties |-> TeamToMatchingParties(backfill.teams[i].users,
                                                      backfill.tickets, backfill.dashed)]]]
=============================================================================
