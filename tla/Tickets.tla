------------------------------ MODULE Tickets ------------------------------
(***************************************************************************)
(* Tickets as they come over the wire, and the requests MatchPlayers and   *)
(* MatchSessions work on (matchlogic.go, pb/conversions.go, models.go).    *)
(*                                                                         *)
(* A ticket is a record [id, createdAt, players, attributes, latencies,    *)
(* party, excluded]: players maps each player to their numeric attributes, *)
(* latencies maps regions to milliseconds, party is the party session and  *)
(* excluded the sessions it must not join.  Attributes map a key to a set  *)
(* of values: a single value is a singleton, the empty string is {""} and  *)
(* a key that is absent is not in the domain.                              *)
(***************************************************************************)
EXTENDS Integers, SequencesExt

\* A ticket has all of these.  No two of its regions are equally near: they are
\* sorted as they come from a map, and two such regions would have no order.
IsTicket(t) ==
    /\ {"id", "createdAt", "players", "attributes", "latencies", "party", "excluded"} \subseteq DOMAIN t
    /\ IsFiniteSet(DOMAIN t.players) /\ IsFiniteSet(DOMAIN t.latencies)
    /\ \A a \in DOMAIN t.latencies : t.latencies[a] \in Nat
    /\ \A a, b \in DOMAIN t.latencies : a # b => t.latencies[a] # t.latencies[b]

\* Some numbers in increasing order, and what is at those places of a sequence.
InOrder(T) == CHOOSE p \in SetToSeqs(T) : \A i, j \in DOMAIN p : i < j => p[i] < p[j]
Picked(q, T) == LET p == InOrder(T) IN [i \in DOMAIN p |-> q[p[i]]]

\* The values of an attribute, none if it is absent.
Values(attributes, key) == IF key \in DOMAIN attributes THEN attributes[key] ELSE {}

\* GetMapUserIDs, GetMemberUserIDs, GetMemberUserIDSet.
UsersOf(S) == UNION {DOMAIN p.players : p \in S}

\* GetBlockedPlayerUserIDs: the players whom those of S have blocked.
BlockedBy(S) == UNION {Values(p.attributes, "blocked_players") : p \in S}

\* len(PartyMembers), summed over a set: a player of two parties counts twice.
Headcount(S) == Cardinality(UNION {{p} \X DOMAIN p.players : p \in S})

-----------------------------------------------------------------------------
(* Averages are kept as fractions: comparing floats with a reference is    *)
(* comparing these, but for rounding.                                      *)

Number(player, attribute) == IF attribute \in DOMAIN player THEN player[attribute] ELSE 0

\* avergaeMatchingRuleAttributes, of one attribute: a player without it counts
\* as zero, and so does having no players.
Average(players, attribute) ==
    [sum |-> MapThenSumSet(LAMBDA p : Number(players[p], attribute), DOMAIN players),
     over |-> IF DOMAIN players = {} THEN 1 ELSE Cardinality(DOMAIN players)]

Averages(players, attributes) == [a \in attributes |-> Average(players, a)]

\* The regions of a ticket, the nearest first.
SortedLatency(latencies) ==
    LET sorted == InOrder({latencies[r] : r \in DOMAIN latencies})
    IN  [i \in DOMAIN sorted |->
            [region |-> CHOOSE r \in DOMAIN latencies : latencies[r] = sorted[i], ms |-> sorted[i]]]

\* toMatchRequest, for rules about some attributes.
ToMatchRequest(ticket, attributes) ==
    [id |-> ticket.id, createdAt |-> ticket.createdAt,
     players |-> ticket.players, attributes |-> ticket.attributes,
     values |-> Averages(ticket.players, attributes),
     latency |-> SortedLatency(ticket.latencies),
     excluded |-> ticket.excluded]

-----------------------------------------------------------------------------
\* A ticket that went through MatchfunctionTicketToProtoTicket and back: the
\* message has no field for the sessions it must not join.
OverTheWire(ticket) == [ticket EXCEPT !.excluded = {}]

\* IsNewSessionOnly.
NewSessionOnly(ticket) == "true" \in Values(ticket.attributes, "new_session_only")
=============================================================================
