------------------------ MODULE SessionBackfill_proofs ------------------------
(***************************************************************************)
(* The safety of MatchSessions for every set of tickets, all sessions and  *)
(* every rule set: a ticket ends up in one team of one session, nobody is  *)
(* in a session twice or leaves it, sessions grow within the rules that    *)
(* were active, players who blocked each other do not meet, options agree, *)
(* who joins can play in the session's region and has its attributes,      *)
(* exactly the sessions a ticket joined are reported, and their proposals  *)
(* keep the teams and have nothing in common.                              *)
(***************************************************************************)
EXTENDS SessionBackfill, CommonLemmas

-----------------------------------------------------------------------------
(* Requests, rule sets and the parties of the sessions given.              *)

\* A request has the id, the age, the players and the attributes of its ticket.
LEMMA RequestFields ==
    ASSUME NEW r \in Requests
    PROVE  /\ Request[r].id = r
           /\ Request[r].createdAt \in 0 .. Start
           /\ IsFiniteSet(DOMAIN Request[r].players) /\ DOMAIN Request[r].players # {}
           /\ Request[r].players = Ticket[r].players
           /\ Request[r].attributes = Ticket[r].attributes
  <1>1. /\ IsTicket(Ticket[r])
        /\ Ticket[r].id = r /\ Ticket[r].createdAt \in 0 .. Start
        /\ DOMAIN Ticket[r].players # {}
    BY BackfillAssumption
  <1>2. Request[r] = ToMatchRequest(OverTheWire(Ticket[r]), Attributes)
    BY DEF Request, Source
  <1>3. IsFiniteSet(DOMAIN Ticket[r].players)
    BY <1>1 DEF IsTicket
  <1>4. QED
    BY <1>1, <1>2, <1>3, TicketFields

\* The regions of a request have latencies.
LEMMA RequestRegions ==
    ASSUME NEW r \in Requests
    PROVE  /\ Request[r].latency \in Seq([region : DOMAIN Ticket[r].latencies, ms : Nat])
           /\ \A i \in DOMAIN Request[r].latency : Request[r].latency[i].ms \in Nat
           /\ Len(Request[r].latency) \in Nat /\ DOMAIN Request[r].latency = 1 .. Len(Request[r].latency)
  <1>1. IsTicket(Ticket[r])
    BY BackfillAssumption
  <1>2. Request[r].latency = SortedLatency(Ticket[r].latencies)
    BY <1>1, TicketFields DEF Request, Source
  <1>3. PICK S, q : /\ S = [region : DOMAIN Ticket[r].latencies, ms : Nat]
                    /\ q = Request[r].latency
    OBVIOUS
  <1>4. q \in Seq(S)
    BY <1>1, <1>2, <1>3, SortedLatencyProperties
  <1>5. /\ \A i \in DOMAIN q : q[i] \in S
        /\ Len(q) \in Nat /\ DOMAIN q = 1 .. Len(q)
    BY <1>4, LenProperties
  <1>6. QED
    BY <1>3, <1>4, <1>5

\* The party of a request has its id, its age, its players and its attributes.
LEMMA PartyFields ==
    ASSUME NEW r \in Requests, NEW p, p = CreateMatchingParty(Request[r])
    PROVE  /\ p.id = r /\ p.players = Request[r].players /\ p.since = Request[r].createdAt
           /\ p.attributes = Request[r].attributes
  BY RequestFields DEF CreateMatchingParty

\* The rule sets of a call have what is flexed, and are valid.
LEMMA RuleSetFields ==
    ASSUME NEW rs \in RuleSets
    PROVE  /\ {"alliance", "allianceFlex", "rules", "flex", "options", "anyCommon"} \subseteq DOMAIN rs
           /\ ValidAlliance(rs.alliance)
           /\ \A i \in DOMAIN rs.allianceFlex :
                 rs.allianceFlex[i].duration \in Nat /\ ValidAlliance(rs.allianceFlex[i].rule)
           /\ \A i \in DOMAIN rs.flex : rs.flex[i].duration \in Nat
           /\ rs.rate \in Nat \ {0} /\ {rs.initial, rs.range, rs.max} \subseteq Nat
  <1>1. \A o \in Offered : IsRuleSet(o)
    BY BackfillAssumption
  <1>2. rs \in RulesFromJSON(Offered)
    BY DEF RuleSets
  <1>3. /\ IsRuleSet(rs)
        /\ ValidAlliance(rs.alliance)
        /\ \A i \in DOMAIN rs.allianceFlex :
              rs.allianceFlex[i].duration \in Nat /\ ValidAlliance(rs.allianceFlex[i].rule)
        /\ \A i \in DOMAIN rs.flex : rs.flex[i].duration \in Nat
        /\ rs.rate \in Nat \ {0} /\ {rs.initial, rs.range, rs.max} \subseteq Nat
    BY <1>1, <1>2, RulesFromJSONFields
  <1>4. {"alliance", "allianceFlex", "rules", "flex", "options", "anyCommon"} \subseteq DOMAIN rs
    BY <1>3 DEF IsRuleSet
  <1>5. QED
    BY <1>3, <1>4

\* The sessions are numbered.
LEMMA SessionsType ==
    /\ Len(Backfill) \in Nat \ {0} /\ Sessions = 1 .. Len(Backfill)
    /\ Backfill \in Seq(ToSet(Backfill)) /\ 1 \in Sessions
  <1>1. Backfill \in Seq(ToSet(Backfill)) /\ Backfill # <<>>
    BY BackfillAssumption
  <1>2. Len(Backfill) \in Nat \ {0} /\ DOMAIN Backfill = 1 .. Len(Backfill)
    BY <1>1, EmptySeq, LenProperties
  <1>3. QED
    BY <1>1, <1>2 DEF Sessions

\* What a party of a backfill ticket may be: that of one of its tickets, or the
\* players without a ticket.
LEMMA GivenParty ==
    ASSUME NEW users, NEW tickets, NEW dashed,
           NEW p \in TeamToMatchingParties(users, tickets, dashed)
    PROVE  /\ p.since = 0
           /\ \/ \E i \in DOMAIN tickets :
                    /\ p.id \in {ExternalParty, tickets[i].id}
                    /\ p.players = tickets[i].players /\ p.attributes = tickets[i].attributes
                    /\ DOMAIN p.players # {}
              \/ /\ p.id = ExternalParty /\ p.attributes = <<>>
                 /\ DOMAIN p.players \subseteq users /\ DOMAIN p.players # {}
  BY DEF TeamToMatchingParties

\* A team with users has a party.
LEMMA GivenTeam ==
    ASSUME NEW users, NEW tickets, NEW n \in Nat, DOMAIN tickets = 1 .. n, NEW dashed, users # {}
    PROVE  TeamToMatchingParties(users, tickets, dashed) # {}
  <1>1. PICK u \in users : TRUE
    OBVIOUS
  <1>2. DEFINE T == {i \in DOMAIN tickets : u \in DOMAIN tickets[i].players}
  <1>3. CASE T = {}
    BY <1>1, <1>3 DEF TeamToMatchingParties
  <1>4. CASE T # {}
    <2>1. T \subseteq Nat
      OBVIOUS
    <2>2. PICK i \in T : \A j \in T : i <= j
      <3>1. HIDE DEF T
      <3>2. QED
        BY <1>4, <2>1, SmallestNumber
    <2>3. i \in DOMAIN tickets /\ u \in DOMAIN tickets[i].players /\ i \in Nat
      BY <2>1
    <2>4. ASSUME NEW j \in 1 .. i - 1 PROVE u \notin DOMAIN tickets[j].players
      <3>1. j \in DOMAIN tickets /\ ~(i <= j)
        BY <2>3
      <3>2. QED
        BY <2>2, <3>1
    <2>5. DEFINE Has(k, v) == v \in DOMAIN tickets[k].players
                 found == {k \in DOMAIN tickets : \E v \in users :
                              Has(k, v) /\ \A j \in 1 .. k - 1 : ~Has(j, v)}
                 PartyOf(t) == [id |-> IF t.id \in dashed THEN ExternalParty ELSE t.id,
                                players |-> t.players, attributes |-> t.attributes, since |-> 0]
    <2>6. i \in found
      BY <1>1, <2>3, <2>4
    <2>7. {PartyOf(tickets[k]) : k \in found} \subseteq TeamToMatchingParties(users, tickets, dashed)
      BY DEF TeamToMatchingParties
    <2>8. QED
      <3>1. HIDE DEF found, PartyOf
      <3>2. QED
        BY <2>6, <2>7
  <1>5. QED
    BY <1>3, <1>4

\* Of finitely many tickets come finitely many parties.
LEMMA GivenFinite ==
    ASSUME NEW users, NEW tickets, NEW n \in Nat, DOMAIN tickets = 1 .. n, NEW dashed
    PROVE  IsFiniteSet(TeamToMatchingParties(users, tickets, dashed))
  <1>1. DEFINE PartyOf(t) == [id |-> IF t.id \in dashed THEN ExternalParty ELSE t.id,
                              players |-> t.players, attributes |-> t.attributes, since |-> 0]
               f == [i \in 1 .. n |-> PartyOf(tickets[i])]
               external == [id |-> ExternalParty,
                            players |-> [u \in {v \in users : \A i \in DOMAIN tickets :
                                                   ~(v \in DOMAIN tickets[i].players)} |-> <<>>],
                            attributes |-> <<>>, since |-> 0]
  <1>2. IsFiniteSet({f[i] : i \in 1 .. n})
    <2>1. IsFiniteSet(1 .. n) /\ DOMAIN f = 1 .. n
      BY FS_Interval
    <2>2. HIDE DEF f
    <2>3. QED
      BY <2>1, ValuesFinite
  <1>3. IsFiniteSet({f[i] : i \in 1 .. n} \cup {external})
    BY <1>2, FS_AddElement
  <1>4. TeamToMatchingParties(users, tickets, dashed) \subseteq {f[i] : i \in 1 .. n} \cup {external}
    BY DEF TeamToMatchingParties
  <1>5. QED
    BY <1>3, <1>4, FS_Subset

\* What a session has at first.
LEMMA GivenFields ==
    ASSUME NEW s \in Sessions
    PROVE  /\ Given[s].id = Backfill[s].id /\ Given[s].queuedAt = Backfill[s].createdAt
           /\ Given[s].attributes = Backfill[s].attributes
           /\ DOMAIN Given[s] = {"id", "ids", "queuedAt", "region", "serverName", "clientVersion",
                                 "attributes", "values", "teams"}
           /\ Given[s].teams \in Seq(ToSet(Given[s].teams))
           /\ \A team \in ToSet(Given[s].teams) :
                 /\ DOMAIN team = {"id", "parties"} /\ team = [id |-> team.id, parties |-> team.parties]
                 /\ team.parties # {} /\ IsFiniteSet(team.parties)
                 /\ \A p \in team.parties :
                       /\ p.since = 0 /\ p.id \notin Requests
                       /\ IsFiniteSet(DOMAIN p.players) /\ DOMAIN p.players # {}
                       /\ BlockedBy({p}) \subseteq Values(Given[s].attributes, "blocked_players")
  <1>1. PICK b, w, T, n :
           /\ b = Backfill[s] /\ w = BackfillOverTheWire(b) /\ T = {i \in DOMAIN b.teams : b.teams[i].users # {}}
           /\ n = Len(b.tickets)
    OBVIOUS
  <1>2. /\ {"teams", "tickets"} \subseteq DOMAIN b
        /\ b.teams \in Seq(ToSet(b.teams)) /\ b.tickets \in Seq(ToSet(b.tickets))
        /\ \A team \in ToSet(b.teams) : IsFiniteSet(team.users)
        /\ \A t \in ToSet(b.tickets) : /\ {"id", "players", "attributes", "excluded"} \subseteq DOMAIN t
                                       /\ t.id \notin Requests /\ IsFiniteSet(DOMAIN t.players)
        /\ BlockedBy(ToSet(b.tickets)) \subseteq Values(b.attributes, "blocked_players")
    <2>1. /\ {"teams", "tickets"} \subseteq DOMAIN Backfill[s]
          /\ Backfill[s].teams \in Seq(ToSet(Backfill[s].teams))
          /\ Backfill[s].tickets \in Seq(ToSet(Backfill[s].tickets))
          /\ \A team \in ToSet(Backfill[s].teams) : IsFiniteSet(team.users)
          /\ \A t \in ToSet(Backfill[s].tickets) :
                /\ {"id", "players", "attributes", "excluded"} \subseteq DOMAIN t
                /\ t.id \notin Requests /\ IsFiniteSet(DOMAIN t.players)
          /\ BlockedBy(ToSet(Backfill[s].tickets))
                \subseteq Values(Backfill[s].attributes, "blocked_players")
      BY BackfillAssumption
    <2>2. QED
      BY <1>1, <2>1
  <1>3. n \in Nat /\ DOMAIN b.tickets = 1 .. n
    BY <1>1, <1>2, ToSetType
  <1>4. /\ w.id = b.id /\ w.createdAt = b.createdAt /\ w.attributes = b.attributes
        /\ w.teams = Picked(b.teams, T)
        /\ w.tickets = [i \in 1 .. n |-> OverTheWire(b.tickets[i])]
    BY <1>1, <1>2, <1>3 DEF BackfillOverTheWire
  <1>5. w.teams \in Seq(ToSet(b.teams)) /\ ToSet(w.teams) = {b.teams[i] : i \in T}
    <2>1. T \subseteq DOMAIN b.teams
      BY <1>1
    <2>2. QED
      BY <1>2, <1>4, <2>1, PickedProperties
  <1>6. Given[s] = FromBackfillTicket(w, Attributes)
    BY <1>1 DEF Given
  <1>7. /\ Given[s].id = b.id /\ Given[s].queuedAt = b.createdAt /\ Given[s].attributes = b.attributes
        /\ DOMAIN Given[s] = {"id", "ids", "queuedAt", "region", "serverName", "clientVersion",
                              "attributes", "values", "teams"}
        /\ Given[s].teams = [i \in DOMAIN w.teams |->
               [id |-> w.teams[i].id,
                parties |-> TeamToMatchingParties(w.teams[i].users, w.tickets, w.dashed)]]
    <2>1. PICK g : g = FromBackfillTicket(w, Attributes)
      OBVIOUS
    <2>2. g.id = w.id /\ g.queuedAt = w.createdAt /\ g.attributes = w.attributes
      BY <2>1 DEF FromBackfillTicket
    <2>3. DOMAIN g = {"id", "ids", "queuedAt", "region", "serverName", "clientVersion",
                      "attributes", "values", "teams"}
      BY <2>1 DEF FromBackfillTicket
    <2>4. g.teams = [i \in DOMAIN w.teams |->
             [id |-> w.teams[i].id,
              parties |-> TeamToMatchingParties(w.teams[i].users, w.tickets, w.dashed)]]
      BY <2>1 DEF FromBackfillTicket
    <2>5. QED
      BY <1>1, <1>4, <1>6, <2>1, <2>2, <2>3, <2>4
  <1>8. Given[s].teams \in Seq(ToSet(Given[s].teams))
    <2>1. PICK m \in Nat : DOMAIN w.teams = 1 .. m
      BY <1>5, ToSetType
    <2>2. PICK q : q = Given[s].teams
      OBVIOUS
    <2>3. q = [i \in 1 .. m |-> q[i]]
      BY <1>7, <2>1, <2>2
    <2>4. \A i \in 1 .. m : q[i] \in ToSet(q)
      BY <2>3 DEF ToSet
    <2>5. q \in Seq(ToSet(q))
      BY <2>3, <2>4
    <2>6. QED
      BY <2>2, <2>5
  <1>9. ASSUME NEW t \in ToSet(b.tickets)
        PROVE  BlockedBy({t}) \subseteq Values(b.attributes, "blocked_players")
    BY <1>2 DEF BlockedBy
  <1>10. ASSUME NEW i \in 1 .. n
         PROVE  /\ w.tickets[i].id \notin Requests /\ IsFiniteSet(DOMAIN w.tickets[i].players)
                /\ Values(w.tickets[i].attributes, "blocked_players") \subseteq Values(b.attributes, "blocked_players")
    <2>1. PICK t \in ToSet(b.tickets) : t = b.tickets[i]
      BY <1>3 DEF ToSet
    <2>2. /\ w.tickets[i].id = t.id /\ w.tickets[i].players = t.players
          /\ w.tickets[i].attributes = t.attributes
      BY <1>2, <1>4, <2>1 DEF OverTheWire
    <2>3. BlockedBy({t}) = Values(t.attributes, "blocked_players")
      BY DEF BlockedBy
    <2>4. QED
      BY <1>2, <1>9, <2>2, <2>3
  <1>11. ASSUME NEW team \in ToSet(Given[s].teams)
         PROVE  /\ DOMAIN team = {"id", "parties"} /\ team = [id |-> team.id, parties |-> team.parties]
                /\ team.parties # {} /\ IsFiniteSet(team.parties)
                /\ \A p \in team.parties :
                      /\ p.since = 0 /\ p.id \notin Requests
                      /\ IsFiniteSet(DOMAIN p.players) /\ DOMAIN p.players # {}
                      /\ BlockedBy({p}) \subseteq Values(Given[s].attributes, "blocked_players")
    <2>1. PICK given \in ToSet(w.teams) :
             team = [id |-> given.id,
                     parties |-> TeamToMatchingParties(given.users, w.tickets, w.dashed)]
      BY <1>7 DEF ToSet
    <2>2. given.users # {} /\ IsFiniteSet(given.users)
      BY <1>1, <1>2, <1>5 DEF ToSet
    <2>3. DOMAIN w.tickets = 1 .. n
      BY <1>4
    <2>4. team.parties = TeamToMatchingParties(given.users, w.tickets, w.dashed)
      BY <2>1
    <2>5. team.parties # {} /\ IsFiniteSet(team.parties)
      BY <1>3, <2>2, <2>3, <2>4, GivenTeam, GivenFinite
    <2>6. ASSUME NEW p \in team.parties
          PROVE  /\ p.since = 0 /\ p.id \notin Requests
                 /\ IsFiniteSet(DOMAIN p.players) /\ DOMAIN p.players # {}
                 /\ BlockedBy({p}) \subseteq Values(Given[s].attributes, "blocked_players")
      <3>1. BlockedBy({p}) = Values(p.attributes, "blocked_players") /\ ExternalParty \notin Requests
        BY BackfillAssumption DEF BlockedBy
      <3>2. p.since = 0
        BY <2>4, GivenParty
      <3>3. CASE \E i \in DOMAIN w.tickets :
                    /\ p.id \in {ExternalParty, w.tickets[i].id}
                    /\ p.players = w.tickets[i].players /\ p.attributes = w.tickets[i].attributes
                    /\ DOMAIN p.players # {}
        BY <1>7, <1>10, <2>3, <3>1, <3>2, <3>3
      <3>4. CASE /\ p.id = ExternalParty /\ p.attributes = <<>>
                 /\ DOMAIN p.players \subseteq given.users /\ DOMAIN p.players # {}
        <4>1. Values(p.attributes, "blocked_players") = {}
          BY <3>4 DEF Values
        <4>2. QED
          BY <2>2, <3>1, <3>2, <3>4, <4>1, FS_Subset
      <3>5. \/ \E i \in DOMAIN w.tickets :
                  /\ p.id \in {ExternalParty, w.tickets[i].id}
                  /\ p.players = w.tickets[i].players /\ p.attributes = w.tickets[i].attributes
                  /\ DOMAIN p.players # {}
            \/ /\ p.id = ExternalParty /\ p.attributes = <<>>
               /\ DOMAIN p.players \subseteq given.users /\ DOMAIN p.players # {}
        BY <2>4, GivenParty
      <3>6. QED
        BY <3>3, <3>4, <3>5, Zenon
    <2>7. QED
      BY <2>1, <2>5, <2>6
  <1>12. QED
    BY <1>1, <1>7, <1>8, <1>11

\* The parties a session may have: those given have the time 0 and no request of
\* the round, the others are those of requests.  All of them have players.
LEMMA PartiesFields ==
    ASSUME NEW p \in Parties
    PROVE  /\ IsFiniteSet(DOMAIN p.players) /\ DOMAIN p.players # {}
           /\ p.since \in 0 .. Start
           /\ p.id \in Requests => p = CreateMatchingParty(Request[p.id])
  <1>1. CASE \E r \in Requests : p = CreateMatchingParty(Request[r])
    BY <1>1, PartyFields, RequestFields
  <1>2. CASE \E s \in Sessions : p \in PartiesOf(Given[s])
    <2>1. PICK s \in Sessions : p \in PartiesOf(Given[s])
      BY <1>2
    <2>2. PICK team \in ToSet(Given[s].teams) : p \in team.parties
      BY <2>1 DEF PartiesOf
    <2>3. p.since = 0 /\ p.id \notin Requests /\ IsFiniteSet(DOMAIN p.players) /\ DOMAIN p.players # {}
      BY <2>2, GivenFields
    <2>4. QED
      BY <2>3, BackfillAssumption
  <1>3. QED
    BY <1>1, <1>2 DEF Parties

\* So what sessions have at first is of that type.
LEMMA GivenType ==
    ASSUME NEW s \in Sessions
    PROVE  Given[s].teams \in Seq(AnyTeam)
  <1>1. Given[s].teams \in Seq(ToSet(Given[s].teams))
    BY GivenFields
  <1>2. ASSUME NEW team \in ToSet(Given[s].teams)
        PROVE  team \in AnyTeam
    <2>1. team = [id |-> team.id, parties |-> team.parties]
      BY GivenFields
    <2>2. team.id \in TeamNames
      <3>1. team.id \in {t.id : t \in ToSet(Given[s].teams)}
        OBVIOUS
      <3>2. {t.id : t \in ToSet(Given[s].teams)} \subseteq TeamNames
        BY DEF TeamNames
      <3>3. QED
        BY <3>1, <3>2
    <2>3. team.parties \subseteq PartiesOf(Given[s])
      BY DEF PartiesOf
    <2>4. PartiesOf(Given[s]) \subseteq Parties
      BY DEF Parties
    <2>5. QED
      BY <2>1, <2>2, <2>3, <2>4 DEF AnyTeam
  <1>3. QED
    BY <1>1, <1>2, SeqMonotonic

\* There are finitely many parties.
LEMMA PartiesFinite == IsFiniteSet(Parties)
  <1>1. IsFiniteSet({CreateMatchingParty(Request[r]) : r \in Requests})
    <2>1. [r \in Requests |-> CreateMatchingParty(Request[r])]
              \in Surjection(Requests, {CreateMatchingParty(Request[r]) : r \in Requests})
      BY DEF Surjection
    <2>2. QED
      BY <2>1, BackfillAssumption, FS_Surjection
  <1>2. ASSUME NEW s \in Sessions PROVE IsFiniteSet(PartiesOf(Given[s]))
    <2>1. IsFiniteSet(ToSet(Given[s].teams))
      BY GivenFields, ToSetType
    <2>2. [team \in ToSet(Given[s].teams) |-> team.parties]
              \in Surjection(ToSet(Given[s].teams), {team.parties : team \in ToSet(Given[s].teams)})
      BY DEF Surjection
    <2>3. IsFiniteSet({team.parties : team \in ToSet(Given[s].teams)})
      BY <2>1, <2>2, FS_Surjection
    <2>4. \A S \in {team.parties : team \in ToSet(Given[s].teams)} : IsFiniteSet(S)
      BY GivenFields
    <2>5. QED
      BY <2>3, <2>4, FS_UNION DEF PartiesOf
  <1>3. IsFiniteSet({PartiesOf(Given[s]) : s \in Sessions})
    <2>1. [s \in Sessions |-> PartiesOf(Given[s])]
              \in Surjection(Sessions, {PartiesOf(Given[s]) : s \in Sessions})
      BY DEF Surjection
    <2>2. IsFiniteSet(Sessions)
      BY SessionsType, FS_Interval
    <2>3. QED
      BY <2>1, <2>2, FS_Surjection
  <1>4. IsFiniteSet(UNION {PartiesOf(Given[s]) : s \in Sessions})
    BY <1>2, <1>3, FS_UNION
  <1>5. QED
    BY <1>1, <1>4, FS_Union DEF Parties

\* The players of some parties can be counted, and nobody has none.
LEMMA PartiesCount ==
    ASSUME NEW S, S \subseteq Parties
    PROVE  /\ IsFiniteSet(S) /\ \A p \in S : IsFiniteSet(DOMAIN p.players)
           /\ Headcount(S) \in Nat /\ (S # {} => Headcount(S) >= 1)
  <1>1. IsFiniteSet(S) /\ \A p \in S : IsFiniteSet(DOMAIN p.players)
    BY PartiesFinite, PartiesFields, FS_Subset
  <1>2. PICK P : P = UNION {{p} \X DOMAIN p.players : p \in S}
    OBVIOUS
  <1>3. IsFiniteSet(P) /\ Headcount(S) = Cardinality(P) /\ Headcount(S) \in Nat
    BY <1>1, <1>2, HeadcountFinite DEF Headcount
  <1>4. ASSUME S # {} PROVE P # {}
    <2>1. PICK p \in S : TRUE
      BY <1>4
    <2>2. PICK u \in DOMAIN p.players : TRUE
      BY PartiesFields
    <2>3. <<p, u>> \in {p} \X DOMAIN p.players
      OBVIOUS
    <2>4. QED
      BY <1>2, <2>3
  <1>5. S # {} => Cardinality(P) # 0
    BY <1>3, <1>4, FS_EmptySet
  <1>6. QED
    BY <1>1, <1>3, <1>5

\* A request and its party have as many players.
LEMMA PartyCount ==
    ASSUME NEW r \in Requests
    PROVE  /\ Headcount({Request[r]}) \in Nat
           /\ Headcount({CreateMatchingParty(Request[r])}) = Headcount({Request[r]})
  <1>1. PICK q, p, D : q = Request[r] /\ p = CreateMatchingParty(q) /\ D = DOMAIN q.players
    OBVIOUS
  <1>2. IsFiniteSet(D) /\ DOMAIN p.players = D
    BY <1>1, RequestFields, PartyFields
  <1>3. UNION {{x} \X DOMAIN x.players : x \in {q}} = {q} \X D
    BY <1>1
  <1>4. UNION {{x} \X DOMAIN x.players : x \in {p}} = {p} \X D
    BY <1>2
  <1>5. /\ Cardinality({q} \X D) = Cardinality(D) /\ Cardinality({p} \X D) = Cardinality(D)
        /\ Cardinality(D) \in Nat
    BY <1>2, PairsWith, FS_CardinalityType
  <1>6. Headcount({q}) = Cardinality(D) /\ Headcount({p}) = Cardinality(D)
    BY <1>3, <1>4, <1>5 DEF Headcount
  <1>7. QED
    BY <1>1, <1>5, <1>6

-----------------------------------------------------------------------------
(* The invariant.                                                          *)

\* The tickets in sessions are those out of the pool, and nothing is sent before
\* the end.
PoolInv ==
    /\ satisfiedTickets = round \ ToSet(pool)
    /\ pc # "done" => proposals = <<>>

\* Every team has somebody, and a session was queued when its ticket was.
TeamsInv ==
    \A s \in Sessions :
        /\ \A team \in ToSet(state[s].teams) : team.parties # {}
        /\ state[s].queuedAt = Backfill[s].createdAt

Has(s, i, r) == i \in DOMAIN state[s].teams /\ \E p \in state[s].teams[i].parties : p.id = r

\* The tickets out of the pool are in some team of some session, and in one only.
PlacesInv ==
    /\ \A r \in Requests :
          r \in round /\ r \notin ToSet(pool) <=> \E s \in Sessions : \E i \in DOMAIN state[s].teams : Has(s, i, r)
    /\ \A r \in Requests : \A s, t \in Sessions :
          \A i \in DOMAIN state[s].teams : \A j \in DOMAIN state[t].teams :
              Has(s, i, r) /\ Has(t, j, r) => s = t /\ i = j

\* The active alliance rule is one the session may be filled by.
RuleInv == Rule \in Warranted(session) /\ ValidAlliance(Rule)

\* The list of a session nobody joined has everyone its parties have blocked.
BlockedInv ==
    \A s \in Sessions \ Reported : BlockedBy(PartiesOf(state[s])) \subseteq BlockedBy({state[s]})

IInv ==
    /\ TypeOK /\ PoolInv /\ TeamsInv /\ PlacesInv /\ RuleInv /\ BlockedInv
    /\ UserInSessionOnce /\ SessionInRange /\ ReportedOnce /\ NoBlockedInSession

-----------------------------------------------------------------------------
(* What the steps do to a session.                                         *)

\* A new list of blocked players leaves all else as it is.
LEMMA ListedFields ==
    ASSUME NEW sess, {"attributes", "teams", "id", "queuedAt"} \subseteq DOMAIN sess
    PROVE  LET new == UpdateBlockedPlayerInSession(sess) IN
           /\ DOMAIN new = DOMAIN sess
           /\ new.teams = sess.teams /\ new.id = sess.id /\ new.queuedAt = sess.queuedAt
           /\ BlockedBy({new}) = BlockedBy(PartiesOf(sess))
  <1>1. PICK new, list :
           /\ new = UpdateBlockedPlayerInSession(sess) /\ list = BlockedBy(PartiesOf(sess))
    OBVIOUS
  <1>2. new = [sess EXCEPT !.attributes = Listing(sess.attributes, list)]
    BY <1>1 DEF UpdateBlockedPlayerInSession
  <1>3. /\ DOMAIN new = DOMAIN sess
        /\ new.teams = sess.teams /\ new.id = sess.id /\ new.queuedAt = sess.queuedAt
        /\ new.attributes = Listing(sess.attributes, list)
    BY <1>2
  <1>4. Values(new.attributes, "blocked_players") = list
    BY <1>3 DEF Values, Listing
  <1>5. BlockedBy({new}) = list
    BY <1>4 DEF BlockedBy
  <1>6. QED
    BY <1>1, <1>3, <1>5

\* Looking for blocked players changes the lists of the sessions only.
LEMMA RefreshedFields ==
    ASSUME TypeOK, NEW s \in Sessions
    PROVE  /\ DOMAIN Refreshed = Sessions /\ DOMAIN Refreshed[s] = DOMAIN state[s]
           /\ Refreshed[s].teams = state[s].teams /\ Refreshed[s].id = state[s].id
           /\ Refreshed[s].queuedAt = state[s].queuedAt
           /\ s \notin Reported => Refreshed[s] = state[s]
           /\ s \in Reported => BlockedBy({Refreshed[s]}) = BlockedBy(PartiesOf(state[s]))
  <1>1. {"attributes", "teams", "id", "queuedAt"} \subseteq DOMAIN state[s]
    <2>1. DOMAIN state[s] = DOMAIN Given[s]
      BY DEF TypeOK
    <2>2. QED
      BY <2>1, GivenFields
  <1>2. /\ DOMAIN Refreshed = Sessions
        /\ Refreshed[s] = IF s \in Reported THEN UpdateBlockedPlayerInSession(state[s]) ELSE state[s]
    BY DEF Refreshed
  <1>3. CASE s \notin Reported
    BY <1>2, <1>3
  <1>4. CASE s \in Reported
    <2>1. PICK new : new = UpdateBlockedPlayerInSession(state[s])
      OBVIOUS
    <2>2. /\ DOMAIN new = DOMAIN state[s]
          /\ new.teams = state[s].teams /\ new.id = state[s].id /\ new.queuedAt = state[s].queuedAt
          /\ BlockedBy({new}) = BlockedBy(PartiesOf(state[s]))
      BY <1>1, <2>1, ListedFields
    <2>3. QED
      BY <1>2, <1>4, <2>1, <2>2
  <1>5. QED
    BY <1>3, <1>4

\* RemoveEmptyMatchingParties keeps the teams there are before the empty ones.
LEMMA NotEmptyPrefix ==
    ASSUME NEW ts, NEW k \in Nat, NEW n \in Nat, k <= n, DOMAIN ts = 1 .. n,
           \A i \in 1 .. k : ts[i].parties # {} /\ ts[i].parties \subseteq Parties,
           \A i \in k + 1 .. n : ts[i].parties = {}
    PROVE  NotEmpty(ts) = [i \in 1 .. k |-> ts[i]]
  <1>1. PICK T : T = {i \in DOMAIN ts : ts[i].parties # {}
                          /\ ~(Cardinality(ts[i].parties) = 1 /\ Headcount(ts[i].parties) = 0)}
    OBVIOUS
  <1>2. \A i \in 1 .. k : Headcount(ts[i].parties) # 0
    <2>1. SUFFICES ASSUME NEW i \in 1 .. k PROVE Headcount(ts[i].parties) # 0
      OBVIOUS
    <2>2. Headcount(ts[i].parties) \in Nat /\ Headcount(ts[i].parties) >= 1
      BY PartiesCount
    <2>3. QED
      BY <2>2
  <1>3. T = 1 .. k
    <2>1. \A i \in T : i \in 1 .. k
      <3>1. SUFFICES ASSUME NEW i \in T PROVE i \in 1 .. k
        OBVIOUS
      <3>2. i \in 1 .. n /\ ts[i].parties # {}
        BY <1>1
      <3>3. i \notin k + 1 .. n
        BY <3>2
      <3>4. QED
        BY <3>2, <3>3
    <2>2. \A i \in 1 .. k : i \in T
      BY <1>1, <1>2
    <2>3. QED
      BY <2>1, <2>2
  <1>4. NotEmpty(ts) = Picked(ts, T)
    BY <1>1 DEF NotEmpty
  <1>5. QED
    BY <1>3, <1>4, PickedPrefix

\* The teams of a session, its parties, and their players.
LEMMA TeamsType ==
    ASSUME TypeOK, NEW s \in Sessions
    PROVE  LET ts == state[s].teams IN
           /\ ts \in Seq(AnyTeam) /\ Len(ts) \in Nat /\ DOMAIN ts = 1 .. Len(ts)
           /\ \A i \in DOMAIN ts : /\ ts[i] = [id |-> ts[i].id, parties |-> ts[i].parties]
                                   /\ ts[i].id \in TeamNames /\ ts[i].parties \subseteq Parties
           /\ ToSet(ts) = {ts[i] : i \in DOMAIN ts}
           /\ PartiesOf(state[s]) = UNION {ts[i].parties : i \in DOMAIN ts}
           /\ PartiesOf(state[s]) \subseteq Parties
  <1>1. PICK ts : ts = state[s].teams
    OBVIOUS
  <1>2. ts \in Seq(AnyTeam)
    BY <1>1 DEF TypeOK
  <1>3. Len(ts) \in Nat /\ DOMAIN ts = 1 .. Len(ts) /\ \A i \in DOMAIN ts : ts[i] \in AnyTeam
    BY <1>2, LenProperties
  <1>4. \A i \in DOMAIN ts : /\ ts[i] = [id |-> ts[i].id, parties |-> ts[i].parties]
                             /\ ts[i].id \in TeamNames /\ ts[i].parties \subseteq Parties
    BY <1>3 DEF AnyTeam
  <1>5. ToSet(ts) = {ts[i] : i \in DOMAIN ts}
    BY DEF ToSet
  <1>6. PartiesOf(state[s]) = UNION {ts[i].parties : i \in DOMAIN ts}
    BY <1>1, <1>5 DEF PartiesOf
  <1>7. PartiesOf(state[s]) \subseteq Parties
    BY <1>4, <1>6
  <1>8. QED
    BY <1>1, <1>2, <1>3, <1>4, <1>5, <1>6, <1>7

\* What a rule allows is a number.
LEMMA RuleType ==
    ASSUME RuleInv
    PROVE  Rule.maxTeams \in Nat \ {0} /\ Rule.maxPlayers \in Nat \ {0}
  BY DEF RuleInv, ValidAlliance

\* The teams of a session are followed by as many new ones as had to be tried.
LEMMA OpenedParts ==
    ASSUME TypeOK, RuleInv
    PROVE  LET ts == state[session].teams IN
           \E n \in Nat :
              /\ n = IF Len(ts) >= Rule.maxTeams \/ \E j \in DOMAIN ts : MayJoin(ts[j].parties) THEN 0
                     ELSE IF MayJoin({}) THEN 1 ELSE Rule.maxTeams - Len(ts)
              /\ n > 0 => Len(ts) < Rule.maxTeams
              /\ Opened \in Seq(AnyTeam) /\ Len(Opened) = Len(ts) + n
              /\ \A k \in 1 .. Len(ts) : Opened[k] = ts[k]
              /\ \A k \in Len(ts) + 1 .. Len(ts) + n : Opened[k] = NewTeam
  <1>1. PICK ts, n :
           /\ ts = state[session].teams
           /\ n = IF Len(ts) >= Rule.maxTeams \/ \E j \in DOMAIN ts : MayJoin(ts[j].parties) THEN 0
                  ELSE IF MayJoin({}) THEN 1 ELSE Rule.maxTeams - Len(ts)
    OBVIOUS
  <1>2. ts \in Seq(AnyTeam) /\ Len(ts) \in Nat
    BY <1>1, TeamsType DEF TypeOK
  <1>3. n \in Nat /\ (n > 0 => Len(ts) < Rule.maxTeams)
    BY <1>1, <1>2, RuleType
  <1>4. PICK e : e = [k \in 1 .. n |-> NewTeam]
    OBVIOUS
  <1>5. Opened = ts \o e
    BY <1>1, <1>4 DEF Opened
  <1>6. e \in Seq(AnyTeam) /\ Len(e) = n
    <2>1. NewTeam \in AnyTeam
      BY DEF NewTeam, AnyTeam, TeamNames
    <2>2. QED
      BY <1>3, <1>4, <2>1
  <1>7. /\ Opened \in Seq(AnyTeam) /\ Len(Opened) = Len(ts) + n
        /\ \A k \in 1 .. Len(ts) + n :
              Opened[k] = IF k <= Len(ts) THEN ts[k] ELSE e[k - Len(ts)]
    BY <1>2, <1>5, <1>6, ConcatProperties
  <1>8. \A k \in 1 .. Len(ts) : Opened[k] = ts[k]
    BY <1>2, <1>3, <1>7
  <1>9. \A k \in Len(ts) + 1 .. Len(ts) + n : Opened[k] = NewTeam
    <2>1. \A k \in 1 .. n : e[k] = NewTeam
      BY <1>4
    <2>2. QED
      BY <1>2, <1>3, <1>7, <2>1
  <1>10. QED
    BY <1>1, <1>3, <1>7, <1>8, <1>9

\* The places of a ticket: a team it may join, or one new team where there are less
\* than allowed.
LEMMA OpenedShape ==
    ASSUME TypeOK, RuleInv, NEW i \in Places
    PROVE  LET ts == state[session].teams IN
           \/ i \in DOMAIN ts /\ MayJoin(ts[i].parties) /\ Opened = ts
           \/ /\ i = Len(ts) + 1 /\ MayJoin({}) /\ Len(ts) < Rule.maxTeams
              /\ Opened = Append(ts, NewTeam)
  <1>1. PICK ts : ts = state[session].teams
    OBVIOUS
  <1>2. ts \in Seq(AnyTeam) /\ Len(ts) \in Nat /\ DOMAIN ts = 1 .. Len(ts)
    BY <1>1, TeamsType DEF TypeOK
  <1>3. PICK n \in Nat :
           /\ n = IF Len(ts) >= Rule.maxTeams \/ \E j \in DOMAIN ts : MayJoin(ts[j].parties) THEN 0
                  ELSE IF MayJoin({}) THEN 1 ELSE Rule.maxTeams - Len(ts)
           /\ n > 0 => Len(ts) < Rule.maxTeams
           /\ Opened \in Seq(AnyTeam) /\ Len(Opened) = Len(ts) + n
           /\ \A k \in 1 .. Len(ts) : Opened[k] = ts[k]
           /\ \A k \in Len(ts) + 1 .. Len(ts) + n : Opened[k] = NewTeam
    BY <1>1, OpenedParts
  <1>4. i \in DOMAIN Opened /\ MayJoin(Opened[i].parties)
    BY DEF Places
  <1>5. i \in 1 .. Len(ts) + n
    BY <1>2, <1>3, <1>4, LenProperties
  <1>6. CASE i <= Len(ts)
    <2>1. i \in DOMAIN ts /\ MayJoin(ts[i].parties)
      BY <1>2, <1>3, <1>4, <1>5, <1>6
    <2>2. n = 0
      BY <1>3, <2>1
    <2>3. Opened = ts
      BY <1>2, <1>3, <2>2, SeqEqual
    <2>4. QED
      BY <1>1, <2>1, <2>3
  <1>7. CASE ~(i <= Len(ts))
    <2>1. i \in Len(ts) + 1 .. Len(ts) + n /\ n # 0 /\ n > 0
      BY <1>2, <1>3, <1>5, <1>7
    <2>2. Opened[i] = NewTeam /\ NewTeam.parties = {}
      BY <1>3, <2>1 DEF NewTeam
    <2>3. MayJoin({})
      BY <1>4, <2>2
    <2>4. n = 1
      BY <1>3, <2>1, <2>3, Zenon
    <2>5. i = Len(ts) + 1
      BY <1>2, <2>1, <2>4
    <2>6. PICK a : a = Append(ts, NewTeam)
      OBVIOUS
    <2>7. NewTeam \in AnyTeam
      BY DEF NewTeam, AnyTeam, TeamNames
    <2>8. /\ a \in Seq(AnyTeam) /\ Len(a) = Len(ts) + 1
          /\ \A k \in 1 .. Len(ts) : a[k] = ts[k]
          /\ a[Len(ts) + 1] = NewTeam
      BY <1>2, <2>6, <2>7, AppendProperties
    <2>9. \A k \in 1 .. Len(ts) + 1 : Opened[k] = a[k]
      BY <1>2, <1>3, <2>4, <2>8
    <2>10. Opened = a
      BY <1>3, <2>4, <2>8, <2>9, SeqEqual
    <2>11. QED
      BY <1>1, <1>3, <2>1, <2>3, <2>5, <2>6, <2>10
  <1>8. QED
    BY <1>6, <1>7

\* Without a place the session keeps the teams it has.
LEMMA OpenedCleaned ==
    ASSUME TypeOK, RuleInv, TeamsInv
    PROVE  NotEmpty(Opened) = state[session].teams
  <1>1. PICK ts : ts = state[session].teams
    OBVIOUS
  <1>2. /\ ts \in Seq(AnyTeam) /\ Len(ts) \in Nat /\ DOMAIN ts = 1 .. Len(ts)
        /\ \A k \in DOMAIN ts : ts[k].parties \subseteq Parties
        /\ ToSet(ts) = {ts[k] : k \in DOMAIN ts}
    <2>1. session \in Sessions
      BY DEF TypeOK
    <2>2. QED
      BY <1>1, <2>1, TeamsType
  <1>3. \A k \in DOMAIN ts : ts[k].parties # {}
    <2>1. \A team \in ToSet(state[session].teams) : team.parties # {}
      <3>1. session \in Sessions
        BY DEF TypeOK
      <3>2. QED
        BY <3>1 DEF TeamsInv
    <2>2. QED
      BY <1>1, <1>2, <2>1
  <1>4. PICK n \in Nat :
           /\ Opened \in Seq(AnyTeam) /\ Len(Opened) = Len(ts) + n
           /\ \A k \in 1 .. Len(ts) : Opened[k] = ts[k]
           /\ \A k \in Len(ts) + 1 .. Len(ts) + n : Opened[k] = NewTeam
    BY <1>1, OpenedParts
  <1>5. DOMAIN Opened = 1 .. Len(ts) + n
    BY <1>4, LenProperties
  <1>6. \A k \in 1 .. Len(ts) : Opened[k].parties # {} /\ Opened[k].parties \subseteq Parties
    BY <1>2, <1>3, <1>4
  <1>7. \A k \in Len(ts) + 1 .. Len(ts) + n : Opened[k].parties = {}
    <2>1. NewTeam.parties = {}
      BY DEF NewTeam
    <2>2. QED
      BY <1>4, <2>1
  <1>8. Len(ts) + n \in Nat /\ Len(ts) <= Len(ts) + n
    BY <1>2
  <1>9. NotEmpty(Opened) = [k \in 1 .. Len(ts) |-> Opened[k]]
    BY <1>2, <1>5, <1>6, <1>7, <1>8, NotEmptyPrefix
  <1>10. [k \in 1 .. Len(ts) |-> Opened[k]] = [k \in 1 .. Len(ts) |-> ts[k]]
    BY <1>4
  <1>11. [k \in 1 .. Len(ts) |-> ts[k]] = ts
    BY <1>2
  <1>12. QED
    BY <1>1, <1>9, <1>10, <1>11

\* The parties at a place, none if the team is new.
PartiesAt(ts, i) == IF i \in DOMAIN ts THEN ts[i].parties ELSE {}

\* Teams that got a party more, at the i-th place.
PartyAdded(ts, new, i, p) ==
    /\ new \in Seq(AnyTeam) /\ i \in 1 .. Len(ts) + 1 /\ DOMAIN new = DOMAIN ts \cup {i}
    /\ Len(new) = IF i \in DOMAIN ts THEN Len(ts) ELSE Len(ts) + 1
    /\ new[i].parties = PartiesAt(ts, i) \cup {p}
    /\ i \in DOMAIN ts => new[i].id = ts[i].id
    /\ \A j \in DOMAIN ts : j # i => new[j] = ts[j]

\* What joining does to the teams: one of them has the party as well, or a new one
\* has it alone, and all others are as before.
LEMMA JoinedTeams ==
    ASSUME TypeOK, RuleInv, TeamsInv, NEW i \in Places,
           NEW r \in Requests, Candidate = Request[r]
    PROVE  LET ts == state[session].teams IN
           /\ NotEmpty(TeamsWith(i)) = TeamsWith(i)
           /\ PartyAdded(ts, TeamsWith(i), i, CreateMatchingParty(Request[r]))
           /\ i \notin DOMAIN ts => Len(ts) < Rule.maxTeams
           /\ MayJoin(PartiesAt(ts, i))
  <1>1. PICK ts, new, old, p :
           /\ ts = state[session].teams /\ new = TeamsWith(i)
           /\ old = PartiesAt(ts, i) /\ p = CreateMatchingParty(Request[r])
    OBVIOUS
  <1>2. session \in Sessions
    BY DEF TypeOK
  <1>3. /\ ts \in Seq(AnyTeam) /\ Len(ts) \in Nat /\ DOMAIN ts = 1 .. Len(ts)
        /\ \A j \in DOMAIN ts : /\ ts[j] = [id |-> ts[j].id, parties |-> ts[j].parties]
                                /\ ts[j].id \in TeamNames /\ ts[j].parties \subseteq Parties
        /\ ToSet(ts) = {ts[j] : j \in DOMAIN ts}
    BY <1>1, <1>2, TeamsType
  <1>4. \A j \in DOMAIN ts : ts[j].parties # {}
    BY <1>1, <1>2, <1>3 DEF TeamsInv
  <1>5. p \in Parties
    BY <1>1 DEF Parties
  <1>6. new = [Opened EXCEPT ![i].parties = Opened[i].parties \cup {p}]
    BY <1>1 DEF TeamsWith
  <1>7. /\ i \in 1 .. Len(ts) + 1 /\ DOMAIN new = DOMAIN ts \cup {i}
        /\ i \notin DOMAIN ts => i = Len(ts) + 1 /\ Len(ts) < Rule.maxTeams
        /\ MayJoin(old)
        /\ new[i] = [id |-> new[i].id, parties |-> old \cup {p}]
        /\ new[i].id \in TeamNames /\ (i \in DOMAIN ts => new[i].id = ts[i].id)
        /\ \A j \in DOMAIN ts : j # i => new[j] = ts[j]
    <2>1. CASE i \in DOMAIN ts /\ MayJoin(ts[i].parties) /\ Opened = ts
      <3>1. old = ts[i].parties /\ i \in 1 .. Len(ts) + 1
        BY <1>1, <1>3, <2>1 DEF PartiesAt
      <3>2. new = [ts EXCEPT ![i].parties = old \cup {p}]
        BY <1>6, <2>1, <3>1
      <3>3. ts[i] = [id |-> ts[i].id, parties |-> old] /\ ts[i].id \in TeamNames
        BY <1>3, <2>1, <3>1
      <3>4. new[i] = [id |-> ts[i].id, parties |-> old \cup {p}]
        BY <2>1, <3>2, <3>3
      <3>5. DOMAIN new = DOMAIN ts /\ \A j \in DOMAIN ts : j # i => new[j] = ts[j]
        BY <3>2
      <3>6. new[i].id = ts[i].id /\ new[i].parties = old \cup {p}
        BY <3>4
      <3>7. QED
        BY <2>1, <3>1, <3>3, <3>4, <3>5, <3>6
    <2>2. CASE /\ i = Len(ts) + 1 /\ MayJoin({}) /\ Len(ts) < Rule.maxTeams
               /\ Opened = Append(ts, NewTeam)
      <3>1. i \notin DOMAIN ts /\ i \in 1 .. Len(ts) + 1
        BY <1>3, <2>2
      <3>2. old = {}
        BY <1>1, <3>1 DEF PartiesAt
      <3>3. NewTeam \in AnyTeam
        BY DEF NewTeam, AnyTeam, TeamNames
      <3>4. /\ DOMAIN Opened = DOMAIN ts \cup {i} /\ Opened[i] = NewTeam
            /\ \A j \in DOMAIN ts : Opened[j] = ts[j]
        BY <1>3, <2>2, <3>3, ToSetAppend
      <3>5. NewTeam = [id |-> NewTeam.id, parties |-> {}] /\ NewTeam.id \in TeamNames
        BY DEF NewTeam, TeamNames
      <3>6. new[i] = [id |-> NewTeam.id, parties |-> {p}]
        <4>1. NewTeam.parties \cup {p} = {p}
          BY <3>5
        <4>2. new[i] = [NewTeam EXCEPT !.parties = {p}]
          BY <1>6, <3>4, <4>1
        <4>3. QED
          BY <3>5, <4>2
      <3>7. DOMAIN new = DOMAIN ts \cup {i} /\ \A j \in DOMAIN ts : j # i => new[j] = ts[j]
        BY <1>6, <3>4
      <3>8. new[i] = [id |-> new[i].id, parties |-> old \cup {p}] /\ new[i].id = NewTeam.id
        <4>1. old \cup {p} = {p}
          BY <3>2
        <4>2. QED
          BY <3>6, <4>1
      <3>9. QED
        BY <2>2, <3>1, <3>2, <3>5, <3>7, <3>8
    <2>3. QED
      BY <1>1, <2>1, <2>2, OpenedShape
  <1>8. PICK n : n = IF i \in DOMAIN ts THEN Len(ts) ELSE Len(ts) + 1
    OBVIOUS
  <1>9. n \in Nat /\ DOMAIN new = 1 .. n
    BY <1>3, <1>7, <1>8
  <1>10. ASSUME NEW j \in 1 .. n
         PROVE  /\ new[j] = [id |-> new[j].id, parties |-> new[j].parties]
                /\ new[j].id \in TeamNames
                /\ new[j].parties # {} /\ new[j].parties \subseteq Parties
    <2>1. CASE j = i
      <3>1. old \subseteq Parties
        BY <1>1, <1>3 DEF PartiesAt
      <3>2. new[i].parties = old \cup {p}
        BY <1>7
      <3>3. QED
        BY <1>5, <1>7, <2>1, <3>1, <3>2
    <2>2. CASE j # i
      <3>1. j \in DOMAIN ts /\ new[j] = ts[j]
        BY <1>7, <1>9, <2>2
      <3>2. QED
        BY <1>3, <1>4, <3>1
    <2>3. QED
      BY <2>1, <2>2
  <1>11. new = [j \in 1 .. n |-> new[j]]
    <2>1. DOMAIN Opened = DOMAIN new
      BY <1>6
    <2>2. QED
      BY <1>6, <1>9, <2>1
  <1>12. new \in Seq(AnyTeam) /\ Len(new) = n
    <2>1. ASSUME NEW j \in 1 .. n PROVE new[j] \in AnyTeam
      <3>1. \A id \in TeamNames, S \in SUBSET Parties : [id |-> id, parties |-> S] \in AnyTeam
        BY DEF AnyTeam
      <3>2. QED
        BY <1>10, <3>1
    <2>2. QED
      BY <1>9, <1>11, <2>1
  <1>13. NotEmpty(new) = new
    <2>1. \A j \in n + 1 .. n : new[j].parties = {}
      BY <1>9
    <2>2. \A j \in 1 .. n : new[j].parties # {} /\ new[j].parties \subseteq Parties
      BY <1>10
    <2>3. n <= n
      BY <1>9
    <2>4. NotEmpty(new) = [j \in 1 .. n |-> new[j]]
      BY <1>9, <2>1, <2>2, <2>3, NotEmptyPrefix
    <2>5. QED
      BY <1>11, <2>4
  <1>14. new[i].parties = old \cup {p}
    BY <1>7
  <1>15. PartyAdded(ts, new, i, p)
    BY <1>1, <1>7, <1>8, <1>12, <1>14 DEF PartyAdded
  <1>16. QED
    BY <1>1, <1>7, <1>13, <1>15

\* The session after a ticket joined.
LEMMA JoinedFields ==
    ASSUME TypeOK, RuleInv, TeamsInv, NEW i \in Places,
           NEW r \in Requests, Candidate = Request[r]
    PROVE  /\ DOMAIN Joined(i) = DOMAIN state[session] /\ Joined(i).teams = TeamsWith(i)
           /\ Joined(i).id = state[session].id /\ Joined(i).queuedAt = state[session].queuedAt
  <1>1. session \in Sessions
    BY DEF TypeOK
  <1>2. PICK sess : sess = Refreshed[session]
    OBVIOUS
  <1>3. /\ DOMAIN sess = DOMAIN state[session] /\ sess.id = state[session].id
        /\ sess.queuedAt = state[session].queuedAt
    BY <1>1, <1>2, RefreshedFields
  <1>4. "teams" \in DOMAIN sess
    <2>1. DOMAIN state[session] = DOMAIN Given[session]
      BY <1>1 DEF TypeOK
    <2>2. QED
      BY <1>1, <1>3, <2>1, GivenFields
  <1>5. PICK a, v : /\ a = JoinedAttributes(sess.attributes, Candidate.attributes, active)
                    /\ v = JoinedValues(sess)
    OBVIOUS
  <1>6. Joined(i) = [sess EXCEPT !.teams = NotEmpty(TeamsWith(i)), !.attributes = a, !.values = v]
    BY <1>2, <1>5 DEF Joined
  <1>7. NotEmpty(TeamsWith(i)) = TeamsWith(i)
    BY JoinedTeams
  <1>8. QED
    BY <1>3, <1>4, <1>6, <1>7

-----------------------------------------------------------------------------
(* The alliance rules a session may be filled by.                          *)

\* The parties of a session are those of its teams.
LEMMA PartiesOfTeams ==
    ASSUME NEW sess
    PROVE  /\ PartiesOf(sess) = UNION {sess.teams[i].parties : i \in DOMAIN sess.teams}
           /\ \A p : p \in PartiesOf(sess) <=> \E i \in DOMAIN sess.teams : p \in sess.teams[i].parties
  <1>1. ToSet(sess.teams) = {sess.teams[i] : i \in DOMAIN sess.teams}
    BY DEF ToSet
  <1>2. PartiesOf(sess) = UNION {sess.teams[i].parties : i \in DOMAIN sess.teams}
    BY <1>1 DEF PartiesOf
  <1>3. QED
    BY <1>2

\* The rules of a session are the rule itself, and those whose time has come.
LEMMA WarrantedRules ==
    ASSUME NEW s \in Sessions, NEW rule
    PROVE  rule \in Warranted(s) <=>
              \/ rule = ruleset.alliance
              \/ \E k \in DOMAIN ruleset.allianceFlex :
                    /\ rule = ruleset.allianceFlex[k].rule
                    /\ \/ Backfill[s].createdAt + ruleset.allianceFlex[k].duration < now
                       \/ \E p \in PartiesOf(state[s]) : p.since + ruleset.allianceFlex[k].duration < now
  BY DEF Warranted

\* They do not get fewer, as time passes and parties join.
LEMMA WarrantedGrows ==
    ASSUME TypeOK, NEW s \in Sessions, ruleset' = ruleset, now' \in Nat, now <= now',
           PartiesOf(state[s]) \subseteq PartiesOf(state'[s])
    PROVE  Warranted(s) \subseteq Warranted(s)'
  <1>1. SUFFICES ASSUME NEW rule \in Warranted(s) PROVE rule \in Warranted(s)'
    OBVIOUS
  <1>2. CASE rule = ruleset.alliance
    BY <1>2 DEF Warranted
  <1>3. ASSUME NEW k \in DOMAIN ruleset.allianceFlex, rule = ruleset.allianceFlex[k].rule,
               \/ Backfill[s].createdAt + ruleset.allianceFlex[k].duration < now
               \/ \E p \in PartiesOf(state[s]) : p.since + ruleset.allianceFlex[k].duration < now
        PROVE  rule \in Warranted(s)'
    <2>1. PICK d : d = ruleset.allianceFlex[k].duration
      OBVIOUS
    <2>2. d \in Nat /\ now \in Nat
      <3>1. ruleset \in RuleSets /\ now \in Start .. Start + TimeLimit
        BY DEF TypeOK
      <3>2. QED
        BY <2>1, <3>1, RuleSetFields, BackfillAssumption
    <2>3. PICK times : times = {Backfill[s].createdAt} \cup {p.since : p \in PartiesOf(state[s])}
      OBVIOUS
    <2>4. PICK times2 : times2 = {Backfill[s].createdAt} \cup {p.since : p \in PartiesOf(state'[s])}
      OBVIOUS
    <2>5. times \subseteq times2
      BY <2>3, <2>4
    <2>6. times \subseteq Nat
      <3>1. Backfill[s].createdAt \in Nat
        BY BackfillAssumption
      <3>2. PartiesOf(state[s]) \subseteq Parties
        BY TeamsType
      <3>3. \A p \in PartiesOf(state[s]) : p.since \in Nat
        BY <3>2, PartiesFields, BackfillAssumption
      <3>4. QED
        BY <2>3, <3>1, <3>3
    <2>7. PICK t \in times : t + d < now
      BY <1>3, <2>1, <2>3
    <2>8. t \in times2 /\ t + d < now'
      BY <2>2, <2>5, <2>6, <2>7
    <2>9. rule \in {ruleset.allianceFlex[j].rule : j \in
               {j \in DOMAIN ruleset.allianceFlex :
                   \E u \in times2 : u + ruleset.allianceFlex[j].duration < now'}}
      BY <1>3, <2>1, <2>8
    <2>10. QED
      BY <2>4, <2>9 DEF Warranted
  <1>4. QED
    BY <1>2, <1>3, WarrantedRules

\* The rule that is active for the age of a session is one of them.
LEMMA ActiveWarranted ==
    ASSUME TypeOK, TeamsInv, NEW s \in Sessions
    PROVE  LET rule == ActiveRuleSet(ruleset, OldestTicketTimestamp(state[s]), now).alliance
           IN  rule \in Warranted(s) /\ ValidAlliance(rule)
  <1>1. PICK since, rule :
           /\ since = OldestTicketTimestamp(state[s])
           /\ rule = ActiveRuleSet(ruleset, since, now).alliance
    OBVIOUS
  <1>2. ruleset \in RuleSets
    BY DEF TypeOK
  <1>3. /\ ValidAlliance(rule)
        /\ \/ rule = ruleset.alliance
           \/ \E k \in DOMAIN ruleset.allianceFlex :
                 since + ruleset.allianceFlex[k].duration < now /\ rule = ruleset.allianceFlex[k].rule
    <2>1. /\ {"alliance", "allianceFlex", "rules", "flex"} \subseteq DOMAIN ruleset
          /\ ValidAlliance(ruleset.alliance)
          /\ \A k \in DOMAIN ruleset.allianceFlex : ValidAlliance(ruleset.allianceFlex[k].rule)
      BY <1>2, RuleSetFields
    <2>2. QED
      BY <1>1, <2>1, ActiveAlliance
  <1>4. since = Backfill[s].createdAt \/ \E p \in PartiesOf(state[s]) : p.since = since
    <2>1. PICK times, least :
             /\ times = {p.since : p \in PartiesOf(state[s])}
             /\ least = CHOOSE t \in times : \A u \in times : t <= u
      OBVIOUS
    <2>2. since = IF times = {} \/ least = 0 THEN state[s].queuedAt ELSE least
      BY <1>1, <2>1 DEF OldestTicketTimestamp
    <2>3. state[s].queuedAt = Backfill[s].createdAt
      BY DEF TeamsInv
    <2>4. times \subseteq Nat
      <3>1. PartiesOf(state[s]) \subseteq Parties
        BY TeamsType
      <3>2. \A p \in PartiesOf(state[s]) : p.since \in Nat
        BY <3>1, PartiesFields, BackfillAssumption
      <3>3. QED
        BY <2>1, <3>2
    <2>5. times # {} => least \in times
      <3>1. times # {} => \E t \in times : \A u \in times : t <= u
        BY <2>4, SmallestNumber
      <3>2. QED
        BY <2>1, <3>1
    <2>6. since = Backfill[s].createdAt \/ since \in times
      BY <2>2, <2>3, <2>5, Zenon
    <2>7. since \in times => \E p \in PartiesOf(state[s]) : p.since = since
      BY <2>1
    <2>8. QED
      BY <2>6, <2>7, Zenon
  <1>5. rule \in Warranted(s)
    BY <1>3, <1>4, WarrantedRules
  <1>6. QED
    BY <1>1, <1>3, <1>5

-----------------------------------------------------------------------------
(* A ticket joins a team.                                                  *)

\* What a session has to do with its parties, after a step that may look at the
\* lists of blocked players.
SameTeams(s) ==
    /\ DOMAIN state'[s] = DOMAIN state[s] /\ state'[s].id = state[s].id
    /\ state'[s].queuedAt = state[s].queuedAt
    /\ state'[s].teams = state[s].teams

\* The request r joins the i-th team of the session.
Joins(r, i) ==
    /\ candidates # <<>> /\ r = Head(candidates) /\ r \in ToSet(pool)
    /\ Candidate = Request[r] /\ i \in Places
    /\ ~IsPlaying /\ ~IsBlocked
    /\ UNCHANGED <<ruleset, now, round, session, active, index, visited, proposals>>
    /\ DOMAIN state' = Sessions
    /\ \A s \in Sessions \ {session} : SameTeams(s) /\ (s \notin Reported => state'[s] = state[s])
    /\ DOMAIN state'[session] = DOMAIN state[session] /\ state'[session].id = state[session].id
    /\ state'[session].queuedAt = state[session].queuedAt
    /\ state'[session].teams = TeamsWith(i)
    /\ pool' = RemoveFirst(pool, r)
    /\ satisfiedTickets' = satisfiedTickets \cup {r}
    /\ \/ /\ Full(TeamsWith(i)) /\ satisfied' = Added(satisfied, session)
          /\ updated' = RemoveFirst(updated, session) /\ candidates' = <<>> /\ pc' = "session"
          /\ IF IsListed
             THEN sessions' = MovedDown(sessions, count, session) /\ count' = count - 1
             ELSE UNCHANGED <<sessions, count>>
       \/ /\ ~Full(TeamsWith(i)) /\ updated' = Added(updated, session) /\ satisfied' = satisfied
          /\ candidates' = Tail(candidates)
          /\ UNCHANGED <<pc, sessions, count>>

\* JoinTeam is that, for the candidate that is next.
LEMMA JoinTeamJoins ==
    ASSUME TypeOK, TeamsInv, RuleInv, JoinTeam
    PROVE  \E r \in round : \E i : Joins(r, i)
  <1>1. PICK r : r = Head(candidates)
    OBVIOUS
  <1>2. PICK i \in Places :
           IF Full(TeamsWith(i)) THEN FillSession(Joined(i)) ELSE UpdateSession(Joined(i))
    BY DEF JoinTeam
  <1>3. /\ candidates # <<>> /\ ~IsPlaying /\ ~IsBlocked
        /\ pool' = RemoveFirst(pool, r) /\ satisfiedTickets' = satisfiedTickets \cup {r}
        /\ UNCHANGED <<ruleset, now, round, session, active, index, visited, proposals>>
    BY <1>1 DEF JoinTeam, Agreed, Considering, callVars, visitVars
  <1>4. /\ r \in ToSet(pool) /\ r \in round /\ r \in Requests
        /\ session \in Sessions /\ DOMAIN state = Sessions
    <2>1. /\ candidates \in Seq(ToSet(pool)) /\ IsInjective(candidates)
          /\ pool \in Seq(round) /\ round \subseteq Requests
          /\ session \in Sessions /\ DOMAIN state = Sessions
      BY DEF TypeOK
    <2>2. r \in ToSet(candidates) /\ ToSet(candidates) \subseteq ToSet(pool)
      BY <1>1, <1>3, <2>1, InjectiveTail, ToSetType
    <2>3. ToSet(pool) \subseteq round
      BY <2>1, ToSetType
    <2>4. QED
      BY <2>1, <2>2, <2>3
  <1>5. Candidate = Request[r]
    BY <1>1 DEF Candidate
  <1>6. PICK sess : sess = Joined(i)
    OBVIOUS
  <1>7. /\ DOMAIN sess = DOMAIN state[session] /\ sess.teams = TeamsWith(i)
        /\ sess.id = state[session].id /\ sess.queuedAt = state[session].queuedAt
    BY <1>4, <1>5, <1>6, JoinedFields
  <1>8. {"attributes", "teams", "id", "queuedAt"} \subseteq DOMAIN sess
    <2>1. DOMAIN state[session] = DOMAIN Given[session]
      BY <1>4 DEF TypeOK
    <2>2. QED
      BY <1>4, <1>7, <2>1, GivenFields
  <1>9. PICK new : /\ state' = [Refreshed EXCEPT ![session] = new]
                   /\ DOMAIN new = DOMAIN state[session] /\ new.teams = TeamsWith(i)
                   /\ new.id = state[session].id /\ new.queuedAt = state[session].queuedAt
    <2>1. CASE Full(TeamsWith(i))
      BY <1>2, <1>6, <1>7, <2>1 DEF FillSession
    <2>2. CASE ~Full(TeamsWith(i))
      <3>1. PICK listed : listed = UpdateBlockedPlayerInSession(sess)
        OBVIOUS
      <3>2. /\ DOMAIN listed = DOMAIN sess
            /\ listed.teams = sess.teams /\ listed.id = sess.id /\ listed.queuedAt = sess.queuedAt
        BY <1>8, <3>1, ListedFields
      <3>3. state' = [Refreshed EXCEPT ![session] = listed]
        BY <1>2, <1>6, <2>2, <3>1 DEF UpdateSession
      <3>4. QED
        BY <1>7, <3>2, <3>3
    <2>3. QED
      BY <2>1, <2>2
  <1>10. DOMAIN Refreshed = Sessions
    BY DEF Refreshed
  <1>11. DOMAIN state' = Sessions /\ state'[session] = new
    BY <1>4, <1>9, <1>10
  <1>12. ASSUME NEW s \in Sessions \ {session}
         PROVE  SameTeams(s) /\ (s \notin Reported => state'[s] = state[s])
    <2>1. state'[s] = Refreshed[s]
      BY <1>9, <1>10
    <2>2. /\ DOMAIN Refreshed[s] = DOMAIN state[s]
          /\ Refreshed[s].teams = state[s].teams /\ Refreshed[s].id = state[s].id
          /\ Refreshed[s].queuedAt = state[s].queuedAt
          /\ s \notin Reported => Refreshed[s] = state[s]
      BY RefreshedFields
    <2>3. QED
      BY <2>1, <2>2 DEF SameTeams
  <1>13. \/ /\ Full(TeamsWith(i)) /\ satisfied' = Added(satisfied, session)
            /\ updated' = RemoveFirst(updated, session) /\ candidates' = <<>> /\ pc' = "session"
            /\ IF IsListed
               THEN sessions' = MovedDown(sessions, count, session) /\ count' = count - 1
               ELSE UNCHANGED <<sessions, count>>
         \/ /\ ~Full(TeamsWith(i)) /\ updated' = Added(updated, session) /\ satisfied' = satisfied
            /\ candidates' = Tail(candidates)
            /\ UNCHANGED <<pc, sessions, count>>
    <2>1. CASE Full(TeamsWith(i))
      BY <1>2, <2>1 DEF FillSession
    <2>2. CASE ~Full(TeamsWith(i))
      BY <1>2, <2>2 DEF UpdateSession
    <2>3. QED
      BY <2>1, <2>2
  <1>14. Joins(r, i)
    BY <1>1, <1>3, <1>4, <1>5, <1>9, <1>11, <1>12, <1>13 DEF Joins
  <1>15. QED
    BY <1>4, <1>14

\* The teams of the session before and after that.
LEMMA JoinsTeams ==
    ASSUME TypeOK, TeamsInv, RuleInv, NEW r \in Requests, NEW i, Joins(r, i)
    PROVE  LET ts == state[session].teams IN
           /\ PartyAdded(ts, state'[session].teams, i, CreateMatchingParty(Request[r]))
           /\ i \notin DOMAIN ts => Len(ts) < Rule.maxTeams
           /\ MayJoin(PartiesAt(ts, i))
  <1>1. state'[session].teams = TeamsWith(i) /\ i \in Places /\ Candidate = Request[r]
    BY DEF Joins
  <1>2. QED
    BY <1>1, JoinedTeams

\* The parties of the sessions after that.
LEMMA JoinedParties ==
    ASSUME TypeOK, TeamsInv, RuleInv, NEW r \in Requests, NEW i, Joins(r, i)
    PROVE  /\ \A s \in Sessions \ {session} : PartiesOf(state'[s]) = PartiesOf(state[s])
           /\ PartiesOf(state'[session]) = PartiesOf(state[session]) \cup {CreateMatchingParty(Request[r])}
  <1>1. ASSUME NEW s \in Sessions \ {session} PROVE PartiesOf(state'[s]) = PartiesOf(state[s])
    <2>1. state'[s].teams = state[s].teams
      BY DEF Joins, SameTeams
    <2>2. QED
      BY <2>1 DEF PartiesOf
  <1>2. PICK ts, new, old, p :
           /\ ts = state[session].teams /\ new = state'[session].teams
           /\ old = PartiesAt(ts, i) /\ p = CreateMatchingParty(Request[r])
    OBVIOUS
  <1>3. PartyAdded(ts, new, i, p)
    BY <1>2, JoinsTeams
  <1>4. /\ DOMAIN new = DOMAIN ts \cup {i} /\ new[i].parties = old \cup {p}
        /\ \A j \in DOMAIN ts : j # i => new[j] = ts[j]
        /\ i \in DOMAIN ts => old = ts[i].parties
        /\ i \notin DOMAIN ts => old = {}
    BY <1>2, <1>3 DEF PartyAdded, PartiesAt
  <1>5. \A q : q \in PartiesOf(state[session]) <=> \E j \in DOMAIN ts : q \in ts[j].parties
    BY <1>2, PartiesOfTeams
  <1>6. \A q : q \in PartiesOf(state'[session]) <=> \E j \in DOMAIN new : q \in new[j].parties
    BY <1>2, PartiesOfTeams
  <1>7. \A q : q \in PartiesOf(state[session]) => q \in PartiesOf(state'[session])
    <2>1. SUFFICES ASSUME NEW q, NEW j \in DOMAIN ts, q \in ts[j].parties
                   PROVE  \E k \in DOMAIN new : q \in new[k].parties
      BY <1>5, <1>6
    <2>2. q \in new[j].parties
      BY <1>2, <1>4, <2>1
    <2>3. QED
      BY <1>4, <2>2
  <1>8. p \in PartiesOf(state'[session])
    BY <1>4, <1>6
  <1>9. \A q : q \in PartiesOf(state'[session]) => q = p \/ q \in PartiesOf(state[session])
    <2>1. SUFFICES ASSUME NEW q, NEW j \in DOMAIN new, q \in new[j].parties
                   PROVE  q = p \/ \E k \in DOMAIN ts : q \in ts[k].parties
      BY <1>5, <1>6
    <2>2. CASE j = i
      BY <1>2, <1>4, <2>1, <2>2
    <2>3. CASE j # i
      BY <1>4, <2>1, <2>3
    <2>4. QED
      BY <2>2, <2>3
  <1>10. PartiesOf(state'[session]) = PartiesOf(state[session]) \cup {p}
    BY <1>7, <1>8, <1>9
  <1>11. QED
    BY <1>1, <1>2, <1>10

\* Where tickets are after that.
LEMMA JoinedHas ==
    ASSUME TypeOK, TeamsInv, RuleInv, NEW r \in Requests, NEW i, Joins(r, i),
           NEW s \in Sessions, NEW j, NEW q
    PROVE  Has(s, j, q)' <=> Has(s, j, q) \/ (s = session /\ j = i /\ q = r)
  <1>1. CASE s # session
    <2>1. state'[s].teams = state[s].teams
      BY <1>1 DEF Joins, SameTeams
    <2>2. QED
      BY <1>1, <2>1 DEF Has
  <1>2. CASE s = session
    <2>1. PICK ts, new, old, p :
             /\ ts = state[session].teams /\ new = state'[session].teams
             /\ old = PartiesAt(ts, i) /\ p = CreateMatchingParty(Request[r])
      OBVIOUS
    <2>2. PartyAdded(ts, new, i, p)
      BY <2>1, JoinsTeams
    <2>3. /\ DOMAIN new = DOMAIN ts \cup {i} /\ new[i].parties = old \cup {p}
          /\ \A k \in DOMAIN ts : k # i => new[k] = ts[k]
          /\ i \in DOMAIN ts => old = ts[i].parties
          /\ i \notin DOMAIN ts => old = {}
      BY <2>1, <2>2 DEF PartyAdded, PartiesAt
    <2>4. p.id = r
      BY <2>1, PartyFields
    <2>5. /\ Has(s, j, q) <=> j \in DOMAIN ts /\ \E o \in ts[j].parties : o.id = q
          /\ Has(s, j, q)' <=> j \in DOMAIN new /\ \E o \in new[j].parties : o.id = q
      BY <1>2, <2>1 DEF Has
    <2>6. CASE j # i
      BY <2>3, <2>5, <2>6
    <2>7. CASE j = i
      <3>1. (\E o \in old : o.id = q) <=> Has(s, j, q)
        BY <2>3, <2>5, <2>7
      <3>2. (\E o \in old \cup {p} : o.id = q) <=> Has(s, j, q) \/ q = r
        BY <2>4, <3>1
      <3>3. QED
        BY <1>2, <2>3, <2>5, <2>7, <3>2
    <2>8. QED
      BY <2>6, <2>7
  <1>3. QED
    BY <1>1, <1>2

\* The ticket leaves the pool for one place.
LEMMA JoinedPlaces ==
    ASSUME TypeOK, PoolInv, TeamsInv, RuleInv, PlacesInv,
           NEW r \in round, r \in Requests, NEW i, Joins(r, i), pc = "ticket"
    PROVE  PoolInv' /\ PlacesInv'
  <1>1. /\ pool \in Seq(round) /\ IsInjective(pool) /\ session \in Sessions
    BY DEF TypeOK
  <1>2. /\ round' = round /\ proposals' = proposals /\ r \in ToSet(pool)
        /\ pool' = RemoveFirst(pool, r) /\ satisfiedTickets' = satisfiedTickets \cup {r}
    BY DEF Joins
  <1>3. ToSet(pool') = ToSet(pool) \ {r}
    BY <1>1, <1>2, RemoveFirstProperties
  <1>4. PoolInv'
    BY <1>2, <1>3 DEF PoolInv
  <1>5. \A s \in Sessions : \A j \in DOMAIN state[s].teams : ~Has(s, j, r)
    BY <1>2 DEF PlacesInv
  <1>6. \A s \in Sessions : \A j, q : Has(s, j, q) => j \in DOMAIN state[s].teams
    BY DEF Has
  <1>7. \A s \in Sessions : \A j, q : Has(s, j, q)' => j \in DOMAIN state'[s].teams
    BY DEF Has
  <1>8. \A s \in Sessions : \A j, q : Has(s, j, q)' <=> Has(s, j, q) \/ (s = session /\ j = i /\ q = r)
    BY JoinedHas
  <1>9. ASSUME NEW q \in Requests
        PROVE  q \in round' /\ q \notin ToSet(pool')
                  <=> \E s \in Sessions : \E j \in DOMAIN state'[s].teams : Has(s, j, q)'
    <2>1. q \in round /\ q \notin ToSet(pool) <=> \E s \in Sessions : \E j \in DOMAIN state[s].teams : Has(s, j, q)
      BY DEF PlacesInv
    <2>2. CASE q = r
      <3>1. PICK s \in Sessions : s = session
        BY <1>1
      <3>2. Has(s, i, r)' /\ i \in DOMAIN state'[s].teams
        BY <1>7, <1>8, <3>1
      <3>3. QED
        BY <1>2, <1>3, <2>2, <3>2
    <2>3. CASE q # r
      <3>1. \A s \in Sessions : \A j : Has(s, j, q)' <=> Has(s, j, q)
        BY <1>8, <2>3
      <3>2. (\E s \in Sessions : \E j \in DOMAIN state'[s].teams : Has(s, j, q)')
               <=> (\E s \in Sessions : \E j \in DOMAIN state[s].teams : Has(s, j, q))
        BY <1>6, <1>7, <3>1
      <3>3. QED
        BY <1>2, <1>3, <2>1, <2>3, <3>2
    <2>4. QED
      BY <2>2, <2>3
  <1>10. ASSUME NEW q \in Requests, NEW s \in Sessions, NEW t \in Sessions,
                NEW j \in DOMAIN state'[s].teams, NEW k \in DOMAIN state'[t].teams,
                Has(s, j, q)', Has(t, k, q)'
         PROVE  s = t /\ j = k
    <2>1. CASE q = r
      <3>1. ~Has(s, j, r) /\ ~Has(t, k, r)
        BY <1>5, <1>6
      <3>2. QED
        BY <1>8, <1>10, <2>1, <3>1
    <2>2. CASE q # r
      <3>1. Has(s, j, q) /\ Has(t, k, q)
        BY <1>8, <1>10, <2>2
      <3>2. j \in DOMAIN state[s].teams /\ k \in DOMAIN state[t].teams
        BY <1>6, <3>1
      <3>3. QED
        BY <3>1, <3>2 DEF PlacesInv
    <2>3. QED
      BY <2>1, <2>2
  <1>11. PlacesInv'
    BY <1>9, <1>10 DEF PlacesInv
  <1>12. QED
    BY <1>4, <1>11

\* Nobody who joins is in the session already.
LEMMA JoinedUsers ==
    ASSUME TypeOK, TeamsInv, RuleInv, UserInSessionOnce, NEW r \in Requests, NEW i, Joins(r, i)
    PROVE  UserInSessionOnce'
  <1>1. PICK p : p = CreateMatchingParty(Request[r])
    OBVIOUS
  <1>2. \A q \in PartiesOf(state[session]) : DOMAIN p.players \cap DOMAIN q.players = {}
    <2>1. UsersOf({Candidate}) \cap UsersOf(PartiesOf(state[session])) = {} /\ Candidate = Request[r]
      BY DEF Joins, IsPlaying
    <2>2. p.players = Request[r].players
      BY <1>1, PartyFields
    <2>3. QED
      BY <2>1, <2>2 DEF UsersOf
  <1>3. SUFFICES ASSUME NEW s \in Sessions, NEW a \in PartiesOf(state'[s]), NEW b \in PartiesOf(state'[s]),
                        a.id \in Requests, a # b
                 PROVE  DOMAIN a.players \cap DOMAIN b.players = {}
    BY DEF UserInSessionOnce
  <1>4. CASE a \in PartiesOf(state[s]) /\ b \in PartiesOf(state[s])
    BY <1>3, <1>4 DEF UserInSessionOnce
  <1>5. CASE ~(a \in PartiesOf(state[s]) /\ b \in PartiesOf(state[s]))
    <2>1. s = session /\ PartiesOf(state'[s]) = PartiesOf(state[s]) \cup {p}
      BY <1>1, <1>5, JoinedParties
    <2>2. \/ a = p /\ b \in PartiesOf(state[session])
          \/ b = p /\ a \in PartiesOf(state[session])
      BY <1>3, <1>5, <2>1
    <2>3. QED
      BY <1>2, <2>2
  <1>6. QED
    BY <1>4, <1>5

\* The rules a session may be filled by do not get fewer by that.
LEMMA JoinedWarranted ==
    ASSUME TypeOK, TeamsInv, RuleInv, NEW r \in Requests, NEW i, Joins(r, i), NEW s \in Sessions
    PROVE  Warranted(s) \subseteq Warranted(s)'
  <1>1. ruleset' = ruleset /\ now' = now /\ now \in Nat
    BY BackfillAssumption DEF Joins, TypeOK
  <1>2. PartiesOf(state[s]) \subseteq PartiesOf(state'[s])
    BY JoinedParties
  <1>3. now' \in Nat /\ now <= now'
    BY <1>1
  <1>4. QED
    BY <1>1, <1>2, <1>3, WarrantedGrows

\* The team that is joined has room for the ticket.
LEMMA JoinedRoom ==
    ASSUME TypeOK, TeamsInv, RuleInv, NEW r \in Requests, NEW i, Joins(r, i)
    PROVE  LET old == PartiesAt(state[session].teams, i) IN
           /\ old \subseteq Parties /\ Headcount(old) \in Nat
           /\ Headcount(old) < Rule.maxPlayers
           /\ Headcount(old \cup {CreateMatchingParty(Request[r])}) <= Rule.maxPlayers
  <1>1. PICK old, p : old = PartiesAt(state[session].teams, i) /\ p = CreateMatchingParty(Request[r])
    OBVIOUS
  <1>2. session \in Sessions
    BY DEF TypeOK
  <1>3. old \subseteq Parties
    BY <1>1, <1>2, TeamsType DEF PartiesAt
  <1>4. p \in Parties
    BY <1>1 DEF Parties
  <1>5. /\ IsFiniteSet(old) /\ \A q \in old : IsFiniteSet(DOMAIN q.players)
        /\ IsFiniteSet({p}) /\ \A q \in {p} : IsFiniteSet(DOMAIN q.players)
        /\ Headcount(old) \in Nat /\ Headcount({p}) \in Nat /\ Headcount({p}) >= 1
    <2>1. {p} \subseteq Parties /\ {p} # {}
      BY <1>4
    <2>2. QED
      BY <1>3, <2>1, PartiesCount
  <1>6. MayJoin(old) /\ Candidate = Request[r]
    BY <1>1, JoinsTeams DEF Joins
  <1>7. Headcount(old) + Headcount({Candidate}) <= Rule.maxPlayers
    BY <1>6 DEF MayJoin
  <1>8. Headcount({Candidate}) = Headcount({p})
    BY <1>1, <1>6, PartyCount
  <1>9. Rule.maxPlayers \in Nat
    BY RuleType
  <1>10. Headcount(old) < Rule.maxPlayers
    BY <1>5, <1>7, <1>8, <1>9
  <1>11. Headcount(old \cup {p}) <= Headcount(old) + Headcount({p}) /\ Headcount(old \cup {p}) \in Nat
    <2>1. old \cup {p} \subseteq Parties
      BY <1>3, <1>4
    <2>2. QED
      BY <1>5, <2>1, HeadcountUnion, PartiesCount
  <1>12. Headcount(old \cup {p}) <= Rule.maxPlayers
    BY <1>5, <1>7, <1>8, <1>9, <1>11
  <1>13. QED
    BY <1>1, <1>3, <1>5, <1>10, <1>12

\* The session grows within the active rule.
LEMMA JoinedRange ==
    ASSUME TypeOK, TeamsInv, RuleInv, SessionInRange, NEW r \in Requests, NEW i, Joins(r, i)
    PROVE  SessionInRange'
  <1>1. SUFFICES ASSUME NEW s \in Sessions
                 PROVE  /\ \/ Len(state'[s].teams) <= Len(Given[s].teams)
                           \/ \E rule \in Warranted(s)' : Len(state'[s].teams) <= rule.maxTeams
                        /\ \A team \in ToSet(state'[s].teams) :
                              (\E p \in team.parties : p.id \in Requests) =>
                                 \E rule \in Warranted(s)' : Headcount(team.parties) <= rule.maxPlayers
    BY DEF SessionInRange
  <1>2. Warranted(s) \subseteq Warranted(s)'
    BY JoinedWarranted
  <1>3. /\ \/ Len(state[s].teams) <= Len(Given[s].teams)
           \/ \E rule \in Warranted(s) : Len(state[s].teams) <= rule.maxTeams
        /\ \A team \in ToSet(state[s].teams) :
              (\E p \in team.parties : p.id \in Requests) =>
                 \E rule \in Warranted(s) : Headcount(team.parties) <= rule.maxPlayers
    BY DEF SessionInRange
  <1>4. CASE s # session
    <2>1. state'[s].teams = state[s].teams
      BY <1>4 DEF Joins, SameTeams
    <2>2. QED
      BY <1>2, <1>3, <2>1
  <1>5. CASE s = session
    <2>1. PICK ts, new, old, p, rule, W :
             /\ ts = state[s].teams /\ new = state'[s].teams
             /\ old = PartiesAt(ts, i) /\ p = CreateMatchingParty(Request[r])
             /\ rule = Rule /\ W = Warranted(s)'
      OBVIOUS
    <2>2. PartyAdded(ts, new, i, p)
      BY <1>5, <2>1, JoinsTeams
    <2>3. rule \in W /\ rule.maxTeams \in Nat
      BY <1>2, <1>5, <2>1, RuleType DEF RuleInv
    <2>4. Len(ts) \in Nat
      BY <2>1, TeamsType
    <2>5. Len(new) <= Len(Given[s].teams) \/ \E o \in W : Len(new) <= o.maxTeams
      <3>1. CASE i \in DOMAIN ts
        <4>1. Len(new) = Len(ts)
          BY <2>2, <3>1 DEF PartyAdded
        <4>2. QED
          BY <1>2, <1>3, <2>1, <4>1
      <3>2. CASE i \notin DOMAIN ts
        <4>1. Len(new) = Len(ts) + 1
          BY <2>2, <3>2 DEF PartyAdded
        <4>2. Len(ts) < rule.maxTeams
          BY <1>5, <2>1, <3>2, JoinsTeams
        <4>3. Len(new) <= rule.maxTeams
          BY <2>3, <2>4, <4>1, <4>2
        <4>4. QED
          BY <2>3, <4>3
      <3>3. QED
        BY <3>1, <3>2
    <2>6. ASSUME NEW team \in ToSet(new), NEW q \in team.parties, q.id \in Requests
          PROVE  \E o \in W : Headcount(team.parties) <= o.maxPlayers
      <3>1. PICK j \in DOMAIN new : team = new[j]
        BY DEF ToSet
      <3>2. CASE j = i
        <4>1. team.parties = old \cup {p}
          BY <2>1, <2>2, <3>1, <3>2 DEF PartyAdded
        <4>2. Headcount(old \cup {p}) <= rule.maxPlayers
          BY <1>5, <2>1, JoinedRoom
        <4>3. QED
          BY <2>3, <4>1, <4>2
      <3>3. CASE j # i
        <4>1. j \in DOMAIN ts /\ team = ts[j]
          BY <2>2, <3>1, <3>3 DEF PartyAdded
        <4>2. team \in ToSet(ts)
          BY <4>1 DEF ToSet
        <4>3. QED
          BY <1>2, <1>3, <2>1, <2>6, <4>2
      <3>4. QED
        BY <3>2, <3>3
    <2>7. QED
      BY <2>1, <2>5, <2>6
  <1>6. QED
    BY <1>4, <1>5

\* Adding a session to a list where it may be.
LEMMA AddedProperties ==
    ASSUME NEW S, NEW q \in Seq(S), IsInjective(q), NEW x \in S
    PROVE  /\ Added(q, x) \in Seq(S) /\ IsInjective(Added(q, x))
           /\ ToSet(Added(q, x)) = ToSet(q) \cup {x}
  <1>1. Contains(q, x) <=> x \in ToSet(q)
    <2>1. Len(q) \in Nat /\ DOMAIN q = 1 .. Len(q)
      BY ToSetType
    <2>2. QED
      BY <2>1 DEF Contains, ToSet
  <1>2. CASE x \in ToSet(q)
    BY <1>1, <1>2 DEF Added
  <1>3. CASE x \notin ToSet(q)
    <2>1. Added(q, x) = Append(q, x)
      BY <1>1, <1>3 DEF Added
    <2>2. QED
      BY <1>3, <2>1, ToSetAppend, InjectiveAppend
  <1>4. QED
    BY <1>2, <1>3

\* The lists after a ticket joined.
LEMMA JoinedLists ==
    ASSUME TypeOK, IsInjective(updated), IsInjective(satisfied), NEW r, NEW i, Joins(r, i)
    PROVE  /\ updated' \in Seq(Sessions) /\ IsInjective(updated')
           /\ satisfied' \in Seq(Sessions) /\ IsInjective(satisfied')
           /\ \/ /\ Full(TeamsWith(i))
                 /\ ToSet(updated') = ToSet(updated) \ {session}
                 /\ ToSet(satisfied') = ToSet(satisfied) \cup {session}
              \/ /\ ~Full(TeamsWith(i))
                 /\ ToSet(updated') = ToSet(updated) \cup {session}
                 /\ ToSet(satisfied') = ToSet(satisfied)
  <1>1. updated \in Seq(Sessions) /\ satisfied \in Seq(Sessions) /\ session \in Sessions
    BY DEF TypeOK
  <1>2. CASE /\ Full(TeamsWith(i))
             /\ satisfied' = Added(satisfied, session) /\ updated' = RemoveFirst(updated, session)
    BY <1>1, <1>2, AddedProperties, RemoveFirstProperties
  <1>3. CASE ~Full(TeamsWith(i)) /\ updated' = Added(updated, session) /\ satisfied' = satisfied
    BY <1>1, <1>3, AddedProperties
  <1>4. QED
    BY <1>2, <1>3 DEF Joins

\* The session is reported, as satisfied if it is full.
LEMMA JoinedReported ==
    ASSUME TypeOK, TeamsInv, RuleInv, ReportedOnce, NEW r \in Requests, NEW i, Joins(r, i)
    PROVE  ReportedOnce'
  <1>1. DEFINE FullBy(rule, teams) ==
                   /\ Len(teams) = rule.maxTeams
                   /\ \A team \in ToSet(teams) : Headcount(team.parties) >= rule.maxPlayers
  <1>2. /\ IsInjective(updated) /\ IsInjective(satisfied)
        /\ \A s \in Sessions : s \in Reported <=> JoinedIn(s) # {}
        /\ \A s \in Sessions : Warranted(s) = {ruleset.alliance} =>
              /\ s \in ToSet(satisfied) => FullBy(ruleset.alliance, state[s].teams)
              /\ s \in ToSet(updated) => ~FullBy(ruleset.alliance, state[s].teams)
    BY DEF ReportedOnce
  <1>3. /\ IsInjective(updated') /\ IsInjective(satisfied')
        /\ \/ /\ Full(TeamsWith(i))
              /\ ToSet(updated') = ToSet(updated) \ {session}
              /\ ToSet(satisfied') = ToSet(satisfied) \cup {session}
           \/ /\ ~Full(TeamsWith(i))
              /\ ToSet(updated') = ToSet(updated) \cup {session}
              /\ ToSet(satisfied') = ToSet(satisfied)
    BY <1>2, JoinedLists
  <1>4. session \in Sessions /\ ruleset' = ruleset
    BY DEF TypeOK, Joins
  <1>5. \A s \in Sessions : s \in Reported' <=> s \in Reported \/ s = session
    BY <1>3 DEF Reported
  <1>6. ASSUME NEW s \in Sessions
        PROVE  JoinedIn(s)' # {} <=> JoinedIn(s) # {} \/ s = session
    <2>1. /\ JoinedIn(s) # {} <=> \E p \in PartiesOf(state[s]) : p.id \in Requests
          /\ JoinedIn(s)' # {} <=> \E p \in PartiesOf(state'[s]) : p.id \in Requests
      BY DEF JoinedIn
    <2>2. CASE s # session
      <3>1. PartiesOf(state'[s]) = PartiesOf(state[s])
        BY <2>2, JoinedParties
      <3>2. QED
        BY <2>1, <2>2, <3>1
    <2>3. CASE s = session
      <3>1. CreateMatchingParty(Request[r]) \in PartiesOf(state'[s])
        BY <2>3, JoinedParties
      <3>2. CreateMatchingParty(Request[r]).id \in Requests
        BY PartyFields
      <3>3. QED
        BY <2>1, <2>3, <3>1, <3>2
    <2>4. QED
      BY <2>2, <2>3
  <1>7. ASSUME NEW s \in Sessions, Warranted(s)' = {ruleset.alliance}
        PROVE  /\ s \in ToSet(satisfied') => FullBy(ruleset.alliance, state'[s].teams)
               /\ s \in ToSet(updated') => ~FullBy(ruleset.alliance, state'[s].teams)
    <2>1. Warranted(s) = {ruleset.alliance}
      <3>1. Warranted(s) \subseteq {ruleset.alliance}
        BY <1>7, JoinedWarranted
      <3>2. ruleset.alliance \in Warranted(s)
        BY DEF Warranted
      <3>3. QED
        BY <3>1, <3>2
    <2>2. /\ s \in ToSet(satisfied) => FullBy(ruleset.alliance, state[s].teams)
          /\ s \in ToSet(updated) => ~FullBy(ruleset.alliance, state[s].teams)
      BY <1>2, <2>1
    <2>3. CASE s # session
      <3>1. state'[s].teams = state[s].teams
        BY <2>3 DEF Joins, SameTeams
      <3>2. /\ s \in ToSet(satisfied') => s \in ToSet(satisfied)
            /\ s \in ToSet(updated') => s \in ToSet(updated)
        BY <1>3, <2>3
      <3>3. QED
        <4>1. HIDE DEF FullBy
        <4>2. QED
          BY <2>2, <3>1, <3>2
    <2>4. CASE s = session
      <3>1. PICK ts, new, old, p :
               /\ ts = state[s].teams /\ new = state'[s].teams
               /\ old = PartiesAt(ts, i) /\ p = CreateMatchingParty(Request[r])
        OBVIOUS
      <3>2. PartyAdded(ts, new, i, p) /\ new = TeamsWith(i)
        BY <2>4, <3>1, JoinsTeams DEF Joins
      <3>3. Rule = ruleset.alliance
        BY <2>1, <2>4 DEF RuleInv
      <3>4. PICK n : new \in Seq(AnyTeam) /\ n = Len(new) /\ n \in Nat /\ DOMAIN new = 1 .. n
        BY <3>2, LenProperties DEF PartyAdded
      <3>5. Full(new) <=> FullBy(ruleset.alliance, new)
        <4>1. ToSet(new) = {new[j] : j \in DOMAIN new}
          BY DEF ToSet
        <4>2. QED
          BY <3>3, <4>1 DEF Full
      <3>6. s \notin ToSet(satisfied)
        <4>1. SUFFICES ASSUME FullBy(ruleset.alliance, ts) PROVE FALSE
          BY <2>2, <3>1
        <4>2. i \in DOMAIN ts
          <5>1. i \notin DOMAIN ts => Len(ts) < Rule.maxTeams
            BY <2>4, <3>1, JoinsTeams
          <5>2. Len(ts) = Rule.maxTeams /\ Rule.maxTeams \in Nat
            BY <3>3, <4>1, RuleType
          <5>3. QED
            BY <5>1, <5>2
        <4>3. ts[i] \in ToSet(ts) /\ ts[i].parties = old
          BY <3>1, <4>2 DEF ToSet, PartiesAt
        <4>4. Headcount(old) >= Rule.maxPlayers
          BY <3>3, <4>1, <4>3
        <4>5. Headcount(old) < Rule.maxPlayers /\ Headcount(old) \in Nat /\ Rule.maxPlayers \in Nat
          BY <2>4, <3>1, JoinedRoom, RuleType
        <4>6. QED
          BY <4>4, <4>5
      <3>7. QED
        <4>1. HIDE DEF FullBy
        <4>2. CASE Full(TeamsWith(i))
          BY <1>3, <2>4, <3>1, <3>2, <3>5, <4>2
        <4>3. CASE ~Full(TeamsWith(i))
          BY <1>3, <2>4, <3>1, <3>2, <3>5, <3>6, <4>3
        <4>4. QED
          BY <4>2, <4>3
    <2>5. QED
      BY <2>3, <2>4
  <1>8. \A s \in Sessions : s \in Reported' <=> JoinedIn(s)' # {}
    BY <1>2, <1>5, <1>6
  <1>9. QED
    BY <1>3, <1>4, <1>7, <1>8 DEF ReportedOnce

\* Nobody in the session has blocked somebody who joins, or is blocked by them.
LEMMA JoinedBlocked ==
    ASSUME TypeOK, TeamsInv, RuleInv, BlockedInv, NoBlockedInSession, ReportedOnce,
           NEW r \in Requests, NEW i, Joins(r, i)
    PROVE  BlockedInv' /\ NoBlockedInSession'
  <1>1. PICK p : p = CreateMatchingParty(Request[r])
    OBVIOUS
  <1>2. /\ session \in Sessions /\ ruleset' = ruleset /\ Candidate = Request[r] /\ ~IsBlocked
        /\ p.players = Request[r].players /\ p.attributes = Request[r].attributes
    BY <1>1, PartyFields DEF TypeOK, Joins
  <1>3. ASSUME ruleset.block \in {"", "cannot"}, NEW q \in PartiesOf(state[session])
        PROVE  /\ DOMAIN q.players \cap Values(p.attributes, "blocked_players") = {}
               /\ DOMAIN p.players \cap Values(q.attributes, "blocked_players") = {}
    <2>1. /\ BlockedBy({Candidate}) \cap UsersOf(PartiesOf(state[session])) = {}
          /\ BlockedBy({Refreshed[session]}) \cap UsersOf({Candidate}) = {}
      BY <1>2, <1>3 DEF IsBlocked
    <2>2. /\ BlockedBy({Candidate}) = Values(p.attributes, "blocked_players")
          /\ UsersOf({Candidate}) = DOMAIN p.players
      BY <1>2 DEF BlockedBy, UsersOf
    <2>3. BlockedBy(PartiesOf(state[session])) \subseteq BlockedBy({Refreshed[session]})
      <3>1. CASE session \in Reported
        BY <1>2, <3>1, RefreshedFields
      <3>2. CASE session \notin Reported
        <4>1. Refreshed[session] = state[session]
          BY <1>2, <3>2, RefreshedFields
        <4>2. BlockedBy(PartiesOf(state[session])) \subseteq BlockedBy({state[session]})
          BY <1>2, <3>2 DEF BlockedInv
        <4>3. QED
          BY <4>1, <4>2
      <3>3. QED
        BY <3>1, <3>2
    <2>4. /\ DOMAIN q.players \subseteq UsersOf(PartiesOf(state[session]))
          /\ Values(q.attributes, "blocked_players") \subseteq BlockedBy(PartiesOf(state[session]))
      BY DEF UsersOf, BlockedBy
    <2>5. QED
      BY <2>1, <2>2, <2>3, <2>4
  <1>4. NoBlockedInSession'
    <2>1. SUFFICES ASSUME ruleset.block \in {"", "cannot"}, NEW s \in Sessions,
                          NEW a \in PartiesOf(state'[s]), NEW b \in PartiesOf(state'[s]),
                          a # b, a.id \in Requests
                   PROVE  /\ DOMAIN a.players \cap Values(b.attributes, "blocked_players") = {}
                          /\ DOMAIN b.players \cap Values(a.attributes, "blocked_players") = {}
      BY <1>2 DEF NoBlockedInSession
    <2>2. CASE a \in PartiesOf(state[s]) /\ b \in PartiesOf(state[s])
      BY <2>1, <2>2 DEF NoBlockedInSession
    <2>3. CASE ~(a \in PartiesOf(state[s]) /\ b \in PartiesOf(state[s]))
      <3>1. s = session /\ PartiesOf(state'[s]) = PartiesOf(state[s]) \cup {p}
        BY <1>1, <2>3, JoinedParties
      <3>2. \/ a = p /\ b \in PartiesOf(state[session])
            \/ b = p /\ a \in PartiesOf(state[session])
        BY <2>1, <2>3, <3>1
      <3>3. QED
        BY <1>3, <2>1, <3>2
    <2>4. QED
      BY <2>2, <2>3
  <1>5. BlockedInv'
    <2>1. IsInjective(updated) /\ IsInjective(satisfied)
      BY DEF ReportedOnce
    <2>2. \A s \in Sessions \ Reported' : s # session /\ s \notin Reported
      BY <2>1, JoinedLists DEF Reported
    <2>3. \A s \in Sessions \ Reported' : state'[s] = state[s]
      BY <2>2 DEF Joins
    <2>4. ASSUME NEW s \in Sessions \ Reported'
          PROVE  BlockedBy(PartiesOf(state'[s])) \subseteq BlockedBy({state'[s]})
      BY <2>2, <2>3 DEF BlockedInv
    <2>5. QED
      BY <2>4 DEF BlockedInv
  <1>6. QED
    BY <1>4, <1>5

\* Taking a session off the list leaves a list of sessions.
LEMMA MovedDownType ==
    ASSUME NEW n \in 0 .. Len(Backfill), NEW array \in [Sessions -> Sessions], NEW s
    PROVE  MovedDown(array, n, s) \in [Sessions -> Sessions]
  <1>1. PICK id : id = CHOOSE i \in 1 .. n : array[i] = s /\ \A j \in 1 .. i - 1 : array[j] # s
    OBVIOUS
  <1>2. MovedDown(array, n, s)
           = [i \in DOMAIN array |-> IF i \in id .. n - 1 THEN array[i + 1] ELSE array[i]]
    BY <1>1 DEF MovedDown
  <1>3. ASSUME NEW i \in Sessions, i \in id .. n - 1 PROVE array[i + 1] \in Sessions
    <2>1. i + 1 \in Sessions
      BY <1>3, SessionsType
    <2>2. QED
      BY <2>1
  <1>4. QED
    BY <1>2, <1>3

\* Joining keeps the types, the teams and the rule.
LEMMA JoinedType ==
    ASSUME TypeOK, PoolInv, TeamsInv, RuleInv, ReportedOnce, pc = "ticket",
           NEW r \in round, r \in Requests, NEW i, Joins(r, i)
    PROVE  TypeOK' /\ TeamsInv' /\ RuleInv'
  <1>1. /\ session \in Sessions /\ DOMAIN state = Sessions
        /\ pool \in Seq(round) /\ IsInjective(pool)
        /\ candidates \in Seq(ToSet(pool)) /\ IsInjective(candidates)
        /\ sessions \in [Sessions -> Sessions] /\ count \in 0 .. Len(Backfill)
        /\ satisfiedTickets \subseteq round
    BY DEF TypeOK
  <1>2. /\ pool' \in Seq(round) /\ IsInjective(pool') /\ ToSet(pool') = ToSet(pool) \ {r}
    BY <1>1, RemoveFirstProperties DEF Joins
  <1>3. candidates' \in Seq(ToSet(pool')) /\ IsInjective(candidates')
    <2>1. CASE candidates' = <<>>
      BY <2>1, ToSetEmpty
    <2>2. CASE candidates' = Tail(candidates)
      <3>1. candidates # <<>> /\ r = Head(candidates)
        BY DEF Joins
      <3>2. PICK q : q = Tail(candidates)
        OBVIOUS
      <3>3. q \in Seq(ToSet(pool)) /\ IsInjective(q) /\ ToSet(q) = ToSet(candidates) \ {r}
        BY <1>1, <3>1, <3>2, InjectiveTail
      <3>4. ToSet(candidates) \subseteq ToSet(pool)
        BY <1>1, ToSetType
      <3>5. ToSet(q) \subseteq ToSet(pool') /\ q \in Seq(ToSet(q))
        BY <1>2, <3>3, <3>4, ToSetType
      <3>6. q \in Seq(ToSet(pool'))
        BY <3>5, SeqMonotonic
      <3>7. QED
        BY <2>2, <3>2, <3>3, <3>6
    <2>3. QED
      BY <2>1, <2>2 DEF Joins
  <1>4. sessions' \in [Sessions -> Sessions] /\ count' \in 0 .. Len(Backfill)
    <2>1. CASE UNCHANGED <<sessions, count>>
      BY <1>1, <2>1
    <2>2. CASE IsListed /\ sessions' = MovedDown(sessions, count, session) /\ count' = count - 1
      <3>1. count >= 1
        BY <1>1, <2>2 DEF IsListed
      <3>2. sessions' \in [Sessions -> Sessions]
        BY <1>1, <2>2, MovedDownType
      <3>3. QED
        BY <1>1, <2>2, <3>1, <3>2, SessionsType
    <2>3. QED
      BY <2>1, <2>2 DEF Joins
  <1>5. ASSUME NEW s \in Sessions
        PROVE  /\ DOMAIN state'[s] = DOMAIN Given[s] /\ state'[s].id = Backfill[s].id
               /\ state'[s].queuedAt = Backfill[s].createdAt
               /\ state'[s].teams \in Seq(AnyTeam)
               /\ \A team \in ToSet(state'[s].teams) : team.parties # {}
    <2>1. /\ DOMAIN state[s] = DOMAIN Given[s] /\ state[s].id = Backfill[s].id
          /\ state[s].queuedAt = Backfill[s].createdAt
          /\ state[s].teams \in Seq(AnyTeam)
          /\ \A team \in ToSet(state[s].teams) : team.parties # {}
      BY DEF TypeOK, TeamsInv
    <2>2. CASE s # session
      BY <2>1, <2>2 DEF Joins, SameTeams
    <2>3. CASE s = session
      <3>1. /\ DOMAIN state'[s] = DOMAIN state[s] /\ state'[s].id = state[s].id
            /\ state'[s].queuedAt = state[s].queuedAt
        BY <2>3 DEF Joins
      <3>2. PICK ts, new, p :
               /\ ts = state[s].teams /\ new = state'[s].teams
               /\ p = CreateMatchingParty(Request[r])
        OBVIOUS
      <3>3. PartyAdded(ts, new, i, p)
        BY <2>3, <3>2, JoinsTeams
      <3>4. new \in Seq(AnyTeam)
        BY <3>3 DEF PartyAdded
      <3>5. ASSUME NEW team \in ToSet(new) PROVE team.parties # {}
        <4>1. PICK j \in DOMAIN new : team = new[j]
          BY DEF ToSet
        <4>2. CASE j = i
          BY <3>3, <4>1, <4>2 DEF PartyAdded
        <4>3. CASE j # i
          <5>1. j \in DOMAIN ts /\ team = ts[j]
            BY <3>3, <4>1, <4>3 DEF PartyAdded
          <5>2. team \in ToSet(ts)
            BY <5>1 DEF ToSet
          <5>3. QED
            BY <2>1, <3>2, <5>2
        <4>4. QED
          BY <4>2, <4>3
      <3>6. QED
        BY <2>1, <3>1, <3>2, <3>4, <3>5
    <2>4. QED
      BY <2>2, <2>3
  <1>6. TeamsInv'
    BY <1>5 DEF TeamsInv
  <1>7. RuleInv'
    <2>1. Warranted(session) \subseteq Warranted(session)'
      <3>1. PICK s \in Sessions : s = session
        BY <1>1
      <3>2. Warranted(s) \subseteq Warranted(s)' /\ session' = s
        BY <3>1, JoinedWarranted DEF Joins
      <3>3. Warranted(session) = Warranted(s)
        BY <3>1
      <3>4. Warranted(session)' = Warranted(s)'
        BY <3>2 DEF Warranted
      <3>5. QED
        BY <3>2, <3>3, <3>4
    <2>2. Rule' = Rule
      BY DEF Joins, Rule
    <2>3. QED
      BY <2>1, <2>2 DEF RuleInv, ValidAlliance
  <1>8. /\ updated' \in Seq(Sessions) /\ satisfied' \in Seq(Sessions)
        /\ IsInjective(updated) /\ IsInjective(satisfied)
    BY JoinedLists DEF ReportedOnce
  <1>9. /\ proposals' \in Seq(ToSet(proposals'))
        /\ Len(proposals') <= Len(updated') + Len(satisfied')
    <2>1. proposals' = <<>>
      BY DEF PoolInv, Joins
    <2>2. Len(<<>>) = 0 /\ \A S : <<>> \in Seq(S)
      BY EmptySeq
    <2>3. Len(updated') \in Nat /\ Len(satisfied') \in Nat
      BY <1>8, LenProperties
    <2>4. QED
      BY <2>1, <2>2, <2>3
  <1>10. TypeOK'
    <2>1. /\ ruleset' \in RuleSets /\ now' \in Start .. Start + TimeLimit
          /\ pc' \in {"start", "session", "ticket", "done"}
          /\ round' \subseteq Requests /\ round' = round
          /\ index' \in 0 .. Len(Backfill) /\ session' \in Sessions
          /\ DOMAIN state' = Sessions /\ visited' \subseteq Sessions
      BY DEF TypeOK, Joins
    <2>2. satisfiedTickets' \subseteq round'
      BY <1>1, <2>1 DEF Joins
    <2>3. QED
      BY <1>2, <1>3, <1>4, <1>5, <1>8, <1>9, <2>1, <2>2 DEF TypeOK
  <1>11. QED
    BY <1>6, <1>7, <1>10

-----------------------------------------------------------------------------
(* The other steps leave everybody where they are.                         *)

KeepsTeams ==
    /\ ruleset' = ruleset /\ now' \in Nat /\ now <= now'
    /\ DOMAIN state' = Sessions
    /\ \A s \in Sessions : /\ SameTeams(s)
                           /\ s \notin Reported => state'[s].attributes = state[s].attributes
    /\ UNCHANGED <<round, updated, satisfied>> /\ ToSet(pool') = ToSet(pool)

\* A session whose teams are the same has the same parties, and no fewer rules.
LEMMA KeptParties ==
    ASSUME TypeOK, KeepsTeams, NEW s \in Sessions
    PROVE  /\ state'[s].teams = state[s].teams
           /\ PartiesOf(state'[s]) = PartiesOf(state[s])
           /\ Warranted(s) \subseteq Warranted(s)'
  <1>1. state'[s].teams = state[s].teams
    BY DEF KeepsTeams, SameTeams
  <1>2. PartiesOf(state'[s]) = PartiesOf(state[s])
    BY <1>1 DEF PartiesOf
  <1>3. ruleset' = ruleset /\ now' \in Nat /\ now <= now'
    BY DEF KeepsTeams
  <1>4. PartiesOf(state[s]) \subseteq PartiesOf(state'[s])
    BY <1>2
  <1>5. Warranted(s) \subseteq Warranted(s)'
    BY <1>3, <1>4, WarrantedGrows
  <1>6. QED
    BY <1>1, <1>2, <1>5

\* So what is true of the teams stays true.
LEMMA KeptSafe ==
    ASSUME TypeOK, TeamsInv, PlacesInv, BlockedInv, KeepsTeams,
           UserInSessionOnce, SessionInRange, ReportedOnce, NoBlockedInSession
    PROVE  /\ TeamsInv' /\ PlacesInv' /\ BlockedInv'
           /\ UserInSessionOnce' /\ SessionInRange' /\ ReportedOnce' /\ NoBlockedInSession'
  <1>1. \A s \in Sessions : /\ state'[s].teams = state[s].teams
                            /\ PartiesOf(state'[s]) = PartiesOf(state[s])
                            /\ Warranted(s) \subseteq Warranted(s)'
    BY KeptParties
  <1>2. /\ ruleset' = ruleset /\ round' = round /\ updated' = updated /\ satisfied' = satisfied
        /\ ToSet(pool') = ToSet(pool) /\ Reported' = Reported
        /\ \A s \in Sessions : state'[s].queuedAt = state[s].queuedAt
        /\ \A s \in Sessions \ Reported : state'[s].attributes = state[s].attributes
    BY DEF KeepsTeams, SameTeams, Reported
  <1>3. TeamsInv'
    BY <1>1, <1>2 DEF TeamsInv
  <1>4. PlacesInv'
    <2>1. \A s \in Sessions : \A i, r : Has(s, i, r)' <=> Has(s, i, r)
      BY <1>1 DEF Has
    <2>2. ASSUME NEW r \in Requests
          PROVE  r \in round' /\ r \notin ToSet(pool')
                    <=> \E s \in Sessions : \E i \in DOMAIN state'[s].teams : Has(s, i, r)'
      <3>1. r \in round /\ r \notin ToSet(pool)
               <=> \E s \in Sessions : \E i \in DOMAIN state[s].teams : Has(s, i, r)
        BY DEF PlacesInv
      <3>2. (\E s \in Sessions : \E i \in DOMAIN state'[s].teams : Has(s, i, r)')
               <=> (\E s \in Sessions : \E i \in DOMAIN state[s].teams : Has(s, i, r))
        BY <1>1, <2>1
      <3>3. QED
        BY <1>2, <3>1, <3>2
    <2>3. ASSUME NEW r \in Requests, NEW s \in Sessions, NEW t \in Sessions,
                 NEW i \in DOMAIN state'[s].teams, NEW j \in DOMAIN state'[t].teams,
                 Has(s, i, r)', Has(t, j, r)'
          PROVE  s = t /\ i = j
      <3>1. Has(s, i, r) /\ Has(t, j, r)
        BY <2>1, <2>3
      <3>2. i \in DOMAIN state[s].teams /\ j \in DOMAIN state[t].teams
        BY <1>1
      <3>3. QED
        BY <3>1, <3>2 DEF PlacesInv
    <2>4. QED
      BY <2>2, <2>3 DEF PlacesInv
  <1>5. BlockedInv'
    <2>1. \A s \in Sessions \ Reported : BlockedBy({state'[s]}) = BlockedBy({state[s]})
      BY <1>2 DEF BlockedBy
    <2>2. QED
      BY <1>1, <1>2, <2>1 DEF BlockedInv
  <1>6. UserInSessionOnce'
    BY <1>1 DEF UserInSessionOnce
  <1>7. SessionInRange'
    <2>1. SUFFICES ASSUME NEW s \in Sessions
                   PROVE  /\ \/ Len(state'[s].teams) <= Len(Given[s].teams)
                             \/ \E rule \in Warranted(s)' : Len(state'[s].teams) <= rule.maxTeams
                          /\ \A team \in ToSet(state'[s].teams) :
                                (\E p \in team.parties : p.id \in Requests) =>
                                   \E rule \in Warranted(s)' : Headcount(team.parties) <= rule.maxPlayers
      BY DEF SessionInRange
    <2>2. /\ \/ Len(state[s].teams) <= Len(Given[s].teams)
             \/ \E rule \in Warranted(s) : Len(state[s].teams) <= rule.maxTeams
          /\ \A team \in ToSet(state[s].teams) :
                (\E p \in team.parties : p.id \in Requests) =>
                   \E rule \in Warranted(s) : Headcount(team.parties) <= rule.maxPlayers
      BY DEF SessionInRange
    <2>3. QED
      BY <1>1, <2>2
  <1>8. ReportedOnce'
    <2>1. DEFINE FullBy(rule, teams) ==
                     /\ Len(teams) = rule.maxTeams
                     /\ \A team \in ToSet(teams) : Headcount(team.parties) >= rule.maxPlayers
    <2>2. /\ IsInjective(updated) /\ IsInjective(satisfied)
          /\ \A s \in Sessions : s \in Reported <=> JoinedIn(s) # {}
          /\ \A s \in Sessions : Warranted(s) = {ruleset.alliance} =>
                /\ s \in ToSet(satisfied) => FullBy(ruleset.alliance, state[s].teams)
                /\ s \in ToSet(updated) => ~FullBy(ruleset.alliance, state[s].teams)
      BY DEF ReportedOnce
    <2>3. \A s \in Sessions : JoinedIn(s)' = JoinedIn(s)
      BY <1>1 DEF JoinedIn
    <2>4. ASSUME NEW s \in Sessions, Warranted(s)' = {ruleset.alliance}
          PROVE  /\ s \in ToSet(satisfied') => FullBy(ruleset.alliance, state'[s].teams)
                 /\ s \in ToSet(updated') => ~FullBy(ruleset.alliance, state'[s].teams)
      <3>1. HIDE DEF FullBy
      <3>2. ruleset.alliance \in Warranted(s)
        BY DEF Warranted
      <3>3. Warranted(s) = {ruleset.alliance}
        BY <1>1, <2>4, <3>2
      <3>4. /\ s \in ToSet(satisfied) => FullBy(ruleset.alliance, state[s].teams)
            /\ s \in ToSet(updated) => ~FullBy(ruleset.alliance, state[s].teams)
        BY <2>2, <3>3
      <3>5. QED
        BY <1>1, <1>2, <3>4
    <2>5. IsInjective(updated') /\ IsInjective(satisfied')
      BY <1>2, <2>2
    <2>6. \A s \in Sessions : s \in Reported' <=> JoinedIn(s)' # {}
      BY <1>2, <2>2, <2>3
    <2>7. QED
      BY <1>2, <2>4, <2>5, <2>6 DEF ReportedOnce
  <1>9. NoBlockedInSession'
    BY <1>1, <1>2 DEF NoBlockedInSession
  <1>10. QED
    BY <1>3, <1>4, <1>5, <1>6, <1>7, <1>8, <1>9

\* Refusing a ticket, or finding no team for it, is such a step.
LEMMA RefreshedKeeps ==
    ASSUME TypeOK, RuleInv, TeamsInv, Refuse \/ NoTeam
    PROVE  KeepsTeams
  <1>1. /\ session \in Sessions /\ now \in Nat
        /\ UNCHANGED <<ruleset, now, round, pool, updated, satisfied>>
    BY BackfillAssumption DEF TypeOK, Refuse, NoTeam, callVars, outVars
  <1>2. \A s \in Sessions :
           /\ DOMAIN Refreshed[s] = DOMAIN state[s]
           /\ Refreshed[s].teams = state[s].teams /\ Refreshed[s].id = state[s].id
           /\ Refreshed[s].queuedAt = state[s].queuedAt
           /\ s \notin Reported => Refreshed[s] = state[s]
    BY RefreshedFields
  <1>3. DOMAIN Refreshed = Sessions
    BY DEF Refreshed
  <1>4. CASE Refuse
    <2>1. state' = Refreshed
      BY <1>4 DEF Refuse
    <2>2. QED
      BY <1>1, <1>2, <1>3, <2>1 DEF KeepsTeams, SameTeams
  <1>5. CASE NoTeam
    <2>1. state' = [Refreshed EXCEPT ![session].teams = state[session].teams]
      BY <1>5, OpenedCleaned DEF NoTeam
    <2>2. DOMAIN state' = Sessions /\ \A s \in Sessions : s # session => state'[s] = Refreshed[s]
      BY <1>3, <2>1
    <2>3. PICK old : old = Refreshed[session]
      OBVIOUS
    <2>4. state'[session] = [old EXCEPT !.teams = state[session].teams]
      BY <1>1, <1>3, <2>1, <2>3
    <2>5. "teams" \in DOMAIN old
      <3>1. DOMAIN old = DOMAIN state[session] /\ DOMAIN state[session] = DOMAIN Given[session]
        BY <1>1, <1>2, <2>3 DEF TypeOK
      <3>2. QED
        BY <1>1, <3>1, GivenFields
    <2>6. /\ DOMAIN state'[session] = DOMAIN old /\ state'[session].id = old.id
          /\ state'[session].queuedAt = old.queuedAt
          /\ state'[session].attributes = old.attributes
          /\ state'[session].teams = state[session].teams
      BY <2>4, <2>5
    <2>7. ASSUME NEW s \in Sessions
          PROVE  SameTeams(s) /\ (s \notin Reported => state'[s].attributes = state[s].attributes)
      <3>1. CASE s = session
        BY <1>2, <2>3, <2>6, <3>1 DEF SameTeams
      <3>2. CASE s # session
        BY <1>2, <2>2, <3>2 DEF SameTeams
      <3>3. QED
        BY <3>1, <3>2
    <2>8. QED
      BY <1>1, <2>2, <2>7 DEF KeepsTeams
  <1>6. QED
    BY <1>4, <1>5

-----------------------------------------------------------------------------
(* The invariant holds.                                                    *)

\* At first nobody has joined, and the backfill tickets are as they were given.
LEMMA InitInvariant ==
    ASSUME Init
    PROVE  IInv
  <1>1. /\ ruleset \in RuleSets /\ now = Start /\ pc = "start"
        /\ round \subseteq Requests /\ pool \in SetToSeqs(round)
        /\ sessions = [i \in Sessions |-> i] /\ count = Len(Backfill)
        /\ index = 0 /\ session = 1 /\ active = ruleset /\ visited = {}
        /\ candidates = <<>> /\ state = Given
        /\ updated = <<>> /\ satisfied = <<>> /\ satisfiedTickets = {} /\ proposals = <<>>
    BY DEF Init
  <1>2. pool \in Seq(round) /\ IsInjective(pool) /\ ToSet(pool) = round
    <2>1. IsFiniteSet(round)
      BY <1>1, BackfillAssumption, FS_Subset
    <2>2. QED
      BY <1>1, <2>1, SetToSeqsProperties
  <1>3. ToSet(<<>>) = {} /\ IsInjective(<<>>) /\ Len(<<>>) = 0 /\ \A S : <<>> \in Seq(S)
    BY ToSetEmpty, EmptySeq
  <1>4. DOMAIN state = Sessions
    BY <1>1 DEF Given
  <1>5. ASSUME NEW s \in Sessions
        PROVE  /\ DOMAIN state[s] = DOMAIN Given[s] /\ state[s].id = Backfill[s].id
               /\ state[s].teams \in Seq(AnyTeam)
               /\ state[s].queuedAt = Backfill[s].createdAt
               /\ \A team \in ToSet(state[s].teams) : team.parties # {}
               /\ \A p \in PartiesOf(state[s]) :
                     /\ p.id \notin Requests
                     /\ Values(p.attributes, "blocked_players")
                           \subseteq Values(state[s].attributes, "blocked_players")
    <2>1. /\ Given[s].id = Backfill[s].id /\ Given[s].queuedAt = Backfill[s].createdAt
          /\ \A team \in ToSet(Given[s].teams) :
                /\ team.parties # {}
                /\ \A p \in team.parties :
                      /\ p.id \notin Requests
                      /\ BlockedBy({p}) \subseteq Values(Given[s].attributes, "blocked_players")
      BY GivenFields
    <2>2. Given[s].teams \in Seq(AnyTeam)
      BY GivenType
    <2>3. ASSUME NEW p \in PartiesOf(Given[s])
          PROVE  /\ p.id \notin Requests
                 /\ Values(p.attributes, "blocked_players")
                       \subseteq Values(Given[s].attributes, "blocked_players")
      <3>1. PICK team \in ToSet(Given[s].teams) : p \in team.parties
        BY DEF PartiesOf
      <3>2. BlockedBy({p}) = Values(p.attributes, "blocked_players")
        BY DEF BlockedBy
      <3>3. QED
        BY <2>1, <3>1, <3>2
    <2>4. QED
      BY <1>1, <2>1, <2>2, <2>3
  <1>6. Reported = {} /\ \A s \in Sessions : JoinedIn(s) = {}
    <2>1. \A s \in Sessions : \A p \in PartiesOf(state[s]) : p.id \notin Requests
      BY <1>5
    <2>2. QED
      BY <1>1, <1>3, <2>1 DEF Reported, JoinedIn
  <1>7. TypeOK
    <2>1. /\ now \in Start .. Start + TimeLimit /\ pc \in {"start", "session", "ticket", "done"}
          /\ count \in 0 .. Len(Backfill) /\ index \in 0 .. Len(Backfill) /\ session \in Sessions
          /\ sessions \in [Sessions -> Sessions]
      BY <1>1, SessionsType, BackfillAssumption
    <2>2. candidates \in Seq(ToSet(pool)) /\ IsInjective(candidates)
      BY <1>1, <1>3
    <2>3. /\ updated \in Seq(Sessions) /\ satisfied \in Seq(Sessions)
          /\ proposals \in Seq(ToSet(proposals)) /\ Len(proposals) <= Len(updated) + Len(satisfied)
      BY <1>1, <1>3
    <2>4. QED
      BY <1>1, <1>2, <1>4, <1>5, <2>1, <2>2, <2>3 DEF TypeOK
  <1>8. PoolInv
    BY <1>1, <1>2 DEF PoolInv
  <1>9. TeamsInv
    BY <1>5 DEF TeamsInv
  <1>10. PlacesInv
    <2>1. ASSUME NEW s \in Sessions, NEW i, NEW r \in Requests PROVE ~Has(s, i, r)
      <3>1. SUFFICES ASSUME Has(s, i, r) PROVE FALSE
        OBVIOUS
      <3>2. PICK p \in state[s].teams[i].parties : i \in DOMAIN state[s].teams /\ p.id = r
        BY <3>1 DEF Has
      <3>3. p \in PartiesOf(state[s])
        BY <3>2, PartiesOfTeams
      <3>4. QED
        BY <1>5, <3>2, <3>3
    <2>2. QED
      BY <1>2, <2>1 DEF PlacesInv
  <1>11. RuleInv
    <2>1. Rule = ruleset.alliance /\ ValidAlliance(ruleset.alliance)
      BY <1>1, RuleSetFields DEF Rule
    <2>2. ruleset.alliance \in Warranted(session)
      BY DEF Warranted
    <2>3. QED
      BY <2>1, <2>2 DEF RuleInv
  <1>12. BlockedInv
    <2>1. ASSUME NEW s \in Sessions
          PROVE  BlockedBy(PartiesOf(state[s])) \subseteq BlockedBy({state[s]})
      <3>1. BlockedBy({state[s]}) = Values(state[s].attributes, "blocked_players")
        BY DEF BlockedBy
      <3>2. \A p \in PartiesOf(state[s]) :
               Values(p.attributes, "blocked_players") \subseteq Values(state[s].attributes, "blocked_players")
        BY <1>5
      <3>3. QED
        BY <3>1, <3>2 DEF BlockedBy
    <2>2. QED
      BY <2>1 DEF BlockedInv
  <1>13. UserInSessionOnce /\ NoBlockedInSession
    <2>1. \A s \in Sessions : \A p \in PartiesOf(state[s]) : p.id \notin Requests
      BY <1>5
    <2>2. QED
      BY <2>1 DEF UserInSessionOnce, NoBlockedInSession
  <1>14. SessionInRange
    <2>1. ASSUME NEW s \in Sessions
          PROVE  Len(state[s].teams) <= Len(Given[s].teams)
      <3>1. Len(Given[s].teams) \in Nat
        BY GivenType, LenProperties
      <3>2. QED
        BY <1>1, <3>1
    <2>2. ASSUME NEW s \in Sessions, NEW team \in ToSet(state[s].teams), NEW p \in team.parties
          PROVE  p.id \notin Requests
      <3>1. p \in PartiesOf(state[s])
        BY DEF PartiesOf
      <3>2. QED
        BY <1>5, <3>1
    <2>3. QED
      BY <2>1, <2>2 DEF SessionInRange
  <1>15. ReportedOnce
    BY <1>1, <1>3, <1>6 DEF ReportedOnce
  <1>16. QED
    BY <1>7, <1>8, <1>9, <1>10, <1>11, <1>12, <1>13, <1>14, <1>15 DEF IInv

\* Steps that leave the sessions alone leave everybody where they are.
LEMMA OthersKeep ==
    ASSUME TypeOK,
           \/ ReturnEarly \/ Begin \/ Visit \/ AllVisited \/ CandidatesEnd \/ TimeIsUp
           \/ Skip \/ Propose \/ Tick \/ Finished
    PROVE  KeepsTeams
  <1>1. now \in Nat /\ DOMAIN state = Sessions
    BY BackfillAssumption DEF TypeOK
  <1>2. /\ UNCHANGED <<ruleset, round, state, updated, satisfied>>
        /\ now' = now \/ now' = now + 1
    BY DEF ReturnEarly, Begin, Visit, AllVisited, CandidatesEnd, TimeIsUp, Skip, Propose, Tick,
           Finished, callVars, outVars, vars
  <1>3. ToSet(pool') = ToSet(pool)
    <2>1. CASE pool' = pool
      BY <2>1
    <2>2. CASE pool' \in LargestFirst(ToSet(pool))
      <3>1. IsFiniteSet(ToSet(pool))
        BY ToSetType DEF TypeOK
      <3>2. pool' \in SetToSeqs(ToSet(pool))
        BY <2>2 DEF LargestFirst
      <3>3. QED
        BY <3>1, <3>2, SetToSeqsProperties
    <2>3. pool' = pool \/ pool' \in LargestFirst(ToSet(pool))
      BY DEF ReturnEarly, Begin, Visit, AllVisited, CandidatesEnd, TimeIsUp, Skip, Propose, Tick,
             Finished, vars
    <2>4. QED
      BY <2>1, <2>2, <2>3
  <1>4. now' \in Nat /\ now <= now'
    BY <1>1, <1>2
  <1>5. QED
    BY <1>1, <1>2, <1>3, <1>4 DEF KeepsTeams, SameTeams

\* All steps but joining keep the types, the tickets that joined and the rule.
LEMMA KeptType ==
    ASSUME TypeOK, PoolInv, TeamsInv, RuleInv, KeepsTeams,
           \/ ReturnEarly \/ Begin \/ Visit \/ AllVisited \/ CandidatesEnd \/ TimeIsUp
           \/ Skip \/ Propose \/ Tick \/ Finished \/ Refuse \/ NoTeam
    PROVE  TypeOK' /\ PoolInv' /\ RuleInv'
  <1>1. /\ ruleset \in RuleSets /\ round \subseteq Requests
        /\ now \in Start .. Start + TimeLimit /\ Start \in Nat /\ TimeLimit \in Nat
        /\ pc \in {"start", "session", "ticket", "done"}
        /\ pool \in Seq(round) /\ IsInjective(pool)
        /\ sessions \in [Sessions -> Sessions] /\ count \in 0 .. Len(Backfill)
        /\ index \in 0 .. Len(Backfill) /\ session \in Sessions /\ visited \subseteq Sessions
        /\ candidates \in Seq(ToSet(pool)) /\ IsInjective(candidates)
        /\ updated \in Seq(Sessions) /\ satisfied \in Seq(Sessions)
        /\ satisfiedTickets \subseteq round
        /\ proposals \in Seq(ToSet(proposals)) /\ Len(proposals) <= Len(updated) + Len(satisfied)
    BY BackfillAssumption DEF TypeOK
  <1>2. /\ UNCHANGED <<ruleset, round, sessions, count, updated, satisfied, satisfiedTickets>>
        /\ pool' = pool \/ (pool' \in LargestFirst(ToSet(pool)) /\ candidates' = candidates)
        /\ now' = now \/ (now < Start + TimeLimit /\ now' = now + 1)
        /\ \/ UNCHANGED <<index, session, active, visited>> /\ ~Visit
           \/ Visit
        /\ \/ candidates' = candidates
           \/ candidates # <<>> /\ candidates' = Tail(candidates)
           \/ Visit
        /\ pc' \in {"start", "session", "ticket", "done"}
        /\ proposals' = proposals \/ Propose
        /\ pc # "done" => proposals' = proposals
        /\ pc = "done" => pc' = "done"
    <2>1. CASE ReturnEarly \/ AllVisited \/ CandidatesEnd \/ TimeIsUp
      BY <2>1 DEF ReturnEarly, AllVisited, CandidatesEnd, TimeIsUp, Visit,
                  callVars, listVars, visitVars, outVars
    <2>2. CASE Begin
      BY <2>2 DEF Begin, Visit, callVars, listVars, visitVars, outVars
    <2>3. CASE Visit
      BY <2>3 DEF Visit, callVars, outVars
    <2>4. CASE Skip \/ Refuse \/ NoTeam
      BY <1>1, <2>4 DEF Skip, Refuse, NoTeam, Agreed, Considering, Visit,
                  callVars, listVars, visitVars, outVars
    <2>5. CASE Propose
      BY <1>1, <2>5 DEF Propose, Visit, callVars, listVars, visitVars
    <2>6. CASE Tick
      BY <1>1, <2>6 DEF Tick, Visit, callVars, listVars, visitVars, outVars
    <2>7. CASE Finished
      <3>1. UNCHANGED <<ruleset, round, sessions, count, updated, satisfied, satisfiedTickets,
                        pool, now, index, session, active, visited, candidates, pc, proposals>>
        BY <2>7 DEF Finished, vars, callVars, listVars, visitVars, outVars
      <3>2. ~Visit
        BY <2>7 DEF Visit, Finished, AllSent
      <3>3. QED
        BY <1>1, <3>1, <3>2
    <2>8. QED
      BY <2>1, <2>2, <2>3, <2>4, <2>5, <2>6, <2>7
  <1>3. pool' \in Seq(round) /\ IsInjective(pool') /\ ToSet(pool') = ToSet(pool)
    <2>1. CASE pool' = pool
      BY <1>1, <2>1
    <2>2. CASE pool' \in LargestFirst(ToSet(pool))
      <3>1. IsFiniteSet(ToSet(pool)) /\ ToSet(pool) \subseteq round
        BY <1>1, ToSetType
      <3>2. pool' \in SetToSeqs(ToSet(pool))
        BY <2>2 DEF LargestFirst
      <3>3. pool' \in Seq(ToSet(pool)) /\ IsInjective(pool') /\ ToSet(pool') = ToSet(pool)
        BY <3>1, <3>2, SetToSeqsProperties
      <3>4. QED
        BY <3>1, <3>3, SeqMonotonic
    <2>3. QED
      BY <1>2, <2>1, <2>2
  <1>4. ASSUME Visit
        PROVE  /\ index' \in 0 .. Len(Backfill) /\ session' \in Sessions /\ visited' \subseteq Sessions
               /\ candidates' \in Seq(ToSet(pool)) /\ IsInjective(candidates')
               /\ active' = ActiveRuleSet(ruleset, OldestTicketTimestamp(state[session']), now)
               /\ now' = now
    <2>1. index < Len(Backfill) /\ index' = index + 1 /\ session' = sessions[index + 1]
      BY <1>4 DEF Visit
    <2>2. index + 1 \in Sessions
      BY <1>1, <2>1, SessionsType
    <2>3. session' \in Sessions /\ index' \in 0 .. Len(Backfill)
      <3>1. session' \in Sessions
        BY <1>1, <2>1, <2>2
      <3>2. Len(Backfill) \in Nat
        BY SessionsType
      <3>3. index' \in 0 .. Len(Backfill)
        BY <1>1, <2>1, <3>2
      <3>4. QED
        BY <3>1, <3>3
    <2>4. visited' \subseteq Sessions
      BY <1>1, <1>4, <2>3 DEF Visit
    <2>5. PICK sess, rs : sess = state[session']
                  /\ rs = ActiveRuleSet(ruleset, OldestTicketTimestamp(sess), now)
      OBVIOUS
    <2>6. active' = rs /\ \E accepted \in SessionCandidates(sess, rs) :
             candidates' \in SearchOrders(accepted, rs, sess.region)
      BY <1>4, <2>5 DEF Visit
    <2>7. PICK accepted \in SessionCandidates(sess, rs) :
             candidates' \in SearchOrders(accepted, rs, sess.region)
      BY <2>6
    <2>8. accepted \subseteq ToSet(pool)
      BY DEF SessionCandidates
    <2>9. IsFiniteSet(accepted)
      BY <1>1, <2>8, ToSetType, FS_Subset
    <2>10. candidates' \in SetToSeqs(accepted)
      BY <2>7 DEF SearchOrders
    <2>11. candidates' \in Seq(accepted) /\ IsInjective(candidates')
      BY <2>9, <2>10, SetToSeqsProperties
    <2>12. candidates' \in Seq(ToSet(pool))
      BY <2>8, <2>11, SeqMonotonic
    <2>13. now' = now
      BY <1>4 DEF Visit, callVars
    <2>14. QED
      BY <2>3, <2>4, <2>5, <2>6, <2>11, <2>12, <2>13
  <1>5. candidates' \in Seq(ToSet(pool')) /\ IsInjective(candidates')
    <2>1. CASE candidates # <<>> /\ candidates' = Tail(candidates)
      BY <1>1, <1>3, <2>1, InjectiveTail
    <2>2. QED
      BY <1>1, <1>2, <1>3, <1>4, <2>1
  <1>6. proposals' \in Seq(ToSet(proposals')) /\ Len(proposals') <= Len(updated') + Len(satisfied')
    <2>1. CASE proposals' = proposals
      BY <1>1, <1>2, <2>1
    <2>2. CASE Propose
      <3>1. Len(updated \o satisfied) = Len(updated) + Len(satisfied)
        BY <1>1, ConcatProperties
      <3>2. Len(proposals) < Len(updated \o satisfied) /\ \E x : proposals' = Append(proposals, x)
        BY <2>2 DEF Propose
      <3>3. PICK x : proposals' = Append(proposals, x)
        BY <3>2
      <3>4. /\ proposals' \in Seq(ToSet(proposals')) /\ Len(proposals) \in Nat
            /\ Len(proposals') = Len(proposals) + 1
        BY <1>1, <3>3, AppendAny
      <3>5. Len(updated) \in Nat /\ Len(satisfied) \in Nat
        BY <1>1, LenProperties
      <3>6. QED
        BY <1>2, <3>1, <3>2, <3>4, <3>5
    <2>3. QED
      BY <1>2, <2>1, <2>2
  <1>7. ASSUME NEW s \in Sessions
        PROVE  /\ DOMAIN state'[s] = DOMAIN Given[s] /\ state'[s].id = Backfill[s].id
               /\ state'[s].teams \in Seq(AnyTeam)
    BY DEF TypeOK, KeepsTeams, SameTeams
  <1>8. TypeOK'
    <2>1. now' \in Start .. Start + TimeLimit
      BY <1>1, <1>2
    <2>2. index' \in 0 .. Len(Backfill) /\ session' \in Sessions /\ visited' \subseteq Sessions
      BY <1>1, <1>2, <1>4
    <2>3. DOMAIN state' = Sessions
      BY DEF KeepsTeams
    <2>4. QED
      BY <1>1, <1>2, <1>3, <1>5, <1>6, <1>7, <2>1, <2>2, <2>3 DEF TypeOK
  <1>9. PoolInv'
    BY <1>2, <1>3 DEF PoolInv
  <1>10. RuleInv'
    <2>1. CASE UNCHANGED <<session, active>>
      <3>1. PICK s \in Sessions : s = session
        BY <1>1
      <3>2. Warranted(s) \subseteq Warranted(s)' /\ session' = s
        BY <2>1, <3>1, KeptParties
      <3>3. Warranted(session)' = Warranted(s)'
        BY <3>2 DEF Warranted
      <3>4. Rule' = Rule /\ Rule \in Warranted(s) /\ ValidAlliance(Rule)
        BY <2>1, <3>1 DEF Rule, RuleInv
      <3>5. QED
        BY <3>2, <3>3, <3>4 DEF RuleInv
    <2>2. CASE Visit
      <3>1. PICK s \in Sessions : s = session'
        BY <1>4, <2>2
      <3>2. PICK rule : rule = ActiveRuleSet(ruleset, OldestTicketTimestamp(state[s]), now).alliance
        OBVIOUS
      <3>3. Rule' = rule
        BY <1>4, <2>2, <3>1, <3>2 DEF Rule
      <3>4. rule \in Warranted(s) /\ ValidAlliance(rule)
        BY <3>2, ActiveWarranted
      <3>5. Warranted(s) \subseteq Warranted(s)'
        BY KeptParties
      <3>6. Warranted(session)' = Warranted(s)'
        BY <3>1 DEF Warranted
      <3>7. QED
        BY <3>3, <3>4, <3>5, <3>6 DEF RuleInv
    <2>3. QED
      BY <1>2, <2>1, <2>2
  <1>11. QED
    BY <1>8, <1>9, <1>10

\* A ticket that joins, and any other step, keeps the invariant.
LEMMA NextInvariant ==
    ASSUME IInv, [Next]_vars
    PROVE  IInv'
  <1>1. /\ TypeOK /\ PoolInv /\ TeamsInv /\ PlacesInv /\ RuleInv /\ BlockedInv
        /\ UserInSessionOnce /\ SessionInRange /\ ReportedOnce /\ NoBlockedInSession
    BY DEF IInv
  <1>2. CASE JoinTeam
    <2>1. PICK r \in round : \E i : Joins(r, i)
      BY <1>1, <1>2, JoinTeamJoins
    <2>2. PICK i : Joins(r, i)
      BY <2>1
    <2>3. r \in Requests /\ pc = "ticket"
      BY <1>1, <1>2 DEF TypeOK, JoinTeam, Agreed, Considering
    <2>4. TypeOK' /\ TeamsInv' /\ RuleInv'
      BY <1>1, <2>2, <2>3, JoinedType
    <2>5. PoolInv' /\ PlacesInv'
      BY <1>1, <2>2, <2>3, JoinedPlaces
    <2>6. BlockedInv' /\ NoBlockedInSession'
      BY <1>1, <2>2, <2>3, JoinedBlocked
    <2>7. UserInSessionOnce' /\ SessionInRange' /\ ReportedOnce'
      BY <1>1, <2>2, <2>3, JoinedUsers, JoinedRange, JoinedReported
    <2>8. QED
      BY <2>4, <2>5, <2>6, <2>7 DEF IInv
  <1>3. ASSUME KeepsTeams,
               \/ ReturnEarly \/ Begin \/ Visit \/ AllVisited \/ CandidatesEnd \/ TimeIsUp
               \/ Skip \/ Propose \/ Tick \/ Finished \/ Refuse \/ NoTeam
        PROVE  IInv'
    <2>1. TypeOK' /\ PoolInv' /\ RuleInv'
      BY <1>1, <1>3, KeptType
    <2>2. /\ TeamsInv' /\ PlacesInv' /\ BlockedInv'
          /\ UserInSessionOnce' /\ SessionInRange' /\ ReportedOnce' /\ NoBlockedInSession'
      BY <1>1, <1>3, KeptSafe
    <2>3. QED
      BY <2>1, <2>2 DEF IInv
  <1>4. CASE Refuse \/ NoTeam
    BY <1>1, <1>3, <1>4, RefreshedKeeps
  <1>5. CASE \/ ReturnEarly \/ Begin \/ Visit \/ AllVisited \/ CandidatesEnd \/ TimeIsUp
             \/ Skip \/ Propose \/ Tick \/ Finished
    BY <1>1, <1>3, <1>5, OthersKeep
  <1>6. CASE UNCHANGED vars
    <2>1. UNCHANGED <<ruleset, now, round, pc, pool, sessions, count, index, session, active, visited,
                      candidates, state, updated, satisfied, satisfiedTickets, proposals>>
      BY <1>6 DEF vars, callVars, listVars, visitVars, outVars
    <2>2. now \in Nat /\ DOMAIN state = Sessions
      BY <1>1, BackfillAssumption DEF TypeOK
    <2>3. KeepsTeams
      BY <2>1, <2>2 DEF KeepsTeams, SameTeams
    <2>4. /\ TeamsInv' /\ PlacesInv' /\ BlockedInv'
          /\ UserInSessionOnce' /\ SessionInRange' /\ ReportedOnce' /\ NoBlockedInSession'
      BY <1>1, <2>3, KeptSafe
    <2>5. TypeOK'
      BY <1>1, <2>1 DEF TypeOK
    <2>6. PoolInv'
      BY <1>1, <2>1 DEF PoolInv
    <2>7. RuleInv'
      BY <1>1, <2>1 DEF RuleInv, Rule, Warranted
    <2>8. QED
      BY <2>4, <2>5, <2>6, <2>7 DEF IInv
  <1>7. QED
    BY <1>2, <1>4, <1>5, <1>6 DEF Next

-----------------------------------------------------------------------------
(* What else is true of the sessions: of their attributes and of the       *)
(* candidates found for them.                                              *)

\* What a session has for an option by now.
Carries(s, o) == Values(state[s].attributes, o)

\* Flexing does not touch the options.
FlexInv == active.options = ruleset.options /\ active.anyCommon = ruleset.anyCommon

\* A session keeps its region, and every attribute that is neither an option nor the
\* list of blocked players.
SessionInv ==
    \A s \in Sessions :
        /\ state[s].region = Given[s].region
        /\ \A k \in DOMAIN Backfill[s].attributes :
              /\ k \in DOMAIN state[s].attributes
              /\ k \notin DOMAIN ruleset.options \cup {"blocked_players"} =>
                    state[s].attributes[k] = Backfill[s].attributes[k]
        /\ \A k \in DOMAIN state[s].attributes :
              k \in DOMAIN ruleset.options \cup {"blocked_players"} \cup DOMAIN Backfill[s].attributes

\* What a session has for an option: what it had, for type unique together with what
\* those who joined have, and for type any no more than that, and only what is common
\* to them if it must be.
OptionHeld(s, o, has, joined) ==
    LET type == ruleset.options[o]
    IN  /\ type = "all" => has = Had(s, o)
        /\ type = "unique" => has = Had(s, o) \cup UNION {Its(r, o) : r \in joined}
        /\ type = "any" => has \subseteq Had(s, o)
        /\ type = "any" /\ ruleset.anyCommon /\ ~CrossPlayed(s, o)
           /\ o \in DOMAIN Backfill[s].attributes /\ joined # {} =>
              has # {} /\ \A r \in joined : has \subseteq Its(r, o)

\* Every option a session is checked for is held by it like that.
OptionsInv == \A s \in Sessions : \A o \in Agreeing : OptionHeld(s, o, Carries(s, o), JoinedIn(s))

\* What everybody of some tickets shares with a session now.
AllShare(s, o, S) == \E v \in Carries(s, o) : \A r \in S : v \in Its(r, o)

\* Tickets fit the session they were found for, and agree with it and with each other
\* in every option of type any.
Found(s, S) ==
    /\ \A r \in S : \A k \in Compared(s) : FitsIn(r, s, k)
    /\ \A o \in Agreeing : ruleset.options[o] = "any" =>
          /\ AnyFits(s, o, S)
          /\ ruleset.anyCommon /\ ~CrossPlayed(s, o)
             /\ o \in DOMAIN Backfill[s].attributes /\ S # {} => AllShare(s, o, S)

\* Candidates do.
CandidatesInv == pc = "ticket" => Found(session, ToSet(candidates))

\* The inductive invariant of options, regions and attributes.
FitInv ==
    /\ FlexInv /\ SessionInv /\ OptionsInv /\ CandidatesInv
    /\ SessionOptionsAgree /\ JoinedTicketsFit

\* Attributes whose list of blocked players may be another one.
Relisted(old, new) ==
    /\ DOMAIN old \subseteq DOMAIN new
    /\ DOMAIN new \subseteq DOMAIN old \cup {"blocked_players"}
    /\ \A k \in DOMAIN old \ {"blocked_players"} : new[k] = old[k]

\* A new list leaves the other values as they are.
LEMMA RelistedValues ==
    ASSUME NEW old, NEW new, Relisted(old, new), NEW k, k # "blocked_players"
    PROVE  Values(new, k) = Values(old, k)
  BY DEF Relisted, Values

\* That is what looking for blocked players does.
LEMMA ListedAttributes ==
    ASSUME NEW sess, {"attributes", "region"} \subseteq DOMAIN sess
    PROVE  LET new == UpdateBlockedPlayerInSession(sess) IN
           new.region = sess.region /\ Relisted(sess.attributes, new.attributes)
  <1>1. PICK new, list :
           /\ new = UpdateBlockedPlayerInSession(sess) /\ list = BlockedBy(PartiesOf(sess))
    OBVIOUS
  <1>2. new = [sess EXCEPT !.attributes = Listing(sess.attributes, list)]
    BY <1>1 DEF UpdateBlockedPlayerInSession
  <1>3. new.region = sess.region /\ new.attributes = Listing(sess.attributes, list)
    BY <1>2
  <1>4. Relisted(sess.attributes, new.attributes)
    BY <1>3 DEF Relisted, Listing
  <1>5. QED
    BY <1>1, <1>3, <1>4

\* It is done to some sessions before a ticket is looked at.
LEMMA RefreshedAttributes ==
    ASSUME TypeOK, NEW s \in Sessions
    PROVE  /\ DOMAIN Refreshed = Sessions
           /\ Refreshed[s].region = state[s].region
           /\ Relisted(state[s].attributes, Refreshed[s].attributes)
  <1>1. {"attributes", "region"} \subseteq DOMAIN state[s]
    <2>1. DOMAIN state[s] = DOMAIN Given[s]
      BY DEF TypeOK
    <2>2. QED
      BY <2>1, GivenFields
  <1>2. /\ DOMAIN Refreshed = Sessions
        /\ Refreshed[s] = IF s \in Reported THEN UpdateBlockedPlayerInSession(state[s]) ELSE state[s]
    BY DEF Refreshed
  <1>3. CASE s \notin Reported
    BY <1>2, <1>3 DEF Relisted
  <1>4. CASE s \in Reported
    <2>1. PICK new : new = UpdateBlockedPlayerInSession(state[s])
      OBVIOUS
    <2>2. new.region = state[s].region /\ Relisted(state[s].attributes, new.attributes)
      BY <1>1, <2>1, ListedAttributes
    <2>3. QED
      BY <1>2, <1>4, <2>1, <2>2
  <1>5. QED
    BY <1>3, <1>4

\* A ticket's options may be merged into attributes of which only the list of blocked
\* players had been changed, and that may be changed again.
MergedInto(old, ticket, rs, new) ==
    \E a : Relisted(old, a) /\ Relisted(JoinedAttributes(a, ticket, rs), new)

\* The attributes of the sessions after a ticket joined one.
LEMMA JoinTeamAttributes ==
    ASSUME TypeOK, TeamsInv, RuleInv, JoinTeam, NEW s \in Sessions
    PROVE  /\ state'[s].region = state[s].region
           /\ s # session => Relisted(state[s].attributes, state'[s].attributes)
           /\ s = session =>
                 MergedInto(state[s].attributes, Candidate.attributes, active, state'[s].attributes)
  <1>1. PICK i \in Places :
           IF Full(TeamsWith(i)) THEN FillSession(Joined(i)) ELSE UpdateSession(Joined(i))
    BY DEF JoinTeam
  <1>2. PICK old : old = Refreshed[session]
    OBVIOUS
  <1>3. /\ session \in Sessions /\ DOMAIN Refreshed = Sessions
        /\ old.region = state[session].region
        /\ Relisted(state[session].attributes, old.attributes)
    BY <1>2, RefreshedAttributes DEF TypeOK
  <1>4. {"attributes", "region", "teams", "values"} \subseteq DOMAIN old
    <2>1. DOMAIN old = DOMAIN state[session]
      BY <1>2, <1>3, RefreshedFields
    <2>2. DOMAIN state[session] = DOMAIN Given[session]
      BY <1>3 DEF TypeOK
    <2>3. QED
      BY <1>3, <2>1, <2>2, GivenFields
  <1>5. PICK a, ts, v, sess :
           /\ a = JoinedAttributes(old.attributes, Candidate.attributes, active)
           /\ ts = NotEmpty(TeamsWith(i)) /\ v = JoinedValues(old)
           /\ sess = Joined(i)
    OBVIOUS
  <1>6. sess = [old EXCEPT !.teams = ts, !.attributes = a, !.values = v]
    BY <1>2, <1>5 DEF Joined
  <1>7. /\ sess.region = old.region /\ sess.attributes = a
        /\ {"attributes", "region"} \subseteq DOMAIN sess
    BY <1>4, <1>6
  <1>8. PICK new : /\ state' = [Refreshed EXCEPT ![session] = new]
                   /\ new.region = sess.region /\ Relisted(a, new.attributes)
    <2>1. CASE Full(TeamsWith(i))
      <3>1. state' = [Refreshed EXCEPT ![session] = sess]
        BY <1>1, <1>5, <2>1 DEF FillSession
      <3>2. Relisted(a, sess.attributes)
        BY <1>7 DEF Relisted
      <3>3. QED
        BY <3>1, <3>2
    <2>2. CASE ~Full(TeamsWith(i))
      <3>1. PICK listed : listed = UpdateBlockedPlayerInSession(sess)
        OBVIOUS
      <3>2. listed.region = sess.region /\ Relisted(sess.attributes, listed.attributes)
        BY <1>7, <3>1, ListedAttributes
      <3>3. state' = [Refreshed EXCEPT ![session] = listed]
        BY <1>1, <1>5, <2>2, <3>1 DEF UpdateSession
      <3>4. QED
        BY <1>7, <3>2, <3>3
    <2>3. QED
      BY <2>1, <2>2
  <1>9. CASE s # session
    <2>1. state'[s] = Refreshed[s]
      BY <1>3, <1>8, <1>9
    <2>2. QED
      BY <1>9, <2>1, RefreshedAttributes
  <1>10. CASE s = session
    <2>1. state'[s] = new
      BY <1>3, <1>8, <1>10
    <2>2. MergedInto(state[s].attributes, Candidate.attributes, active, new.attributes)
      BY <1>3, <1>5, <1>8, <1>10 DEF MergedInto
    <2>3. QED
      BY <1>3, <1>7, <1>8, <1>10, <2>1, <2>2
  <1>11. QED
    BY <1>9, <1>10

\* After any other step only lists of blocked players are different.
LEMMA OthersRelist ==
    ASSUME TypeOK, [Next]_vars, ~JoinTeam, NEW s \in Sessions
    PROVE  state'[s].region = state[s].region /\ Relisted(state[s].attributes, state'[s].attributes)
  <1>1. CASE state' = state
    BY <1>1 DEF Relisted
  <1>2. CASE Refuse
    <2>1. state' = Refreshed
      BY <1>2 DEF Refuse
    <2>2. QED
      BY <2>1, RefreshedAttributes
  <1>3. CASE NoTeam
    <2>1. PICK ts, old : ts = NotEmpty(Opened) /\ old = Refreshed[session]
      OBVIOUS
    <2>2. session \in Sessions /\ DOMAIN Refreshed = Sessions
      BY RefreshedAttributes DEF TypeOK
    <2>3. state' = [Refreshed EXCEPT ![session].teams = ts]
      BY <1>3, <2>1 DEF NoTeam
    <2>4. state'[session] = [old EXCEPT !.teams = ts] /\ (s # session => state'[s] = Refreshed[s])
      BY <2>1, <2>2, <2>3
    <2>5. {"attributes", "region"} \subseteq DOMAIN old
      <3>1. DOMAIN old = DOMAIN state[session] /\ DOMAIN state[session] = DOMAIN Given[session]
        BY <2>1, <2>2, RefreshedFields DEF TypeOK
      <3>2. QED
        BY <2>2, <3>1, GivenFields
    <2>6. state'[session].attributes = old.attributes /\ state'[session].region = old.region
      BY <2>4, <2>5
    <2>7. state'[s].attributes = Refreshed[s].attributes /\ state'[s].region = Refreshed[s].region
      BY <2>1, <2>4, <2>6
    <2>8. QED
      BY <2>7, RefreshedAttributes
  <1>4. QED
    BY <1>1, <1>2, <1>3 DEF Next, ReturnEarly, Begin, Visit, AllVisited, CandidatesEnd, TimeIsUp, Skip,
                            Propose, Tick, Finished, vars

\* A value is carried by a session, by a ticket, by both or by none, and so are counted.
LEMMA TwoCarriers ==
    ASSUME NEW a, NEW b, NEW o, NEW v
    PROVE  LET C == Carriers(<<a, b>>, o, v) IN
           /\ C \subseteq {1, 2}
           /\ 1 \in C <=> v \in Values(a, o)
           /\ 2 \in C <=> v \in Values(b, o)
           /\ C = DOMAIN <<a, b>> <=> v \in Values(a, o) \cap Values(b, o)
           /\ Cardinality(C) = 1 => v \notin Values(a, o) \cap Values(b, o)
           /\ Cardinality(C) > 1 => v \in Values(a, o) \cap Values(b, o)
  <1>1. PICK C : C = Carriers(<<a, b>>, o, v)
    OBVIOUS
  <1>2. /\ C \subseteq {1, 2} /\ DOMAIN <<a, b>> = {1, 2}
        /\ 1 \in C <=> v \in Values(a, o)
        /\ 2 \in C <=> v \in Values(b, o)
    BY <1>1 DEF Carriers
  <1>3. /\ Cardinality({}) = 0 /\ Cardinality({1}) = 1 /\ Cardinality({2}) = 1
        /\ Cardinality({1, 2}) = 2
    <2>1. Cardinality({}) = 0 /\ IsFiniteSet({})
      BY FS_EmptySet
    <2>2. Cardinality({1}) = 1 /\ Cardinality({2}) = 1 /\ IsFiniteSet({2})
      BY FS_Singleton
    <2>3. {2} \cup {1} = {1, 2} /\ 1 \notin {2}
      OBVIOUS
    <2>4. Cardinality({2} \cup {1}) = Cardinality({2}) + 1
      BY <2>2, <2>3, FS_AddElement
    <2>5. QED
      BY <2>1, <2>2, <2>3, <2>4
  <1>4. C = {} \/ C = {1} \/ C = {2} \/ C = {1, 2}
    BY <1>2
  <1>5. /\ Cardinality(C) = 1 => C # {1, 2}
        /\ Cardinality(C) > 1 => C = {1, 2}
    BY <1>3, <1>4
  <1>6. QED
    BY <1>1, <1>2, <1>5

\* Values that fit are the same for type all, and different for type unique.
LEMMA OptionsFit ==
    ASSUME NEW a, NEW b, NEW rs, NEW o \in DOMAIN rs.options
    PROVE  /\ rs.options[o] = "all" /\ AllOptionsFit(<<a, b>>, rs) => Values(a, o) = Values(b, o)
           /\ rs.options[o] = "unique" /\ UniqueOptionsFit(<<a, b>>, rs) =>
                 Values(a, o) \cap Values(b, o) = {}
  <1>1. PICK A : A = <<a, b>>
    OBVIOUS
  <1>2. DOMAIN A = {1, 2} /\ A[1] = a /\ A[2] = b
    BY <1>1
  <1>3. ValuesOf(A, o) = Values(a, o) \cup Values(b, o)
    BY <1>2 DEF ValuesOf
  <1>4. ASSUME NEW v
        PROVE  LET C == Carriers(A, o, v) IN
               /\ C = DOMAIN A <=> v \in Values(a, o) \cap Values(b, o)
               /\ Cardinality(C) = 1 => v \notin Values(a, o) \cap Values(b, o)
    BY <1>1, TwoCarriers
  <1>5. ASSUME NEW v, v \in ValuesOf(A, o)
        PROVE  o \in Present(A, rs, rs.options[o])
    <2>1. \E i \in DOMAIN A : o \in DOMAIN A[i]
      BY <1>5 DEF ValuesOf, Values
    <2>2. QED
      BY <2>1 DEF Present
  <1>6. ASSUME rs.options[o] = "all", AllOptionsFit(A, rs)
        PROVE  Values(a, o) = Values(b, o)
    <2>1. \A v \in ValuesOf(A, o) : v \in Values(a, o) \cap Values(b, o)
      BY <1>4, <1>5, <1>6 DEF AllOptionsFit
    <2>2. QED
      BY <1>3, <2>1
  <1>7. ASSUME rs.options[o] = "unique", UniqueOptionsFit(A, rs)
        PROVE  Values(a, o) \cap Values(b, o) = {}
    <2>1. \A v \in ValuesOf(A, o) : v \notin Values(a, o) \cap Values(b, o)
      BY <1>4, <1>5, <1>7 DEF UniqueOptionsFit
    <2>2. QED
      BY <1>3, <2>1
  <1>8. QED
    BY <1>1, <1>6, <1>7

\* What comes of the values of a session's option when a ticket joins: they stay if
\* they are the ticket's too, get the ticket's added, or only those common to both are
\* left, as its type asks for.
LEMMA JoinedOptions ==
    ASSUME NEW a, NEW b, NEW rs, NEW o \in DOMAIN rs.options
    PROVE  LET j == JoinedAttributes(a, b, rs) IN
           /\ rs.options[o] = "all" /\ Values(a, o) = Values(b, o) => Values(j, o) = Values(a, o)
           /\ rs.options[o] = "unique" => Values(j, o) = Values(a, o) \cup Values(b, o)
           /\ rs.options[o] = "any" =>
                 /\ Values(j, o) \subseteq Values(a, o)
                 /\ rs.anyCommon /\ Values(a, o) \cap Values(b, o) # {} =>
                       Values(j, o) = Values(a, o) \cap Values(b, o)
  <1>1. PICK A, j, S : /\ A = <<a, b>> /\ j = JoinedAttributes(a, b, rs)
                       /\ S = SelectedOptions(A, rs)
    OBVIOUS
  <1>2. /\ DOMAIN A = {1, 2} /\ A[1] = a /\ A[2] = b /\ Len(A) = 2
    BY <1>1
  <1>3. ValuesOf(A, o) = Values(a, o) \cup Values(b, o)
    BY <1>2 DEF ValuesOf
  <1>4. /\ o \in S => Selected(A, rs, o) # {}
        /\ rs.options[o] \in {"all", "any", "unique"} /\ Selected(A, rs, o) # {} => o \in S
    <2>1. o \in S => Selected(A, rs, o) # {}
      BY <1>1 DEF SelectedOptions
    <2>2. ASSUME rs.options[o] \in {"all", "any", "unique"}, Selected(A, rs, o) # {}
          PROVE  o \in S
      <3>1. Selected(A, rs, o) \subseteq ValuesOf(A, o)
        BY DEF Selected
      <3>2. PICK v : v \in ValuesOf(A, o)
        BY <2>2, <3>1
      <3>3. \E i \in DOMAIN A : o \in DOMAIN A[i]
        BY <3>2 DEF ValuesOf, Values
      <3>4. o \in Present(A, rs, rs.options[o])
        BY <3>3 DEF Present
      <3>5. QED
        BY <1>1, <2>2, <3>4 DEF SelectedOptions
    <2>3. QED
      BY <2>1, <2>2
  <1>5. Values(j, o) = IF o \in S
                       THEN IF o \notin DOMAIN a \/ (rs.anyCommon /\ rs.options[o] = "any")
                            THEN Selected(A, rs, o)
                            ELSE Values(a, o) \cup Selected(A, rs, o)
                       ELSE Values(a, o)
    BY <1>1 DEF JoinedAttributes, Values
  <1>6. ASSUME NEW v
        PROVE  LET C == Carriers(A, o, v) IN
               /\ C = DOMAIN A <=> v \in Values(a, o) \cap Values(b, o)
               /\ Cardinality(C) = 1 => v \notin Values(a, o) \cap Values(b, o)
               /\ Cardinality(C) > 1 => v \in Values(a, o) \cap Values(b, o)
    BY <1>1, TwoCarriers
  <1>7. o \notin DOMAIN a => Values(a, o) = {}
    BY DEF Values
  <1>8. ASSUME rs.options[o] = "all", Values(a, o) = Values(b, o)
        PROVE  Values(j, o) = Values(a, o)
    <2>1. Selected(A, rs, o) = Values(a, o)
      BY <1>3, <1>8 DEF Selected
    <2>2. QED
      BY <1>5, <1>8, <2>1
  <1>9. ASSUME rs.options[o] = "unique"
        PROVE  Values(j, o) = Values(a, o) \cup Values(b, o)
    <2>1. Selected(A, rs, o) = Values(a, o) \cup Values(b, o)
      BY <1>3, <1>9 DEF Selected
    <2>2. o \notin S => Values(a, o) \cup Values(b, o) = {}
      BY <1>4, <1>9, <2>1
    <2>3. QED
      BY <1>5, <1>7, <1>9, <2>1, <2>2
  <1>10. ASSUME rs.options[o] = "any"
         PROVE  /\ Values(j, o) \subseteq Values(a, o)
                /\ rs.anyCommon /\ Values(a, o) \cap Values(b, o) # {} =>
                      Values(j, o) = Values(a, o) \cap Values(b, o)
    <2>1. Selected(A, rs, o) = {v \in ValuesOf(A, o) : Shared(A, rs, o, v)}
      BY <1>10 DEF Selected
    <2>2. ASSUME NEW v
          PROVE  /\ Shared(A, rs, o, v) => v \in Values(a, o) \cap Values(b, o)
                 /\ rs.anyCommon /\ v \in Values(a, o) \cap Values(b, o) => Shared(A, rs, o, v)
      BY <1>2, <1>6 DEF Shared
    <2>3. Selected(A, rs, o) \subseteq Values(a, o)
      BY <2>1, <2>2
    <2>4. ASSUME rs.anyCommon PROVE Selected(A, rs, o) = Values(a, o) \cap Values(b, o)
      BY <1>3, <2>1, <2>2, <2>4
    <2>5. QED
      BY <1>4, <1>5, <1>10, <2>3, <2>4
  <1>11. QED
    BY <1>1, <1>8, <1>9, <1>10

\* Nothing but options changes, and nothing gets lost.
LEMMA JoinedOthers ==
    ASSUME NEW a, NEW b, NEW rs
    PROVE  LET j == JoinedAttributes(a, b, rs) IN
           /\ DOMAIN a \subseteq DOMAIN j /\ DOMAIN j \subseteq DOMAIN a \cup DOMAIN rs.options
           /\ \A k \in DOMAIN a \ DOMAIN rs.options : j[k] = a[k]
  <1>1. PICK j, A, S : /\ j = JoinedAttributes(a, b, rs) /\ A = <<a, b>>
                       /\ S = SelectedOptions(A, rs)
    OBVIOUS
  <1>2. S \subseteq DOMAIN rs.options
    BY <1>1 DEF SelectedOptions, Present
  <1>3. DOMAIN j = DOMAIN a \cup S /\ \A k \in DOMAIN a \ S : j[k] = a[k]
    BY <1>1 DEF JoinedAttributes
  <1>4. QED
    BY <1>1, <1>2, <1>3

\* A ticket joins the session that is visited.
Joining(r) ==
    /\ pc = "ticket" /\ candidates # <<>> /\ r = Head(candidates) /\ Candidate = Request[r] /\ ~IsFar
    /\ r \in ToSet(candidates) /\ ToSet(candidates') \subseteq ToSet(candidates)
    /\ UNCHANGED <<ruleset, now, session, active>>
    /\ \A s \in Sessions : JoinedIn(s)' = IF s = session THEN JoinedIn(s) \cup {r} ELSE JoinedIn(s)

\* JoinTeam lets one join.
LEMMA JoinTeamJoining ==
    ASSUME TypeOK, TeamsInv, RuleInv, JoinTeam
    PROVE  \E r \in Requests : Joining(r)
  <1>1. PICK r \in round : \E i : Joins(r, i)
    BY JoinTeamJoins
  <1>2. PICK i : Joins(r, i)
    BY <1>1
  <1>3. r \in Requests /\ candidates \in Seq(ToSet(pool)) /\ IsInjective(candidates)
    BY DEF TypeOK
  <1>4. /\ candidates # <<>> /\ r = Head(candidates) /\ Candidate = Request[r]
        /\ UNCHANGED <<ruleset, now, session, active>>
        /\ candidates' = <<>> \/ candidates' = Tail(candidates)
    BY <1>2 DEF Joins
  <1>5. pc = "ticket" /\ ~IsFar
    BY DEF JoinTeam, Agreed, Considering
  <1>6. r \in ToSet(candidates) /\ ToSet(candidates') \subseteq ToSet(candidates)
    BY <1>3, <1>4, InjectiveTail, ToSetEmpty
  <1>7. ASSUME NEW s \in Sessions
        PROVE  JoinedIn(s)' = IF s = session THEN JoinedIn(s) \cup {r} ELSE JoinedIn(s)
    <2>1. PICK p : p = CreateMatchingParty(Request[r])
      OBVIOUS
    <2>2. p.id = r
      BY <1>3, <2>1, PartyFields
    <2>3. PartiesOf(state'[s]) = IF s = session THEN PartiesOf(state[s]) \cup {p} ELSE PartiesOf(state[s])
      BY <1>2, <1>3, <2>1, JoinedParties
    <2>4. PICK P, Q : P = PartiesOf(state[s]) /\ Q = PartiesOf(state'[s])
      OBVIOUS
    <2>5. /\ JoinedIn(s) = {q \in Requests : q \in {x.id : x \in P}}
          /\ JoinedIn(s)' = {q \in Requests : q \in {x.id : x \in Q}}
      BY <2>4 DEF JoinedIn
    <2>6. Q = IF s = session THEN P \cup {p} ELSE P
      BY <2>3, <2>4
    <2>7. QED
      BY <1>3, <2>2, <2>5, <2>6
  <1>8. QED
    BY <1>3, <1>4, <1>5, <1>6, <1>7 DEF Joining

\* What becomes of the values of an option of that session.
LEMMA JoiningOptions ==
    ASSUME TypeOK, TeamsInv, RuleInv, FlexInv, JoinTeam,
           NEW r \in Requests, Joining(r), NEW o \in Agreeing
    PROVE  LET before == Carries(session, o)
               after  == Values(state'[session].attributes, o)
           IN  /\ ruleset.options[o] = "all" => Its(r, o) = before /\ after = before
               /\ ruleset.options[o] = "unique" =>
                     Its(r, o) \cap before = {} /\ after = before \cup Its(r, o)
               /\ ruleset.options[o] = "any" =>
                     /\ after \subseteq before
                     /\ ruleset.anyCommon /\ before \cap Its(r, o) # {} => after = before \cap Its(r, o)
  <1>1. /\ session \in Sessions /\ o \in DOMAIN ruleset.options /\ o # "blocked_players"
        /\ active.options = ruleset.options /\ active.anyCommon = ruleset.anyCommon
        /\ Candidate = Request[r]
    BY DEF TypeOK, Agreeing, FlexInv, Joining
  <1>2. PICK old, b, new : /\ old = state[session].attributes /\ b = Candidate.attributes
                           /\ new = state'[session].attributes
    OBVIOUS
  <1>3. b = Ticket[r].attributes
    BY <1>1, <1>2, RequestFields
  <1>4. Values(b, o) = Its(r, o) /\ Values(old, o) = Carries(session, o)
    BY <1>2, <1>3 DEF Its, Carries
  <1>5. MergedInto(old, b, active, new)
    BY <1>1, <1>2, JoinTeamAttributes
  <1>6. PICK a : Relisted(old, a) /\ Relisted(JoinedAttributes(a, b, active), new)
    BY <1>5 DEF MergedInto
  <1>7. PICK j : j = JoinedAttributes(a, b, active)
    OBVIOUS
  <1>8. Values(a, o) = Values(old, o) /\ Values(new, o) = Values(j, o)
    BY <1>1, <1>6, <1>7, RelistedValues
  <1>9. AllOptionsFit(<<old, b>>, active) /\ UniqueOptionsFit(<<old, b>>, active)
    BY <1>2 DEF JoinTeam, Agreed, OptionsMayAgree, OptionAttributes
  <1>10. /\ ruleset.options[o] = "all" => Values(old, o) = Values(b, o)
         /\ ruleset.options[o] = "unique" => Values(old, o) \cap Values(b, o) = {}
    BY <1>1, <1>9, OptionsFit
  <1>11. /\ ruleset.options[o] = "all" /\ Values(a, o) = Values(b, o) => Values(j, o) = Values(a, o)
         /\ ruleset.options[o] = "unique" => Values(j, o) = Values(a, o) \cup Values(b, o)
         /\ ruleset.options[o] = "any" =>
               /\ Values(j, o) \subseteq Values(a, o)
               /\ ruleset.anyCommon /\ Values(a, o) \cap Values(b, o) # {} =>
                     Values(j, o) = Values(a, o) \cap Values(b, o)
    BY <1>1, <1>7, JoinedOptions
  <1>12. QED
    BY <1>2, <1>4, <1>8, <1>10, <1>11

\* Steps without a ticket that joins keep all teams.
LEMMA OthersKeepTeams ==
    ASSUME TypeOK, TeamsInv, RuleInv, [Next]_vars, ~JoinTeam
    PROVE  KeepsTeams
  <1>1. CASE Refuse \/ NoTeam
    BY <1>1, RefreshedKeeps
  <1>2. CASE \/ ReturnEarly \/ Begin \/ Visit \/ AllVisited \/ CandidatesEnd \/ TimeIsUp
             \/ Skip \/ Propose \/ Tick \/ Finished
    BY <1>2, OthersKeep
  <1>3. CASE UNCHANGED vars
    <2>1. UNCHANGED <<ruleset, now, round, pool, state, updated, satisfied>>
      BY <1>3 DEF vars, callVars, outVars
    <2>2. now \in Nat /\ DOMAIN state = Sessions
      BY BackfillAssumption DEF TypeOK
    <2>3. QED
      BY <2>1, <2>2 DEF KeepsTeams, SameTeams
  <1>4. QED
    BY <1>1, <1>2, <1>3 DEF Next

\* A session no ticket joins has the same tickets and the same values.
LEMMA SameSession ==
    ASSUME TypeOK, TeamsInv, RuleInv, [Next]_vars, NEW s \in Sessions, ~JoinTeam \/ s # session
    PROVE  JoinedIn(s)' = JoinedIn(s) /\ \A o : o # "blocked_players" => Carries(s, o)' = Carries(s, o)
  <1>1. JoinedIn(s)' = JoinedIn(s)
    <2>1. CASE JoinTeam
      <3>1. PICK r \in Requests : Joining(r)
        BY <2>1, JoinTeamJoining
      <3>2. QED
        BY <2>1, <3>1 DEF Joining
    <2>2. CASE ~JoinTeam
      <3>1. PartiesOf(state'[s]) = PartiesOf(state[s])
        BY <2>2, OthersKeepTeams, KeptParties
      <3>2. QED
        BY <3>1 DEF JoinedIn
    <2>3. QED
      BY <2>1, <2>2
  <1>2. PICK old, new : old = state[s].attributes /\ new = state'[s].attributes
    OBVIOUS
  <1>3. Relisted(old, new)
    BY <1>2, JoinTeamAttributes, OthersRelist
  <1>4. \A o : o # "blocked_players" => Values(new, o) = Values(old, o)
    BY <1>3, RelistedValues
  <1>5. QED
    BY <1>1, <1>2, <1>4 DEF Carries

\* The rule set stays, and time passes.
LEMMA ClockAndRules ==
    ASSUME TypeOK, [Next]_vars
    PROVE  ruleset' = ruleset /\ now \in Nat /\ now' \in Nat /\ now <= now'
  <1>1. now \in Nat
    BY BackfillAssumption DEF TypeOK
  <1>2. ruleset' = ruleset /\ (now' = now \/ now' = now + 1)
    BY DEF Next, ReturnEarly, Begin, Visit, AllVisited, CandidatesEnd, TimeIsUp, Skip, Refuse, NoTeam,
           JoinTeam, Propose, Tick, Finished, vars, callVars
  <1>3. QED
    BY <1>1, <1>2

\* A visit: a session of the list, the rules flexed to its age, and candidates that a
\* search accepted.
LEMMA VisitFields ==
    ASSUME TypeOK, Visit
    PROVE  /\ session' \in Sessions /\ state' = state /\ ruleset' = ruleset
           /\ active' = ActiveRuleSet(ruleset, OldestTicketTimestamp(state[session']), now)
           /\ \E accepted \in SessionCandidates(state[session'], active') :
                 ToSet(candidates') = accepted
  <1>1. /\ index \in 0 .. Len(Backfill) /\ sessions \in [Sessions -> Sessions]
        /\ pool \in Seq(round)
    BY DEF TypeOK
  <1>2. index < Len(Backfill) /\ session' = sessions[index + 1] /\ state' = state /\ ruleset' = ruleset
    BY DEF Visit, callVars
  <1>3. session' \in Sessions
    <2>1. index + 1 \in Sessions
      BY <1>1, <1>2, SessionsType
    <2>2. QED
      BY <1>1, <1>2, <2>1
  <1>4. PICK sess, rs : /\ sess = state[session']
                        /\ rs = ActiveRuleSet(ruleset, OldestTicketTimestamp(sess), now)
    OBVIOUS
  <1>5. active' = rs /\ \E accepted \in SessionCandidates(sess, rs) :
           candidates' \in SearchOrders(accepted, rs, sess.region)
    BY <1>4 DEF Visit
  <1>6. PICK accepted \in SessionCandidates(sess, rs) :
           candidates' \in SearchOrders(accepted, rs, sess.region)
    BY <1>5
  <1>7. IsFiniteSet(accepted)
    <2>1. accepted \subseteq ToSet(pool)
      BY DEF SessionCandidates
    <2>2. QED
      BY <1>1, <2>1, ToSetType, FS_Subset
  <1>8. candidates' \in SetToSeqs(accepted)
    BY <1>6 DEF SearchOrders
  <1>9. ToSet(candidates') = accepted
    BY <1>7, <1>8, SetToSeqsProperties
  <1>10. QED
    BY <1>2, <1>3, <1>4, <1>5, <1>6, <1>9

\* The active options are always those of the call.
LEMMA FlexInductive ==
    ASSUME TypeOK, FlexInv, [Next]_vars
    PROVE  FlexInv'
  <1>1. ruleset' = ruleset
    BY ClockAndRules
  <1>2. CASE Visit
    <2>1. PICK since, act : act = ActiveRuleSet(ruleset, since, now) /\ active' = act
      BY <1>2, VisitFields
    <2>2. {"alliance", "allianceFlex", "rules", "flex", "options", "anyCommon"} \subseteq DOMAIN ruleset
      BY RuleSetFields DEF TypeOK
    <2>3. act.options = ruleset.options /\ act.anyCommon = ruleset.anyCommon
      BY <2>1, <2>2, ActiveFields
    <2>4. QED
      BY <1>1, <2>1, <2>3 DEF FlexInv
  <1>3. CASE ~Visit
    <2>1. active' = active
      BY <1>3 DEF Next, ReturnEarly, Begin, AllVisited, CandidatesEnd, TimeIsUp, Skip, Refuse, NoTeam,
                  JoinTeam, Propose, Tick, Finished, vars, visitVars
    <2>2. QED
      BY <1>1, <2>1 DEF FlexInv
  <1>4. QED
    BY <1>2, <1>3

\* Regions and attributes that are no options stay.
LEMMA SessionInductive ==
    ASSUME TypeOK, TeamsInv, RuleInv, FlexInv, SessionInv, [Next]_vars
    PROVE  SessionInv'
  <1>1. ruleset' = ruleset
    BY ClockAndRules
  <1>2. SUFFICES ASSUME NEW s \in Sessions
                 PROVE  /\ state'[s].region = Given[s].region
                        /\ \A k \in DOMAIN Backfill[s].attributes :
                              /\ k \in DOMAIN state'[s].attributes
                              /\ k \notin DOMAIN ruleset.options \cup {"blocked_players"} =>
                                    state'[s].attributes[k] = Backfill[s].attributes[k]
                        /\ \A k \in DOMAIN state'[s].attributes :
                              k \in DOMAIN ruleset.options \cup {"blocked_players"}
                                       \cup DOMAIN Backfill[s].attributes
    BY <1>1 DEF SessionInv
  <1>3. PICK given, old, new, O :
           /\ given = Backfill[s].attributes /\ old = state[s].attributes
           /\ new = state'[s].attributes /\ O = DOMAIN ruleset.options \cup {"blocked_players"}
    OBVIOUS
  <1>4. /\ DOMAIN given \subseteq DOMAIN old /\ DOMAIN old \subseteq O \cup DOMAIN given
        /\ \A k \in DOMAIN given \ O : old[k] = given[k]
    BY <1>3 DEF SessionInv
  <1>5. state'[s].region = state[s].region /\ state[s].region = Given[s].region
    BY JoinTeamAttributes, OthersRelist DEF SessionInv
  <1>6. DOMAIN old \subseteq DOMAIN new /\ DOMAIN new \subseteq DOMAIN old \cup O
        /\ \A k \in DOMAIN old \ O : new[k] = old[k]
    <2>1. CASE Relisted(old, new)
      BY <1>3, <2>1 DEF Relisted
    <2>2. CASE JoinTeam /\ s = session
      <3>1. PICK b : b = Candidate.attributes
        OBVIOUS
      <3>2. MergedInto(old, b, active, new)
        BY <1>3, <2>2, <3>1, JoinTeamAttributes
      <3>3. PICK a : Relisted(old, a) /\ Relisted(JoinedAttributes(a, b, active), new)
        BY <3>2 DEF MergedInto
      <3>4. PICK j : j = JoinedAttributes(a, b, active)
        OBVIOUS
      <3>5. DOMAIN active.options \subseteq O
        BY <1>3 DEF FlexInv
      <3>6. /\ DOMAIN a \subseteq DOMAIN j /\ DOMAIN j \subseteq DOMAIN a \cup DOMAIN active.options
            /\ \A k \in DOMAIN a \ DOMAIN active.options : j[k] = a[k]
        BY <3>4, JoinedOthers
      <3>7. Relisted(j, new)
        BY <3>3, <3>4
      <3>8. QED
        BY <1>3, <3>3, <3>5, <3>6, <3>7 DEF Relisted
    <2>3. QED
      BY <1>3, <2>1, <2>2, JoinTeamAttributes, OthersRelist
  <1>7. QED
    BY <1>3, <1>4, <1>5, <1>6

\* Fewer tickets agree with a session if more do.
LEMMA AnyFitsSubset ==
    ASSUME NEW s, NEW o, NEW S, NEW T \in SUBSET S, AnyFits(s, o, S)
    PROVE  AnyFits(s, o, T)
  <1>1. CASE CrossPlayed(s, o)
    BY <1>1 DEF AnyFits
  <1>2. CASE ~CrossPlayed(s, o)
    <2>1. SUFFICES ASSUME o \in DOMAIN Backfill[s].attributes, T # {}
                   PROVE  IF ruleset.anyCommon
                          THEN \E v \in Had(s, o) : \A r \in T : v \in Its(r, o)
                          ELSE \A r \in T : Its(r, o) \cap Had(s, o) # {}
      BY <1>2 DEF AnyFits
    <2>2. S # {}
      BY <2>1
    <2>3. IF ruleset.anyCommon
          THEN \E v \in Had(s, o) : \A r \in S : v \in Its(r, o)
          ELSE \A r \in S : Its(r, o) \cap Had(s, o) # {}
      BY <1>2, <2>1, <2>2 DEF AnyFits
    <2>4. QED
      BY <2>3
  <1>3. QED
    BY <1>1, <1>2

\* One more ticket agrees with a session and with those that joined before, if its
\* values fit what the session has by then.
LEMMA OneMoreFits ==
    ASSUME NEW s, NEW o, NEW joined, NEW r, NEW before, NEW after,
           OptionFits(s, o, joined), OptionHeld(s, o, before, joined),
           ruleset.options[o] = "all" => Its(r, o) = before /\ after = before,
           ruleset.options[o] = "unique" =>
              Its(r, o) \cap before = {} /\ after = before \cup Its(r, o),
           ruleset.options[o] = "any" =>
              /\ after \subseteq before
              /\ ruleset.anyCommon /\ before \cap Its(r, o) # {} => after = before \cap Its(r, o)
              /\ AnyFits(s, o, {r})
              /\ ruleset.anyCommon /\ ~CrossPlayed(s, o) /\ o \in DOMAIN Backfill[s].attributes =>
                    before \cap Its(r, o) # {}
    PROVE  OptionFits(s, o, joined \cup {r}) /\ OptionHeld(s, o, after, joined \cup {r})
  <1>1. CASE ruleset.options[o] = "all"
    BY <1>1 DEF OptionFits, OptionHeld
  <1>2. CASE ruleset.options[o] = "unique"
    <2>1. before = Had(s, o) \cup UNION {Its(q, o) : q \in joined}
      BY <1>2 DEF OptionHeld
    <2>2. Its(r, o) \cap Had(s, o) = {} /\ \A q \in joined : Its(r, o) \cap Its(q, o) = {}
      BY <1>2, <2>1
    <2>3. OptionFits(s, o, joined \cup {r})
      BY <1>2, <2>2 DEF OptionFits
    <2>4. after = Had(s, o) \cup UNION {Its(q, o) : q \in joined \cup {r}}
      BY <1>2, <2>1
    <2>5. OptionHeld(s, o, after, joined \cup {r})
      BY <1>2, <2>4 DEF OptionHeld
    <2>6. QED
      BY <2>3, <2>5
  <1>3. CASE ruleset.options[o] = "any"
    <2>1. before \subseteq Had(s, o) /\ after \subseteq Had(s, o) /\ AnyFits(s, o, joined)
      BY <1>3 DEF OptionHeld, OptionFits
    <2>2. CASE CrossPlayed(s, o)
      <3>1. AnyFits(s, o, joined \cup {r})
        BY <1>3, <2>1, <2>2 DEF AnyFits
      <3>2. QED
        BY <1>3, <2>1, <2>2, <3>1 DEF OptionFits, OptionHeld
    <2>3. CASE ~CrossPlayed(s, o) /\ o \notin DOMAIN Backfill[s].attributes
      BY <1>3, <2>1, <2>3 DEF OptionFits, OptionHeld, AnyFits
    <2>4. CASE ~CrossPlayed(s, o) /\ o \in DOMAIN Backfill[s].attributes /\ ruleset.anyCommon
      <3>1. after = before \cap Its(r, o) /\ after # {}
        BY <1>3, <2>4
      <3>2. \A q \in joined : before \subseteq Its(q, o)
        BY <1>3, <2>4 DEF OptionHeld
      <3>3. \A q \in joined \cup {r} : after \subseteq Its(q, o)
        BY <3>1, <3>2
      <3>4. AnyFits(s, o, joined \cup {r})
        BY <2>1, <2>4, <3>1, <3>3 DEF AnyFits
      <3>5. QED
        BY <1>3, <2>1, <3>1, <3>3, <3>4 DEF OptionFits, OptionHeld
    <2>5. CASE ~CrossPlayed(s, o) /\ o \in DOMAIN Backfill[s].attributes /\ ~ruleset.anyCommon
      <3>1. \A q \in joined \cup {r} : Its(q, o) \cap Had(s, o) # {}
        BY <1>3, <2>1, <2>5 DEF AnyFits
      <3>2. AnyFits(s, o, joined \cup {r})
        BY <2>5, <3>1 DEF AnyFits
      <3>3. QED
        BY <1>3, <2>1, <2>5, <3>2 DEF OptionFits, OptionHeld
    <2>6. QED
      BY <2>2, <2>3, <2>4, <2>5
  <1>4. CASE ruleset.options[o] \notin {"all", "unique", "any"}
    BY <1>4 DEF OptionFits, OptionHeld
  <1>5. QED
    BY <1>1, <1>2, <1>3, <1>4

\* So options agree after every step.
LEMMA OptionsInductive ==
    ASSUME TypeOK, TeamsInv, RuleInv, FlexInv, OptionsInv, CandidatesInv, SessionOptionsAgree,
           [Next]_vars
    PROVE  OptionsInv' /\ SessionOptionsAgree'
  <1>1. ruleset' = ruleset
    BY ClockAndRules
  <1>2. SUFFICES ASSUME NEW s \in Sessions, NEW o \in Agreeing
                 PROVE  /\ OptionFits(s, o, JoinedIn(s)')
                        /\ OptionHeld(s, o, Values(state'[s].attributes, o), JoinedIn(s)')
    BY <1>1 DEF OptionsInv, SessionOptionsAgree, OptionFits, OptionHeld, AnyFits, Agreeing, Carries
  <1>3. OptionFits(s, o, JoinedIn(s)) /\ OptionHeld(s, o, Carries(s, o), JoinedIn(s))
    BY DEF OptionsInv, SessionOptionsAgree
  <1>4. CASE ~JoinTeam \/ s # session
    <2>1. JoinedIn(s)' = JoinedIn(s) /\ Carries(s, o)' = Carries(s, o)
      BY <1>4, SameSession DEF Agreeing
    <2>2. Values(state'[s].attributes, o) = Carries(s, o)
      BY <2>1 DEF Carries
    <2>3. QED
      BY <1>3, <2>1, <2>2
  <1>5. CASE JoinTeam /\ s = session
    <2>1. PICK r \in Requests : Joining(r)
      BY <1>5, JoinTeamJoining
    <2>2. PICK before, after, joined :
             /\ before = Carries(s, o) /\ after = Values(state'[s].attributes, o)
             /\ joined = JoinedIn(s)
      OBVIOUS
    <2>3. /\ ruleset.options[o] = "all" => Its(r, o) = before /\ after = before
          /\ ruleset.options[o] = "unique" =>
                Its(r, o) \cap before = {} /\ after = before \cup Its(r, o)
          /\ ruleset.options[o] = "any" =>
                /\ after \subseteq before
                /\ ruleset.anyCommon /\ before \cap Its(r, o) # {} => after = before \cap Its(r, o)
      BY <1>5, <2>1, <2>2, JoiningOptions
    <2>4. ASSUME ruleset.options[o] = "any"
          PROVE  /\ AnyFits(s, o, {r})
                 /\ ruleset.anyCommon /\ ~CrossPlayed(s, o) /\ o \in DOMAIN Backfill[s].attributes =>
                       before \cap Its(r, o) # {}
      <3>1. r \in ToSet(candidates) /\ pc = "ticket"
        BY <2>1 DEF Joining
      <3>2. /\ AnyFits(s, o, ToSet(candidates))
            /\ ruleset.anyCommon /\ ~CrossPlayed(s, o) /\ o \in DOMAIN Backfill[s].attributes =>
                  AllShare(s, o, ToSet(candidates))
        BY <1>5, <2>4, <3>1 DEF CandidatesInv, Found
      <3>3. AnyFits(s, o, {r})
        BY <3>1, <3>2, AnyFitsSubset
      <3>4. AllShare(s, o, ToSet(candidates)) => before \cap Its(r, o) # {}
        BY <2>2, <3>1 DEF AllShare
      <3>5. QED
        BY <3>2, <3>3, <3>4
    <2>5. OptionFits(s, o, joined \cup {r}) /\ OptionHeld(s, o, after, joined \cup {r})
      BY <1>3, <2>2, <2>3, <2>4, OneMoreFits
    <2>6. JoinedIn(s)' = joined \cup {r}
      BY <1>5, <2>1, <2>2 DEF Joining
    <2>7. QED
      BY <2>2, <2>5, <2>6
  <1>6. QED
    BY <1>4, <1>5

\* Who is near enough for a region stays so: their limit does not get lower.
LEMMA ReachesLater ==
    ASSUME TypeOK, [Next]_vars, NEW r \in Requests, NEW region, Reaches(r, region)
    PROVE  Reaches(r, region)'
  <1>1. /\ ruleset' = ruleset /\ now \in Nat /\ now' \in Nat /\ now <= now' /\ Start \in Nat
        /\ Request[r].createdAt \in 0 .. Start /\ now \in Start .. Start + TimeLimit
    BY ClockAndRules, RequestFields, BackfillAssumption DEF TypeOK
  <1>2. Request[r].createdAt \in Nat /\ Request[r].createdAt <= now
    BY <1>1
  <1>3. ruleset.rate \in Nat \ {0} /\ {ruleset.initial, ruleset.range} \subseteq Nat
    BY RuleSetFields DEF TypeOK
  <1>4. ASSUME NEW i \in DOMAIN Request[r].latency,
               Request[r].latency[i].ms <= LatencyLimit(Request[r], ruleset, now)
        PROVE  Request[r].latency[i].ms <= LatencyLimit(Request[r], ruleset, now')
    <2>1. Request[r].latency[i].ms \in Nat /\ Request[r].latency[1].ms \in Nat
      <3>1. PICK n \in Nat : DOMAIN Request[r].latency = 1 .. n
        BY RequestRegions
      <3>2. 1 \in DOMAIN Request[r].latency
        BY <3>1
      <3>3. QED
        BY <3>2, RequestRegions
    <2>2. /\ LatencyLimit(Request[r], ruleset, now) \in Nat
          /\ LatencyLimit(Request[r], ruleset, now') \in Nat
          /\ LatencyLimit(Request[r], ruleset, now) <= LatencyLimit(Request[r], ruleset, now')
      BY <1>1, <1>2, <1>3, <2>1, LimitGrows
    <2>3. QED
      BY <1>4, <2>1, <2>2
  <1>5. QED
    BY <1>1, <1>4, Zenon DEF Reaches

\* Who joins a session is near enough for its region.
LEMMA JoiningReaches ==
    ASSUME TypeOK, SessionInv, NEW r \in Requests, Joining(r)
    PROVE  Reaches(r, Given[session].region)
  <1>1. PICK region, near :
           /\ region = Given[session].region
           /\ near = RegionNames(FilterRegionByStep(Request[r], ruleset, now))
    OBVIOUS
  <1>2. state[session].region = region /\ Candidate = Request[r] /\ ~IsFar
    BY <1>1 DEF SessionInv, TypeOK, Joining
  <1>3. region = "" \/ region \in near
    BY <1>1, <1>2, Zenon DEF IsFar
  <1>4. ASSUME region \in near
        PROVE  \E i \in DOMAIN Request[r].latency :
                  /\ Request[r].latency[i].region = region
                  /\ Request[r].latency[i].ms <= LatencyLimit(Request[r], ruleset, now)
                  /\ ruleset.max = 0 \/ Request[r].latency[i].ms <= ruleset.max
    <2>1. PICK i \in DOMAIN Request[r].latency :
             Request[r].latency[i].region = region /\ InReach(Request[r].latency[i].ms, Request[r], ruleset, now)
      <3>1. PICK S : Request[r].latency \in Seq(S)
        BY RequestRegions
      <3>2. near = {Request[r].latency[i].region :
                       i \in {j \in DOMAIN Request[r].latency :
                                InReach(Request[r].latency[j].ms, Request[r], ruleset, now)}}
        BY <1>1, <3>1, RegionsInReach
      <3>3. QED
        BY <1>4, <3>2
    <2>2. ruleset.max \in Nat
      BY RuleSetFields DEF TypeOK
    <2>3. QED
      BY <2>1, <2>2 DEF InReach, WithinMax
  <1>5. QED
    BY <1>1, <1>3, <1>4, Zenon DEF Reaches

\* What a session is compared by is as given, but for options and blocked players.
LEMMA SeekerAttributes ==
    ASSUME TypeOK, SessionInv, NEW s \in Sessions
    PROVE  /\ Seeker(state[s]).attributes = state[s].attributes
           /\ \A k : k \notin DOMAIN ruleset.options \cup {"blocked_players"} =>
                 Values(state[s].attributes, k) = Had(s, k)
  <1>1. "attributes" \in DOMAIN state[s]
    <2>1. DOMAIN state[s] = DOMAIN Given[s]
      BY DEF TypeOK
    <2>2. QED
      BY <2>1, GivenFields
  <1>2. Seeker(state[s]).attributes = state[s].attributes
    BY <1>1 DEF Seeker
  <1>3. ASSUME NEW k, k \notin DOMAIN ruleset.options \cup {"blocked_players"}
        PROVE  Values(state[s].attributes, k) = Had(s, k)
    <2>1. PICK old, given : old = state[s].attributes /\ given = Backfill[s].attributes
      OBVIOUS
    <2>2. k \in DOMAIN old <=> k \in DOMAIN given
      BY <1>3, <2>1 DEF SessionInv
    <2>3. k \in DOMAIN given => old[k] = given[k]
      BY <1>3, <2>1 DEF SessionInv
    <2>4. QED
      BY <2>1, <2>2, <2>3 DEF Values, Had
  <1>4. QED
    BY <1>2, <1>3

\* An attribute both must have is the same, or one that need not be compared.
LEMMA AttributeFits ==
    ASSUME TypeOK, SessionInv, NEW s \in Sessions, NEW r \in Requests,
           MatchByPartyAttribute(Seeker(state[s]), ruleset, Request[r]),
           NEW k \in Compared(s)
    PROVE  FitsIn(r, s, k)
  <1>1. /\ k \in DOMAIN Backfill[s].attributes
        /\ k \notin DOMAIN ruleset.options \cup Unfiltered \cup {"cross_platform"}
    BY DEF Compared
  <1>2. k # "blocked_players"
    BY <1>1 DEF Unfiltered
  <1>3. PICK seeker, t, has, its : /\ seeker = Seeker(state[s]) /\ t = Request[r]
                                   /\ has = Had(s, k) /\ its = Its(r, k)
    OBVIOUS
  <1>4. /\ seeker.attributes = state[s].attributes
        /\ k \in DOMAIN seeker.attributes /\ Values(seeker.attributes, k) = has
    BY <1>1, <1>2, <1>3, SeekerAttributes DEF SessionInv
  <1>5. seeker.attributes[k] = has
    BY <1>4 DEF Values
  <1>6. Values(t.attributes, k) = its
    BY <1>3, RequestFields DEF Its
  <1>7. k \in MustMatch(seeker, ruleset)
    BY <1>1, <1>4 DEF MustMatch
  <1>8. \/ SameValue(seeker, t, k)
        \/ IF k \in {"server_name", "client_version"}
           THEN Blank(seeker.attributes, k) /\ Blank(t.attributes, k)
           ELSE ruleset.refersOptions \/ seeker.attributes[k] = {""}
    BY <1>3, <1>7, Zenon DEF MatchByPartyAttribute
  <1>9. SameValue(seeker, t, k) => its = has
    BY <1>5, <1>6 DEF SameValue, Values
  <1>10. Blank(seeker.attributes, k) /\ Blank(t.attributes, k) => {its, has} \subseteq {{}, {""}}
    BY <1>4, <1>6, Zenon DEF Blank
  <1>11. QED
    BY <1>3, <1>5, <1>8, <1>9, <1>10, Zenon DEF FitsIn

\* A request that was accepted passed the filters of the session with those before it,
\* and the others were before it or after.
LEMMA SessionAccepted ==
    ASSUME TypeOK, NEW s \in Sessions, NEW rs, NEW accepted \in SessionCandidates(state[s], rs)
    PROVE  /\ accepted \subseteq Requests
           /\ Len(pool) \in Nat
           /\ \A r \in accepted : \E i \in 1 .. Len(pool) : pool[i] = r
           /\ \A i \in 1 .. Len(pool) : pool[i] \in accepted =>
                 /\ MatchByAnyCrossPlay(Seeker(state[s]), ruleset, Request[pool[i]],
                                        Of(accepted \cap Before(i)))
                 /\ MatchByMatchOption(Seeker(state[s]), ruleset, Request[pool[i]],
                                       Of(accepted \cap Before(i)))
                 /\ MatchByPartyAttribute(Seeker(state[s]), ruleset, Request[pool[i]])
           /\ \A i, j \in 1 .. Len(pool) : i < j /\ pool[i] \in accepted =>
                 Request[pool[i]] \in Of(accepted \cap Before(j))
  <1>1. pool \in Seq(round) /\ round \subseteq Requests
    BY DEF TypeOK
  <1>2. Len(pool) \in Nat /\ DOMAIN pool = 1 .. Len(pool) /\ ToSet(pool) \subseteq round
    BY <1>1, ToSetType
  <1>3. /\ accepted \subseteq ToSet(pool)
        /\ \A i \in DOMAIN pool : pool[i] \in accepted =>
              SessionAccepts(Seeker(state[s]), rs, ruleset, Request[pool[i]],
                             Of(accepted \cap Before(i)), now)
    BY DEF SessionCandidates
  <1>4. \A r \in accepted : \E i \in 1 .. Len(pool) : pool[i] = r
    BY <1>2, <1>3 DEF ToSet
  <1>5. ASSUME NEW i \in 1 .. Len(pool), pool[i] \in accepted
        PROVE  /\ MatchByAnyCrossPlay(Seeker(state[s]), ruleset, Request[pool[i]],
                                      Of(accepted \cap Before(i)))
               /\ MatchByMatchOption(Seeker(state[s]), ruleset, Request[pool[i]],
                                     Of(accepted \cap Before(i)))
               /\ MatchByPartyAttribute(Seeker(state[s]), ruleset, Request[pool[i]])
    BY <1>2, <1>3, <1>5, Zenon DEF SessionAccepts
  <1>6. ASSUME NEW i \in 1 .. Len(pool), NEW j \in 1 .. Len(pool), i < j, pool[i] \in accepted
        PROVE  Request[pool[i]] \in Of(accepted \cap Before(j))
    <2>1. i \in 1 .. j - 1
      BY <1>2, <1>6
    <2>2. QED
      BY <1>6, <2>1 DEF Before, Of
  <1>7. accepted \subseteq Requests
    BY <1>1, <1>2, <1>3
  <1>8. QED
    BY <1>2, <1>4, <1>5, <1>6, <1>7

\* Those a search accepted agree with the session in an option of type any, and share
\* a value with it, all of them, if values have to be common.
LEMMA SessionSearch ==
    ASSUME TypeOK, SessionInv, OptionsInv, NEW s \in Sessions,
           NEW rs, NEW accepted \in SessionCandidates(state[s], rs),
           NEW o \in Agreeing, ruleset.options[o] = "any"
    PROVE  /\ AnyFits(s, o, accepted)
           /\ ruleset.anyCommon /\ ~CrossPlayed(s, o)
              /\ o \in DOMAIN Backfill[s].attributes /\ accepted # {} => AllShare(s, o, accepted)
  <1>1. PICK seeker, has : seeker = Seeker(state[s]) /\ has = Carries(s, o)
    OBVIOUS
  <1>2. /\ accepted \subseteq Requests
        /\ Len(pool) \in Nat
        /\ \A r \in accepted : \E i \in 1 .. Len(pool) : pool[i] = r
        /\ \A i \in 1 .. Len(pool) : pool[i] \in accepted =>
              /\ MatchByAnyCrossPlay(seeker, ruleset, Request[pool[i]], Of(accepted \cap Before(i)))
              /\ MatchByMatchOption(seeker, ruleset, Request[pool[i]], Of(accepted \cap Before(i)))
        /\ \A i, j \in 1 .. Len(pool) : i < j /\ pool[i] \in accepted =>
              Request[pool[i]] \in Of(accepted \cap Before(j))
    BY <1>1, SessionAccepted
  <1>3. /\ o \in DOMAIN ruleset.options
        /\ o = "cross_platform" => "current_platform" \notin DOMAIN ruleset.options
        /\ has \subseteq Had(s, o)
    BY <1>1 DEF Agreeing, OptionsInv, OptionHeld
  <1>4. /\ seeker.attributes = state[s].attributes /\ Values(seeker.attributes, o) = has
        /\ o = "cross_platform" =>
              Values(seeker.attributes, "current_platform") = Had(s, "current_platform")
    BY <1>1, <1>3, SeekerAttributes DEF Carries
  <1>5. \A r \in Requests : \A k : Values(Request[r].attributes, k) = Its(r, k)
    BY RequestFields DEF Its
  <1>6. CrossPlayed(s, o) <=> o = "cross_platform" /\ CrossPlays(seeker, ruleset)
    BY <1>3, <1>4 DEF CrossPlayed, CrossPlays
  <1>7. CASE CrossPlayed(s, o)
    <2>1. SUFFICES ASSUME NEW r \in accepted
                   PROVE  /\ Had(s, "current_platform") \subseteq Its(r, o)
                          /\ Its(r, "current_platform") \subseteq Had(s, o)
      BY <1>7 DEF AnyFits
    <2>2. PICK i \in 1 .. Len(pool) : pool[i] = r
      BY <1>2
    <2>3. MatchByAnyCrossPlay(seeker, ruleset, Request[r], Of(accepted \cap Before(i)))
      BY <1>2, <2>2
    <2>4. r \in Requests /\ o = "cross_platform" /\ CrossPlays(seeker, ruleset)
      BY <1>2, <1>6, <1>7
    <2>5. /\ Values(seeker.attributes, "current_platform") \subseteq Values(Request[r].attributes, o)
          /\ Values(Request[r].attributes, "current_platform") \subseteq Values(seeker.attributes, o)
      BY <2>3, <2>4 DEF MatchByAnyCrossPlay, Common
    <2>6. QED
      BY <1>3, <1>4, <1>5, <2>4, <2>5
  <1>8. CASE ~CrossPlayed(s, o)
    <2>1. SUFFICES ASSUME o \in DOMAIN Backfill[s].attributes, accepted # {}
                   PROVE  /\ ruleset.anyCommon => \E v \in has : \A r \in accepted : v \in Its(r, o)
                          /\ ~ruleset.anyCommon => \A r \in accepted : Its(r, o) \cap has # {}
      BY <1>1, <1>3, <1>8 DEF AnyFits, AllShare
    <2>2. o \in DOMAIN seeker.attributes
      BY <1>4, <2>1 DEF SessionInv
    <2>3. o \in OptionsOf(seeker, ruleset) /\ seeker.attributes[o] = has
      BY <1>3, <1>4, <1>6, <1>8, <2>2 DEF OptionsOf, Values
    <2>4. ASSUME NEW i \in 1 .. Len(pool), pool[i] \in accepted
          PROVE  (IF ruleset.anyCommon THEN Common(has, Of(accepted \cap Before(i)), o) ELSE has)
                    \cap Its(pool[i], o) # {}
      <3>1. MatchByMatchOption(seeker, ruleset, Request[pool[i]], Of(accepted \cap Before(i)))
        BY <1>2, <2>4
      <3>2. Values(Request[pool[i]].attributes, o) = Its(pool[i], o)
        BY <1>2, <1>5, <2>4
      <3>3. QED
        BY <2>3, <3>1, <3>2 DEF MatchByMatchOption
    <2>5. CASE ruleset.anyCommon
      <3>1. DEFINE places == {i \in 1 .. Len(pool) : pool[i] \in accepted}
      <3>2. PICK n \in places : \A i \in places : i <= n
        <4>1. places # {}
          BY <1>2, <2>1
        <4>2. places \subseteq 1 .. Len(pool)
          OBVIOUS
        <4>3. HIDE DEF places
        <4>4. QED
          BY <1>2, <4>1, <4>2, LargestNumber
      <3>3. PICK v \in Common(has, Of(accepted \cap Before(n)), o) : v \in Its(pool[n], o)
        BY <2>4, <2>5, <3>2
      <3>4. v \in has
        BY <3>3 DEF Common
      <3>5. ASSUME NEW r \in accepted PROVE v \in Its(r, o)
        <4>1. PICK i \in places : pool[i] = r
          BY <1>2
        <4>2. i = n \/ i < n
          BY <3>2, <4>1
        <4>3. CASE i < n
          <5>1. Request[r] \in Of(accepted \cap Before(n))
            BY <1>2, <3>2, <4>1, <4>3
          <5>2. v \in Values(Request[r].attributes, o)
            BY <3>3, <5>1 DEF Common
          <5>3. QED
            BY <1>2, <1>5, <5>2
        <4>4. QED
          BY <3>3, <4>1, <4>2, <4>3
      <3>6. QED
        BY <2>5, <3>4, <3>5
    <2>6. CASE ~ruleset.anyCommon
      <3>1. ASSUME NEW r \in accepted PROVE Its(r, o) \cap has # {}
        <4>1. PICK i \in 1 .. Len(pool) : pool[i] = r
          BY <1>2
        <4>2. QED
          BY <2>4, <2>6, <4>1
      <3>2. QED
        BY <2>6, <3>1
    <2>7. QED
      BY <2>5, <2>6
  <1>9. QED
    BY <1>7, <1>8

\* What was found stays so, for some of it, while what all of it shares is not lost.
LEMMA FoundLater ==
    ASSUME ruleset' = ruleset, NEW s, NEW S, NEW T \in SUBSET S, Found(s, S),
           \A o \in Agreeing : ruleset.options[o] = "any" /\ ruleset.anyCommon =>
              \A v \in Carries(s, o) : (\A r \in S : v \in Its(r, o)) => v \in Carries(s, o)'
    PROVE  Found(s, T)'
  <1>1. ASSUME NEW r \in T, NEW k \in Compared(s)'
        PROVE  FitsIn(r, s, k)'
    <2>1. k \in Compared(s)
      BY <1>1 DEF Compared
    <2>2. FitsIn(r, s, k)
      BY <2>1 DEF Found
    <2>3. QED
      BY <2>2, Zenon DEF FitsIn
  <1>2. ASSUME NEW o \in Agreeing', ruleset'.options[o] = "any"
        PROVE  /\ AnyFits(s, o, T)'
               /\ ruleset'.anyCommon /\ ~CrossPlayed(s, o)
                  /\ o \in DOMAIN Backfill[s].attributes /\ T # {} => AllShare(s, o, T)'
    <2>1. o \in Agreeing /\ ruleset.options[o] = "any"
      BY <1>2 DEF Agreeing
    <2>2. /\ AnyFits(s, o, S)
          /\ ruleset.anyCommon /\ ~CrossPlayed(s, o)
             /\ o \in DOMAIN Backfill[s].attributes /\ S # {} => AllShare(s, o, S)
      BY <2>1 DEF Found
    <2>3. AnyFits(s, o, T)
      BY <2>2, AnyFitsSubset
    <2>4. AnyFits(s, o, T)'
      BY <2>3 DEF AnyFits
    <2>5. ASSUME ruleset.anyCommon, AllShare(s, o, S)
          PROVE  AllShare(s, o, T)'
      <3>1. PICK v \in Carries(s, o) : \A r \in S : v \in Its(r, o)
        BY <2>5 DEF AllShare
      <3>2. v \in Carries(s, o)'
        BY <2>1, <2>5, <3>1
      <3>3. QED
        BY <3>1, <3>2 DEF AllShare
    <2>6. QED
      BY <2>2, <2>4, <2>5
  <1>3. QED
    BY <1>1, <1>2 DEF Found

\* Candidates are found in a visit, and get fewer.
LEMMA CandidatesInductive ==
    ASSUME TypeOK, TeamsInv, RuleInv, FlexInv, SessionInv, OptionsInv, CandidatesInv, [Next]_vars
    PROVE  CandidatesInv'
  <1>1. SUFFICES ASSUME pc' = "ticket"
                 PROVE  Found(session, ToSet(candidates))'
    BY DEF CandidatesInv
  <1>2. ruleset' = ruleset
    BY ClockAndRules
  <1>3. PICK s, T : s = session' /\ T = ToSet(candidates')
    OBVIOUS
  <1>4. CASE Visit
    <2>1. PICK accepted \in SessionCandidates(state[s], active') :
             s \in Sessions /\ state' = state /\ T = accepted
      BY <1>3, <1>4, VisitFields
    <2>2. Found(s, T)
      <3>1. ASSUME NEW r \in T, NEW k \in Compared(s) PROVE FitsIn(r, s, k)
        <4>1. PICK i \in 1 .. Len(pool) : pool[i] = r
          BY <2>1, SessionAccepted
        <4>2. r \in Requests /\ MatchByPartyAttribute(Seeker(state[s]), ruleset, Request[r])
          BY <2>1, <4>1, SessionAccepted
        <4>3. QED
          BY <2>1, <4>2, AttributeFits
      <3>2. ASSUME NEW o \in Agreeing, ruleset.options[o] = "any"
            PROVE  /\ AnyFits(s, o, T)
                   /\ ruleset.anyCommon /\ ~CrossPlayed(s, o)
                      /\ o \in DOMAIN Backfill[s].attributes /\ T # {} => AllShare(s, o, T)
        BY <2>1, <3>2, SessionSearch
      <3>3. QED
        BY <3>1, <3>2 DEF Found
    <2>3. \A o : Carries(s, o)' = Carries(s, o)
      BY <2>1 DEF Carries
    <2>4. Found(s, T)'
      BY <1>2, <2>2, <2>3, FoundLater
    <2>5. QED
      BY <1>3, <2>4
  <1>5. CASE ~Visit
    <2>1. PICK S : S = ToSet(candidates)
      OBVIOUS
    <2>2. s = session /\ pc = "ticket" /\ T \subseteq S
      <3>1. candidates \in Seq(ToSet(pool)) /\ IsInjective(candidates)
        BY DEF TypeOK
      <3>2. CASE Skip \/ Refuse \/ NoTeam
        <4>1. candidates # <<>> /\ candidates' = Tail(candidates) /\ pc = "ticket" /\ session' = session
          BY <3>2 DEF Skip, Refuse, NoTeam, Agreed, Considering, visitVars
        <4>2. QED
          BY <1>3, <2>1, <3>1, <4>1, InjectiveTail
      <3>3. CASE JoinTeam
        <4>1. PICK r \in Requests : Joining(r)
          BY <3>3, JoinTeamJoining
        <4>2. QED
          BY <1>3, <2>1, <4>1 DEF Joining
      <3>4. CASE ~(Skip \/ Refuse \/ NoTeam \/ JoinTeam)
        <4>1. candidates' = candidates /\ session' = session /\ pc' = pc
          BY <1>1, <1>5, <3>4 DEF Next, ReturnEarly, Begin, AllVisited, CandidatesEnd, TimeIsUp,
                                  Propose, Tick, Finished, vars, visitVars
        <4>2. QED
          BY <1>1, <1>3, <2>1, <4>1
      <3>5. QED
        BY <3>2, <3>3, <3>4
    <2>3. Found(s, S) /\ s \in Sessions
      BY <2>1, <2>2 DEF CandidatesInv, TypeOK
    <2>4. ASSUME NEW o \in Agreeing, ruleset.options[o] = "any", ruleset.anyCommon,
                 NEW v \in Carries(s, o), \A r \in S : v \in Its(r, o)
          PROVE  v \in Carries(s, o)'
      <3>1. CASE ~JoinTeam
        <4>1. o # "blocked_players"
          BY DEF Agreeing
        <4>2. QED
          BY <2>3, <2>4, <3>1, <4>1, SameSession
      <3>2. CASE JoinTeam
        <4>1. PICK r \in Requests : Joining(r)
          BY <3>2, JoinTeamJoining
        <4>2. v \in Its(r, o)
          BY <2>1, <2>4, <4>1 DEF Joining
        <4>3. PICK before, after : /\ before = Carries(session, o)
                                   /\ after = Values(state'[session].attributes, o)
          OBVIOUS
        <4>4. before \cap Its(r, o) # {} => after = before \cap Its(r, o)
          BY <2>4, <3>2, <4>1, <4>3, JoiningOptions
        <4>5. v \in before
          BY <2>2, <2>4, <4>3
        <4>6. v \in after
          BY <4>2, <4>4, <4>5
        <4>7. QED
          BY <2>2, <4>3, <4>6 DEF Carries
      <3>3. QED
        BY <3>1, <3>2
    <2>5. Found(s, T)'
      BY <1>2, <2>2, <2>3, <2>4, FoundLater
    <2>6. QED
      BY <1>3, <2>5
  <1>6. QED
    BY <1>4, <1>5

\* Whoever joins was a candidate that fits, and is near enough; those who joined before
\* stay so.
LEMMA JoinedInductive ==
    ASSUME TypeOK, TeamsInv, RuleInv, SessionInv, CandidatesInv, JoinedTicketsFit, [Next]_vars
    PROVE  JoinedTicketsFit'
  <1>1. ruleset' = ruleset
    BY ClockAndRules
  <1>2. ASSUME NEW s \in Sessions, NEW r \in JoinedIn(s)'
        PROVE  r \in Requests /\ Reaches(r, Given[s].region) /\ \A k \in Compared(s) : FitsIn(r, s, k)
    <2>1. CASE r \in JoinedIn(s)
      BY <2>1 DEF JoinedTicketsFit, JoinedIn
    <2>2. CASE r \notin JoinedIn(s)
      <3>1. JoinTeam /\ s = session
        BY <1>2, <2>2, SameSession
      <3>2. PICK q \in Requests : Joining(q)
        BY <3>1, JoinTeamJoining
      <3>3. q = r
        BY <1>2, <2>2, <3>1, <3>2 DEF Joining
      <3>4. r \in ToSet(candidates) /\ pc = "ticket"
        BY <3>2, <3>3 DEF Joining
      <3>5. \A k \in Compared(s) : FitsIn(r, s, k)
        BY <3>1, <3>4 DEF CandidatesInv, Found
      <3>6. Reaches(r, Given[s].region)
        BY <3>1, <3>2, <3>3, JoiningReaches
      <3>7. QED
        BY <3>2, <3>3, <3>5, <3>6
    <2>3. QED
      BY <2>1, <2>2
  <1>3. ASSUME NEW s \in Sessions, NEW r \in JoinedIn(s)'
        PROVE  Reaches(r, Given[s].region)' /\ \A k \in Compared(s)' : FitsIn(r, s, k)'
    <2>1. PICK region : region = Given[s].region
      OBVIOUS
    <2>2. Reaches(r, region)'
      BY <1>2, <1>3, <2>1, ReachesLater
    <2>3. ASSUME NEW k \in Compared(s)' PROVE FitsIn(r, s, k)'
      <3>1. k \in Compared(s)
        BY <1>1, <2>3 DEF Compared
      <3>2. FitsIn(r, s, k)
        BY <1>2, <1>3, <3>1
      <3>3. QED
        BY <1>1, <3>2, Zenon DEF FitsIn
    <2>4. QED
      BY <2>1, <2>2, <2>3
  <1>4. QED
    BY <1>3 DEF JoinedTicketsFit

\* At first nobody has joined, and sessions are as given.
LEMMA InitFits ==
    ASSUME Init
    PROVE  FitInv
  <1>1. TypeOK /\ ReportedOnce
    BY InitInvariant DEF IInv
  <1>2. /\ active = ruleset /\ pc = "start" /\ state = Given
        /\ updated = <<>> /\ satisfied = <<>>
    BY DEF Init
  <1>3. \A s \in Sessions : JoinedIn(s) = {}
    <2>1. Reported = {}
      BY <1>2, ToSetEmpty DEF Reported
    <2>2. \A s \in Sessions : s \in Reported <=> JoinedIn(s) # {}
      BY <1>1 DEF ReportedOnce
    <2>3. QED
      BY <2>1, <2>2
  <1>4. \A s \in Sessions : state[s].attributes = Backfill[s].attributes
    BY <1>2, GivenFields
  <1>5. FlexInv
    BY <1>2 DEF FlexInv
  <1>6. SessionInv
    BY <1>2, <1>4 DEF SessionInv
  <1>7. ASSUME NEW s \in Sessions, NEW o \in Agreeing
        PROVE  OptionFits(s, o, JoinedIn(s)) /\ OptionHeld(s, o, Carries(s, o), JoinedIn(s))
    <2>1. JoinedIn(s) = {} /\ Carries(s, o) = Had(s, o)
      BY <1>3, <1>4 DEF Carries, Had
    <2>2. QED
      BY <2>1 DEF OptionFits, OptionHeld, AnyFits
  <1>8. OptionsInv /\ SessionOptionsAgree
    BY <1>7 DEF OptionsInv, SessionOptionsAgree
  <1>9. CandidatesInv
    BY <1>2 DEF CandidatesInv
  <1>10. JoinedTicketsFit
    BY <1>3 DEF JoinedTicketsFit
  <1>11. QED
    BY <1>5, <1>6, <1>8, <1>9, <1>10 DEF FitInv

\* Every step keeps it so.
LEMMA NextFits ==
    ASSUME IInv, FitInv, [Next]_vars
    PROVE  FitInv'
  <1>1. TypeOK /\ TeamsInv /\ RuleInv
    BY DEF IInv
  <1>2. FlexInv /\ SessionInv /\ OptionsInv /\ CandidatesInv /\ SessionOptionsAgree /\ JoinedTicketsFit
    BY DEF FitInv
  <1>3. FlexInv' /\ SessionInv'
    BY <1>1, <1>2, FlexInductive, SessionInductive
  <1>4. OptionsInv' /\ SessionOptionsAgree'
    BY <1>1, <1>2, OptionsInductive
  <1>5. CandidatesInv' /\ JoinedTicketsFit'
    BY <1>1, <1>2, CandidatesInductive, JoinedInductive
  <1>6. QED
    BY <1>3, <1>4, <1>5 DEF FitInv

-----------------------------------------------------------------------------
(* The proposals.                                                          *)

\* The teams given stay in their places, with the parties they had and tickets that
\* joined; the others have tickets only.
GrownInv ==
    \A s \in Sessions :
        /\ \A i \in DOMAIN Given[s].teams :
              /\ i \in DOMAIN state[s].teams
              /\ state[s].teams[i].id = Given[s].teams[i].id
              /\ Given[s].teams[i].parties \subseteq state[s].teams[i].parties
        /\ \A i \in DOMAIN state[s].teams : \A p \in state[s].teams[i].parties :
              p.id \in Requests \/ (i \in DOMAIN Given[s].teams /\ p \in Given[s].teams[i].parties)

\* Proposals are sent one after the other, of sessions that do not change any more.
ProposalsInv == \A i \in DOMAIN proposals : proposals[i] = Proposed((updated \o satisfied)[i])

\* The inductive invariant of proposals.
SentInv == GrownInv /\ ProposalsInv

\* A ticket that joins leaves the teams given where they are.
LEMMA GrownInductive ==
    ASSUME TypeOK, TeamsInv, RuleInv, GrownInv, [Next]_vars
    PROVE  GrownInv'
  <1>1. SUFFICES ASSUME NEW s \in Sessions
                 PROVE  /\ \A i \in DOMAIN Given[s].teams :
                              /\ i \in DOMAIN state'[s].teams
                              /\ state'[s].teams[i].id = Given[s].teams[i].id
                              /\ Given[s].teams[i].parties \subseteq state'[s].teams[i].parties
                        /\ \A i \in DOMAIN state'[s].teams : \A p \in state'[s].teams[i].parties :
                              \/ p.id \in Requests
                              \/ i \in DOMAIN Given[s].teams /\ p \in Given[s].teams[i].parties
    BY DEF GrownInv
  <1>2. PICK given, ts, new : given = Given[s].teams /\ ts = state[s].teams /\ new = state'[s].teams
    OBVIOUS
  <1>3. /\ \A i \in DOMAIN given :
              i \in DOMAIN ts /\ ts[i].id = given[i].id /\ given[i].parties \subseteq ts[i].parties
        /\ \A i \in DOMAIN ts : \A p \in ts[i].parties :
              p.id \in Requests \/ (i \in DOMAIN given /\ p \in given[i].parties)
    BY <1>2 DEF GrownInv
  <1>4. CASE new = ts
    BY <1>2, <1>3, <1>4
  <1>5. CASE new # ts
    <2>1. JoinTeam
      <3>1. ~JoinTeam => state'[s].teams = state[s].teams
        BY OthersKeepTeams, KeptParties
      <3>2. QED
        BY <1>2, <1>5, <3>1
    <2>2. PICK r \in round : \E i : Joins(r, i)
      BY <2>1, JoinTeamJoins
    <2>3. PICK i : Joins(r, i)
      BY <2>2
    <2>4. r \in Requests
      BY DEF TypeOK
    <2>5. s = session
      BY <1>2, <1>5, <2>3 DEF Joins, SameTeams
    <2>6. PICK p : p = CreateMatchingParty(Request[r])
      OBVIOUS
    <2>7. PartyAdded(ts, new, i, p)
      BY <1>2, <2>3, <2>4, <2>5, <2>6, JoinsTeams
    <2>8. p.id \in Requests
      BY <2>4, <2>6, PartyFields
    <2>9. /\ DOMAIN new = DOMAIN ts \cup {i}
          /\ new[i].parties = (IF i \in DOMAIN ts THEN ts[i].parties ELSE {}) \cup {p}
          /\ i \in DOMAIN ts => new[i].id = ts[i].id
          /\ \A j \in DOMAIN ts : j # i => new[j] = ts[j]
      BY <2>7 DEF PartyAdded, PartiesAt
    <2>10. ASSUME NEW j \in DOMAIN given
           PROVE  j \in DOMAIN new /\ new[j].id = given[j].id /\ given[j].parties \subseteq new[j].parties
      BY <1>3, <2>9
    <2>11. ASSUME NEW j \in DOMAIN new, NEW q \in new[j].parties
           PROVE  q.id \in Requests \/ (j \in DOMAIN given /\ q \in given[j].parties)
      <3>1. CASE j \in DOMAIN ts /\ q \in ts[j].parties
        BY <1>3, <3>1
      <3>2. q = p \/ (j \in DOMAIN ts /\ q \in ts[j].parties)
        BY <2>9, <2>11
      <3>3. QED
        BY <2>8, <3>1, <3>2
    <2>12. QED
      BY <1>2, <2>10, <2>11
  <1>6. QED
    BY <1>4, <1>5

\* Nothing changes a proposal, nor the session it was made of.
LEMMA ProposalsInductive ==
    ASSUME TypeOK, PoolInv, PoolInv', ProposalsInv, [Next]_vars
    PROVE  ProposalsInv'
  <1>1. CASE UNCHANGED <<state, round, satisfiedTickets, updated, satisfied>>
    <2>1. \A s : Proposed(s)' = Proposed(s)
      BY <1>1 DEF Proposed
    <2>2. PICK q : q = updated \o satisfied
      OBVIOUS
    <2>3. \A i \in DOMAIN proposals : proposals[i] = Proposed(q[i])
      BY <2>2 DEF ProposalsInv
    <2>4. \A i \in DOMAIN proposals' : proposals'[i] = Proposed(q[i])
      <3>1. CASE proposals' = proposals
        BY <2>3, <3>1
      <3>2. CASE Propose
        <4>1. PICK n, x : /\ n = Len(proposals) + 1 /\ x = Proposed(q[n])
          OBVIOUS
        <4>2. proposals' = Append(proposals, x)
          BY <2>2, <3>2, <4>1 DEF Propose
        <4>3. proposals \in Seq(ToSet(proposals))
          BY DEF TypeOK
        <4>4. /\ Len(proposals) \in Nat
              /\ DOMAIN proposals = 1 .. Len(proposals) /\ DOMAIN proposals' = 1 .. Len(proposals) + 1
              /\ \A i \in 1 .. Len(proposals) : proposals'[i] = proposals[i]
              /\ proposals'[Len(proposals) + 1] = x
          BY <4>2, <4>3, AppendAny
        <4>5. \A i \in 1 .. n : i \in 1 .. Len(proposals) \/ i = n
          BY <4>1, <4>4
        <4>6. QED
          BY <2>3, <4>1, <4>4, <4>5
      <3>3. Propose \/ proposals' = proposals
        BY DEF Next, ReturnEarly, Begin, Visit, AllVisited, CandidatesEnd, TimeIsUp, Skip, Refuse,
               NoTeam, JoinTeam, Tick, Finished, vars, outVars
      <3>4. QED
        BY <3>1, <3>2, <3>3
    <2>5. (updated \o satisfied)' = q
      BY <1>1, <2>2
    <2>6. QED
      BY <2>1, <2>4, <2>5 DEF ProposalsInv
  <1>2. CASE pc' # "done"
    <2>1. proposals' = <<>>
      BY <1>2 DEF PoolInv
    <2>2. QED
      BY <2>1 DEF ProposalsInv
  <1>3. CASE pc' = "done" /\ ~UNCHANGED <<state, round, satisfiedTickets, updated, satisfied>>
    <2>1. CASE JoinTeam
      <3>1. PICK i \in Places :
               IF Full(TeamsWith(i)) THEN FillSession(Joined(i)) ELSE UpdateSession(Joined(i))
        BY <2>1 DEF JoinTeam
      <3>2. pc' = "session" \/ (pc' = pc /\ pc = "ticket")
        BY <2>1, <3>1 DEF FillSession, UpdateSession, JoinTeam, Agreed, Considering
      <3>3. QED
        BY <1>3, <3>2
    <2>2. CASE Refuse \/ NoTeam
      BY <1>3, <2>2 DEF Refuse, NoTeam, Agreed, Considering
    <2>3. CASE ~JoinTeam /\ ~Refuse /\ ~NoTeam
      BY <1>3, <2>3 DEF Next, ReturnEarly, Begin, Visit, AllVisited, CandidatesEnd, TimeIsUp, Skip,
                        Propose, Tick, Finished, vars, callVars, outVars
    <2>4. QED
      BY <2>1, <2>2, <2>3
  <1>4. QED
    BY <1>1, <1>2, <1>3

\* Whoever some tickets know together with one of some users.
KnownBy(tickets, users) ==
    UNION {DOMAIN tickets[i].players : i \in {k \in DOMAIN tickets : DOMAIN tickets[k].players \cap users # {}}}

\* The parties made of a team are all of its users, and those known together with them.
LEMMA TeamUsers ==
    ASSUME NEW users, NEW tickets, NEW n \in Nat, DOMAIN tickets = 1 .. n, NEW dashed
    PROVE  LET S == UsersOf(TeamToMatchingParties(users, tickets, dashed)) IN
           users \subseteq S /\ S \subseteq users \cup KnownBy(tickets, users)
  <1>1. PICK P : P = TeamToMatchingParties(users, tickets, dashed)
    OBVIOUS
  <1>2. ASSUME NEW u \in users PROVE \E p \in P : u \in DOMAIN p.players
    <2>1. DEFINE T == {i \in DOMAIN tickets : u \in DOMAIN tickets[i].players}
    <2>2. CASE T = {}
      <3>1. DEFINE unknown == {v \in users : \A i \in DOMAIN tickets : ~(v \in DOMAIN tickets[i].players)}
                   external == [id |-> ExternalParty, players |-> [v \in unknown |-> <<>>],
                                attributes |-> <<>>, since |-> 0]
      <3>2. u \in unknown
        BY <1>2, <2>2
      <3>3. external \in P
        BY <1>1, <3>2 DEF TeamToMatchingParties
      <3>4. u \in DOMAIN external.players
        BY <3>2
      <3>5. HIDE DEF external
      <3>6. QED
        BY <3>3, <3>4
    <2>3. CASE T # {}
      <3>1. T \subseteq Nat
        OBVIOUS
      <3>2. PICK i \in T : \A j \in T : i <= j
        <4>1. HIDE DEF T
        <4>2. QED
          BY <2>3, <3>1, SmallestNumber
      <3>3. i \in DOMAIN tickets /\ u \in DOMAIN tickets[i].players /\ i \in Nat
        BY <3>1
      <3>4. ASSUME NEW j \in 1 .. i - 1 PROVE u \notin DOMAIN tickets[j].players
        <4>1. j \in DOMAIN tickets /\ ~(i <= j)
          BY <3>3
        <4>2. QED
          BY <3>2, <4>1
      <3>5. DEFINE Knows(k, v) == v \in DOMAIN tickets[k].players
                   found == {k \in DOMAIN tickets : \E v \in users :
                                Knows(k, v) /\ \A j \in 1 .. k - 1 : ~Knows(j, v)}
                   PartyOf(t) == [id |-> IF t.id \in dashed THEN ExternalParty ELSE t.id,
                                  players |-> t.players, attributes |-> t.attributes, since |-> 0]
      <3>6. i \in found
        BY <1>2, <3>3, <3>4
      <3>7. {PartyOf(tickets[k]) : k \in found} \subseteq P
        BY <1>1 DEF TeamToMatchingParties
      <3>8. PartyOf(tickets[i]).players = tickets[i].players
        OBVIOUS
      <3>9. QED
        <4>1. HIDE DEF found, PartyOf
        <4>2. QED
          BY <3>3, <3>6, <3>7, <3>8
    <2>4. QED
      BY <2>2, <2>3
  <1>3. ASSUME NEW p \in P
        PROVE  DOMAIN p.players \subseteq users \cup KnownBy(tickets, users)
    <2>1. CASE \E i \in DOMAIN tickets :
                  p.players = tickets[i].players /\ DOMAIN tickets[i].players \cap users # {}
      BY <2>1 DEF KnownBy
    <2>2. CASE DOMAIN p.players \subseteq users
      BY <2>2
    <2>3. QED
      BY <1>1, <2>1, <2>2 DEF TeamToMatchingParties
  <1>4. QED
    BY <1>1, <1>2, <1>3 DEF UsersOf

\* The teams a backfill ticket has somebody in.
Was(s) == {team \in ToSet(Backfill[s].teams) : team.users # {}}

\* The players of the tickets the backfill ticket knows some users by.
Companions(s, users) ==
    UNION {DOMAIN t.players : t \in {u \in ToSet(Backfill[s].tickets) : DOMAIN u.players \cap users # {}}}

\* A team as the session is given it: nobody is missing, and only companions come back.
Kept(team, given, s) ==
    /\ given.id = team.id /\ team.users \subseteq UsersOf(given.parties)
    /\ UsersOf(given.parties) \subseteq team.users \cup Companions(s, team.users)

\* Each of those teams is one the session is given, and no other is given.
LEMMA GivenTeams ==
    ASSUME NEW s \in Sessions
    PROVE  /\ \A team \in Was(s) : \E i \in DOMAIN Given[s].teams : Kept(team, Given[s].teams[i], s)
           /\ \A i \in DOMAIN Given[s].teams : \E team \in Was(s) : Kept(team, Given[s].teams[i], s)
  <1>1. PICK b, w, T, n :
           /\ b = Backfill[s] /\ w = BackfillOverTheWire(b) /\ T = {i \in DOMAIN b.teams : b.teams[i].users # {}}
           /\ n = Len(b.tickets)
    OBVIOUS
  <1>2. /\ {"teams", "tickets"} \subseteq DOMAIN b
        /\ b.teams \in Seq(ToSet(b.teams)) /\ b.tickets \in Seq(ToSet(b.tickets))
        /\ \A t \in ToSet(b.tickets) : {"id", "players", "attributes", "excluded"} \subseteq DOMAIN t
    <2>1. /\ {"teams", "tickets"} \subseteq DOMAIN Backfill[s]
          /\ Backfill[s].teams \in Seq(ToSet(Backfill[s].teams))
          /\ Backfill[s].tickets \in Seq(ToSet(Backfill[s].tickets))
          /\ \A t \in ToSet(Backfill[s].tickets) :
                {"id", "players", "attributes", "excluded"} \subseteq DOMAIN t
      BY BackfillAssumption
    <2>2. QED
      BY <1>1, <2>1
  <1>3. n \in Nat /\ DOMAIN b.tickets = 1 .. n
    BY <1>1, <1>2, ToSetType
  <1>4. w.teams = Picked(b.teams, T) /\ w.tickets = [i \in 1 .. n |-> OverTheWire(b.tickets[i])]
    BY <1>1, <1>2, <1>3 DEF BackfillOverTheWire
  <1>5. ToSet(w.teams) = Was(s)
    <2>1. T \subseteq DOMAIN b.teams
      BY <1>1
    <2>2. ToSet(w.teams) = {b.teams[i] : i \in T}
      BY <1>2, <1>4, <2>1, PickedProperties
    <2>3. QED
      BY <1>1, <2>2 DEF Was, ToSet
  <1>6. Given[s].teams = [i \in DOMAIN w.teams |->
               [id |-> w.teams[i].id,
                parties |-> TeamToMatchingParties(w.teams[i].users, w.tickets, w.dashed)]]
    <2>1. PICK g : g = FromBackfillTicket(w, Attributes)
      OBVIOUS
    <2>2. g.teams = [i \in DOMAIN w.teams |->
             [id |-> w.teams[i].id,
              parties |-> TeamToMatchingParties(w.teams[i].users, w.tickets, w.dashed)]]
      BY <2>1 DEF FromBackfillTicket
    <2>3. Given[s] = g
      BY <1>1, <2>1 DEF Given
    <2>4. QED
      BY <2>2, <2>3
  <1>7. \A i \in 1 .. n : w.tickets[i].players = b.tickets[i].players /\ b.tickets[i] \in ToSet(b.tickets)
    <2>1. SUFFICES ASSUME NEW i \in 1 .. n
                   PROVE  w.tickets[i].players = b.tickets[i].players /\ b.tickets[i] \in ToSet(b.tickets)
      OBVIOUS
    <2>2. PICK t \in ToSet(b.tickets) : t = b.tickets[i]
      BY <1>3 DEF ToSet
    <2>3. w.tickets[i].players = t.players
      BY <1>2, <1>4, <2>2 DEF OverTheWire
    <2>4. QED
      BY <2>2, <2>3
  <1>8. \A users : KnownBy(w.tickets, users) \subseteq Companions(s, users)
    <2>1. SUFFICES ASSUME NEW users, NEW i \in DOMAIN w.tickets,
                          DOMAIN w.tickets[i].players \cap users # {}
                   PROVE  DOMAIN w.tickets[i].players \subseteq Companions(s, users)
      BY DEF KnownBy
    <2>2. i \in 1 .. n
      BY <1>4
    <2>3. PICK t \in ToSet(Backfill[s].tickets) : w.tickets[i].players = t.players
      BY <1>1, <1>7, <2>2
    <2>4. QED
      BY <2>1, <2>3 DEF Companions
  <1>9. ASSUME NEW i \in DOMAIN w.teams
        PROVE  Kept(w.teams[i], Given[s].teams[i], s)
    <2>1. PICK given, team : given = Given[s].teams[i] /\ team = w.teams[i]
      OBVIOUS
    <2>2. given.id = team.id /\ given.parties = TeamToMatchingParties(team.users, w.tickets, w.dashed)
      BY <1>6, <2>1
    <2>3. DOMAIN w.tickets = 1 .. n
      BY <1>4
    <2>4. /\ team.users \subseteq UsersOf(given.parties)
          /\ UsersOf(given.parties) \subseteq team.users \cup KnownBy(w.tickets, team.users)
      BY <1>3, <2>2, <2>3, TeamUsers
    <2>5. QED
      BY <1>8, <2>1, <2>2, <2>4 DEF Kept
  <1>10. DOMAIN Given[s].teams = DOMAIN w.teams
    BY <1>6
  <1>11. QED
    BY <1>5, <1>9, <1>10 DEF ToSet

\* A team as it is sent: its name, and the users of its parties.
SentTeam(team, new) == new.id = SentName(team) /\ new.users = UsersOf(team.parties)

\* Every team is sent like that, and nothing else.
SameSent(ts, sent) ==
    /\ \A i \in DOMAIN ts : \E new \in ToSet(sent) : SentTeam(ts[i], new)
    /\ \A new \in ToSet(sent) : \E i \in DOMAIN ts : SentTeam(ts[i], new)

\* What becomes of teams with somebody in each is sent like that (matchlogic.go:441-490).
LEMMA SentTeams ==
    ASSUME NEW sources, NEW S, NEW ts \in Seq(S), \A team \in ToSet(ts) : team.parties # {}
    PROVE  SameSent(ts, ToTeams(sources, ts))
  <1>1. DEFINE Team(a) == [id |-> IF a.id = "" THEN "new" ELSE a.id,
                           users |-> UsersOf(a.parties),
                           parties |-> {[id |-> PartySession(p, sources), users |-> DOMAIN p.players] :
                                        p \in a.parties}]
               T == {i \in DOMAIN ts : ts[i].parties # {}}
               filled == Picked(ts, T)
  <1>2. PICK sent : sent = ToTeams(sources, ts)
    OBVIOUS
  <1>3. sent = [i \in DOMAIN filled |-> Team(filled[i])]
    BY <1>2, Zenon DEF ToTeams
  <1>4. \A a : Team(a).id = SentName(a) /\ Team(a).users = UsersOf(a.parties)
    BY Zenon DEF SentName
  <1>5. T = DOMAIN ts
    BY DEF ToSet
  <1> HIDE DEF Team, T, filled
  <1>6. ToSet(filled) = ToSet(ts)
    <2>1. ToSet(filled) = {ts[i] : i \in T}
      BY <1>5, PickedProperties DEF filled
    <2>2. QED
      BY <1>5, <2>1 DEF ToSet
  <1>7. ASSUME NEW i \in DOMAIN ts
        PROVE  \E new \in ToSet(sent) : new = Team(ts[i])
    <2>1. PICK k \in DOMAIN filled : filled[k] = ts[i]
      BY <1>6 DEF ToSet
    <2>2. sent[k] = Team(ts[i]) /\ k \in DOMAIN sent
      BY <1>3, <2>1
    <2>3. QED
      BY <2>2 DEF ToSet
  <1>8. ASSUME NEW new \in ToSet(sent)
        PROVE  \E i \in DOMAIN ts : new = Team(ts[i])
    <2>1. PICK k \in DOMAIN sent : new = sent[k]
      BY DEF ToSet
    <2>2. k \in DOMAIN filled /\ new = Team(filled[k])
      BY <1>3, <2>1
    <2>3. PICK i \in DOMAIN ts : ts[i] = filled[k]
      BY <1>6, <2>2 DEF ToSet
    <2>4. QED
      BY <2>2, <2>3
  <1>9. QED
    BY <1>2, <1>4, <1>7, <1>8 DEF SameSent, SentTeam

\* A ticket over the wire, once or twice, has its id and its players.
LEMMA SourceFields ==
    ASSUME NEW r \in Requests
    PROVE  /\ Source[r].id = r /\ Source[r].players = Ticket[r].players
           /\ OverTheWire(Source[r]).id = r /\ OverTheWire(Source[r]).players = Ticket[r].players
  <1>1. IsTicket(Ticket[r]) /\ Ticket[r].id = r
    BY BackfillAssumption
  <1>2. PICK src : src = Source[r]
    OBVIOUS
  <1>3. src = [Ticket[r] EXCEPT !.excluded = {}]
    BY <1>2 DEF Source, OverTheWire
  <1>4. src.id = r /\ src.players = Ticket[r].players /\ DOMAIN src = DOMAIN Ticket[r]
    BY <1>1, <1>3 DEF IsTicket
  <1>5. OverTheWire(src) = [src EXCEPT !.excluded = {}]
    BY DEF OverTheWire
  <1>6. OverTheWire(src).id = r /\ OverTheWire(src).players = Ticket[r].players
    BY <1>1, <1>4, <1>5 DEF IsTicket
  <1>7. QED
    BY <1>2, <1>4, <1>6

\* A proposal has the session's id, the tickets that joined and the session's teams.
LEMMA ProposalFields ==
    ASSUME IInv, NEW s \in Sessions
    PROVE  LET p == Proposed(s) IN
           /\ p.session = Backfill[s].id
           /\ p.added = {OverTheWire(Source[r]) : r \in JoinedIn(s)}
           /\ p.teams = ToTeams({Source[r] : r \in round}, state[s].teams)
  <1>1. TypeOK /\ PoolInv /\ PlacesInv
    BY DEF IInv
  <1>2. PICK sess, src, sat, f, ps, joined :
           /\ sess = state[s] /\ src = {Source[r] : r \in round} /\ sat = Of(satisfiedTickets)
           /\ f = FromMatchResultToBackfillProposal(sess, sat, src)
           /\ ps = UNION {sess.teams[i].parties : i \in DOMAIN sess.teams}
           /\ joined = {p \in ps : \E t \in sat : t.id = p.id}
    OBVIOUS
  <1>3. f = [session |-> sess.id, added |-> TicketsOf(joined, src), teams |-> ToTeams(src, sess.teams)]
    BY <1>2, Zenon DEF FromMatchResultToBackfillProposal
  <1>4. /\ f.session = sess.id /\ f.added = TicketsOf(joined, src) /\ f.teams = ToTeams(src, sess.teams)
        /\ DOMAIN f = {"session", "added", "teams"}
    BY <1>3
  <1>5. Proposed(s) = ProposalOverTheWire(f)
    BY <1>2, Zenon DEF Proposed
  <1>6. PICK e : e = Proposed(s)
    OBVIOUS
  <1>7. e.session = f.session /\ e.added = {OverTheWire(t) : t \in f.added} /\ e.teams = f.teams
    BY <1>4, <1>5, <1>6 DEF ProposalOverTheWire
  <1>8. sess.id = Backfill[s].id
    BY <1>1, <1>2 DEF TypeOK
  <1>9. PartiesOf(state[s]) = ps
    BY <1>1, <1>2, TeamsType
  <1>10. TicketsOf(joined, src) = {Source[r] : r \in JoinedIn(s)}
    <2>1. \A r \in Requests : Request[r].id = r /\ Source[r].id = r
      BY RequestFields, SourceFields
    <2>2. round \subseteq Requests /\ satisfiedTickets \subseteq round
      BY <1>1 DEF TypeOK
    <2>3. \A x : x \in {t.id : t \in sat} <=> x \in satisfiedTickets
      BY <1>2, <2>1, <2>2 DEF Of
    <2>4. \A r : r \in JoinedIn(s) <=> r \in Requests /\ \E p \in ps : p.id = r
      BY <1>9 DEF JoinedIn
    <2>5. ASSUME NEW r \in JoinedIn(s)
          PROVE  r \in round /\ \E p \in joined : p.id = r
      <3>1. PICK p \in ps : p.id = r
        BY <2>4
      <3>2. PICK i \in DOMAIN state[s].teams : p \in state[s].teams[i].parties
        BY <1>2, <3>1
      <3>3. Has(s, i, r) /\ r \in Requests
        BY <2>4, <3>1, <3>2 DEF Has
      <3>4. r \in round /\ r \notin ToSet(pool)
        BY <1>1, <3>2, <3>3 DEF PlacesInv
      <3>5. r \in satisfiedTickets
        BY <1>1, <3>4 DEF PoolInv
      <3>6. \E t \in sat : t.id = r
        BY <2>3, <3>5
      <3>7. p \in joined
        BY <1>2, <3>1, <3>6
      <3>8. QED
        BY <3>1, <3>4, <3>7
    <2>6. ASSUME NEW t \in TicketsOf(joined, src)
          PROVE  \E r \in JoinedIn(s) : t = Source[r]
      <3>1. PICK r \in round : t = Source[r]
        BY <1>2 DEF TicketsOf
      <3>2. PICK p \in joined : p.id = t.id
        BY DEF TicketsOf
      <3>3. p \in ps /\ p.id = r
        BY <1>2, <2>1, <2>2, <3>1, <3>2
      <3>4. QED
        BY <2>2, <2>4, <3>1, <3>3
    <2>7. ASSUME NEW r \in JoinedIn(s)
          PROVE  Source[r] \in TicketsOf(joined, src)
      <3>1. r \in Requests /\ r \in round /\ \E p \in joined : p.id = r
        BY <2>4, <2>5
      <3>2. Source[r] \in src /\ \E p \in joined : p.id = Source[r].id
        BY <1>2, <2>1, <3>1
      <3>3. QED
        BY <3>2 DEF TicketsOf
    <2>8. QED
      BY <2>6, <2>7
  <1>11. {OverTheWire(t) : t \in f.added} = {OverTheWire(Source[r]) : r \in JoinedIn(s)}
    BY <1>4, <1>10
  <1>12. QED
    BY <1>2, <1>4, <1>6, <1>7, <1>8, <1>11

\* So a proposal keeps everybody where they played and adds the tickets that joined.
LEMMA ProposalKeeps ==
    ASSUME IInv, GrownInv, NEW s \in Sessions
    PROVE  SentFor(s, Proposed(s))
  <1>1. TypeOK /\ TeamsInv
    BY DEF IInv
  <1>2. PICK p, added, ts, joined, given :
           /\ p = Proposed(s) /\ added = UNION {DOMAIN t.players : t \in p.added}
           /\ ts = state[s].teams /\ joined = JoinedIn(s) /\ given = Given[s].teams
    OBVIOUS
  <1>3. /\ p.session = Backfill[s].id /\ p.added = {OverTheWire(Source[r]) : r \in joined}
        /\ p.teams = ToTeams({Source[r] : r \in round}, ts)
    BY <1>2, ProposalFields
  <1>4. joined \subseteq Requests
    BY <1>2 DEF JoinedIn
  <1>5. {t.id : t \in p.added} = joined
    BY <1>3, <1>4, SourceFields
  <1>6. \A r \in joined : DOMAIN Ticket[r].players \subseteq added
    <2>1. SUFFICES ASSUME NEW r \in joined PROVE DOMAIN Ticket[r].players \subseteq added
      OBVIOUS
    <2>2. OverTheWire(Source[r]) \in p.added /\ OverTheWire(Source[r]).players = Ticket[r].players
      BY <1>3, <1>4, SourceFields
    <2>3. QED
      BY <1>2, <2>2
  <1>7. /\ ts \in Seq(AnyTeam) /\ \A i \in DOMAIN ts : ts[i].parties \subseteq Parties
        /\ PartiesOf(state[s]) = UNION {ts[i].parties : i \in DOMAIN ts}
        /\ \A team \in ToSet(ts) : team.parties # {}
    BY <1>1, <1>2, TeamsType DEF TeamsInv
  <1>8. /\ \A i \in DOMAIN given :
              i \in DOMAIN ts /\ ts[i].id = given[i].id /\ given[i].parties \subseteq ts[i].parties
        /\ \A i \in DOMAIN ts : \A q \in ts[i].parties :
              q.id \in Requests \/ (i \in DOMAIN given /\ q \in given[i].parties)
    BY <1>2 DEF GrownInv
  <1>9. ASSUME NEW i \in DOMAIN ts, NEW q \in ts[i].parties, q.id \in Requests
        PROVE  DOMAIN q.players \subseteq added
    <2>1. q = CreateMatchingParty(Request[q.id])
      BY <1>7, <1>9, PartiesFields
    <2>2. q.players = Ticket[q.id].players
      BY <1>9, <2>1, PartyFields, RequestFields
    <2>3. q.id \in joined
      BY <1>2, <1>7, <1>9 DEF JoinedIn
    <2>4. QED
      BY <1>6, <2>2, <2>3
  <1>10. ASSUME NEW i \in DOMAIN given
         PROVE  /\ UsersOf(given[i].parties) \subseteq UsersOf(ts[i].parties)
                /\ UsersOf(ts[i].parties) \subseteq UsersOf(given[i].parties) \cup added
    <2>1. i \in DOMAIN ts /\ given[i].parties \subseteq ts[i].parties
      BY <1>8
    <2>2. \A q \in ts[i].parties : q \in given[i].parties \/ DOMAIN q.players \subseteq added
      BY <1>8, <1>9, <2>1
    <2>3. QED
      BY <2>1, <2>2 DEF UsersOf
  <1>11. ASSUME NEW i \in DOMAIN ts, i \notin DOMAIN given
         PROVE  UsersOf(ts[i].parties) \subseteq added
    BY <1>8, <1>9, <1>11 DEF UsersOf
  <1>12. /\ \A i \in DOMAIN ts : \E new \in ToSet(p.teams) :
               new.id = SentName(ts[i]) /\ new.users = UsersOf(ts[i].parties)
         /\ \A new \in ToSet(p.teams) : \E i \in DOMAIN ts :
               new.id = SentName(ts[i]) /\ new.users = UsersOf(ts[i].parties)
    <2>1. PICK sources : sources = {Source[r] : r \in round}
      OBVIOUS
    <2>2. SameSent(ts, ToTeams(sources, ts))
      BY <1>7, SentTeams
    <2>3. SameSent(ts, p.teams)
      BY <1>3, <2>1, <2>2
    <2>4. QED
      BY <2>3 DEF SameSent, SentTeam
  <1>13. \A i \in DOMAIN given : \A team : Kept(team, given[i], s) => SentName(ts[i]) = SentName(team)
    BY <1>8, Zenon DEF Kept, SentName
  <1>14. ASSUME NEW team \in Was(s)
         PROVE  \E new \in ToSet(p.teams) :
                   /\ new.id = SentName(team) /\ team.users \subseteq new.users
                   /\ new.users \subseteq team.users \cup Companions(s, team.users) \cup added
    <2>1. PICK i \in DOMAIN given : Kept(team, given[i], s)
      BY <1>2, GivenTeams
    <2>2. i \in DOMAIN ts
      BY <1>8
    <2>3. PICK new \in ToSet(p.teams) :
             new.id = SentName(ts[i]) /\ new.users = UsersOf(ts[i].parties)
      BY <1>12, <2>2
    <2>4. new.id = SentName(team)
      BY <1>13, <2>1, <2>3
    <2>5. QED
      BY <1>10, <2>1, <2>3, <2>4 DEF Kept
  <1>15. ASSUME NEW new \in ToSet(p.teams)
         PROVE  new.id \in {SentName(team) : team \in Was(s)} \/ new.users \subseteq added
    <2>1. PICK i \in DOMAIN ts : new.id = SentName(ts[i]) /\ new.users = UsersOf(ts[i].parties)
      BY <1>12
    <2>2. CASE i \in DOMAIN given
      <3>1. PICK team \in Was(s) : Kept(team, given[i], s)
        BY <1>2, <2>2, GivenTeams
      <3>2. new.id = SentName(team)
        BY <1>13, <2>1, <2>2, <3>1
      <3>3. QED
        BY <3>2
    <2>3. CASE i \notin DOMAIN given
      BY <1>11, <2>1, <2>3
    <2>4. QED
      BY <2>2, <2>3
  <1>16. QED
    BY <1>2, <1>3, <1>5, <1>14, <1>15, Zenon DEF SentFor, Was, Companions

\* At first there is no proposal, and the teams are those given.
LEMMA InitSent ==
    ASSUME Init
    PROVE  SentInv
  <1>1. state = Given /\ proposals = <<>>
    BY DEF Init
  <1>2. GrownInv
    BY <1>1 DEF GrownInv
  <1>3. QED
    BY <1>1, <1>2 DEF SentInv, ProposalsInv

\* MatchSessions keeps the invariant: nobody is in two places, the tickets out of the
\* pool are those in sessions, and the lists of blocked players are complete.
THEOREM Invariance == Spec => []IInv
  <1>1. Init => IInv
    BY InitInvariant
  <1>2. IInv /\ [Next]_vars => IInv'
    BY NextInvariant
  <1>3. QED
    BY <1>1, <1>2, PTL DEF Spec

\* The variables of MatchSessions keep their types (matchsession.go:25-484).
THEOREM Typed == Spec => []TypeOK
  <1>1. IInv => TypeOK
    BY DEF IInv
  <1>2. QED
    BY <1>1, Invariance, PTL

\* A ticket is in the pool or in one team of one session, and the satisfied tickets are
\* those in sessions (matchsession.go:399-402).
THEOREM TicketInOnePlace == Spec => []TicketInOneTeam
  <1>1. ASSUME IInv PROVE TicketInOneTeam
    <2>1. TypeOK /\ PoolInv /\ PlacesInv
      BY <1>1 DEF IInv
    <2>2. DEFINE InTeam(s, i, r) == r \in {p.id : p \in state[s].teams[i].parties}
                 places(r) == UNION {{s} \X {i \in DOMAIN state[s].teams : InTeam(s, i, r)} : s \in Sessions}
    <2>3. ASSUME NEW r \in round
          PROVE  /\ Cardinality(places(r)) = IF r \in ToSet(pool) THEN 0 ELSE 1
                 /\ r \in satisfiedTickets <=> r \notin ToSet(pool)
      <3>1. r \in Requests
        BY <2>1 DEF TypeOK
      <3>2. \A s \in Sessions : \A i \in DOMAIN state[s].teams : InTeam(s, i, r) <=> Has(s, i, r)
        BY DEF Has
      <3>3. \A x : x \in places(r) <=>
               \E s \in Sessions : \E i \in DOMAIN state[s].teams : Has(s, i, r) /\ x = <<s, i>>
        <4>1. HIDE DEF InTeam
        <4>2. \A x : x \in places(r) <=>
                 \E s \in Sessions : x \in {s} \X {i \in DOMAIN state[s].teams : InTeam(s, i, r)}
          OBVIOUS
        <4>3. \A s \in Sessions : \A x :
                 x \in {s} \X {i \in DOMAIN state[s].teams : InTeam(s, i, r)}
                    <=> \E i \in DOMAIN state[s].teams : InTeam(s, i, r) /\ x = <<s, i>>
          OBVIOUS
        <4>4. QED
          BY <3>2, <4>2, <4>3
      <3>4. r \notin ToSet(pool) <=> \E s \in Sessions : \E i \in DOMAIN state[s].teams : Has(s, i, r)
        BY <2>1, <3>1 DEF PlacesInv
      <3>5. \A s, t \in Sessions : \A i \in DOMAIN state[s].teams : \A j \in DOMAIN state[t].teams :
               Has(s, i, r) /\ Has(t, j, r) => s = t /\ i = j
        BY <2>1, <3>1 DEF PlacesInv
      <3>6. PICK P : P = places(r)
        OBVIOUS
      <3>7. CASE r \in ToSet(pool)
        <4>1. P = {}
          <5>1. HIDE DEF places
          <5>2. QED
            BY <3>3, <3>4, <3>6, <3>7
        <4>2. Cardinality(P) = 0
          BY <4>1, FS_EmptySet
        <4>3. QED
          BY <2>1, <3>6, <3>7, <4>2 DEF PoolInv
      <3>8. CASE r \notin ToSet(pool)
        <4>1. PICK s \in Sessions : \E i \in DOMAIN state[s].teams : Has(s, i, r)
          BY <3>4, <3>8
        <4>2. PICK i \in DOMAIN state[s].teams : Has(s, i, r)
          BY <4>1
        <4>3. P = {<<s, i>>}
          <5>1. HIDE DEF places
          <5>2. <<s, i>> \in P
            BY <3>3, <3>6, <4>2
          <5>3. \A x \in P : x = <<s, i>>
            BY <3>3, <3>5, <3>6, <4>2
          <5>4. QED
            BY <5>2, <5>3
        <4>4. Cardinality(P) = 1
          BY <4>3, FS_Singleton
        <4>5. QED
          BY <2>1, <3>6, <3>8, <4>4 DEF PoolInv
      <3>9. QED
        BY <3>7, <3>8
    <2>4. QED
      BY <2>3 DEF TicketInOneTeam
  <1>2. QED
    BY <1>1, Invariance, PTL

\* Nobody joins a session they are in already (matchsession.go:73-80).
THEOREM NobodyTwice == Spec => []UserInSessionOnce
  <1>1. IInv => UserInSessionOnce
    BY DEF IInv
  <1>2. QED
    BY <1>1, Invariance, PTL

\* Sessions grow within the alliance rules their age has warranted
\* (matchsession.go:247-299).
THEOREM GrowsWithinRules == Spec => []SessionInRange
  <1>1. IInv => SessionInRange
    BY DEF IInv
  <1>2. QED
    BY <1>1, Invariance, PTL

\* The sessions reported are those a ticket joined, each in the right list as long as
\* the rules cannot change for it (matchsession.go:404-477).
THEOREM ReportedRight == Spec => []ReportedOnce
  <1>1. IInv => ReportedOnce
    BY DEF IInv
  <1>2. QED
    BY <1>1, Invariance, PTL

\* Players who have blocked each other do not meet in a session
\* (matchsession.go:121-142).
THEOREM BlockedStayApart == Spec => []NoBlockedInSession
  <1>1. IInv => NoBlockedInSession
    BY DEF IInv
  <1>2. QED
    BY <1>1, Invariance, PTL

\* Those who join fit the session they join, and each other.
THEOREM FitInvariance == Spec => []FitInv
  <1>1. Init => FitInv
    BY InitFits
  <1>2. IInv /\ FitInv /\ [Next]_vars => FitInv'
    BY NextFits
  <1>3. QED
    BY <1>1, <1>2, Invariance, PTL DEF Spec

\* The options of a session's tickets agree, in the way of each option's type, with
\* what the session had and with each other (matchsession.go:144-227, 326-353).
THEOREM SessionOptionsFit == Spec => []SessionOptionsAgree
  <1>1. FitInv => SessionOptionsAgree
    BY DEF FitInv
  <1>2. QED
    BY <1>1, FitInvariance, PTL

\* Whoever joins a session is within reach of its region and has the attributes it must
\* match (manualSearch.go:209-265).
THEOREM JoinedFit == Spec => []JoinedTicketsFit
  <1>1. FitInv => JoinedTicketsFit
    BY DEF FitInv
  <1>2. QED
    BY <1>1, FitInvariance, PTL

\* What is sent is made of the sessions as they are left.
THEOREM SentInvariance == Spec => []SentInv
  <1>1. Init => SentInv
    BY InitSent
  <1>2. ASSUME IInv, IInv', SentInv, [Next]_vars
        PROVE  SentInv'
    <2>1. TypeOK /\ TeamsInv /\ RuleInv /\ PoolInv /\ GrownInv /\ ProposalsInv
      BY <1>2 DEF IInv, SentInv
    <2>2. PoolInv'
      BY <1>2 DEF IInv
    <2>3. GrownInv' /\ ProposalsInv'
      BY <1>2, <2>1, <2>2, GrownInductive, ProposalsInductive
    <2>4. QED
      BY <2>3 DEF SentInv
  <1>3. IInv /\ IInv' /\ SentInv /\ [Next]_vars => SentInv'
    BY <1>2
  <1>4. QED
    BY <1>1, <1>3, Invariance, PTL DEF Spec

\* A proposal keeps everybody where they played and adds exactly the tickets that
\* joined (matchlogic.go:443-490, 573-663).
THEOREM ProposalsKeepTeams == Spec => []TeamsKept
  <1>1. ASSUME IInv, SentInv
        PROVE  TeamsKept
    <2>1. PICK q : q = updated \o satisfied
      OBVIOUS
    <2>2. /\ updated \in Seq(Sessions) /\ satisfied \in Seq(Sessions)
          /\ proposals \in Seq(ToSet(proposals)) /\ Len(proposals) <= Len(updated) + Len(satisfied)
      BY <1>1 DEF IInv, TypeOK
    <2>3. q \in Seq(Sessions) /\ Len(q) = Len(updated) + Len(satisfied)
      BY <2>1, <2>2
    <2>4. /\ Len(proposals) \in Nat /\ Len(q) \in Nat
          /\ DOMAIN proposals = 1 .. Len(proposals) /\ DOMAIN q = 1 .. Len(q)
      BY <2>2, <2>3, LenProperties
    <2>5. \A i \in DOMAIN proposals : i \in DOMAIN q
      BY <2>2, <2>3, <2>4
    <2>6. ASSUME NEW i \in DOMAIN proposals
          PROVE  SentFor(q[i], proposals[i])
      <3>1. PICK s \in Sessions : s = q[i]
        BY <2>3, <2>4, <2>5
      <3>2. proposals[i] = Proposed(s)
        BY <1>1, <2>1, <3>1 DEF SentInv, ProposalsInv
      <3>3. SentFor(s, Proposed(s))
        BY <1>1, ProposalKeeps DEF SentInv
      <3>4. QED
        BY <3>1, <3>2, <3>3
    <2>7. QED
      BY <2>1, <2>6 DEF TeamsKept
  <1>2. IInv /\ SentInv => TeamsKept
    BY <1>1
  <1>3. QED
    BY <1>2, Invariance, SentInvariance, PTL

\* The tickets a proposal adds.
AddedBy(i) == {t.id : t \in proposals[i].added}

\* What BackfillStream takes a worker to send: each proposal adds tickets of the round
\* to one session, and two proposals have neither session nor tickets in common, unless
\* the same one is made again, once, because its rule has flexed.
ProposalsApart ==
    /\ \A i \in DOMAIN proposals : AddedBy(i) # {} /\ AddedBy(i) \subseteq round
    /\ \A i, j \in DOMAIN proposals : i # j =>
          IF proposals[i].session = proposals[j].session
          THEN ruleset.allianceFlex # <<>> /\ AddedBy(i) = AddedBy(j)
          ELSE AddedBy(i) \cap AddedBy(j) = {}
    /\ \A i, j, k \in DOMAIN proposals : i # j /\ j # k /\ i # k =>
          ~(proposals[i].session = proposals[j].session /\ proposals[j].session = proposals[k].session)

\* What is at two places of two sequences without repetitions is in one at each.
LEMMA TwoPlaces ==
    ASSUME NEW S, NEW u \in Seq(S), NEW v \in Seq(S), IsInjective(u), IsInjective(v),
           NEW i \in DOMAIN (u \o v), NEW j \in DOMAIN (u \o v), i # j, (u \o v)[i] = (u \o v)[j]
    PROVE  /\ i <= Len(u) <=> j > Len(u)
           /\ (u \o v)[i] \in ToSet(u) /\ (u \o v)[i] \in ToSet(v)
  <1>1. PICK m \in Nat, n \in Nat : m = Len(u) /\ n = Len(v) /\ DOMAIN u = 1 .. m /\ DOMAIN v = 1 .. n
    BY LenProperties
  <1>2. PICK q : q = u \o v
    OBVIOUS
  <1>3. DOMAIN q = 1 .. m + n /\ \A k \in 1 .. m + n : q[k] = IF k <= m THEN u[k] ELSE v[k - m]
    BY <1>1, <1>2
  <1>4. i \in 1 .. m + n /\ j \in 1 .. m + n /\ q[i] = q[j]
    BY <1>2, <1>3
  <1>5. ASSUME i <= m, j <= m PROVE FALSE
    <2>1. i \in DOMAIN u /\ j \in DOMAIN u /\ u[i] = u[j]
      BY <1>1, <1>3, <1>4, <1>5
    <2>2. QED
      BY <2>1 DEF IsInjective
  <1>6. ASSUME i > m, j > m PROVE FALSE
    <2>1. i - m \in DOMAIN v /\ j - m \in DOMAIN v /\ i - m # j - m
      BY <1>1, <1>4, <1>6
    <2>2. v[i - m] = v[j - m]
      BY <1>3, <1>4, <1>6
    <2>3. QED
      BY <2>1, <2>2 DEF IsInjective
  <1>7. i <= m <=> j > m
    BY <1>4, <1>5, <1>6
  <1>8. \E a, b \in 1 .. m + n : a <= m /\ b > m /\ q[a] = q[i] /\ q[b] = q[i]
    BY <1>4, <1>7
  <1>9. PICK a \in DOMAIN u, b \in DOMAIN v : u[a] = q[i] /\ v[b] = q[i]
    <2>1. PICK a \in 1 .. m + n, b \in 1 .. m + n : a <= m /\ b > m /\ q[a] = q[i] /\ q[b] = q[i]
      BY <1>8
    <2>2. a \in DOMAIN u /\ b - m \in DOMAIN v /\ q[a] = u[a] /\ q[b] = v[b - m]
      BY <1>1, <1>3, <2>1
    <2>3. QED
      BY <2>1, <2>2
  <1>10. q[i] \in ToSet(u) /\ q[i] \in ToSet(v)
    BY <1>9 DEF ToSet
  <1>11. QED
    BY <1>1, <1>2, <1>7, <1>10

\* The tickets that joined a session came in the round, and joined no other.
LEMMA JoinedApart ==
    ASSUME PlacesInv, NEW s \in Sessions, NEW t \in Sessions
    PROVE  JoinedIn(s) \subseteq round /\ (s # t => JoinedIn(s) \cap JoinedIn(t) = {})
  <1>1. ASSUME NEW c \in Sessions, NEW r \in JoinedIn(c)
        PROVE  r \in Requests /\ \E i \in DOMAIN state[c].teams : Has(c, i, r)
    <2>1. r \in Requests
      BY <1>1 DEF JoinedIn
    <2>2. PICK p \in PartiesOf(state[c]) : p.id = r
      BY <1>1 DEF JoinedIn
    <2>3. PICK team \in ToSet(state[c].teams) : p \in team.parties
      BY <2>2 DEF PartiesOf
    <2>4. PICK i \in DOMAIN state[c].teams : team = state[c].teams[i]
      BY <2>3 DEF ToSet
    <2>5. QED
      BY <2>1, <2>2, <2>3, <2>4 DEF Has
  <1>2. JoinedIn(s) \subseteq round
    BY <1>1 DEF PlacesInv
  <1>3. ASSUME NEW r \in JoinedIn(s), r \in JoinedIn(t) PROVE s = t
    BY <1>1, <1>3 DEF PlacesInv
  <1>4. QED
    BY <1>2, <1>3

\* Without flexing a session is in one of the lists only.
LEMMA NotInBoth ==
    ASSUME ReportedOnce, ruleset.allianceFlex = <<>>, NEW s \in Sessions,
           s \in ToSet(updated), s \in ToSet(satisfied)
    PROVE  FALSE
  <1>1. Warranted(s) = {ruleset.alliance}
    <2>1. DOMAIN ruleset.allianceFlex = {}
      OBVIOUS
    <2>2. QED
      BY <2>1 DEF Warranted
  <1>2. QED
    BY <1>1 DEF ReportedOnce

\* What runBackfilling sends is what BackfillStream takes a worker to send: tickets of
\* its round in different sessions' proposals, one proposal per session unless rules flex
\* (matchsession.go:394-477, matchlogic.go:213-221).
THEOREM ProposalsDiffer == Spec => []ProposalsApart
  <1>1. ASSUME IInv, TeamsKept
        PROVE  ProposalsApart
    <2>1. PICK q : q = updated \o satisfied
      OBVIOUS
    <2>2. /\ updated \in Seq(Sessions) /\ satisfied \in Seq(Sessions)
          /\ proposals \in Seq(ToSet(proposals)) /\ Len(proposals) <= Len(updated) + Len(satisfied)
          /\ PlacesInv /\ ReportedOnce
      BY <1>1 DEF IInv, TypeOK
    <2>3. q \in Seq(Sessions) /\ Len(q) = Len(updated) + Len(satisfied) /\ ToSet(q) = Reported
      BY <2>1, <2>2, ToSetConcat DEF Reported
    <2>4. /\ Len(proposals) \in Nat /\ Len(q) \in Nat
          /\ DOMAIN proposals = 1 .. Len(proposals) /\ DOMAIN q = 1 .. Len(q)
      BY <2>2, <2>3, LenProperties
    <2>5. \A i \in DOMAIN proposals : i \in DOMAIN q /\ q[i] \in Sessions /\ q[i] \in Reported
      <3>1. \A i \in DOMAIN proposals : i \in DOMAIN q
        BY <2>2, <2>3, <2>4
      <3>2. QED
        BY <2>3, <3>1, ElementOfSeq DEF ToSet
    <2>6. ASSUME NEW i \in DOMAIN proposals
          PROVE  /\ proposals[i].session = Backfill[q[i]].id /\ AddedBy(i) = JoinedIn(q[i])
                 /\ AddedBy(i) # {} /\ AddedBy(i) \subseteq round
      <3>1. SentFor(q[i], proposals[i])
        BY <1>1, <2>1 DEF TeamsKept
      <3>2. JoinedIn(q[i]) # {} /\ JoinedIn(q[i]) \subseteq round
        BY <2>2, <2>5, JoinedApart DEF ReportedOnce
      <3>3. QED
        BY <3>1, <3>2 DEF SentFor, AddedBy
    <2>7. \A i, j \in DOMAIN proposals : proposals[i].session = proposals[j].session <=> q[i] = q[j]
      BY <2>5, <2>6, BackfillAssumption
    <2>8. IsInjective(updated) /\ IsInjective(satisfied)
      BY <2>2 DEF ReportedOnce
    <2>9. ASSUME NEW i \in DOMAIN proposals, NEW j \in DOMAIN proposals, i # j
          PROVE  IF proposals[i].session = proposals[j].session
                 THEN ruleset.allianceFlex # <<>> /\ AddedBy(i) = AddedBy(j)
                 ELSE AddedBy(i) \cap AddedBy(j) = {}
      <3>1. CASE q[i] = q[j]
        <4>1. q[i] \in ToSet(updated) /\ q[i] \in ToSet(satisfied)
          BY <2>1, <2>2, <2>5, <2>8, <2>9, <3>1, TwoPlaces
        <4>2. ruleset.allianceFlex # <<>>
          BY <2>2, <2>5, <4>1, NotInBoth
        <4>3. QED
          BY <2>6, <2>7, <3>1, <4>2
      <3>2. CASE q[i] # q[j]
        <4>1. JoinedIn(q[i]) \cap JoinedIn(q[j]) = {}
          BY <2>2, <2>5, <3>2, JoinedApart
        <4>2. QED
          BY <2>6, <2>7, <3>2, <4>1
      <3>3. QED
        BY <3>1, <3>2
    <2>10. ASSUME NEW i \in DOMAIN proposals, NEW j \in DOMAIN proposals, NEW k \in DOMAIN proposals,
                  i # j, j # k, i # k, q[i] = q[j], q[j] = q[k]
           PROVE  FALSE
      <3>1. PICK m \in Nat : m = Len(updated)
        BY <2>2, LenProperties
      <3>2. i <= m <=> j > m
        BY <2>1, <2>2, <2>5, <2>8, <2>10, <3>1, TwoPlaces
      <3>3. j <= m <=> k > m
        BY <2>1, <2>2, <2>5, <2>8, <2>10, <3>1, TwoPlaces
      <3>4. i <= m <=> k > m
        BY <2>1, <2>2, <2>5, <2>8, <2>10, <3>1, TwoPlaces
      <3>5. i \in Nat /\ j \in Nat /\ k \in Nat
        BY <2>4
      <3>6. QED
        BY <3>1, <3>2, <3>3, <3>4, <3>5
    <2>11. QED
      BY <2>6, <2>7, <2>9, <2>10 DEF ProposalsApart
  <1>2. IInv /\ TeamsKept => ProposalsApart
    BY <1>1
  <1>3. QED
    BY <1>2, Invariance, ProposalsKeepTeams, PTL

\* Nobody leaves a session or changes teams (matchsession.go:319).
THEOREM EverybodyStays == Spec => PlayersStay
  <1>1. ASSUME IInv, [Next]_vars, NEW s \in Sessions, NEW team \in ToSet(state[s].teams)
        PROVE  \E other \in ToSet(state'[s].teams) : other.id = team.id /\ team.parties \subseteq other.parties
    <2>1. TypeOK /\ TeamsInv /\ RuleInv
      BY <1>1 DEF IInv
    <2>2. CASE state'[s].teams = state[s].teams
      BY <2>2
    <2>3. CASE JoinTeam
      <3>1. PICK r \in round : \E i : Joins(r, i)
        BY <2>1, <2>3, JoinTeamJoins
      <3>2. PICK i : Joins(r, i)
        BY <3>1
      <3>3. r \in Requests
        BY <2>1 DEF TypeOK
      <3>4. CASE s # session
        <4>1. state'[s].teams = state[s].teams
          BY <3>2, <3>4 DEF Joins, SameTeams
        <4>2. QED
          BY <2>2, <4>1
      <3>5. CASE s = session
        <4>1. PICK ts, new, p : /\ ts = state[s].teams /\ new = state'[s].teams
                                /\ p = CreateMatchingParty(Request[r])
          OBVIOUS
        <4>2. PartyAdded(ts, new, i, p)
          BY <2>1, <3>2, <3>3, <3>5, <4>1, JoinsTeams
        <4>3. PICK j \in DOMAIN ts : team = ts[j]
          BY <4>1 DEF ToSet
        <4>4. new[j] \in ToSet(new)
          BY <4>2 DEF PartyAdded, ToSet
        <4>5. new[j].id = team.id /\ team.parties \subseteq new[j].parties
          <5>1. CASE j = i
            BY <4>2, <4>3, <5>1 DEF PartyAdded, PartiesAt
          <5>2. CASE j # i
            BY <4>2, <4>3, <5>2 DEF PartyAdded
          <5>3. QED
            BY <5>1, <5>2
        <4>6. QED
          BY <4>1, <4>4, <4>5
      <3>6. QED
        BY <3>4, <3>5
    <2>4. CASE KeepsTeams
      BY <2>2, <2>4 DEF KeepsTeams, SameTeams
    <2>5. CASE UNCHANGED vars
      BY <2>2, <2>5 DEF vars
    <2>6. Refuse \/ NoTeam => KeepsTeams
      BY <2>1, RefreshedKeeps
    <2>7. ReturnEarly \/ Begin \/ Visit \/ AllVisited \/ CandidatesEnd \/ TimeIsUp
             \/ Skip \/ Propose \/ Tick \/ Finished => KeepsTeams
      BY <2>1, OthersKeep
    <2>8. QED
      BY <1>1, <2>3, <2>4, <2>5, <2>6, <2>7 DEF Next
  <1>2. IInv /\ [Next]_vars =>
           [\A s \in Sessions : \A team \in ToSet(state[s].teams) :
               team.parties = {} \/ \E other \in ToSet(state'[s].teams) :
                   other.id = team.id /\ team.parties \subseteq other.parties]_vars
    BY <1>1
  <1>3. QED
    BY <1>2, Invariance, PTL DEF Spec, PlayersStay
=============================================================================
