-------------------------- MODULE MCSessionBackfill --------------------------
(* Instances of SessionBackfill for TLC.  The id of a request is its name, and *)
(* so are those of its party and of the session of a backfill ticket.        *)
EXTENDS SessionBackfill

RuleOf(minT, maxT, minP, maxP) ==
    [minTeams |-> minT, maxTeams |-> maxT, minPlayers |-> minP, maxPlayers |-> maxP]

TicketOf(id, createdAt, players, latencies, attributes) ==
    [id |-> id, createdAt |-> createdAt, players |-> players, latencies |-> latencies,
     attributes |-> attributes, party |-> id, excluded |-> {}]

BackfillOf(id, createdAt, region, attributes, teams, tickets) ==
    [id |-> id, matchSession |-> id, createdAt |-> createdAt, region |-> region,
     attributes |-> attributes, teams |-> teams, tickets |-> tickets, dashed |-> {"p-2"}]

TeamOf(id, users) == [id |-> id, users |-> users]
Skill(mmr) == [mmr |-> mmr]
NoAttributes == <<>>
NoLatencies == <<>>

\* A rule set without anything but an alliance rule.
Plain(alliance) ==
    [alliance |-> alliance, allianceFlex |-> <<>>, rules |-> <<>>, flex |-> <<>>,
     options |-> <<>>, refersOptions |-> FALSE, block |-> "can", anyCommon |-> FALSE,
     initial |-> 0, rate |-> 1, range |-> 0, max |-> 0, skipAfter |-> 0,
     autoBackfill |-> TRUE, largerFirst |-> FALSE]

\* Two solos of one player, the second after leaving the third session, a pair, a solo
\* that blocked that player, a trio, and one that only wants a new session.
MixTickets == [
    t1 |-> TicketOf("t1", 1, "u1" :> Skill(10), [eu |-> 20, us |-> 90],
        [map |-> {"a", "b"}, hero |-> {"x"}, version |-> {"2"}, title |-> {"duel"}]),
    t2 |-> [TicketOf("t2", 2, "u1" :> Skill(16), [eu |-> 30, us |-> 20],
        [map |-> {"b"}, hero |-> {"y"}, version |-> {"2"}]) EXCEPT !.excluded = {"b3"}],
    t3 |-> TicketOf("t3", 2, [u3 |-> Skill(10), u4 |-> Skill(20)], [eu |-> 50, us |-> 70],
        [map |-> {"b", "c"}, hero |-> {"z"}, version |-> {"2"}]),
    t4 |-> TicketOf("t4", 4, "u5" :> Skill(12), [eu |-> 60, us |-> 50],
        [map |-> {"a", "b"}, hero |-> {"z"}, version |-> {"2"}, blocked_players |-> {"u1"}]),
    t5 |-> TicketOf("t5", 4, [u6 |-> Skill(14), u7 |-> Skill(14), u8 |-> Skill(14)], [eu |-> 10, us |-> 20],
        [map |-> {"a", "b"}, hero |-> {"x"}, version |-> {"2"}]),
    t6 |-> TicketOf("t6", 4, "u9" :> Skill(12), [eu |-> 10, us |-> 20],
        [new_session_only |-> {"true"}])]

\* The first has one place left and a list of its own, and somebody who came by hand;
\* the second has a team without players and a player nobody knows; in the third the
\* companion of v6 has left, and its title and server are empty.
MixBackfill == <<
    BackfillOf("b1", 1, <<>>,
        [map |-> {"a", "b", "c"}, hero |-> {"w"}, version |-> {"2"}, blocked_players |-> {"u5"}],
        <<TeamOf("red", {"v1", "v2"}), TeamOf("blue", {"v3"})>>,
        <<TicketOf("p1", 1, [v1 |-> Skill(11), v2 |-> Skill(15)], NoLatencies, [blocked_players |-> {"u5"}]),
          TicketOf("p-2", 1, "v3" :> Skill(13), NoLatencies, NoAttributes)>>),
    BackfillOf("b2", 1, <<"eu">>, [map |-> {"b"}, version |-> {"2"}],
        <<TeamOf("red", {}), TeamOf("blue", {"v4", "v5"})>>,
        <<TicketOf("p3", 1, "v4" :> Skill(13), NoLatencies, NoAttributes)>>),
    BackfillOf("b3", 2, <<"us">>, [hero |-> {"x"}, title |-> {""}, server_name |-> {""}],
        <<TeamOf("red", {"v6"})>>,
        <<TicketOf("p4", 1, [v6 |-> Skill(12), v7 |-> Skill(12)], NoLatencies, NoAttributes)>>)>>

\* Blocked players do not meet, wherever they are.
Strict == [Plain(RuleOf(1, 2, 1, 2)) EXCEPT
    !.options = [map |-> "disable", hero |-> "disable", version |-> "disable"], !.block = ""]

\* Options, distances and regions; more players for those who have waited.
Fitting == [Plain(RuleOf(1, 2, 1, 2)) EXCEPT
    !.allianceFlex = << [duration |-> 3, rule |-> RuleOf(1, 2, 1, 3)] >>,
    !.rules = [mmr |-> [criteria |-> "distance", reference |-> 4]],
    !.options = [map |-> "any", hero |-> "unique"],
    !.block = "other team", !.initial = 10, !.range = 20, !.rate = 2, !.max = 80]

\* Values common to all, larger parties first.
Common3 == [Plain(RuleOf(1, 2, 1, 3)) EXCEPT
    !.options = [map |-> "any", hero |-> "disable", version |-> "all"],
    !.anyCommon = TRUE, !.block = "cannot", !.largerFirst = TRUE]

MixRuleSets == {Strict, Fitting, Common3}

\* One place is left in the first session, several in the others.
FillTickets == [
    t1 |-> TicketOf("t1", 1, "u1" :> Skill(1), NoLatencies, NoAttributes),
    t2 |-> TicketOf("t2", 1, "u2" :> Skill(1), NoLatencies, NoAttributes),
    t3 |-> TicketOf("t3", 1, "u3" :> Skill(1), NoLatencies, NoAttributes),
    t4 |-> TicketOf("t4", 1, "u4" :> Skill(1), NoLatencies, NoAttributes)]
FillBackfill == <<
    BackfillOf("b1", 1, <<>>, NoAttributes, <<TeamOf("red", {"v1", "v2"})>>, <<>>),
    BackfillOf("b2", 1, <<>>, NoAttributes, <<TeamOf("red", {"v3"})>>, <<>>),
    BackfillOf("b3", 1, <<>>, [blocked_players |-> {"u2"}], <<TeamOf("red", {"v4"})>>,
        <<TicketOf("p1", 1, "v4" :> Skill(1), NoLatencies, [blocked_players |-> {"u2"}])>>)>>
FillRuleSets == {Plain(RuleOf(1, 1, 1, 3))}
TeamRuleSets == {[Plain(RuleOf(1, 1, 1, 3)) EXCEPT !.block = "other team"]}
=============================================================================
