-------------------------- MODULE MCPivotMatching --------------------------
(* Instances of PivotMatching for TLC.  The id of a request is its name.     *)
EXTENDS PivotMatching

RuleOf(minT, maxT, minP, maxP) ==
    [minTeams |-> minT, maxTeams |-> maxT, minPlayers |-> minP, maxPlayers |-> maxP]

TicketOf(id, createdAt, players, latencies, attributes) ==
    [id |-> id, createdAt |-> createdAt, players |-> players, latencies |-> latencies,
     attributes |-> attributes, party |-> <<"party", id>>, excluded |-> {}]

Skill(mmr) == [mmr |-> mmr]
NoAttributes == <<>>
NoLatencies == <<>>

\* A rule set without anything but an alliance rule.
Plain(alliance) ==
    [alliance |-> alliance, allianceFlex |-> <<>>, rules |-> <<>>, flex |-> <<>>,
     options |-> <<>>, refersOptions |-> FALSE, block |-> "can", anyCommon |-> FALSE,
     initial |-> 0, rate |-> 1, range |-> 0, max |-> 0, skipAfter |-> 0,
     autoBackfill |-> FALSE, largerFirst |-> FALSE]

\* Two solos queued in the same second, a pair, and two later solos.  They differ
\* in skill, platform, map and region, and some have blocked others.
MixTickets == [
    t1 |-> TicketOf("t1", 0, "u1" :> Skill(10), [eu |-> 20, us |-> 70],
        [current_platform |-> {"pc"}, cross_platform |-> {"pc", "xbox"},
         map |-> {"a", "b"}, hero |-> {"x"}, blocked_players |-> {"u5"}]),
    t2 |-> TicketOf("t2", 0, "u2" :> Skill(16), [eu |-> 90, us |-> 30],
        [current_platform |-> {"xbox"}, cross_platform |-> {"pc", "xbox"},
         map |-> {"b", "c"}, hero |-> {"y"}, mode |-> {"new"}]),
    t3 |-> TicketOf("t3", 2, [u3 |-> Skill(10), u4 |-> Skill(20)], [eu |-> 40, us |-> 60],
        [current_platform |-> {"pc"}, cross_platform |-> {"pc"},
         map |-> {"b"}, hero |-> {"x"}, blocked_players |-> {"u2"}]),
    t4 |-> TicketOf("t4", 4, "u5" :> Skill(12), NoLatencies,
        [current_platform |-> {"xbox"}, cross_platform |-> {"pc", "xbox"},
         map |-> {"a", "b"}, hero |-> {"y"}]),
    t5 |-> TicketOf("t5", 4, "u6" :> Skill(17), [eu |-> 70, us |-> 60],
        [current_platform |-> {"pc"}, cross_platform |-> {"xbox", "pc"},
         map |-> {"b", "c"}, hero |-> {"z"}, mode |-> {"old"}])]

\* No attribute is compared.
NoOptions == [cross_platform |-> "disable", current_platform |-> "disable", map |-> "disable",
              hero |-> "disable", mode |-> "disable"]

\* Fewer and larger teams, and a wider distance, for those who have waited.
Flexed ==
    [Plain(RuleOf(2, 2, 1, 2)) EXCEPT
        !.options = NoOptions,
        !.allianceFlex = << [duration |-> 4, rule |-> RuleOf(1, 2, 2, 3)] >>,
        !.rules = [mmr |-> [criteria |-> "distance", reference |-> 3]],
        !.flex = << [attribute |-> "mmr", duration |-> 4, criteria |-> "distance", reference |-> 6] >>,
        !.block = "other team", !.autoBackfill = TRUE]

\* Regions that widen, up to a maximum, and blocked players kept out of a match.
Regional ==
    [Plain(RuleOf(2, 2, 1, 2)) EXCEPT
        !.options = NoOptions, !.block = "cannot", !.initial = 20, !.rate = 2, !.range = 20, !.max = 80, !.skipAfter = 6,
        !.autoBackfill = TRUE]

\* Cross-play with values common to all, and heroes nobody shares.
Common3 ==
    [Plain(RuleOf(2, 3, 1, 1)) EXCEPT
        !.options = [cross_platform |-> "any", current_platform |-> "disable", map |-> "any",
                     hero |-> "disable"],
        !.anyCommon = TRUE]

\* Options of each type, the larger parties first.
Optional ==
    [Plain(RuleOf(1, 2, 2, 2)) EXCEPT
        !.options = [NoOptions EXCEPT !.current_platform = "all", !.map = "any"],
        !.largerFirst = TRUE, !.autoBackfill = TRUE]

Heroes ==
    [Plain(RuleOf(2, 2, 1, 2)) EXCEPT
        !.options = [NoOptions EXCEPT !.cross_platform = "any", !.map = "any",
                                      !.hero = "unique", !.mode = "any"]]

Single == Plain(RuleOf(1, 1, 1, 1))

\* The last two are refused.
MixRuleSets == {Flexed, Regional, Common3, Optional, Heroes, Single,
                [Single EXCEPT !.initial = 10], Plain(RuleOf(2, 1, 1, 1))}

\* A trio queued before two solos.
TrioTickets == [
    t1 |-> TicketOf("t1", 0, [u1 |-> Skill(1), u2 |-> Skill(1), u3 |-> Skill(1)], NoLatencies, NoAttributes),
    t2 |-> TicketOf("t2", 1, "u4" :> Skill(1), NoLatencies, NoAttributes),
    t3 |-> TicketOf("t3", 2, "u5" :> Skill(1), NoLatencies, NoAttributes)]
TrioRuleSets == {Plain(RuleOf(2, 2, 1, 3))}
=============================================================================
