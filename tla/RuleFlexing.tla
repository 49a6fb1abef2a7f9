---------------------------- MODULE RuleFlexing ----------------------------
(***************************************************************************)
(* Which rules apply to somebody who has waited since a given time         *)
(* (flexrule.go, allianceruleflex.go).  A rule set is a record; here       *)
(*   alliance      its alliance rule                                       *)
(*   allianceFlex  a sequence of [duration, rule]: the alliance rules it   *)
(*                 is flexed to                                            *)
(*   rules         per attribute [criteria, reference]                     *)
(*   flex          a sequence of [attribute, duration, criteria,           *)
(*                 reference]: the rules those are flexed to               *)
(* matter.  No attribute has two rules: only the first would be flexed.    *)
(***************************************************************************)
EXTENDS Integers, Sequences

IsActiveFlexRule(since, duration, now) == since + duration < now

\* The flexing rule that counts, of those at some positions of a list: of the
\* active ones one with the longest duration, and of those the last.
Chosen(list, about, since, now) ==
    {i \in about :
        /\ IsActiveFlexRule(since, list[i].duration, now)
        /\ \A j \in about : IsActiveFlexRule(since, list[j].duration, now) =>
              \/ list[j].duration < list[i].duration
              \/ list[j].duration = list[i].duration /\ j <= i}

ApplyAllianceFlexingRule(alliance, list, since, now) ==
    LET chosen == Chosen(list, DOMAIN list, since, now)
    IN  IF chosen = {} THEN alliance ELSE list[CHOOSE i \in chosen : TRUE].rule

\* The rule of one attribute.
FlexedRule(rs, attribute, since, now) ==
    LET chosen == Chosen(rs.flex, {i \in DOMAIN rs.flex : rs.flex[i].attribute = attribute}, since, now)
        f      == rs.flex[CHOOSE i \in chosen : TRUE]
    IN  IF chosen = {} THEN rs.rules[attribute] ELSE [criteria |-> f.criteria, reference |-> f.reference]

\* A copy of the rule set is flexed: the original must stay as it is for the
\* next pivot.
ApplyRuleFlexing(rs, since, now) ==
    [rs EXCEPT !.rules = [a \in DOMAIN rs.rules |-> FlexedRule(rs, a, since, now)]]

ApplyAllianceFlexingRules(rs, since, now) ==
    [rs EXCEPT !.alliance = ApplyAllianceFlexingRule(rs.alliance, rs.allianceFlex, since, now)]

ActiveRuleSet(rs, since, now) ==
    ApplyAllianceFlexingRules(ApplyRuleFlexing(rs, since, now), since, now)
=============================================================================
