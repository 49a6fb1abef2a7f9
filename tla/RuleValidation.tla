--------------------------- MODULE RuleValidation ---------------------------
(***************************************************************************)
(* The rule sets a call can come with: RulesFromJSON refuses the others    *)
(* (matchlogic.go, models.go).  Numbers are within 32 bits, names and the  *)
(* types of options and criteria are known ones.  Weights only matter to   *)
(* scores, which are not modelled.                                         *)
(***************************************************************************)
EXTENDS Integers, Sequences

\* What a rule set has.
IsRuleSet(rs) ==
    /\ {"alliance", "allianceFlex", "rules", "flex", "options", "refersOptions", "block", "anyCommon",
        "initial", "rate", "range", "max", "skipAfter", "autoBackfill", "largerFirst"} \subseteq DOMAIN rs
    /\ {rs.initial, rs.rate, rs.range, rs.max, rs.skipAfter} \subseteq Int

\* AllianceRule.Validate.
ValidAlliance(rule) ==
    /\ {rule.minTeams, rule.maxTeams, rule.minPlayers, rule.maxPlayers} \subseteq Nat \ {0}
    /\ rule.minTeams <= rule.maxTeams
    /\ rule.minPlayers <= rule.maxPlayers

\* AllianceFlexingRule.Validate.
ValidAllianceFlex(flex) == flex.duration \in Nat /\ ValidAlliance(flex.rule)

\* MatchingRule.Validate.
ValidMatchingRule(rule) == rule.reference >= 0

\* FlexingRule.Validate.
ValidFlex(flex) == flex.duration \in Nat /\ ValidMatchingRule(flex)

\* RuleSet.Validate.  Without a maximum there can be no initial range either.
ValidRuleSet(rs) ==
    /\ ValidAlliance(rs.alliance)
    /\ \A i \in DOMAIN rs.allianceFlex : ValidAllianceFlex(rs.allianceFlex[i])
    /\ \A a \in DOMAIN rs.rules : ValidMatchingRule(rs.rules[a])
    /\ \A i \in DOMAIN rs.flex : ValidFlex(rs.flex[i])
    /\ rs.block \in {"", "cannot", "other team", "can"}
    /\ rs.range >= 0 /\ rs.rate >= 0 /\ rs.initial >= 0 /\ rs.max >= 0
    /\ rs.initial <= rs.max

\* The default of RegionExpansionRateMs, since no attempt count is stored.
DefaultRate == 5000

\* RulesFromJSON, of the rule sets a game may have configured.
RulesFromJSON(offered) ==
    {[rs EXCEPT !.rate = IF rs.rate = 0 THEN DefaultRate ELSE rs.rate] :
        rs \in {o \in offered : ValidRuleSet(o)}}
=============================================================================
