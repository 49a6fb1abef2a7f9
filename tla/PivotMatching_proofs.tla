-------------------------- MODULE PivotMatching_proofs --------------------------
(***************************************************************************)
(* The safety of MatchPlayers for every set of tickets, every rule set and *)
(* any number of orders: no request is used twice, teams stay within the   *)
(* rules that were active, nobody is matched with somebody they blocked,   *)
(* beyond the distance they waited for or in a region out of their reach,  *)
(* options agree, matches are sent whole, and only pivots are given up.    *)
(***************************************************************************)
EXTENDS PivotMatching, CommonLemmas

-----------------------------------------------------------------------------
(* Requests and rule sets.                                                 *)

\* A request has what its ticket has, its regions in order.
LEMMA RequestFields ==
    ASSUME NEW r \in Requests
    PROVE  /\ Request[r].id = r
           /\ Request[r].createdAt \in 0 .. Start
           /\ IsFiniteSet(DOMAIN Request[r].players)
           /\ Request[r].players = Ticket[r].players
           /\ Request[r].attributes = Ticket[r].attributes
  <1>1. /\ IsTicket(Ticket[r])
        /\ Ticket[r].id = r /\ Ticket[r].createdAt \in 0 .. Start
    BY PivotAssumption
  <1>2. Request[r] = ToMatchRequest(OverTheWire(Ticket[r]), Attributes)
    BY DEF Request, Source
  <1>3. IsFiniteSet(DOMAIN Ticket[r].players)
    BY <1>1 DEF IsTicket
  <1>4. QED
    BY <1>1, <1>2, <1>3, TicketFields

\* The regions of a request are in order.
LEMMA RequestRegions ==
    ASSUME NEW r \in Requests
    PROVE  /\ Request[r].latency \in Seq([region : DOMAIN Ticket[r].latencies, ms : Nat])
           /\ \A i \in DOMAIN Request[r].latency : Request[r].latency[i].ms \in Nat
           /\ \A i, j \in DOMAIN Request[r].latency :
                 i < j => Request[r].latency[i].ms < Request[r].latency[j].ms
  <1>1. IsTicket(Ticket[r])
    BY PivotAssumption
  <1>2. Request[r].latency = SortedLatency(Ticket[r].latencies)
    BY <1>1, TicketFields DEF Request, Source
  <1>3. /\ Request[r].latency \in Seq([region : DOMAIN Ticket[r].latencies, ms : Nat])
        /\ \A i, j \in DOMAIN Request[r].latency :
              i < j => Request[r].latency[i].ms < Request[r].latency[j].ms
    BY <1>1, <1>2, SortedLatencyProperties
  <1>4. PICK S, q : /\ S = [region : DOMAIN Ticket[r].latencies, ms : Nat]
                    /\ q = Request[r].latency
    OBVIOUS
  <1>5. q \in Seq(S)
    BY <1>3, <1>4
  <1>6. \A i \in DOMAIN q : q[i] \in S
    BY <1>5
  <1>7. QED
    BY <1>3, <1>4, <1>6

\* The players of some requests can be counted.
LEMMA OfFinite ==
    ASSUME NEW S, S \subseteq Requests
    PROVE  IsFiniteSet(S) /\ IsFiniteSet(Of(S)) /\ \A p \in Of(S) : IsFiniteSet(DOMAIN p.players)
  <1>1. IsFiniteSet(S)
    BY PivotAssumption, FS_Subset
  <1>2. [r \in S |-> Request[r]] \in Surjection(S, Of(S))
    BY DEF Surjection, Of
  <1>3. IsFiniteSet(Of(S))
    BY <1>1, <1>2, FS_Surjection
  <1>4. QED
    BY <1>1, <1>3, RequestFields DEF Of

\* Players are counted by a number.
LEMMA PlayersType ==
    ASSUME NEW S, S \subseteq Requests
    PROVE  Players(S) \in Nat
  BY OfFinite, HeadcountFinite DEF Players

\* Nobody has no players.
LEMMA PlayersEmpty == Players({}) = 0
  <1>1. Of({}) = {}
    BY DEF Of
  <1>2. QED
    BY <1>1, HeadcountEmpty DEF Players

\* What joins adds no more than its own players.
LEMMA PlayersUnion ==
    ASSUME NEW S, S \subseteq Requests, NEW T, T \subseteq Requests
    PROVE  Players(S \cup T) <= Players(S) + Players(T)
  <1>1. Of(S \cup T) = Of(S) \cup Of(T)
    BY DEF Of
  <1>2. QED
    BY <1>1, OfFinite, HeadcountUnion DEF Players

\* The rule sets of a call have what is flexed, and are valid.
LEMMA RuleSetFields ==
    ASSUME NEW rs \in RuleSets
    PROVE  /\ IsRuleSet(rs)
           /\ {"alliance", "allianceFlex", "rules", "flex"} \subseteq DOMAIN rs
           /\ ValidAlliance(rs.alliance)
           /\ \A i \in DOMAIN rs.allianceFlex :
                 rs.allianceFlex[i].duration \in Nat /\ ValidAlliance(rs.allianceFlex[i].rule)
           /\ \A i \in DOMAIN rs.flex : rs.flex[i].duration \in Nat
           /\ rs.rate \in Nat \ {0} /\ {rs.initial, rs.range, rs.max} \subseteq Nat
  <1>1. \A o \in Offered : IsRuleSet(o)
    BY PivotAssumption
  <1>2. rs \in RulesFromJSON(Offered)
    BY DEF RuleSets
  <1>3. /\ IsRuleSet(rs)
        /\ ValidAlliance(rs.alliance)
        /\ \A i \in DOMAIN rs.allianceFlex :
              rs.allianceFlex[i].duration \in Nat /\ ValidAlliance(rs.allianceFlex[i].rule)
        /\ \A i \in DOMAIN rs.flex : rs.flex[i].duration \in Nat
        /\ rs.rate \in Nat \ {0} /\ {rs.initial, rs.range, rs.max} \subseteq Nat
    BY <1>1, <1>2, RulesFromJSONFields
  <1>4. {"alliance", "allianceFlex", "rules", "flex"} \subseteq DOMAIN rs
    BY <1>3 DEF IsRuleSet
  <1>5. QED
    BY <1>3, <1>4

-----------------------------------------------------------------------------
(* Rules flexed to an age.                                                 *)

\* The active alliance rule is valid, and one the pivot's age warrants.
LEMMA RuleWarranted ==
    ASSUME TypeOK, RuleInv
    PROVE  /\ Rule \in Warranted(ruleset.alliance, ruleset.allianceFlex, Request[pivot].createdAt)
           /\ ValidAlliance(Rule)
  <1>1. /\ ruleset \in RuleSets /\ now \in Start .. Start + TimeLimit
        /\ Request[pivot].createdAt \in 0 .. Start
        /\ Start \in Nat /\ TimeLimit \in Nat
    BY RequestFields, PivotAssumption DEF TypeOK
  <1>2. CASE active = ruleset
    BY <1>1, <1>2, RuleSetFields DEF Rule, Warranted
  <1>3. CASE \E t \in Start .. now : active = ActiveRuleSet(ruleset, Request[pivot].createdAt, t)
    <2>1. PICK t \in Start .. now : active = ActiveRuleSet(ruleset, Request[pivot].createdAt, t)
      BY <1>3
    <2>2. Rule = ApplyAllianceFlexingRule(ruleset.alliance, ruleset.allianceFlex,
                                          Request[pivot].createdAt, t)
      BY <1>1, <2>1, RuleSetFields, ActiveFields DEF Rule
    <2>3. CASE Rule = ruleset.alliance
      BY <1>1, <2>3, RuleSetFields DEF Warranted
    <2>4. CASE \E i \in DOMAIN ruleset.allianceFlex :
                  /\ Request[pivot].createdAt + ruleset.allianceFlex[i].duration < t
                  /\ Rule = ruleset.allianceFlex[i].rule
      <3>1. PICK i \in DOMAIN ruleset.allianceFlex :
                  /\ Request[pivot].createdAt + ruleset.allianceFlex[i].duration < t
                  /\ Rule = ruleset.allianceFlex[i].rule
        BY <2>4
      <3>2. ruleset.allianceFlex[i].duration \in Nat /\ ValidAlliance(Rule)
        BY <1>1, <3>1, RuleSetFields
      <3>3. Request[pivot].createdAt + ruleset.allianceFlex[i].duration < now
        BY <1>1, <3>1, <3>2
      <3>4. QED
        BY <3>1, <3>2, <3>3 DEF Warranted
    <2>5. QED
      BY <2>2, <2>3, <2>4, FlexedAlliance
  <1>4. QED
    BY <1>2, <1>3 DEF RuleInv

\* The first pass never allows more players than the rule does.
LEMMA AllowedBound ==
    ASSUME TypeOK, RuleInv
    PROVE  /\ PlayersAllowed \in Nat /\ PlayersAllowed <= Rule.maxPlayers
           /\ TeamsWanted \in Nat \ {0} /\ TeamsWanted <= Rule.maxTeams
           /\ {Rule.minTeams, Rule.maxTeams, Rule.minPlayers, Rule.maxPlayers} \subseteq Nat \ {0}
  <1>1. /\ {Rule.minTeams, Rule.maxTeams, Rule.minPlayers, Rule.maxPlayers} \subseteq Nat \ {0}
        /\ Rule.minTeams <= Rule.maxTeams /\ Rule.minPlayers <= Rule.maxPlayers
    BY RuleWarranted DEF ValidAlliance
  <1>2. DEFINE sizes == {Players({r}) : r \in {pivot} \cup ToSet(found)} \cup {Rule.maxPlayers}
  <1>3. {pivot} \cup ToSet(found) \subseteq Requests
    BY ToSetType DEF TypeOK
  <1>4. sizes \subseteq Nat /\ Rule.maxPlayers \in sizes
    BY <1>1, <1>3, PlayersType
  <1>5. \E n \in sizes : \A k \in sizes : n <= k
    <2>1. HIDE DEF sizes
    <2>2. QED
      BY <1>4, SmallestNumber
  <1>6. SmallestParty = CHOOSE n \in sizes : \A k \in sizes : n <= k
    BY DEF SmallestParty
  <1>7. SmallestParty \in sizes /\ SmallestParty <= Rule.maxPlayers
    <2>1. HIDE DEF sizes
    <2>2. QED
      BY <1>4, <1>5, <1>6
  <1>8. SmallestParty \in Nat
    BY <1>4, <1>7
  <1>9. FirstMax \in Nat /\ FirstMax <= Rule.maxPlayers
    BY <1>1, <1>7, <1>8 DEF FirstMax
  <1>10. pass \in {1, 2}
    BY DEF TypeOK
  <1>11. QED
    BY <1>1, <1>9, <1>10 DEF PlayersAllowed, TeamsWanted

-----------------------------------------------------------------------------
(* What the steps do to the queue, the order and the teams.                *)

\* Removing requests from a queue leaves all others, and no repetition.
LEMMA WithoutProperties ==
    ASSUME NEW q \in Seq(Requests), NEW S, NEW p \in Without(q, S)
    PROVE  p \in Seq(Requests) /\ IsInjective(p) /\ ToSet(p) = ToSet(q) \ S
  <1>1. IsFiniteSet(ToSet(q) \ S) /\ ToSet(q) \ S \subseteq Requests
    BY ToSetType, FS_Difference
  <1>2. p \in SetToSeqs(ToSet(q) \ S)
    BY DEF Without
  <1>3. /\ p \in Seq(ToSet(q) \ S) /\ IsInjective(p) /\ ToSet(p) = ToSet(q) \ S
    BY <1>1, <1>2, SetToSeqsProperties
  <1>4. QED
    BY <1>1, <1>3, SeqMonotonic

\* A pivot and a rotation of others in front of which it is put.
LEMMA RotationProperties ==
    ASSUME NEW x \in Requests, NEW q \in Seq(Requests), NEW k \in 0 .. Len(q),
           IsInjective(q), x \notin ToSet(q)
    PROVE  /\ <<x>> \o Rotation(q, k) \in Seq(Requests)
           /\ IsInjective(<<x>> \o Rotation(q, k))
           /\ ToSet(<<x>> \o Rotation(q, k)) \subseteq {x} \cup ToSet(q)
  <1>1. Len(q) \in Nat /\ DOMAIN q = 1 .. Len(q)
    BY ToSetType
  <1>2. DEFINE a == SubSeq(q, k + 1, Len(q))
               b == SubSeq(q, 1, k)
  <1>3. /\ a \in Seq(Requests) /\ DOMAIN a = 1 .. Len(q) - k
        /\ \A i \in 1 .. Len(q) - k : a[i] = q[k + i]
    BY <1>1, SubSeqProperties
  <1>4. /\ b \in Seq(Requests) /\ DOMAIN b = 1 .. k
        /\ \A i \in 1 .. k : b[i] = q[i]
    BY <1>1, SubSeqProperties
  <1>5. HIDE DEF a, b
  <1>6. \A i \in 1 .. Len(q) - k : k + i \in DOMAIN q
    BY <1>1
  <1>7. IsInjective(a) /\ IsInjective(b)
    <2>1. ASSUME NEW i \in 1 .. Len(q) - k, NEW j \in 1 .. Len(q) - k, a[i] = a[j]
          PROVE  i = j
      <3>1. q[k + i] = q[k + j]
        BY <1>3, <2>1
      <3>2. k + i = k + j
        BY <1>6, <3>1 DEF IsInjective
      <3>3. QED
        BY <1>1, <3>2
    <2>2. ASSUME NEW i \in 1 .. k, NEW j \in 1 .. k, b[i] = b[j]
          PROVE  i = j
      <3>1. q[i] = q[j] /\ i \in DOMAIN q /\ j \in DOMAIN q
        BY <1>1, <1>4, <2>2
      <3>2. QED
        BY <3>1 DEF IsInjective
    <2>3. QED
      BY <1>3, <1>4, <2>1, <2>2 DEF IsInjective
  <1>8. ToSet(a) \subseteq ToSet(q) /\ ToSet(b) \subseteq ToSet(q)
    <2>1. ToSet(a) \subseteq ToSet(q)
      BY <1>3, <1>6 DEF ToSet
    <2>2. ToSet(b) \subseteq ToSet(q)
      BY <1>1, <1>4 DEF ToSet
    <2>3. QED
      BY <2>1, <2>2
  <1>9. ASSUME NEW i \in 1 .. Len(q) - k, NEW j \in 1 .. k
        PROVE  a[i] # b[j]
    <2>1. k + i \in DOMAIN q /\ j \in DOMAIN q /\ k + i # j
      BY <1>1
    <2>2. QED
      BY <1>3, <1>4, <2>1 DEF IsInjective
  <1>10. ToSet(a) \cap ToSet(b) = {}
    BY <1>3, <1>4, <1>9 DEF ToSet
  <1>11. Rotation(q, k) = a \o b
    BY DEF Rotation, a, b
  <1>12. /\ Rotation(q, k) \in Seq(Requests) /\ IsInjective(Rotation(q, k))
         /\ ToSet(Rotation(q, k)) \subseteq ToSet(q)
    BY <1>3, <1>4, <1>6, <1>7, <1>8, <1>10, <1>11, ToSetConcat, InjectiveConcat
  <1>13. <<x>> \in Seq(Requests) /\ IsInjective(<<x>>) /\ ToSet(<<x>>) = {x}
    <2>1. <<x>> \in Seq(Requests) /\ DOMAIN <<x>> = {1} /\ <<x>>[1] = x
      OBVIOUS
    <2>2. QED
      BY <2>1 DEF IsInjective, ToSet
  <1>14. ToSet(<<x>>) \cap ToSet(Rotation(q, k)) = {}
    BY <1>12, <1>13
  <1>15. PICK s, t \in Seq(Requests) : s = <<x>> /\ t = Rotation(q, k)
    BY <1>12, <1>13
  <1>16. IsInjective(s) /\ IsInjective(t) /\ ToSet(s) \cap ToSet(t) = {}
    BY <1>12, <1>13, <1>14, <1>15
  <1>17. s \o t \in Seq(Requests) /\ ToSet(s \o t) = ToSet(s) \cup ToSet(t)
    BY ToSetConcat
  <1>18. IsInjective(s \o t)
    BY <1>16, InjectiveConcat
  <1>19. QED
    BY <1>12, <1>13, <1>15, <1>17, <1>18

\* What FillEnds makes of the team being filled.
LEMMA FilledType ==
    ASSUME TypeOK
    PROVE  Current \in Seq(Requests) /\ Filled \in Seq(Requests)
  <1>1. Current \in Seq(Requests)
    BY ToSetEmpty, ElementOfSeq DEF TypeOK, Current
  <1>2. QED
    BY <1>1 DEF Filled, TypeOK

\* Every order NextOrder tries is the pivot and a rotation of the candidates.
LEMMA OrderProperties ==
    ASSUME TypeOK, FoundInv, pc = "order", tried < OrderCount
    PROVE  /\ OrderAt(tried) \in Seq(Requests) /\ IsInjective(OrderAt(tried))
           /\ ToSet(OrderAt(tried)) \subseteq {pivot} \cup ToSet(found)
  <1>1. /\ found \in Seq(Requests) /\ Len(found) \in Nat /\ tried \in Nat /\ pivot \in Requests
        /\ IsInjective(found) /\ pivot \notin ToSet(found)
    BY ToSetType DEF TypeOK, FoundInv, Searching
  <1>2. AllyLoops \in Nat /\ (found = <<>> => Len(found) = 0)
    BY PivotAssumption
  <1>3. tried \in 0 .. Len(found)
    BY <1>1, <1>2 DEF OrderCount
  <1>4. QED
    BY <1>1, <1>3, RotationProperties DEF OrderAt

\* SearchRegion puts all candidates it can use in some order.
LEMMA SearchOrdersProperties ==
    ASSUME NEW S, S \subseteq Requests, NEW q \in SearchOrders(S)
    PROVE  q \in Seq(Requests) /\ IsInjective(q) /\ ToSet(q) = S
  <1>1. IsFiniteSet(S) /\ q \in SetToSeqs(S)
    BY OfFinite DEF SearchOrders
  <1>2. q \in Seq(S) /\ IsInjective(q) /\ ToSet(q) = S
    BY <1>1, SetToSeqsProperties
  <1>3. QED
    BY <1>2, SeqMonotonic

\* So does sortOldestFirst with the whole queue.
LEMMA OldestFirstProperties ==
    ASSUME TypeOK, NEW q \in OldestFirst(Pool), queue # <<>>
    PROVE  q \in Seq(Requests) /\ IsInjective(q) /\ ToSet(q) = Pool /\ q # <<>> /\ Head(q) \in Pool
  <1>1. IsFiniteSet(Pool) /\ Pool \subseteq Requests /\ queue \in Seq(Requests)
    BY ToSetType DEF TypeOK, Pool
  <1>2. q \in SetToSeqs(Pool)
    BY DEF OldestFirst
  <1>3. q \in Seq(Pool) /\ IsInjective(q) /\ ToSet(q) = Pool
    BY <1>1, <1>2, SetToSeqsProperties
  <1>4. Head(queue) \in Pool
    BY <1>1, InjectiveTail DEF TypeOK, Pool
  <1>5. q # <<>>
    BY <1>3, <1>4, ToSetEmpty
  <1>6. q \in Seq(Requests)
    BY <1>1, <1>3, SeqMonotonic
  <1>7. Head(q) \in Pool
    BY <1>3, <1>5, InjectiveTail
  <1>8. QED
    BY <1>3, <1>5, <1>6, <1>7

-----------------------------------------------------------------------------
(* Types.                                                                  *)

\* A call starts with a queue of different requests and nothing else.
LEMMA TypeInit == Init => TypeOK
  <1>1. SUFFICES ASSUME Init PROVE TypeOK
    OBVIOUS
  <1>2. /\ queue \in UNION {SetToSeqs(S) : S \in (SUBSET Requests) \ {{}}}
        /\ pivot = Head(queue)
        /\ ruleset \in RuleSets /\ now = Start /\ pc = "start" /\ region = 0 /\ tried = 0
        /\ found = <<>> /\ order = <<>> /\ team = <<>> /\ teams = <<>> /\ free = {}
        /\ pass = 1 /\ next = 1 /\ at = 1 /\ results = <<>> /\ sent = <<>>
    BY <1>1 DEF Init
  <1>3. PICK S \in (SUBSET Requests) \ {{}} : queue \in SetToSeqs(S)
    BY <1>2
  <1>4. IsFiniteSet(S) /\ S \subseteq Requests /\ S # {}
    BY <1>3, OfFinite
  <1>5. queue \in Seq(S) /\ IsInjective(queue) /\ ToSet(queue) = S
    BY <1>3, <1>4, SetToSeqsProperties
  <1>6. queue \in Seq(Requests) /\ queue # <<>>
    BY <1>4, <1>5, SeqMonotonic, ToSetEmpty
  <1>7. pivot \in Requests
    <2>1. Head(queue) \in ToSet(queue)
      BY <1>5, <1>6, InjectiveTail
    <2>2. QED
      BY <1>2, <1>4, <1>5, <2>1
  <1>8. Start \in Nat /\ TimeLimit \in Nat
    BY PivotAssumption
  <1>9. /\ <<>> \in Seq(Seq(Requests)) /\ <<>> \in Seq(Requests) /\ <<>> \in Seq({})
        /\ ToSet(<<>>) = {} /\ Len(<<>>) = 0
    BY ToSetEmpty
  <1>10. now \in Start .. Start + TimeLimit
    BY <1>2, <1>8
  <1>11. results \in Seq(ToSet(results)) /\ sent \in Seq(ToSet(sent)) /\ Len(sent) <= Len(results)
         /\ \A m \in ToSet(results) : FALSE
    BY <1>2, <1>9
  <1>12. QED
    BY <1>2, <1>5, <1>6, <1>7, <1>9, <1>10, <1>11 DEF TypeOK

\* Every step keeps the types, given that a pivot is chosen from a queue that is
\* not empty and the order has the candidates once.
LEMMA TypeInductive ==
    ASSUME TypeOK, PhaseInv, FoundInv, [Next]_vars
    PROVE  TypeOK'
  <1> USE DEF TypeOK, callVars, searchVars, teamVars, outVars
  <1>1. CASE UNCHANGED vars
    BY <1>1 DEF vars
  <1>2. CASE ReturnEarly \/ Begin \/ SinglePlayerEnds \/ RegionsEnd \/ OrdersEnd \/ Validate
             \/ OptionsDisagree \/ GiveUp \/ PassEnds
    <2>1. CASE ReturnEarly \/ SinglePlayerEnds \/ RegionsEnd \/ GiveUp
      BY <2>1 DEF ReturnEarly, SinglePlayerEnds, RegionsEnd, GiveUp
    <2>2. CASE Begin
      BY <2>2 DEF Begin
    <2>3. CASE OrdersEnd
      BY <2>3 DEF OrdersEnd
    <2>4. CASE OptionsDisagree
      BY <2>4 DEF OptionsDisagree
    <2>5. CASE Validate
      BY <2>5 DEF Validate
    <2>6. CASE PassEnds
      BY <2>6 DEF PassEnds, EndPass
    <2>7. QED
      BY <1>2, <2>1, <2>2, <2>3, <2>4, <2>5, <2>6
  <1>3. CASE SinglePlayer
    <2>1. PICK r : r = Head(queue)
      OBVIOUS
    <2>2. PICK m : m = Result(r, ruleset.alliance, <<<<r>>>>, RegionAt(r, 0), Request[r].attributes)
      OBVIOUS
    <2>3. results' = Append(results, m) /\ queue' = Tail(queue) /\ queue # <<>>
      BY <1>3, <2>1, <2>2 DEF SinglePlayer
    <2>4. queue' \in Seq(Requests) /\ IsInjective(queue') /\ r \in Requests
      BY <2>1, <2>3, InjectiveTail, ToSetType
    <2>5. m.pivot \in Requests /\ m.teams \in Seq(Seq(Requests))
      BY <2>2, <2>4 DEF Result
    <2>6. /\ results' \in Seq(ToSet(results')) /\ ToSet(results') = ToSet(results) \cup {m}
          /\ Len(results') = Len(results) + 1 /\ Len(results) \in Nat
      BY <2>3, AppendAny
    <2>7. Len(sent) \in Nat
      BY ToSetType
    <2>8. UNCHANGED <<callVars, pc, searchVars, teamVars, sent>>
      BY <1>3 DEF SinglePlayer
    <2>9. Len(sent') <= Len(results')
      BY <2>6, <2>7, <2>8
    <2>10. \A k \in ToSet(results') : k.pivot \in Requests /\ k.teams \in Seq(Seq(Requests))
      BY <2>5, <2>6
    <2>11. QED
      BY <2>4, <2>6, <2>8, <2>9, <2>10
  <1>4. CASE ChoosePivot
    <2>1. queue # <<>> /\ queue' \in OldestFirst(Pool) /\ pivot' = Head(queue')
      BY <1>4 DEF ChoosePivot, PhaseInv
    <2>2. queue' \in Seq(Requests) /\ IsInjective(queue') /\ pivot' \in Pool
      BY <2>1, OldestFirstProperties
    <2>3. Pool \subseteq Requests
      BY ToSetType DEF Pool
    <2>4. QED
      BY <1>4, <2>2, <2>3 DEF ChoosePivot
  <1>5. CASE SearchRegion
    <2>1. PICK accepted \in Candidates :
             LET usable == {r \in accepted : UsersIn({r}) # {}} IN
             IF TooFew(usable \cup {pivot}, Rule)
             THEN region' = region + 1 /\ UNCHANGED <<pc, found, tried>>
             ELSE found' \in SearchOrders(usable) /\ tried' = 0 /\ pc' = "order" /\ UNCHANGED region
      BY <1>5 DEF SearchRegion
    <2>2. accepted \subseteq Requests
      BY ToSetType DEF Candidates, Pool
    <2>3. CASE region' = region + 1 /\ UNCHANGED <<pc, found, tried>>
      BY <1>5, <2>3 DEF SearchRegion
    <2>4. CASE /\ found' \in SearchOrders({r \in accepted : UsersIn({r}) # {}})
               /\ tried' = 0 /\ pc' = "order" /\ UNCHANGED region
      <3>1. found' \in Seq(Requests)
        BY <2>2, <2>4, SearchOrdersProperties
      <3>2. QED
        BY <1>5, <2>4, <3>1 DEF SearchRegion
    <2>5. QED
      BY <2>1, <2>3, <2>4
  <1>6. CASE NextOrder
    <2>1. order' \in Seq(Requests)
      BY <1>6, OrderProperties DEF NextOrder
    <2>2. {pivot} \cup ToSet(found) \subseteq Requests
      BY ToSetType
    <2>3. QED
      BY <1>6, <2>1, <2>2, ToSetEmpty DEF NextOrder
  <1>7. CASE StartTeam
    BY <1>7, FilledType DEF StartTeam
  <1>8. CASE Consider
    <2>1. order[at] \in Requests
      BY <1>8, ElementOfSeq, LenProperties DEF Consider
    <2>2. team' \in Seq(Requests)
      BY <1>8, <2>1 DEF Consider
    <2>3. QED
      BY <1>8, <2>2 DEF Consider
  <1>9. CASE FillEnds
    <2>1. Filled \in Seq(Requests)
      BY FilledType
    <2>2. teams' \in Seq(Seq(Requests))
      <3>1. \/ teams' = teams
            \/ next <= Len(teams) /\ teams' = [teams EXCEPT ![next] = Filled]
            \/ teams' = Append(teams, Filled)
        BY <1>9 DEF FillEnds, Placed
      <3>2. CASE next <= Len(teams) /\ teams' = [teams EXCEPT ![next] = Filled]
        <4>1. next \in 1 .. Len(teams)
          BY <3>2, LenProperties
        <4>2. QED
          BY <2>1, <3>2, <4>1, ExceptSeq
      <3>3. Append(teams, Filled) \in Seq(Seq(Requests))
        BY <2>1, ToSetAppend
      <3>4. QED
        BY <3>1, <3>2, <3>3
    <2>3. free' \subseteq Requests /\ next' \in Nat \ {0} /\ pass' \in {1, 2} /\ pc' \in {"team", "validate"}
      BY <1>9 DEF FillEnds, EndPass
    <2>4. QED
      BY <1>9, <2>2, <2>3 DEF FillEnds
  <1>10. CASE MakeMatch
    <2>1. PICK m : m = Found
      OBVIOUS
    <2>2. results' = Append(results, m) /\ queue' \in Without(queue, InMatch(m))
      BY <1>10, <2>1 DEF MakeMatch
    <2>3. queue' \in Seq(Requests) /\ IsInjective(queue')
      BY <2>2, WithoutProperties
    <2>4. m.pivot \in Requests /\ m.teams \in Seq(Seq(Requests))
      BY <2>1 DEF Found, Result
    <2>5. /\ results' \in Seq(ToSet(results')) /\ ToSet(results') = ToSet(results) \cup {m}
          /\ Len(results') = Len(results) + 1 /\ Len(results) \in Nat
      BY <2>2, AppendAny
    <2>6. Len(sent) \in Nat
      BY ToSetType
    <2>7. UNCHANGED <<callVars, searchVars, teamVars, sent>> /\ pc' \in {"pivot", "dropPivot"}
      BY <1>10 DEF MakeMatch
    <2>8. Len(sent') <= Len(results')
      BY <2>5, <2>6, <2>7
    <2>9. \A k \in ToSet(results') : k.pivot \in Requests /\ k.teams \in Seq(Seq(Requests))
      BY <2>4, <2>5
    <2>10. QED
      BY <2>3, <2>5, <2>7, <2>8, <2>9
  <1>11. CASE DropPivot
    <2>1. queue' \in Seq(Requests) /\ IsInjective(queue')
      BY <1>11, WithoutProperties DEF DropPivot
    <2>2. pc' \in {"pivot", "done"}
      BY <1>11 DEF DropPivot
    <2>3. QED
      BY <1>11, <2>1, <2>2 DEF DropPivot
  <1>12. CASE SendMatch
    <2>1. PICK m : sent' = Append(sent, m)
      BY <1>12 DEF SendMatch
    <2>2. sent' \in Seq(ToSet(sent')) /\ Len(sent') = Len(sent) + 1 /\ Len(sent) \in Nat
      BY <2>1, AppendAny
    <2>3. Len(results) \in Nat
      BY ToSetType
    <2>4. Len(sent) < Len(results) /\ UNCHANGED <<callVars, pc, queue, searchVars, teamVars, results>>
      BY <1>12 DEF SendMatch
    <2>5. QED
      BY <2>2, <2>3, <2>4
  <1>13. CASE Tick
    BY <1>13, PivotAssumption DEF Tick
  <1>14. QED
    BY <1>1, <1>2, <1>3, <1>4, <1>5, <1>6, <1>7, <1>8, <1>9, <1>10, <1>11, <1>12, <1>13
       DEF Next, Step, Finished

-----------------------------------------------------------------------------
(* Phases and rules.                                                       *)

\* A pivot chosen from the pool stays in it until its search is over; after a
\* match another pivot is chosen or there are too few requests for one.
LEMMA PhaseInductive ==
    ASSUME TypeOK, PhaseInv, RuleInv, TypeOK', [Next]_vars
    PROVE  PhaseInv'
  <1> USE DEF callVars, searchVars, teamVars, outVars, Searching
  <1>1. CASE UNCHANGED vars \/ Tick
    <2>1. UNCHANGED <<ruleset, pc, queue, pivot, active, teams>>
      BY <1>1 DEF vars, Tick
    <2>2. QED
      BY <2>1 DEF PhaseInv, Pool, Rule, ValidAllies
  <1>2. CASE ReturnEarly \/ SinglePlayerEnds \/ GiveUp \/ SendMatch
    <2>1. pc' = "done"
      BY <1>2 DEF ReturnEarly, SinglePlayerEnds, GiveUp, SendMatch
    <2>2. QED
      BY <2>1 DEF PhaseInv
  <1>3. CASE Begin
    BY <1>3 DEF PhaseInv, Begin
  <1>4. CASE SinglePlayer
    <2>1. pc' = "single" /\ pc = "single" /\ ruleset' = ruleset
      BY <1>4 DEF SinglePlayer
    <2>2. QED
      BY <2>1 DEF PhaseInv
  <1>5. CASE ChoosePivot
    <2>1. queue # <<>> /\ queue' \in OldestFirst(Pool) /\ pivot' = Head(queue') /\ pc' = "region"
      BY <1>5 DEF ChoosePivot, PhaseInv
    <2>2. ToSet(queue') = Pool /\ pivot' \in Pool
      BY <2>1, OldestFirstProperties
    <2>3. QED
      BY <2>1, <2>2 DEF PhaseInv, Pool
  <1>6. CASE SearchRegion
    <2>1. pc' \in {"region", "order"} /\ pc = "region" /\ UNCHANGED <<queue, pivot>>
      BY <1>6 DEF SearchRegion
    <2>2. QED
      BY <2>1 DEF PhaseInv, Pool
  <1>7. CASE RegionsEnd
    BY <1>7 DEF PhaseInv, RegionsEnd, Pool
  <1>8. CASE NextOrder \/ OrdersEnd \/ StartTeam \/ PassEnds \/ Consider \/ FillEnds \/ OptionsDisagree
    <2>1. /\ pc' \in {"team", "fill", "validate", "region"} /\ pc \in Searching
          /\ UNCHANGED <<queue, pivot>>
      BY <1>8 DEF NextOrder, OrdersEnd, StartTeam, PassEnds, Consider, FillEnds, OptionsDisagree, EndPass
    <2>2. QED
      BY <2>1 DEF PhaseInv, Pool
  <1>9. CASE Validate
    <2>1. /\ pc' = IF ValidAllies(teams) THEN "options" ELSE "order"
          /\ pc = "validate" /\ UNCHANGED <<ruleset, queue, pivot, active, teams>>
      BY <1>9 DEF Validate
    <2>2. ValidAllies(teams)' <=> ValidAllies(teams)
      BY <2>1 DEF ValidAllies, Rule
    <2>3. QED
      BY <2>1, <2>2 DEF PhaseInv, Pool
  <1>10. CASE MakeMatch
    <2>1. /\ pc' = IF queue' # <<>> /\ Len(queue') >= Rule.minTeams THEN "pivot" ELSE "dropPivot"
          /\ active' = active
      BY <1>10 DEF MakeMatch
    <2>2. Len(queue') \in Nat /\ Rule.minTeams \in Nat /\ Rule' = Rule
      BY <2>1, ToSetType, AllowedBound DEF TypeOK, Rule
    <2>3. QED
      BY <2>1, <2>2 DEF PhaseInv
  <1>11. CASE DropPivot
    <2>1. pc' = IF queue' # <<>> THEN "pivot" ELSE "done"
      BY <1>11 DEF DropPivot
    <2>2. QED
      BY <2>1 DEF PhaseInv
  <1>12. QED
    BY <1>1, <1>2, <1>3, <1>4, <1>5, <1>6, <1>7, <1>8, <1>9, <1>10, <1>11 DEF Next, Step, Finished

\* Time does not go back, and the rules only change when a pivot is chosen.
LEMMA ClockAndRules ==
    ASSUME TypeOK, [Next]_vars
    PROVE  /\ ruleset' = ruleset /\ now \in Nat /\ now' \in Nat /\ now <= now'
           /\ ~ChoosePivot => active' = active /\ pivot' = pivot
           /\ ChoosePivot => now' = now
  <1> USE DEF callVars, searchVars, TypeOK
  <1>1. now \in Nat
    BY PivotAssumption
  <1>2. CASE UNCHANGED vars
    BY <1>1, <1>2 DEF vars
  <1>3. CASE Tick
    BY <1>1, <1>3 DEF Tick, ChoosePivot
  <1>4. CASE Step
    <2>1. UNCHANGED callVars
      BY <1>4 DEF Step, ReturnEarly, Begin, SinglePlayer, SinglePlayerEnds, ChoosePivot,
            SearchRegion, RegionsEnd, NextOrder, OrdersEnd, StartTeam, PassEnds, Consider, FillEnds,
            Validate, OptionsDisagree, MakeMatch, DropPivot, GiveUp, SendMatch
    <2>2. ~ChoosePivot => UNCHANGED <<active, pivot>>
      BY <1>4 DEF Step, ReturnEarly, Begin, SinglePlayer, SinglePlayerEnds,
            SearchRegion, RegionsEnd, NextOrder, OrdersEnd, StartTeam, PassEnds, Consider, FillEnds,
            Validate, OptionsDisagree, MakeMatch, DropPivot, GiveUp, SendMatch
    <2>3. QED
      BY <1>1, <2>1, <2>2
  <1>5. QED
    BY <1>2, <1>3, <1>4 DEF Next, Finished

\* The active rules are replaced only when a pivot is chosen, and then by flexing the
\* rules of the call to its age.
LEMMA RuleInductive ==
    ASSUME TypeOK, RuleInv, [Next]_vars
    PROVE  RuleInv'
  <1>1. CASE ChoosePivot
    <2>1. /\ active' = ActiveRuleSet(ruleset, Request[pivot'].createdAt, now)
          /\ ruleset' = ruleset /\ now' = now
      BY <1>1 DEF ChoosePivot, callVars
    <2>2. now \in Start .. now'
      BY <2>1, PivotAssumption DEF TypeOK
    <2>3. QED
      BY <2>1, <2>2 DEF RuleInv
  <1>2. CASE ~ChoosePivot
    <2>1. UNCHANGED <<ruleset, active, pivot>> /\ now <= now' /\ now \in Nat /\ now' \in Nat
      BY <1>2, ClockAndRules
    <2>2. Start .. now \subseteq Start .. now'
      BY <2>1, PivotAssumption
    <2>3. QED
      BY <2>1, <2>2 DEF RuleInv
  <1>3. QED
    BY <1>1, <1>2

-----------------------------------------------------------------------------
(* Candidates.                                                             *)

\* Whom a search accepts: requests of the pool but the pivot, near enough, playing in
\* its region, and where blocking keeps players out of a match nobody who was blocked.
LEMMA CandidateProperties ==
    ASSUME TypeOK, NEW accepted \in Candidates
    PROVE  /\ accepted \subseteq Pool \ {pivot}
           /\ \A r \in accepted : Compared(r, now)
           /\ RespectsBlocks(ruleset) => Peaceful({pivot} \cup accepted)
  <1>1. /\ accepted \subseteq Pool
        /\ \A i \in DOMAIN queue : queue[i] \in accepted =>
              PivotAccepts(Request[pivot], active, ruleset, PivotRegion, Request[queue[i]],
                           Of(accepted \cap Before(i)), now)
    BY DEF Candidates
  <1>2. /\ queue \in Seq(Requests) /\ Pool \subseteq Requests /\ Len(queue) \in Nat
        /\ DOMAIN queue = 1 .. Len(queue) /\ pivot \in Requests
    BY ToSetType DEF TypeOK, Pool
  <1>3. ASSUME NEW r \in accepted
        PROVE  \E i \in 1 .. Len(queue) : queue[i] = r
    BY <1>1, <1>2 DEF Pool, ToSet
  <1>4. ASSUME NEW r \in accepted
        PROVE  r # pivot /\ Compared(r, now)
    <2>1. PICK i \in 1 .. Len(queue) : queue[i] = r
      BY <1>3
    <2>2. PivotAccepts(Request[pivot], active, ruleset, PivotRegion, Request[r],
                       Of(accepted \cap Before(i)), now)
      BY <1>1, <1>2, <2>1
    <2>3. Request[r].id = r /\ Request[pivot].id = pivot
      BY <1>1, <1>2, RequestFields
    <2>4. QED
      BY <2>2, <2>3 DEF PivotAccepts, Compared
  <1>5. ASSUME RespectsBlocks(ruleset)
        PROVE  Peaceful({pivot} \cup accepted)
    <2>1. \A x : UsersIn({x}) = UsersOf({Request[x]})
      BY DEF UsersIn, Of
    <2>2. ASSUME NEW i \in 1 .. Len(queue), queue[i] \in accepted
          PROVE  /\ BlockedBy({Request[queue[i]]}) \cap
                        (UsersOf({Request[pivot]}) \cup UsersOf(Of(accepted \cap Before(i)))) = {}
                 /\ UsersOf({Request[queue[i]]}) \cap
                        (BlockedBy({Request[pivot]}) \cup BlockedBy(Of(accepted \cap Before(i)))) = {}
      BY <1>1, <1>2, <1>5, <2>2 DEF PivotAccepts, MatchByBlockedPlayers
    <2>3. ASSUME NEW i \in 1 .. Len(queue), NEW j \in 1 .. Len(queue), i < j,
                 queue[i] \in accepted
          PROVE  /\ UsersOf({Request[queue[i]]}) \subseteq UsersOf(Of(accepted \cap Before(j)))
                 /\ BlockedBy({Request[queue[i]]}) \subseteq BlockedBy(Of(accepted \cap Before(j)))
      <3>1. i \in 1 .. j - 1
        BY <1>2, <2>3
      <3>2. queue[i] \in accepted \cap Before(j)
        BY <2>3, <3>1 DEF Before
      <3>3. Request[queue[i]] \in Of(accepted \cap Before(j))
        BY <3>2 DEF Of
      <3>4. QED
        BY <3>3 DEF UsersOf, BlockedBy
    <2>4. SUFFICES ASSUME NEW r \in {pivot} \cup accepted, NEW s \in {pivot} \cup accepted, r # s
                   PROVE  UsersOf({Request[r]}) \cap BlockedBy({Request[s]}) = {}
      BY <2>1 DEF Peaceful
    <2>5. CASE r = pivot
      <3>1. PICK j \in 1 .. Len(queue) : queue[j] = s
        BY <1>3, <2>4, <2>5
      <3>2. QED
        BY <2>2, <2>4, <2>5, <3>1
    <2>6. CASE s = pivot
      <3>1. PICK i \in 1 .. Len(queue) : queue[i] = r
        BY <1>3, <2>4, <2>6
      <3>2. QED
        BY <2>2, <2>4, <2>6, <3>1
    <2>7. CASE r # pivot /\ s # pivot
      <3>1. PICK i \in 1 .. Len(queue) : queue[i] = r
        BY <1>3, <2>4, <2>7
      <3>2. PICK j \in 1 .. Len(queue) : queue[j] = s
        BY <1>3, <2>4, <2>7
      <3>3. i < j \/ j < i
        BY <1>2, <2>4, <3>1, <3>2
      <3>4. CASE i < j
        <4>1. BlockedBy({Request[s]}) \cap UsersOf(Of(accepted \cap Before(j))) = {}
          BY <2>2, <2>4, <2>7, <3>2
        <4>2. UsersOf({Request[r]}) \subseteq UsersOf(Of(accepted \cap Before(j)))
          BY <2>3, <2>4, <2>7, <3>1, <3>4
        <4>3. QED
          BY <4>1, <4>2
      <3>5. CASE j < i
        <4>1. UsersOf({Request[r]}) \cap BlockedBy(Of(accepted \cap Before(i))) = {}
          BY <2>2, <2>4, <2>7, <3>1
        <4>2. BlockedBy({Request[s]}) \subseteq BlockedBy(Of(accepted \cap Before(i)))
          BY <2>3, <2>4, <2>7, <3>2, <3>5
        <4>3. QED
          BY <4>1, <4>2
      <3>6. QED
        BY <3>3, <3>4, <3>5
    <2>8. QED
      BY <2>5, <2>6, <2>7
  <1>6. QED
    BY <1>1, <1>4, <1>5

\* Fewer of those who agree with the pivot do.
LEMMA AnyAgreesSubset ==
    ASSUME NEW p, NEW S, NEW T, T \subseteq {p} \cup S, AnyAgrees(p, S)
    PROVE  AnyAgrees(p, T)
  <1>1. SUFFICES ASSUME NEW o \in DOMAIN ruleset.options, ruleset.options[o] = "any"
                 PROVE  IF o = "cross_platform" /\ Carried(p, "current_platform") # {}
                        THEN \A r, s \in T \cup {p} :
                                r # s /\ (ruleset.anyCommon \/ r = p \/ s = p) =>
                                   Carried(r, "current_platform") \subseteq Carried(s, o)
                        ELSE o \in DOMAIN Request[p].attributes /\ T \ {p} # {} =>
                                IF ruleset.anyCommon
                                THEN \E v \in Carried(p, o) : \A r \in T : v \in Carried(r, o)
                                ELSE \A r \in T : Carried(r, o) \cap Carried(p, o) # {}
    BY DEF AnyAgrees
  <1>2. CASE o = "cross_platform" /\ Carried(p, "current_platform") # {}
    BY <1>1, <1>2 DEF AnyAgrees
  <1>3. CASE ~(o = "cross_platform" /\ Carried(p, "current_platform") # {})
    <2>1. SUFFICES ASSUME o \in DOMAIN Request[p].attributes, T \ {p} # {}
                   PROVE  IF ruleset.anyCommon
                          THEN \E v \in Carried(p, o) : \A r \in T : v \in Carried(r, o)
                          ELSE \A r \in T : Carried(r, o) \cap Carried(p, o) # {}
      BY <1>3
    <2>2. PICK x \in S : x # p
      BY <2>1
    <2>3. IF ruleset.anyCommon
          THEN \E v \in Carried(p, o) : \A r \in S : v \in Carried(r, o)
          ELSE \A r \in S : Carried(r, o) \cap Carried(p, o) # {}
      BY <1>1, <1>3, <2>1, <2>2 DEF AnyAgrees
    <2>4. CASE ruleset.anyCommon
      <3>1. PICK v \in Carried(p, o) : \A r \in S : v \in Carried(r, o)
        BY <2>3, <2>4
      <3>2. \A r \in T : v \in Carried(r, o)
        BY <3>1
      <3>3. QED
        BY <2>4, <3>2
    <2>5. CASE ~ruleset.anyCommon
      <3>1. \A r \in S : Carried(r, o) \cap Carried(p, o) # {}
        BY <2>3, <2>5
      <3>2. Carried(p, o) # {}
        BY <2>2, <3>1
      <3>3. \A r \in T : Carried(r, o) \cap Carried(p, o) # {}
        BY <3>1, <3>2
      <3>4. QED
        BY <2>5, <3>3
    <2>6. QED
      BY <2>4, <2>5
  <1>4. QED
    BY <1>2, <1>3

\* Whom a search accepts agrees with the pivot, and with each other if values have to
\* be common to all: whoever is accepted later is compared with those before.
LEMMA CandidatesAgree ==
    ASSUME TypeOK, NEW accepted \in Candidates
    PROVE  AnyAgrees(pivot, accepted)
  <1>1. /\ accepted \subseteq Pool
        /\ \A i \in DOMAIN queue : queue[i] \in accepted =>
              PivotAccepts(Request[pivot], active, ruleset, PivotRegion, Request[queue[i]],
                           Of(accepted \cap Before(i)), now)
    BY DEF Candidates
  <1>2. /\ queue \in Seq(Requests) /\ Len(queue) \in Nat /\ DOMAIN queue = 1 .. Len(queue)
    BY ToSetType DEF TypeOK
  <1>3. \A r \in accepted : \E i \in 1 .. Len(queue) : queue[i] = r
    BY <1>1, <1>2 DEF Pool, ToSet
  <1>4. ASSUME NEW i \in 1 .. Len(queue), queue[i] \in accepted
        PROVE  /\ MatchByAnyCrossPlay(Request[pivot], ruleset, Request[queue[i]],
                                      Of(accepted \cap Before(i)))
               /\ MatchByMatchOption(Request[pivot], ruleset, Request[queue[i]],
                                     Of(accepted \cap Before(i)))
    BY <1>1, <1>2, <1>4 DEF PivotAccepts
  <1>5. ASSUME NEW i \in 1 .. Len(queue), NEW j \in 1 .. Len(queue), i < j, queue[i] \in accepted
        PROVE  Request[queue[i]] \in Of(accepted \cap Before(j))
    <2>1. i \in 1 .. j - 1
      BY <1>2, <1>5
    <2>2. QED
      BY <1>5, <2>1 DEF Before, Of
  <1>6. SUFFICES ASSUME NEW o \in DOMAIN ruleset.options, ruleset.options[o] = "any"
                 PROVE  IF o = "cross_platform" /\ Carried(pivot, "current_platform") # {}
                        THEN \A r, s \in accepted \cup {pivot} :
                                r # s /\ (ruleset.anyCommon \/ r = pivot \/ s = pivot) =>
                                   Carried(r, "current_platform") \subseteq Carried(s, o)
                        ELSE o \in DOMAIN Request[pivot].attributes /\ accepted \ {pivot} # {} =>
                                IF ruleset.anyCommon
                                THEN \E v \in Carried(pivot, o) :
                                        \A r \in accepted : v \in Carried(r, o)
                                ELSE \A r \in accepted : Carried(r, o) \cap Carried(pivot, o) # {}
    BY DEF AnyAgrees
  <1>7. CASE o = "cross_platform" /\ Carried(pivot, "current_platform") # {}
    <2>1. CrossPlays(Request[pivot], ruleset)
      BY <1>6, <1>7 DEF CrossPlays, Carried
    <2>2. SUFFICES ASSUME NEW r \in accepted \cup {pivot}, NEW s \in accepted \cup {pivot},
                          r # s, ruleset.anyCommon \/ r = pivot \/ s = pivot
                   PROVE  Carried(r, "current_platform") \subseteq Carried(s, o)
      BY <1>7
    <2>3. ASSUME NEW i \in 1 .. Len(queue), queue[i] \in accepted
          PROVE  /\ Carried(pivot, "current_platform") \subseteq Carried(queue[i], o)
                 /\ Carried(queue[i], "current_platform") \subseteq Carried(pivot, o)
                 /\ ruleset.anyCommon => \A q \in Of(accepted \cap Before(i)) :
                       /\ Values(q.attributes, "current_platform") \subseteq Carried(queue[i], o)
                       /\ Carried(queue[i], "current_platform") \subseteq Values(q.attributes, o)
      BY <1>4, <1>7, <2>1, <2>3 DEF MatchByAnyCrossPlay, Common, Carried
    <2>4. CASE r = pivot \/ s = pivot
      BY <1>3, <2>2, <2>3, <2>4
    <2>5. CASE r # pivot /\ s # pivot
      <3>1. PICK i \in 1 .. Len(queue), j \in 1 .. Len(queue) : queue[i] = r /\ queue[j] = s
        BY <1>3, <2>5
      <3>2. i < j \/ j < i
        BY <2>2, <3>1
      <3>3. r \in accepted /\ s \in accepted /\ ruleset.anyCommon
        BY <2>2, <2>5
      <3>4. CASE i < j
        BY <1>5, <2>3, <3>1, <3>3, <3>4 DEF Carried
      <3>5. CASE j < i
        BY <1>5, <2>3, <3>1, <3>3, <3>5 DEF Carried
      <3>6. QED
        BY <3>2, <3>4, <3>5
    <2>6. QED
      BY <2>4, <2>5
  <1>8. CASE ~(o = "cross_platform" /\ Carried(pivot, "current_platform") # {})
    <2>1. SUFFICES ASSUME o \in DOMAIN Request[pivot].attributes, accepted \ {pivot} # {}
                   PROVE  IF ruleset.anyCommon
                          THEN \E v \in Carried(pivot, o) :
                                  \A r \in accepted : v \in Carried(r, o)
                          ELSE \A r \in accepted : Carried(r, o) \cap Carried(pivot, o) # {}
      BY <1>8
    <2>2. o \in OptionsOf(Request[pivot], ruleset)
      BY <1>6, <1>8, <2>1 DEF OptionsOf, CrossPlays, Carried
    <2>3. Carried(pivot, o) = Request[pivot].attributes[o]
      BY <2>1 DEF Carried, Values
    <2>4. ASSUME NEW i \in 1 .. Len(queue), queue[i] \in accepted
          PROVE  (IF ruleset.anyCommon
                  THEN Common(Carried(pivot, o), Of(accepted \cap Before(i)), o)
                  ELSE Carried(pivot, o)) \cap Carried(queue[i], o) # {}
      BY <1>4, <1>6, <2>2, <2>3, <2>4 DEF MatchByMatchOption, Carried
    <2>5. CASE ruleset.anyCommon
      <3>1. DEFINE places == {i \in 1 .. Len(queue) : queue[i] \in accepted}
      <3>2. PICK n \in places : \A i \in places : i <= n
        <4>1. places # {}
          BY <1>3, <2>1
        <4>2. places \subseteq 1 .. Len(queue)
          OBVIOUS
        <4>3. HIDE DEF places
        <4>4. QED
          BY <1>2, <4>1, <4>2, LargestNumber
      <3>3. PICK v \in Common(Carried(pivot, o), Of(accepted \cap Before(n)), o) :
                v \in Carried(queue[n], o)
        BY <2>4, <2>5, <3>2
      <3>4. v \in Carried(pivot, o)
        BY <3>3 DEF Common
      <3>5. ASSUME NEW r \in accepted PROVE v \in Carried(r, o)
        <4>1. PICK i \in places : queue[i] = r
          BY <1>3
        <4>2. i = n \/ i < n
          BY <3>2, <4>1
        <4>3. CASE i < n
          <5>1. Request[r] \in Of(accepted \cap Before(n))
            BY <1>5, <3>2, <4>1, <4>3
          <5>2. QED
            BY <3>3, <5>1 DEF Common, Carried
        <4>4. QED
          BY <3>3, <4>1, <4>2, <4>3
      <3>6. QED
        BY <2>5, <3>4, <3>5
    <2>6. CASE ~ruleset.anyCommon
      <3>1. ASSUME NEW r \in accepted PROVE Carried(r, o) \cap Carried(pivot, o) # {}
        <4>1. PICK i \in 1 .. Len(queue) : queue[i] = r
          BY <1>3
        <4>2. QED
          BY <2>4, <2>6, <3>1, <4>1
      <3>2. QED
        BY <2>6, <3>1
    <2>7. QED
      BY <2>5, <2>6
  <1>9. QED
    BY <1>7, <1>8

\* SearchRegion finds candidates that were accepted, each once.
LEMMA SearchRegionFinds ==
    ASSUME TypeOK, SearchRegion, pc' = "order"
    PROVE  \E accepted \in Candidates :
              /\ IsInjective(found') /\ ToSet(found') \subseteq accepted
              /\ UNCHANGED <<ruleset, now, queue, pivot, active, regions, region>>
              /\ region < RegionsToTry
  <1>1. PICK accepted \in Candidates :
           LET usable == {r \in accepted : UsersIn({r}) # {}} IN
           IF TooFew(usable \cup {pivot}, Rule)
           THEN region' = region + 1 /\ UNCHANGED <<pc, found, tried>>
           ELSE found' \in SearchOrders(usable) /\ tried' = 0 /\ pc' = "order" /\ UNCHANGED region
    BY DEF SearchRegion
  <1>2. /\ pc = "region" /\ UNCHANGED <<ruleset, now, queue, pivot, active, regions>>
        /\ region < RegionsToTry
    BY DEF SearchRegion, callVars
  <1>3. PICK usable : /\ usable = {r \in accepted : UsersIn({r}) # {}}
                      /\ found' \in SearchOrders(usable) /\ region' = region
    BY <1>1, <1>2
  <1>4. usable \subseteq accepted /\ accepted \subseteq Requests
    BY <1>3, ToSetType DEF TypeOK, Candidates, Pool
  <1>5. IsInjective(found') /\ ToSet(found') = usable
    BY <1>3, <1>4, SearchOrdersProperties
  <1>6. QED
    BY <1>2, <1>3, <1>4, <1>5

\* Candidates stay what they were while orders and teams are tried.
LEMMA FoundInductive ==
    ASSUME TypeOK, FoundInv, [Next]_vars
    PROVE  FoundInv'
  <1> USE DEF callVars, searchVars, teamVars, outVars, Searching
  <1>1. SUFFICES ASSUME pc' \in Searching \ {"region"}
                 PROVE  FoundInv'
    BY DEF FoundInv
  <1>2. CASE SearchRegion
    <2>1. pc' = "order"
      BY <1>1, <1>2 DEF SearchRegion
    <2>2. PICK accepted \in Candidates :
              /\ IsInjective(found') /\ ToSet(found') \subseteq accepted
              /\ UNCHANGED <<ruleset, now, queue, pivot, active, regions, region>>
      BY <1>2, <2>1, SearchRegionFinds
    <2>3. /\ accepted \subseteq Pool \ {pivot}
          /\ \A r \in accepted : Compared(r, now)
          /\ RespectsBlocks(ruleset) => Peaceful({pivot} \cup accepted)
      BY CandidateProperties
    <2>4. now \in Start .. now'
      BY <2>2, PivotAssumption DEF TypeOK
    <2>5. \A r \in ToSet(found') : \E t \in Start .. now' : Compared(r, t)'
      <3>1. \A r, t : Compared(r, t)' <=> Compared(r, t)
        BY <2>2 DEF Compared, PivotRegion
      <3>2. QED
        BY <2>2, <2>3, <2>4, <3>1
    <2>6. RespectsBlocks(ruleset') => Peaceful({pivot'} \cup ToSet(found'))
      BY <2>2, <2>3 DEF Peaceful
    <2>7. ToSet(found') \subseteq Pool' \ {pivot'}
      BY <2>2, <2>3 DEF Pool
    <2>8. AnyAgrees(pivot, ToSet(found'))
      <3>1. AnyAgrees(pivot, accepted)
        BY CandidatesAgree
      <3>2. QED
        BY <2>2, <3>1, AnyAgreesSubset
    <2>9. AnyAgrees(pivot, ToSet(found))'
      BY <2>2, <2>8 DEF AnyAgrees
    <2>10. QED
      BY <2>2, <2>5, <2>6, <2>7, <2>9 DEF FoundInv
  <1>3. CASE ~SearchRegion
    <2>1. /\ pc \in Searching \ {"region"} /\ ~ChoosePivot
          /\ UNCHANGED <<queue, found, regions, region>>
      <3>1. CASE UNCHANGED vars
        BY <1>1, <3>1 DEF vars, ChoosePivot
      <3>2. CASE Tick
        BY <1>1, <3>2 DEF Tick, ChoosePivot
      <3>3. CASE Step
        <4>1. ~(ReturnEarly \/ Begin \/ SinglePlayer \/ SinglePlayerEnds \/ ChoosePivot
                \/ RegionsEnd \/ OrdersEnd \/ OptionsDisagree \/ MakeMatch \/ DropPivot
                \/ GiveUp \/ SendMatch)
          <5>1. ~(SinglePlayer \/ SendMatch)
            <6>1. SinglePlayer => pc = "single" /\ UNCHANGED pc
              BY DEF SinglePlayer
            <6>2. SendMatch => pc = "done" /\ UNCHANGED pc
              BY Zenon DEF SendMatch
            <6>3. QED
              BY <1>1, <6>1, <6>2
          <5>2. ~(ReturnEarly \/ Begin \/ SinglePlayerEnds \/ ChoosePivot \/ RegionsEnd \/ OrdersEnd)
            BY <1>1 DEF ReturnEarly, Begin, SinglePlayerEnds, ChoosePivot, RegionsEnd, OrdersEnd
          <5>3. ~(OptionsDisagree \/ MakeMatch \/ DropPivot \/ GiveUp)
            BY <1>1 DEF OptionsDisagree, MakeMatch, DropPivot, GiveUp
          <5>4. QED
            BY <5>1, <5>2, <5>3
        <4>2. CASE NextOrder \/ StartTeam \/ PassEnds \/ Consider \/ FillEnds \/ Validate
          BY <1>1, <4>2 DEF NextOrder, StartTeam, PassEnds, Consider, FillEnds, Validate, EndPass,
                ChoosePivot
        <4>3. QED
          BY <1>3, <3>3, <4>1, <4>2 DEF Step
      <3>4. QED
        BY <3>1, <3>2, <3>3 DEF Next, Finished
    <2>2. UNCHANGED <<ruleset, active, pivot>> /\ now <= now' /\ now \in Nat /\ now' \in Nat
      BY <2>1, ClockAndRules
    <2>3. Start .. now \subseteq Start .. now'
      BY <2>2, PivotAssumption
    <2>4. /\ IsInjective(found) /\ ToSet(found) \subseteq Pool \ {pivot}
          /\ RespectsBlocks(ruleset) => Peaceful({pivot} \cup ToSet(found))
          /\ AnyAgrees(pivot, ToSet(found))
          /\ \A r \in ToSet(found) : \E t \in Start .. now : Compared(r, t)
      BY <2>1 DEF FoundInv
    <2>5. \A r \in ToSet(found) : \E t \in Start .. now' : Compared(r, t)'
      <3>1. \A r, t : Compared(r, t)' <=> Compared(r, t)
        BY <2>1, <2>2 DEF Compared, PivotRegion
      <3>2. QED
        BY <2>3, <2>4, <3>1
    <2>6. AnyAgrees(pivot, ToSet(found))'
      BY <2>1, <2>2, <2>4 DEF AnyAgrees
    <2>7. QED
      BY <2>1, <2>2, <2>4, <2>5, <2>6 DEF FoundInv, Pool
  <1>4. QED
    BY <1>2, <1>3

-----------------------------------------------------------------------------
(* Regions.                                                                *)

\* There is always one to try, and the regions are a list.
LEMMA RegionsType ==
    ASSUME TypeOK, NEW r \in Requests, NEW t
    PROVE  /\ Len(FilterRegionByStep(Request[r], ruleset, t)) \in Nat
           /\ DOMAIN FilterRegionByStep(Request[r], ruleset, t)
                = 1 .. Len(FilterRegionByStep(Request[r], ruleset, t))
           /\ FilterRegionByStep(Request[r], ruleset, t) # <<>> =>
                Len(FilterRegionByStep(Request[r], ruleset, t)) > 0
  <1>1. PICK S, q : /\ S = [region : DOMAIN Ticket[r].latencies, ms : Nat]
                    /\ q = FilterRegionByStep(Request[r], ruleset, t)
    OBVIOUS
  <1>2. q \in Seq(S)
    BY <1>1, RequestRegions, RegionsInReach
  <1>3. Len(q) \in Nat /\ DOMAIN q = 1 .. Len(q) /\ (q # <<>> => Len(q) > 0)
    BY <1>2, LenProperties, EmptySeq
  <1>4. QED
    BY <1>1, <1>3

\* The regions of a pivot are tried one by one.
LEMMA RegionInductive ==
    ASSUME TypeOK, PhaseInv, RegionInv, [Next]_vars
    PROVE  RegionInv'
  <1> USE DEF callVars, searchVars, teamVars, outVars
  <1>1. /\ ruleset' = ruleset /\ now \in Nat /\ now' \in Nat /\ now <= now' /\ region \in Nat
        /\ ~ChoosePivot => pivot' = pivot
    BY ClockAndRules DEF TypeOK
  <1>2. Start .. now \subseteq Start .. now'
    BY <1>1, PivotAssumption
  <1>3. ASSUME UNCHANGED <<pivot, regions, region>>, pc' \in Searching => pc \in Searching,
               pc' \in Searching \ {"region"} =>
                  pc \in Searching \ {"region"} \/ region < RegionsToTry
        PROVE  RegionInv'
    BY <1>1, <1>2, <1>3 DEF RegionInv, RegionsToTry
  <1>4. ASSUME UNCHANGED <<pivot, regions>>, pc \in Searching \ {"region"}, pc' = "region",
               region' = region + 1
        PROVE  RegionInv'
    <2>1. region < RegionsToTry /\ \E t \in Start .. now : regions = FilterRegionByStep(Request[pivot], ruleset, t)
      BY <1>4 DEF RegionInv, Searching
    <2>2. RegionsToTry \in Nat
      BY <2>1, RegionsType DEF RegionsToTry, TypeOK
    <2>3. region' <= RegionsToTry'
      BY <1>1, <1>4, <2>1, <2>2 DEF RegionsToTry
    <2>4. QED
      BY <1>1, <1>2, <1>4, <2>1, <2>3 DEF RegionInv
  <1>5. CASE ChoosePivot
    <2>1. /\ regions' = FilterRegionByStep(Request[pivot'], ruleset, now) /\ region' = 0
          /\ pc' = "region" /\ now' = now
      BY <1>5 DEF ChoosePivot
    <2>2. pivot' \in Requests
      <3>1. queue # <<>> /\ queue' \in OldestFirst(Pool) /\ pivot' = Head(queue')
        BY <1>5 DEF ChoosePivot, PhaseInv
      <3>2. pivot' \in Pool
        BY <3>1, OldestFirstProperties
      <3>3. QED
        BY <3>2, ToSetType DEF TypeOK, Pool
    <2>3. RegionsToTry' \in Nat
      BY <2>1, <2>2, RegionsType DEF RegionsToTry
    <2>4. now \in Start .. now'
      BY <1>1, <2>1, PivotAssumption DEF TypeOK
    <2>5. QED
      BY <1>1, <2>1, <2>3, <2>4 DEF RegionInv
  <1>6. CASE SearchRegion
    <2>1. /\ pc = "region" /\ region < RegionsToTry /\ UNCHANGED <<pivot, regions>>
          /\ \/ region' = region + 1 /\ pc' = pc
             \/ region' = region /\ pc' = "order"
      BY <1>6 DEF SearchRegion
    <2>2. PICK t \in Start .. now : regions = FilterRegionByStep(Request[pivot], ruleset, t)
      BY <2>1 DEF RegionInv, Searching
    <2>3. RegionsToTry \in Nat
      BY <2>2, RegionsType DEF RegionsToTry, TypeOK
    <2>4. region' <= RegionsToTry' /\ (pc' # "region" => region' < RegionsToTry')
      BY <1>1, <2>1, <2>3 DEF RegionsToTry
    <2>5. QED
      BY <1>1, <1>2, <2>1, <2>2, <2>4 DEF RegionInv
  <1>7. CASE OrdersEnd \/ OptionsDisagree
    BY <1>4, <1>7 DEF OrdersEnd, OptionsDisagree, Searching
  <1>8. CASE NextOrder \/ StartTeam \/ PassEnds \/ Consider \/ FillEnds \/ Validate
    <2>1. /\ UNCHANGED <<pivot, regions, region>>
          /\ pc \in Searching \ {"region"} /\ pc' \in Searching
      BY <1>8 DEF NextOrder, StartTeam, PassEnds, Consider, FillEnds, Validate, EndPass, Searching
    <2>2. QED
      BY <1>3, <2>1 DEF Searching
  <1>9. CASE UNCHANGED vars \/ Tick
    BY <1>3, <1>9 DEF vars, Tick
  <1>10. CASE ReturnEarly \/ Begin \/ SinglePlayerEnds \/ RegionsEnd \/ MakeMatch
              \/ DropPivot \/ GiveUp
    <2>1. UNCHANGED <<pivot, regions, region>> /\ pc' \notin Searching
      BY <1>10 DEF ReturnEarly, Begin, SinglePlayerEnds, RegionsEnd, MakeMatch, DropPivot, GiveUp,
            Searching
    <2>2. QED
      BY <1>3, <2>1
  <1>11. CASE SinglePlayer \/ SendMatch
    <2>1. SendMatch => UNCHANGED <<pivot, regions, region, pc>>
      BY Zenon DEF SendMatch
    <2>2. SinglePlayer => UNCHANGED <<pivot, regions, region, pc>>
      BY DEF SinglePlayer
    <2>3. QED
      BY <1>3, <1>11, <2>1, <2>2
  <1>12. QED
    BY <1>5, <1>6, <1>7, <1>8, <1>9, <1>10, <1>11 DEF Next, Step, Finished

-----------------------------------------------------------------------------
(* Teams.                                                                  *)

\* A team put at one place, made of whom was there and of others that were in no
\* team, leaves the teams apart.
LEMMA PlaceTeam ==
    ASSUME NEW ts \in Seq(Seq(Requests)), Apart(ts), NEW F \in Seq(Requests), IsInjective(F),
           NEW n \in Nat \ {0}, n <= Len(ts) + 1,
           NEW Fr, Members(ts) \cap Fr = {},
           ToSet(F) \subseteq (IF n <= Len(ts) THEN ToSet(ts[n]) ELSE {}) \cup Fr
    PROVE  /\ Apart(Placed(ts, n, F))
           /\ Members(Placed(ts, n, F)) \subseteq Members(ts) \cup ToSet(F)
           /\ Members(Placed(ts, n, F)) \cap (Fr \ ToSet(F)) = {}
           /\ Len(Placed(ts, n, F)) = IF n <= Len(ts) THEN Len(ts) ELSE n
           /\ \A i \in DOMAIN Placed(ts, n, F) :
                 Placed(ts, n, F)[i] = F \/ (i \in DOMAIN ts /\ Placed(ts, n, F)[i] = ts[i])
  <1> DEFINE us == Placed(ts, n, F)
  <1>1. Len(ts) \in Nat /\ DOMAIN ts = 1 .. Len(ts)
    BY ToSetType
  <1>2. DEFINE size == IF n <= Len(ts) THEN Len(ts) ELSE n
  <1>3. /\ Len(us) = size /\ DOMAIN us = 1 .. size /\ n \in 1 .. size
        /\ us[n] = F
        /\ \A i \in 1 .. size : i # n => i \in DOMAIN ts /\ us[i] = ts[i]
    <2>1. CASE n <= Len(ts)
      <3>1. n \in 1 .. Len(ts)
        BY <1>1, <2>1
      <3>2. us = [ts EXCEPT ![n] = F] /\ size = Len(ts)
        BY <2>1 DEF Placed
      <3>3. us \in Seq(Seq(Requests)) /\ Len(us) = Len(ts)
            /\ \A j \in 1 .. Len(ts) : us[j] = IF j = n THEN F ELSE ts[j]
        BY <3>1, <3>2, ExceptSeq
      <3>4. QED
        BY <1>1, <3>1, <3>2, <3>3, LenProperties
    <2>2. CASE ~(n <= Len(ts))
      <3>1. us = Append(ts, F) /\ size = n /\ n = Len(ts) + 1
        BY <1>1, <2>2 DEF Placed
      <3>2. /\ Len(us) = Len(ts) + 1 /\ DOMAIN us = DOMAIN ts \cup {Len(ts) + 1}
            /\ us[Len(ts) + 1] = F /\ \A i \in DOMAIN ts : us[i] = ts[i]
        BY <3>1, ToSetAppend
      <3>3. DOMAIN us = 1 .. size
        <4>1. (1 .. Len(ts)) \cup {Len(ts) + 1} = 1 .. Len(ts) + 1
          BY <1>1
        <4>2. QED
          BY <1>1, <3>1, <3>2, <4>1
      <3>4. QED
        BY <1>1, <3>1, <3>2, <3>3
    <2>3. QED
      BY <2>1, <2>2
  <1>4. HIDE DEF size
  <1>5. ASSUME NEW i \in DOMAIN ts, i # n
        PROVE  ToSet(ts[i]) \cap ToSet(F) = {} /\ ToSet(ts[i]) \subseteq Members(ts)
    <2>1. ToSet(ts[i]) \subseteq Members(ts)
      BY DEF Members
    <2>2. CASE n <= Len(ts)
      <3>1. n \in DOMAIN ts
        BY <1>1, <2>2
      <3>2. ToSet(ts[i]) \cap ToSet(ts[n]) = {}
        BY <1>5, <3>1 DEF Apart
      <3>3. QED
        BY <2>1, <2>2, <3>2
    <2>3. CASE ~(n <= Len(ts))
      BY <2>1, <2>3
    <2>4. QED
      BY <2>2, <2>3
  <1>6. \A i \in DOMAIN us : IsInjective(us[i])
    BY <1>3 DEF Apart
  <1>7. ASSUME NEW i \in DOMAIN us, NEW j \in DOMAIN us, i # j
        PROVE  ToSet(us[i]) \cap ToSet(us[j]) = {}
    <2>1. CASE i = n
      BY <1>3, <1>5, <1>7, <2>1
    <2>2. CASE j = n
      BY <1>3, <1>5, <1>7, <2>2
    <2>3. CASE i # n /\ j # n
      BY <1>3, <1>7, <2>3 DEF Apart
    <2>4. QED
      BY <2>1, <2>2, <2>3
  <1>8. ASSUME NEW i \in DOMAIN us
        PROVE  /\ ToSet(us[i]) \subseteq Members(ts) \cup ToSet(F)
               /\ ToSet(us[i]) \cap (Fr \ ToSet(F)) = {}
    BY <1>3, <1>5
  <1>9. Apart(us)
    BY <1>6, <1>7 DEF Apart
  <1>10. /\ Members(us) \subseteq Members(ts) \cup ToSet(F)
         /\ Members(us) \cap (Fr \ ToSet(F)) = {}
    BY <1>8 DEF Members
  <1>11. Len(us) = IF n <= Len(ts) THEN Len(ts) ELSE n
    BY <1>3 DEF size
  <1>12. \A i \in DOMAIN us : us[i] = F \/ (i \in DOMAIN ts /\ us[i] = ts[i])
    BY <1>3
  <1>13. QED
    BY <1>9, <1>10, <1>11, <1>12

\* What FillEnds makes a team of: enough players and not too many, of those the
\* team had and of free ones.
LEMMA FilledProperties ==
    ASSUME TypeOK, RuleInv, TeamInv, FillInv, TeamsApart, TeamsInRange, pc = "fill", Filled # <<>>
    PROVE  /\ Filled \in Seq(Requests) /\ IsInjective(Filled)
           /\ ToSet(Filled) \subseteq ToSet(Current) \cup free
           /\ Size(Filled) \in Rule.minPlayers .. Rule.maxPlayers
  <1>1. /\ Filled \in Seq(Requests) /\ Current \in Seq(Requests) /\ team \in Seq(Requests)
    BY FilledType DEF TypeOK
  <1>2. CASE Filled = Current
    <2>1. next <= Len(teams) /\ Current = teams[next]
      BY <1>2 DEF Current
    <2>2. next \in DOMAIN teams
      BY <2>1, ToSetType DEF TypeOK
    <2>3. IsInjective(Current) /\ Size(Current) \in Rule.minPlayers .. Rule.maxPlayers
      BY <2>1, <2>2 DEF TeamsApart, Apart, TeamsInRange, Teaming
    <2>4. QED
      BY <1>1, <1>2, <2>3
  <1>3. CASE Filled = team /\ Filled # Current
    <2>1. Size(team) \in Rule.minPlayers .. PlayersAllowed
      BY <1>3 DEF Filled
    <2>2. Size(team) \in Nat /\ PlayersAllowed \in Nat /\ PlayersAllowed <= Rule.maxPlayers
          /\ {Rule.minPlayers, Rule.maxPlayers} \subseteq Nat
      BY <1>1, AllowedBound, PlayersType, ToSetType DEF Size
    <2>3. Size(team) \in Rule.minPlayers .. Rule.maxPlayers
      BY <2>1, <2>2
    <2>4. QED
      BY <1>1, <1>3, <2>3 DEF FillInv
  <1>4. QED
    BY <1>2, <1>3 DEF Filled

\* Whoever joins the team being filled is free and was not considered for it yet,
\* and leaves no more players in it than allowed.
LEMMA ConsiderProperties ==
    ASSUME TypeOK, RuleInv, TeamInv, FillInv, TeamsApart, Consider, MayJoin(order[at])
    PROVE  /\ order[at] \in free /\ order[at] \notin ToSet(team)
           /\ team' = Append(team, order[at]) /\ IsInjective(team')
           /\ ToSet(team') = ToSet(team) \cup {order[at]}
           /\ Size(team') <= PlayersAllowed
  <1>1. /\ pc = "fill" /\ team' = Append(team, order[at]) /\ at \in Nat \ {0} /\ at <= Len(order)
        /\ order \in Seq(Requests) /\ team \in Seq(Requests) /\ free \subseteq Requests
    BY DEF TypeOK, Consider
  <1>2. DOMAIN order = 1 .. Len(order) /\ Len(order) \in Nat /\ at \in DOMAIN order
    BY <1>1, ToSetType
  <1>3. order[at] \in free /\ Size(team) + Players({order[at]}) <= PlayersAllowed
    BY DEF MayJoin
  <1>4. order[at] \notin {order[i] : i \in 1 .. at - 1}
    <2>1. IsInjective(order)
      BY <1>1 DEF TeamInv, Teaming
    <2>2. ASSUME NEW i \in 1 .. at - 1 PROVE order[i] # order[at]
      <3>1. i \in DOMAIN order /\ i # at
        BY <1>1, <1>2
      <3>2. QED
        BY <1>2, <2>1, <3>1 DEF IsInjective
    <2>3. QED
      BY <2>2
  <1>5. order[at] \notin ToSet(Current)
    <2>1. CASE next <= Len(teams)
      <3>1. next \in DOMAIN teams /\ Current = teams[next]
        BY <2>1, ToSetType DEF TypeOK, Current
      <3>2. ToSet(Current) \cap free = {}
        BY <1>1, <3>1 DEF TeamsApart, Teaming, Members
      <3>3. QED
        BY <1>3, <3>2
    <2>2. CASE ~(next <= Len(teams))
      BY <2>2, ToSetEmpty DEF Current
    <2>3. QED
      BY <2>1, <2>2
  <1>6. order[at] \notin ToSet(team) /\ IsInjective(team)
    BY <1>1, <1>4, <1>5 DEF FillInv
  <1>7. ToSet(team') = ToSet(team) \cup {order[at]} /\ IsInjective(team')
    BY <1>1, <1>3, <1>6, ToSetAppend, InjectiveAppend
  <1>8. Size(team') <= PlayersAllowed
    <2>1. ToSet(team) \subseteq Requests /\ {order[at]} \subseteq Requests
      BY <1>1, <1>3, ToSetType
    <2>2. /\ Players(ToSet(team) \cup {order[at]}) <= Players(ToSet(team)) + Players({order[at]})
          /\ Players(ToSet(team)) \in Nat /\ Players({order[at]}) \in Nat
          /\ Players(ToSet(team) \cup {order[at]}) \in Nat
      BY <2>1, PlayersUnion, PlayersType
    <2>3. PlayersAllowed \in Int
      BY AllowedBound
    <2>4. QED
      BY <1>3, <1>7, <2>2, <2>3 DEF Size
  <1>9. QED
    BY <1>1, <1>3, <1>6, <1>7, <1>8

\* What is allowed only changes with the pass, the pivot and its candidates.
LEMMA AllowedUnchanged ==
    ASSUME UNCHANGED <<pivot, active, found, pass>>
    PROVE  PlayersAllowed' = PlayersAllowed /\ TeamsWanted' = TeamsWanted /\ Rule' = Rule
  BY DEF PlayersAllowed, TeamsWanted, FirstMax, SmallestParty, Rule

\* A team that has somebody was there before, and is within the rules.
LEMMA CurrentProperties ==
    ASSUME TypeOK, RuleInv, TeamInv, TeamsApart, TeamsInRange, pc \in Teaming
    PROVE  /\ Current \in Seq(Requests) /\ IsInjective(Current)
           /\ Size(Current) \in Nat /\ Size(Current) <= PlayersAllowed
  <1>1. Current \in Seq(Requests)
    BY FilledType
  <1>2. Size(Current) \in Nat
    BY <1>1, ToSetType, PlayersType DEF Size
  <1>3. /\ PlayersAllowed \in Nat /\ Rule.maxPlayers \in Nat /\ Rule.minPlayers \in Nat
        /\ pass \in {1, 2} /\ next \in Nat \ {0} /\ Len(teams) \in Nat /\ DOMAIN teams = 1 .. Len(teams)
    BY AllowedBound, ToSetType DEF TypeOK
  <1>4. CASE next <= Len(teams)
    <2>1. next \in DOMAIN teams /\ Current = teams[next]
      BY <1>3, <1>4 DEF Current
    <2>2. IsInjective(Current) /\ Size(Current) \in Rule.minPlayers .. Rule.maxPlayers
      BY <2>1 DEF TeamsApart, Apart, TeamsInRange
    <2>3. pass = 2
      BY <1>3, <1>4 DEF TeamInv
    <2>4. PlayersAllowed = Rule.maxPlayers
      BY <2>3 DEF PlayersAllowed
    <2>5. QED
      BY <1>1, <1>2, <1>3, <2>2, <2>4
  <1>5. CASE ~(next <= Len(teams))
    <2>1. Current = <<>>
      BY <1>5 DEF Current
    <2>2. IsInjective(Current) /\ Size(Current) = 0
      BY <2>1, ToSetEmpty, PlayersEmpty DEF Size
    <2>3. QED
      BY <1>1, <1>2, <1>3, <2>2
  <1>6. QED
    BY <1>4, <1>5

\* A new order starts with everybody free and no teams.
LEMMA NextOrderTeams ==
    ASSUME TypeOK, PhaseInv, RuleInv, FoundInv, NextOrder
    PROVE  TeamInv' /\ FillInv' /\ TeamsApart' /\ TeamsInRange'
  <1>1. /\ pc = "order" /\ pc' = "team" /\ tried < OrderCount /\ order' = OrderAt(tried)
        /\ free' = {pivot} \cup ToSet(found) /\ pass' = 1 /\ next' = 1
        /\ teams' = <<>> /\ team' = <<>>
        /\ UNCHANGED <<queue, pivot, active, found>>
    BY DEF NextOrder
  <1>2. IsInjective(order') /\ ToSet(order') \subseteq {pivot} \cup ToSet(found)
    BY <1>1, OrderProperties
  <1>3. /\ Members(<<>>) = {} /\ Apart(<<>>) /\ Len(<<>>) = 0 /\ Size(<<>>) = 0 /\ DOMAIN <<>> = {}
    BY ToSetEmpty, PlayersEmpty DEF Members, Apart, Size
  <1>4. TeamInv'
    BY <1>1, <1>2, <1>3 DEF TeamInv
  <1>5. Rule' = Rule /\ Rule.maxPlayers \in Nat /\ Rule.maxTeams \in Nat
    BY <1>1, AllowedBound DEF Rule
  <1>6. TeamsInRange'
    BY <1>1, <1>3, <1>5 DEF TeamsInRange
  <1>7. TeamsApart'
    BY <1>1, <1>3 DEF TeamsApart
  <1>8. QED
    BY <1>1, <1>4, <1>6, <1>7 DEF FillInv

\* FindPartyCombination starts from a team as it is.
LEMMA StartTeamTeams ==
    ASSUME TypeOK, PhaseInv, RuleInv, FoundInv, TeamInv, FillInv, TeamsApart, TeamsInRange, StartTeam
    PROVE  TeamInv' /\ FillInv' /\ TeamsApart' /\ TeamsInRange'
  <1>1. /\ pc = "team" /\ pc' = "fill" /\ next <= TeamsWanted /\ team' = Current /\ at' = 1
        /\ UNCHANGED <<queue, pivot, active, found, order, free, pass, teams, next>>
    BY DEF StartTeam, searchVars
  <1>2. pc \in Teaming /\ pc' \in Teaming
    BY <1>1 DEF Teaming
  <1>3. /\ IsInjective(Current) /\ Size(Current) \in Nat /\ Size(Current) <= PlayersAllowed
    BY <1>2, CurrentProperties
  <1>4. PlayersAllowed' = PlayersAllowed /\ TeamsWanted' = TeamsWanted /\ Rule' = Rule /\ Current' = Current
    BY <1>1, AllowedUnchanged DEF Current
  <1>5. TeamInv'
    BY <1>1, <1>2 DEF TeamInv
  <1>6. FillInv'
    <2>1. Len(order) \in Nat
      BY ToSetType DEF TypeOK
    <2>2. at' <= Len(order') + 1
      BY <1>1, <2>1
    <2>3. QED
      BY <1>1, <1>3, <1>4, <2>2 DEF FillInv
  <1>7. TeamsApart'
    BY <1>1, <1>2 DEF TeamsApart, Pool
  <1>8. TeamsInRange'
    <2>1. PlayersAllowed \in Nat /\ PlayersAllowed <= Rule.maxPlayers /\ Rule.maxPlayers \in Nat
      BY AllowedBound
    <2>2. Size(team') <= Rule.maxPlayers
      BY <1>1, <1>3, <2>1
    <2>3. QED
      BY <1>1, <1>2, <1>4, <2>2 DEF TeamsInRange
  <1>9. QED
    BY <1>5, <1>6, <1>7, <1>8

\* A pass ends with the teams it has.
LEMMA PassEndsTeams ==
    ASSUME TypeOK, TeamInv, TeamsApart, TeamsInRange, pc \in Teaming, EndPass,
           UNCHANGED <<queue, pivot, active, found, order, free, teams, team>>
    PROVE  TeamInv' /\ FillInv' /\ TeamsApart' /\ TeamsInRange'
  <1>1. /\ pc' \in {"team", "validate"} /\ pc' \in Teaming
        /\ \/ pass' = 2 /\ next' = 1
           \/ pass' # 1 /\ next' = next
    BY DEF EndPass, Teaming, TypeOK
  <1>2. Len(teams) \in Nat
    BY ToSetType DEF TypeOK
  <1>3. TeamInv'
    BY <1>1, <1>2 DEF TeamInv
  <1>4. TeamsApart' /\ TeamsInRange'
    BY <1>1 DEF TeamsApart, TeamsInRange, Pool, Rule
  <1>5. QED
    BY <1>1, <1>3, <1>4 DEF FillInv

\* Reading the order, whoever may join does, and nobody twice.
LEMMA ConsiderTeams ==
    ASSUME TypeOK, PhaseInv, RuleInv, FoundInv, TeamInv, FillInv, TeamsApart, TeamsInRange, Consider
    PROVE  TeamInv' /\ FillInv' /\ TeamsApart' /\ TeamsInRange'
  <1>1. /\ pc = "fill" /\ pc' = "fill" /\ at <= Len(order) /\ at' = at + 1
        /\ team' = IF MayJoin(order[at]) THEN Append(team, order[at]) ELSE team
        /\ UNCHANGED <<queue, pivot, active, found, order, free, pass, teams, next>>
    BY DEF Consider, searchVars
  <1>2. pc \in Teaming /\ pc' \in Teaming
    BY <1>1 DEF Teaming
  <1>3. PlayersAllowed' = PlayersAllowed /\ TeamsWanted' = TeamsWanted /\ Rule' = Rule /\ Current' = Current
    BY <1>1, AllowedUnchanged DEF Current
  <1>4. at \in Nat \ {0} /\ Len(order) \in Nat /\ team \in Seq(Requests)
    BY ToSetType DEF TypeOK
  <1>5. /\ IsInjective(team')
        /\ ToSet(team') \subseteq ToSet(Current) \cup (free \cap {order[i] : i \in 1 .. at})
        /\ Size(team') <= PlayersAllowed
    <2>1. 1 .. at - 1 \subseteq 1 .. at /\ at \in 1 .. at
      BY <1>4
    <2>2. /\ IsInjective(team) /\ Size(team) <= PlayersAllowed
          /\ ToSet(team) \subseteq ToSet(Current) \cup (free \cap {order[i] : i \in 1 .. at})
      BY <1>1, <2>1 DEF FillInv
    <2>3. CASE MayJoin(order[at])
      <3>1. /\ order[at] \in free /\ IsInjective(team')
            /\ ToSet(team') = ToSet(team) \cup {order[at]}
            /\ Size(team') <= PlayersAllowed
        BY <2>3, ConsiderProperties
      <3>2. order[at] \in free \cap {order[i] : i \in 1 .. at}
        BY <2>1, <3>1
      <3>3. QED
        BY <2>2, <3>1, <3>2
    <2>4. CASE ~MayJoin(order[at])
      BY <1>1, <2>2, <2>4
    <2>5. QED
      BY <2>3, <2>4
  <1>6. FillInv'
    <2>1. at' - 1 = at /\ at' <= Len(order) + 1
      BY <1>1, <1>4
    <2>2. next <= TeamsWanted
      BY <1>1 DEF FillInv
    <2>3. QED
      BY <1>1, <1>3, <1>5, <2>1, <2>2 DEF FillInv
  <1>7. TeamInv'
    BY <1>1, <1>2 DEF TeamInv
  <1>8. TeamsApart'
    BY <1>1, <1>2 DEF TeamsApart, Pool
  <1>9. TeamsInRange'
    <2>1. PlayersAllowed \in Nat /\ PlayersAllowed <= Rule.maxPlayers /\ Rule.maxPlayers \in Nat
      BY AllowedBound
    <2>2. Size(team') \in Nat
      <3>1. CASE MayJoin(order[at])
        <4>1. order[at] \in Requests /\ team' = Append(team, order[at])
          BY <1>1, <3>1 DEF MayJoin, TypeOK
        <4>2. ToSet(team') \subseteq Requests
          BY <1>4, <4>1, ToSetAppend, ToSetType
        <4>3. QED
          BY <4>2, PlayersType DEF Size
      <3>2. CASE ~MayJoin(order[at])
        BY <1>1, <1>4, <3>2, ToSetType, PlayersType DEF Size
      <3>3. QED
        BY <3>1, <3>2
    <2>3. Size(team') <= Rule.maxPlayers
      BY <1>5, <2>1, <2>2
    <2>4. QED
      BY <1>1, <1>2, <1>3, <2>3 DEF TeamsInRange
  <1>10. QED
    BY <1>6, <1>7, <1>8, <1>9

\* What was filled takes its place among the teams, and is not free any more.
LEMMA FillEndsTeams ==
    ASSUME TypeOK, PhaseInv, RuleInv, FoundInv, TeamInv, FillInv, TeamsApart, TeamsInRange, FillEnds
    PROVE  TeamInv' /\ FillInv' /\ TeamsApart' /\ TeamsInRange'
  <1>1. pc = "fill" /\ pc \in Teaming /\ UNCHANGED <<queue, pivot, active, found, order, team>>
    BY DEF FillEnds, searchVars, Teaming
  <1>2. CASE Filled = <<>>
    <2>1. EndPass /\ UNCHANGED <<teams, free>>
      BY <1>2 DEF FillEnds
    <2>2. QED
      BY <1>1, <2>1, PassEndsTeams
  <1>3. CASE Filled # <<>>
    <2>1. /\ teams' = Placed(teams, next, Filled)
          /\ free' = free \ ToSet(Filled) /\ next' = next + 1 /\ pc' = "team" /\ pass' = pass
      BY <1>3 DEF FillEnds
    <2>2. /\ Filled \in Seq(Requests) /\ IsInjective(Filled)
          /\ ToSet(Filled) \subseteq ToSet(Current) \cup free
          /\ Size(Filled) \in Rule.minPlayers .. Rule.maxPlayers
      BY <1>1, <1>3, FilledProperties
    <2>3. /\ teams \in Seq(Seq(Requests)) /\ next \in Nat \ {0} /\ Len(teams) \in Nat
          /\ pass \in {1, 2}
      BY ToSetType DEF TypeOK
    <2>4. /\ IsInjective(order)
          /\ ToSet(order) \cup free \cup Members(teams) \subseteq {pivot} \cup ToSet(found)
          /\ next <= Len(teams) + 1 /\ (pass = 1 => next = Len(teams) + 1)
      BY <1>1 DEF TeamInv
    <2>5. next <= TeamsWanted
      BY <1>1 DEF FillInv
    <2>6. TeamsWanted \in Nat /\ TeamsWanted <= Rule.maxTeams /\ Rule.maxTeams \in Nat
      BY AllowedBound
    <2>7. Apart(teams) /\ Members(teams) \subseteq Pool \ free
      BY <1>1 DEF TeamsApart
    <2>8. /\ Len(teams) <= Rule.maxTeams
          /\ \A i \in DOMAIN teams : Size(teams[i]) \in Rule.minPlayers .. Rule.maxPlayers
          /\ Size(team) <= Rule.maxPlayers
      BY <1>1 DEF TeamsInRange
    <2>9. ToSet(Filled) \subseteq (IF next <= Len(teams) THEN ToSet(teams[next]) ELSE {}) \cup free
      BY <2>2, ToSetEmpty DEF Current
    <2>10. Members(teams) \cap free = {}
      BY <2>7
    <2>11. /\ Apart(teams')
           /\ Members(teams') \subseteq Members(teams) \cup ToSet(Filled)
           /\ Members(teams') \cap (free \ ToSet(Filled)) = {}
           /\ Len(teams') = IF next <= Len(teams) THEN Len(teams) ELSE next
           /\ \A i \in DOMAIN teams' : teams'[i] = Filled \/ (i \in DOMAIN teams /\ teams'[i] = teams[i])
      <3>1. /\ Apart(Placed(teams, next, Filled))
            /\ Members(Placed(teams, next, Filled)) \subseteq Members(teams) \cup ToSet(Filled)
            /\ Members(Placed(teams, next, Filled)) \cap (free \ ToSet(Filled)) = {}
            /\ Len(Placed(teams, next, Filled)) = IF next <= Len(teams) THEN Len(teams) ELSE next
            /\ \A i \in DOMAIN Placed(teams, next, Filled) :
                  \/ Placed(teams, next, Filled)[i] = Filled
                  \/ i \in DOMAIN teams /\ Placed(teams, next, Filled)[i] = teams[i]
        BY <2>2, <2>3, <2>4, <2>7, <2>9, <2>10, PlaceTeam
      <3>2. QED
        BY <2>1, <3>1
    <2>12. ToSet(Filled) \subseteq Members(teams) \cup free
      <3>1. CASE next <= Len(teams)
        <4>1. next \in DOMAIN teams
          BY <2>3, <3>1, ToSetType
        <4>2. ToSet(teams[next]) \subseteq Members(teams)
          BY <4>1 DEF Members
        <4>3. QED
          BY <2>9, <3>1, <4>2
      <3>2. CASE ~(next <= Len(teams))
        BY <2>9, <3>2
      <3>3. QED
        BY <3>1, <3>2
    <2>13. Members(teams') \subseteq {pivot} \cup ToSet(found)
      BY <2>4, <2>11, <2>12
    <2>14. TeamInv'
      <3>1. ToSet(order) \cup free' \cup Members(teams') \subseteq {pivot} \cup ToSet(found)
        BY <2>1, <2>4, <2>13
      <3>2. next' <= Len(teams') + 1 /\ (pass' = 1 => next' = Len(teams') + 1)
        BY <2>1, <2>3, <2>4, <2>11
      <3>3. QED
        BY <1>1, <2>4, <3>1, <3>2 DEF TeamInv
    <2>15. TeamsApart'
      <3>1. {pivot} \cup ToSet(found) \subseteq Pool
        BY <1>1 DEF PhaseInv, FoundInv, Searching
      <3>2. Members(teams') \subseteq Pool \ free'
        BY <2>1, <2>11, <2>13, <3>1
      <3>3. QED
        BY <1>1, <2>11, <3>2 DEF TeamsApart, Pool
    <2>16. TeamsInRange'
      <3>1. Len(teams') <= Rule.maxTeams
        BY <2>3, <2>5, <2>6, <2>8, <2>11
      <3>2. \A i \in DOMAIN teams' : Size(teams'[i]) \in Rule.minPlayers .. Rule.maxPlayers
        BY <2>2, <2>8, <2>11
      <3>3. QED
        BY <1>1, <2>8, <3>1, <3>2 DEF TeamsInRange, Rule
    <2>17. QED
      BY <2>1, <2>14, <2>15, <2>16 DEF FillInv
  <1>4. QED
    BY <1>2, <1>3

\* So the teams stay apart and within the rules, whatever the order.
LEMMA TeamInductive ==
    ASSUME TypeOK, PhaseInv, RuleInv, FoundInv, TeamInv, FillInv, TeamsApart, TeamsInRange,
           [Next]_vars
    PROVE  TeamInv' /\ FillInv' /\ TeamsApart' /\ TeamsInRange'
  <1> USE DEF callVars, searchVars, teamVars, outVars
  <1>1. CASE UNCHANGED vars \/ Tick \/ SendMatch
    <2>1. UNCHANGED <<pc, queue, pivot, active, found, order, free, pass, teams, next, team, at>>
      BY <1>1 DEF vars, Tick, SendMatch
    <2>2. TeamInv' /\ TeamsApart'
      BY <2>1 DEF TeamInv, TeamsApart, Pool
    <2>3. TeamsInRange'
      BY <2>1 DEF TeamsInRange, Rule
    <2>4. PlayersAllowed' = PlayersAllowed /\ TeamsWanted' = TeamsWanted /\ Current' = Current
      BY <2>1, AllowedUnchanged DEF Current
    <2>5. FillInv'
      BY <2>1, <2>4 DEF FillInv
    <2>6. QED
      BY <2>2, <2>3, <2>5
  <1>2. CASE Validate
    <2>1. /\ pc' \in {"options", "order"} /\ pc \in Teaming
          /\ UNCHANGED <<queue, pivot, active, found, order, free, pass, teams, next, team, at>>
      BY <1>2 DEF Validate, Teaming
    <2>2. TeamInv' /\ TeamsApart'
      BY <2>1 DEF TeamInv, TeamsApart, Pool
    <2>3. TeamsInRange' /\ FillInv'
      BY <2>1 DEF TeamsInRange, FillInv, Rule
    <2>4. QED
      BY <2>2, <2>3
  <1>3. CASE PassEnds
    BY <1>3, PassEndsTeams DEF PassEnds, Teaming
  <1>4. CASE NextOrder \/ StartTeam \/ Consider \/ FillEnds
    BY <1>4, NextOrderTeams, StartTeamTeams, ConsiderTeams, FillEndsTeams
  <1>5. CASE ReturnEarly \/ Begin \/ SinglePlayer \/ SinglePlayerEnds \/ ChoosePivot \/ SearchRegion
             \/ RegionsEnd \/ OrdersEnd \/ OptionsDisagree \/ MakeMatch \/ DropPivot \/ GiveUp
    <2>1. pc' \notin Teaming
      BY <1>5 DEF ReturnEarly, Begin, SinglePlayer, SinglePlayerEnds, ChoosePivot, SearchRegion,
            RegionsEnd, OrdersEnd, OptionsDisagree, MakeMatch, DropPivot, GiveUp, Teaming
    <2>2. QED
      BY <2>1 DEF TeamInv, FillInv, TeamsApart, TeamsInRange, Teaming
  <1>6. QED
    BY <1>1, <1>2, <1>3, <1>4, <1>5 DEF Next, Step, Finished

-----------------------------------------------------------------------------
(* Matches.                                                                *)

\* The groups that the matches are, one for each.
LEMMA MatchGroups ==
    ASSUME NEW rs, rs \in Seq(ToSet(rs))
    PROVE  LET g == [i \in DOMAIN rs |-> InMatch(rs[i])] IN
           /\ Len(g) = Len(rs) /\ Len(rs) \in Nat
           /\ DOMAIN rs = 1 .. Len(rs) /\ DOMAIN g = 1 .. Len(rs)
           /\ \A i \in 1 .. Len(rs) : g[i] = InMatch(rs[i])
  <1>1. PICK g : g = [i \in DOMAIN rs |-> InMatch(rs[i])]
    OBVIOUS
  <1>2. Len(rs) \in Nat /\ DOMAIN rs = 1 .. Len(rs)
    BY ToSetType
  <1>3. DOMAIN g = 1 .. Len(rs) /\ \A i \in 1 .. Len(rs) : g[i] = InMatch(rs[i])
    BY <1>1, <1>2
  <1>4. g \in [1 .. Len(rs) -> {g[i] : i \in 1 .. Len(rs)}]
    BY <1>1, <1>2, <1>3
  <1>5. Len(g) = Len(rs)
    <2>1. g \in Seq({g[i] : i \in 1 .. Len(rs)})
      BY <1>2, <1>4
    <2>2. Len(g) \in Nat /\ DOMAIN g = 1 .. Len(g)
      BY <2>1, LenProperties
    <2>3. QED
      BY <1>2, <1>3, <2>1, <2>2
  <1>6. QED
    BY <1>1, <1>2, <1>3, <1>5

\* Matches stay apart while the pool only gets smaller.
LEMMA KeepMatches ==
    ASSUME TypeOK, TypeOK', MatchesApart, CountInv, results' = results, Pool' \subseteq Pool
    PROVE  MatchesApart' /\ CountInv'
  <1>1. MatchesApart'
    BY DEF MatchesApart
  <1>2. IsFiniteSet(Pool) /\ IsFiniteSet(Requests) /\ Len(results) \in Nat
    BY ToSetType, PivotAssumption DEF TypeOK, Pool
  <1>3. /\ Cardinality(Pool') <= Cardinality(Pool) /\ Cardinality(Pool') \in Nat
        /\ Cardinality(Pool) \in Nat /\ Cardinality(Requests) \in Nat
    BY <1>2, FS_Subset, FS_CardinalityType
  <1>4. CountInv'
    BY <1>2, <1>3 DEF CountInv
  <1>5. QED
    BY <1>1, <1>4

\* A match made of requests of the pool, which leave it, is apart from the others.
LEMMA AddMatch ==
    ASSUME TypeOK, MatchesApart, CountInv, NEW m, NEW P,
           Apart(m.teams), InMatch(m) # {}, InMatch(m) \subseteq Pool,
           results' = Append(results, m), Pool' = P, P = Pool \ InMatch(m)
    PROVE  MatchesApart' /\ CountInv'
  <1>1. /\ results \in Seq(ToSet(results)) /\ IsFiniteSet(Pool) /\ Pool \subseteq Requests
        /\ IsFiniteSet(Requests)
    BY ToSetType, PivotAssumption DEF TypeOK, Pool
  <1>2. PICK rs, rt : rs = results /\ rt = results'
    OBVIOUS
  <1>3. /\ rt \in Seq(ToSet(rt)) /\ ToSet(rt) = ToSet(rs) \cup {m}
        /\ Len(rs) \in Nat /\ Len(rt) = Len(rs) + 1
        /\ DOMAIN rs = 1 .. Len(rs) /\ DOMAIN rt = 1 .. Len(rs) + 1
        /\ \A i \in 1 .. Len(rs) : rt[i] = rs[i]
        /\ rt[Len(rs) + 1] = m
    BY <1>1, <1>2, AppendAny
  <1>4. PICK r : r \in InMatch(m)
    OBVIOUS
  <1>5. /\ Cardinality(P) + 1 <= Cardinality(Pool)
        /\ Cardinality(P) \in Nat /\ Cardinality(Pool) \in Nat /\ Cardinality(Requests) \in Nat
    <2>1. /\ IsFiniteSet(Pool \ {r}) /\ Cardinality(Pool \ {r}) = Cardinality(Pool) - 1
      BY <1>1, <1>4, FS_RemoveElement
    <2>2. P \subseteq Pool \ {r}
      BY <1>4
    <2>3. IsFiniteSet(P) /\ Cardinality(P) <= Cardinality(Pool \ {r})
      BY <2>1, <2>2, FS_Subset
    <2>4. Cardinality(P) \in Nat /\ Cardinality(Pool) \in Nat /\ Cardinality(Requests) \in Nat
      BY <1>1, <2>3, FS_CardinalityType
    <2>5. QED
      BY <2>1, <2>3, <2>4
  <1>6. Len(rs) + Cardinality(Pool) <= Cardinality(Requests)
    BY <1>2 DEF CountInv
  <1>7. CountInv'
    <2>1. Len(rt) + Cardinality(P) <= Cardinality(Requests)
      BY <1>3, <1>5, <1>6
    <2>2. QED
      BY <1>2, <2>1 DEF CountInv
  <1>8. \A k \in ToSet(rt) : Apart(k.teams) /\ InMatch(k) \cap P = {}
    BY <1>2, <1>3 DEF MatchesApart
  <1>9. PICK g, h : /\ g = [i \in DOMAIN rs |-> InMatch(rs[i])]
                    /\ h = [i \in DOMAIN rt |-> InMatch(rt[i])]
    OBVIOUS
  <1>10. /\ Len(g) = Len(rs) /\ DOMAIN g = 1 .. Len(rs)
         /\ \A i \in 1 .. Len(rs) : g[i] = InMatch(rs[i])
    BY <1>1, <1>2, <1>9, MatchGroups
  <1>11. /\ Len(h) = Len(rt) /\ DOMAIN h = 1 .. Len(rt)
         /\ \A i \in 1 .. Len(rt) : h[i] = InMatch(rt[i])
    BY <1>3, <1>9, MatchGroups
  <1>12. IsGrouping(g, Requests)
    BY <1>2, <1>9 DEF MatchesApart
  <1>13. \A i \in 1 .. Len(rs) : h[i] = g[i] /\ h[i] \cap Pool = {}
    <2>1. ASSUME NEW i \in 1 .. Len(rs)
          PROVE  h[i] = InMatch(rs[i]) /\ g[i] = InMatch(rs[i]) /\ rs[i] \in ToSet(results)
      <3>1. i \in 1 .. Len(rt)
        BY <1>3
      <3>2. QED
        BY <1>2, <1>3, <1>10, <1>11, <3>1 DEF ToSet
    <2>2. QED
      BY <2>1 DEF MatchesApart
  <1>14. h[Len(rs) + 1] = InMatch(m)
    <2>1. Len(rs) + 1 \in 1 .. Len(rt)
      BY <1>3
    <2>2. QED
      BY <1>3, <1>11, <2>1
  <1>15. ASSUME NEW i \in 1 .. Len(rt)
         PROVE  h[i] # {} /\ h[i] \subseteq Requests
    <2>1. CASE i = Len(rs) + 1
      BY <1>1, <1>14, <2>1
    <2>2. CASE i # Len(rs) + 1
      <3>1. i \in 1 .. Len(rs)
        BY <1>3, <2>2
      <3>2. QED
        BY <1>10, <1>12, <1>13, <3>1 DEF IsGrouping
    <2>3. QED
      BY <2>1, <2>2
  <1>16. ASSUME NEW i \in 1 .. Len(rt), NEW j \in 1 .. Len(rt), i # j
         PROVE  h[i] \cap h[j] = {}
    <2>1. (i \in 1 .. Len(rs) \/ i = Len(rs) + 1) /\ (j \in 1 .. Len(rs) \/ j = Len(rs) + 1)
      BY <1>3
    <2>2. CASE i = Len(rs) + 1
      BY <1>13, <1>14, <1>16, <2>1, <2>2
    <2>3. CASE j = Len(rs) + 1
      BY <1>13, <1>14, <1>16, <2>1, <2>3
    <2>4. CASE i \in 1 .. Len(rs) /\ j \in 1 .. Len(rs)
      BY <1>10, <1>12, <1>13, <1>16, <2>4 DEF IsGrouping, Disjoint
    <2>5. QED
      BY <2>1, <2>2, <2>3, <2>4
  <1>17. Len(h) <= Cardinality(Requests)
    BY <1>3, <1>5, <1>6, <1>11
  <1>18. IsGrouping(h, Requests)
    BY <1>11, <1>15, <1>16, <1>17 DEF IsGrouping, Disjoint
  <1>19. MatchesApart'
    <2>1. [i \in DOMAIN results' |-> InMatch(results'[i])] = h
      BY <1>2, <1>9
    <2>2. QED
      BY <1>2, <1>8, <1>18, <2>1 DEF MatchesApart
  <1>20. QED
    BY <1>7, <1>19

\* The teams that passed validation are a match: of somebody, and of the pool.
LEMMA FoundMatch ==
    ASSUME TypeOK, PhaseInv, RuleInv, TeamsApart, TeamsInRange, pc = "options"
    PROVE  /\ Found.pivot = pivot /\ Found.rule = Rule /\ Found.teams = teams
           /\ Apart(Found.teams)
           /\ InMatch(Found) = Members(teams) /\ InMatch(Found) # {} /\ InMatch(Found) \subseteq Pool
           /\ Found.region = RegionAt(pivot, region)
  <1>1. /\ Found.pivot = pivot /\ Found.rule = Rule /\ Found.teams = teams
        /\ Found.region = RegionAt(pivot, region)
    BY DEF Found, Result
  <1>2. /\ Apart(teams) /\ Members(teams) \subseteq Pool
        /\ \A i \in DOMAIN teams : Size(teams[i]) \in Rule.minPlayers .. Rule.maxPlayers
    BY DEF TeamsApart, TeamsInRange, Teaming
  <1>3. Len(teams) \in Nat /\ DOMAIN teams = 1 .. Len(teams)
    BY ToSetType DEF TypeOK
  <1>4. /\ {Rule.minTeams, Rule.maxTeams, Rule.minPlayers, Rule.maxPlayers} \subseteq Nat \ {0}
        /\ Len(teams) \in Rule.minTeams .. Rule.maxTeams
    BY AllowedBound DEF PhaseInv, ValidAllies
  <1>5. 1 \in DOMAIN teams
    BY <1>3, <1>4
  <1>6. Size(teams[1]) # 0
    BY <1>2, <1>4, <1>5
  <1>7. ToSet(teams[1]) # {}
    BY <1>6, PlayersEmpty DEF Size
  <1>8. Members(teams) # {}
    BY <1>5, <1>7 DEF Members
  <1>9. QED
    BY <1>1, <1>2, <1>8 DEF InMatch

\* A match is made of one request for a single player, or of the teams found for
\* a pivot: no other step adds one, or puts a request back.
LEMMA ResultSteps ==
    ASSUME TypeOK, PhaseInv, [Next]_vars
    PROVE  \/ results' = results /\ Pool' \subseteq Pool
           \/ SinglePlayer
           \/ MakeMatch
  <1> USE DEF callVars, searchVars, teamVars, outVars
  <1>1. CASE UNCHANGED vars \/ Tick
    BY <1>1 DEF vars, Tick, Pool
  <1>2. CASE ChoosePivot
    <2>1. queue # <<>> /\ queue' \in OldestFirst(Pool) /\ results' = results
      BY <1>2 DEF ChoosePivot, PhaseInv
    <2>2. ToSet(queue') = Pool
      BY <2>1, OldestFirstProperties
    <2>3. QED
      BY <2>1, <2>2 DEF Pool
  <1>3. CASE DropPivot
    <2>1. PICK S : queue' \in Without(queue, S)
      BY <1>3 DEF DropPivot
    <2>2. ToSet(queue') \subseteq ToSet(queue)
      BY <2>1, WithoutProperties DEF TypeOK
    <2>3. QED
      BY <1>3, <2>2 DEF DropPivot, Pool
  <1>4. CASE ReturnEarly \/ Begin \/ SinglePlayerEnds \/ SearchRegion \/ RegionsEnd
             \/ NextOrder \/ OrdersEnd \/ StartTeam \/ PassEnds \/ Consider \/ FillEnds \/ Validate
             \/ OptionsDisagree \/ GiveUp \/ SendMatch
    <2>1. UNCHANGED <<queue, results>>
      BY <1>4 DEF ReturnEarly, Begin, SinglePlayerEnds, SearchRegion, RegionsEnd, NextOrder,
            OrdersEnd, StartTeam, PassEnds, Consider, FillEnds, Validate, OptionsDisagree, GiveUp,
            SendMatch
    <2>2. QED
      BY <2>1 DEF Pool
  <1>5. QED
    BY <1>1, <1>2, <1>3, <1>4 DEF Next, Step, Finished

\* handleSinglePlayer's match.
LEMMA SingleMatch ==
    ASSUME TypeOK, PhaseInv, SinglePlayer
    PROVE  \E r \in Pool : \E m :
              /\ results' = Append(results, m) /\ Pool' = Pool \ {r}
              /\ m.teams = <<<<r>>>> /\ Apart(m.teams) /\ InMatch(m) = {r}
              /\ IsSinglePlayer(ruleset.alliance) /\ ruleset' = ruleset
  <1>1. PICK r : r = Head(queue)
    OBVIOUS
  <1>2. PICK m : m = Result(r, ruleset.alliance, <<<<r>>>>, RegionAt(r, 0), Request[r].attributes)
    OBVIOUS
  <1>3. /\ results' = Append(results, m) /\ queue' = Tail(queue) /\ queue # <<>>
        /\ pc = "single" /\ ruleset' = ruleset
    BY <1>1, <1>2 DEF SinglePlayer, callVars
  <1>4. r \in Pool /\ Pool' = Pool \ {r}
    BY <1>1, <1>3, InjectiveTail DEF TypeOK, Pool
  <1>5. m.teams = <<<<r>>>>
    BY <1>2 DEF Result
  <1>6. /\ DOMAIN m.teams = {1} /\ m.teams[1] = <<r>>
        /\ DOMAIN <<r>> = {1} /\ <<r>>[1] = r
    BY <1>5
  <1>7. ToSet(m.teams[1]) = {r} /\ IsInjective(m.teams[1])
    BY <1>6 DEF ToSet, IsInjective
  <1>8. Apart(m.teams)
    BY <1>6, <1>7 DEF Apart
  <1>9. InMatch(m) = {r}
    BY <1>6, <1>7 DEF InMatch, Members
  <1>10. IsSinglePlayer(ruleset.alliance)
    BY <1>3 DEF PhaseInv
  <1>11. QED
    BY <1>3, <1>4, <1>5, <1>8, <1>9, <1>10

\* MakeMatch's match.
LEMMA TeamsMatch ==
    ASSUME TypeOK, PhaseInv, RuleInv, TeamsApart, TeamsInRange, MakeMatch
    PROVE  \E m :
              /\ results' = Append(results, m) /\ Pool' = Pool \ InMatch(m)
              /\ m.pivot = pivot /\ m.rule = Rule /\ m.teams = teams /\ Apart(m.teams)
              /\ InMatch(m) = Members(teams) /\ InMatch(m) # {} /\ InMatch(m) \subseteq Pool
              /\ m.region = RegionAt(pivot, region)
              /\ UNCHANGED <<ruleset, now, pivot, active>>
  <1>1. PICK m : m = Found
    OBVIOUS
  <1>2. /\ pc = "options" /\ results' = Append(results, m) /\ queue' \in Without(queue, InMatch(m))
        /\ UNCHANGED <<ruleset, now, pivot, active>>
    BY <1>1 DEF MakeMatch, callVars, searchVars
  <1>3. /\ m.pivot = pivot /\ m.rule = Rule /\ m.teams = teams /\ Apart(m.teams)
        /\ InMatch(m) = Members(teams) /\ InMatch(m) # {} /\ InMatch(m) \subseteq Pool
        /\ m.region = RegionAt(pivot, region)
    BY <1>1, <1>2, FoundMatch
  <1>4. Pool' = Pool \ InMatch(m)
    BY <1>2, WithoutProperties DEF TypeOK, Pool
  <1>5. QED
    BY <1>2, <1>3, <1>4

\* Matches stay apart from each other and from the pool.
LEMMA MatchesInductive ==
    ASSUME TypeOK, TypeOK', PhaseInv, RuleInv, TeamsApart, TeamsInRange, MatchesApart, CountInv,
           [Next]_vars
    PROVE  MatchesApart' /\ CountInv'
  <1>1. CASE results' = results /\ Pool' \subseteq Pool
    BY <1>1, KeepMatches
  <1>2. CASE SinglePlayer
    <2>0. PICK r \in Pool : \E m :
              /\ results' = Append(results, m) /\ Pool' = Pool \ {r}
              /\ Apart(m.teams) /\ InMatch(m) = {r}
      BY <1>2, SingleMatch
    <2>1. PICK m :
              /\ results' = Append(results, m) /\ Pool' = Pool \ {r}
              /\ Apart(m.teams) /\ InMatch(m) = {r}
      BY <2>0
    <2>2. PICK P : P = Pool \ InMatch(m)
      OBVIOUS
    <2>3. Pool' = P /\ InMatch(m) # {} /\ InMatch(m) \subseteq Pool
      BY <2>1, <2>2
    <2>4. QED
      BY <2>1, <2>2, <2>3, AddMatch
  <1>3. CASE MakeMatch
    <2>1. PICK m :
              /\ results' = Append(results, m) /\ Pool' = Pool \ InMatch(m)
              /\ Apart(m.teams) /\ InMatch(m) # {} /\ InMatch(m) \subseteq Pool
      BY <1>3, TeamsMatch
    <2>2. PICK P : P = Pool \ InMatch(m)
      OBVIOUS
    <2>3. QED
      BY <2>1, <2>2, AddMatch
  <1>4. QED
    BY <1>1, <1>2, <1>3, ResultSteps

-----------------------------------------------------------------------------
(* What the matches keep.                                                  *)

\* What waiting has made possible stays possible.
LEMMA WarrantedLater ==
    ASSUME TypeOK, NEW r \in Requests, NEW u, u \in Nat, now <= u
    PROVE  \A i \in DOMAIN ruleset.allianceFlex :
              Request[r].createdAt + ruleset.allianceFlex[i].duration < now =>
                 Request[r].createdAt + ruleset.allianceFlex[i].duration < u
  <1>1. now \in Nat /\ ruleset \in RuleSets /\ Request[r].createdAt \in Nat
    BY PivotAssumption, RequestFields DEF TypeOK
  <1>2. \A i \in DOMAIN ruleset.allianceFlex : ruleset.allianceFlex[i].duration \in Nat
    BY <1>1, RuleSetFields
  <1>3. QED
    BY <1>1, <1>2

\* Every match keeps the rule that was active for its pivot.
LEMMA RuleKeptInductive ==
    ASSUME TypeOK, PhaseInv, RuleInv, TeamsApart, TeamsInRange, RuleKept, [Next]_vars
    PROVE  RuleKept'
  <1>1. ruleset' = ruleset /\ now \in Nat /\ now' \in Nat /\ now <= now'
    BY ClockAndRules
  <1>2. SUFFICES ASSUME ~IsSinglePlayer(ruleset.alliance), NEW m \in ToSet(results')
                 PROVE  /\ Len(m.teams) \in m.rule.minTeams .. m.rule.maxTeams
                        /\ \A i \in DOMAIN m.teams :
                              Size(m.teams[i]) \in m.rule.minPlayers .. m.rule.maxPlayers
                        /\ m.rule \in Warranted(ruleset.alliance, ruleset.allianceFlex,
                                                Request[m.pivot].createdAt)'
    BY <1>1 DEF RuleKept
  <1>3. ASSUME NEW rule, NEW r \in Requests,
               rule \in Warranted(ruleset.alliance, ruleset.allianceFlex, Request[r].createdAt)
        PROVE  rule \in Warranted(ruleset.alliance, ruleset.allianceFlex, Request[r].createdAt)'
    <2>1. \A i \in DOMAIN ruleset.allianceFlex :
              Request[r].createdAt + ruleset.allianceFlex[i].duration < now =>
                 Request[r].createdAt + ruleset.allianceFlex[i].duration < now'
      BY <1>1, WarrantedLater
    <2>2. QED
      BY <1>1, <1>3, <2>1 DEF Warranted
  <1>4. CASE m \in ToSet(results)
    <2>1. /\ Len(m.teams) \in m.rule.minTeams .. m.rule.maxTeams
          /\ \A i \in DOMAIN m.teams :
                Size(m.teams[i]) \in m.rule.minPlayers .. m.rule.maxPlayers
          /\ m.rule \in Warranted(ruleset.alliance, ruleset.allianceFlex, Request[m.pivot].createdAt)
      BY <1>2, <1>4 DEF RuleKept
    <2>2. m.pivot \in Requests
      BY <1>4 DEF TypeOK
    <2>3. QED
      BY <1>3, <2>1, <2>2
  <1>5. CASE MakeMatch /\ m \notin ToSet(results)
    <2>1. PICK k : /\ results' = Append(results, k)
                   /\ k.pivot = pivot /\ k.rule = Rule /\ k.teams = teams
      BY <1>5, TeamsMatch
    <2>2. k = m
      BY <1>2, <1>5, <2>1, AppendAny DEF TypeOK
    <2>3. pc = "options" /\ pivot \in Requests
      BY <1>5 DEF MakeMatch, TypeOK
    <2>4. Len(teams) \in Rule.minTeams .. Rule.maxTeams
      BY <2>3 DEF PhaseInv, ValidAllies
    <2>5. \A i \in DOMAIN teams : Size(teams[i]) \in Rule.minPlayers .. Rule.maxPlayers
      BY <2>3 DEF TeamsInRange, Teaming
    <2>6. Rule \in Warranted(ruleset.alliance, ruleset.allianceFlex, Request[pivot].createdAt)
      BY RuleWarranted
    <2>7. m.rule \in Warranted(ruleset.alliance, ruleset.allianceFlex, Request[m.pivot].createdAt)'
      BY <1>3, <2>1, <2>2, <2>3, <2>6
    <2>8. QED
      BY <2>1, <2>2, <2>4, <2>5, <2>7
  <1>6. CASE SinglePlayer
    BY <1>2, <1>6, SingleMatch
  <1>7. QED
    BY <1>2, <1>4, <1>5, <1>6, ResultSteps

\* Whoever is not blocked together is at peace, and so are fewer of them.
LEMMA PeacefulSets ==
    ASSUME NEW S, NEW T
    PROVE  /\ ~Blocked(S) => Peaceful(S)
           /\ Peaceful(S) /\ T \subseteq S => Peaceful(T)
  <1>1. ASSUME NEW r \in S
        PROVE  UsersIn({r}) \subseteq UsersIn(S) /\ BlockedBy({Request[r]}) \subseteq BlockedBy(Of(S))
    <2>1. Request[r] \in Of(S) /\ Of({r}) = {Request[r]}
      BY DEF Of
    <2>2. QED
      BY <2>1 DEF UsersIn, UsersOf, BlockedBy
  <1>2. ~Blocked(S) => Peaceful(S)
    BY <1>1 DEF Blocked, Peaceful
  <1>3. QED
    BY <1>2 DEF Peaceful

\* Nobody is matched with somebody they blocked.
LEMMA NoBlockedInductive ==
    ASSUME TypeOK, PhaseInv, RuleInv, FoundInv, TeamInv, TeamsApart, TeamsInRange,
           NoBlockedTogether, [Next]_vars
    PROVE  NoBlockedTogether'
  <1>1. ruleset' = ruleset
    BY ClockAndRules
  <1>2. SUFFICES ASSUME NEW m \in ToSet(results')
                 PROVE  /\ ruleset.block \in {"", "cannot"} => Peaceful(InMatch(m))
                        /\ ruleset.block = "other team" =>
                              \A i \in DOMAIN m.teams : Peaceful(ToSet(m.teams[i]))
    BY <1>1 DEF NoBlockedTogether
  <1>3. CASE m \in ToSet(results)
    BY <1>3 DEF NoBlockedTogether
  <1>4. CASE MakeMatch /\ m \notin ToSet(results)
    <2>1. PICK k : /\ results' = Append(results, k)
                   /\ k.teams = teams /\ InMatch(k) = Members(teams)
      BY <1>4, TeamsMatch
    <2>2. k = m
      BY <1>2, <1>4, <2>1, AppendAny DEF TypeOK
    <2>3. pc = "options"
      BY <1>4 DEF MakeMatch
    <2>4. ASSUME ruleset.block \in {"", "cannot"}
          PROVE  Peaceful(InMatch(m))
      <3>1. RespectsBlocks(ruleset)
        BY <2>4 DEF RespectsBlocks
      <3>2. Peaceful({pivot} \cup ToSet(found))
        BY <2>3, <3>1 DEF FoundInv, Searching
      <3>3. InMatch(m) \subseteq {pivot} \cup ToSet(found)
        BY <2>1, <2>2, <2>3 DEF TeamInv, Teaming
      <3>4. QED
        BY <3>2, <3>3, PeacefulSets
    <2>5. ASSUME ruleset.block = "other team", NEW i \in DOMAIN m.teams
          PROVE  Peaceful(ToSet(m.teams[i]))
      <3>1. ~Blocked(ToSet(teams[i]))
        BY <2>1, <2>2, <2>3, <2>5 DEF PhaseInv, ValidAllies
      <3>2. QED
        BY <2>1, <2>2, <3>1, PeacefulSets
    <2>6. QED
      BY <2>4, <2>5
  <1>5. CASE SinglePlayer /\ m \notin ToSet(results)
    <2>0. PICK r \in Pool : \E k :
             /\ results' = Append(results, k) /\ k.teams = <<<<r>>>> /\ InMatch(k) = {r}
      BY <1>5, SingleMatch
    <2>1. PICK k :
             /\ results' = Append(results, k) /\ k.teams = <<<<r>>>> /\ InMatch(k) = {r}
      BY <2>0
    <2>2. k = m
      BY <1>2, <1>5, <2>1, AppendAny DEF TypeOK
    <2>3. Peaceful({r})
      BY DEF Peaceful
    <2>4. \A i \in DOMAIN m.teams : ToSet(m.teams[i]) \subseteq InMatch(m)
      BY DEF InMatch, Members
    <2>5. QED
      BY <2>1, <2>2, <2>3, <2>4, PeacefulSets
  <1>6. QED
    BY <1>2, <1>3, <1>4, <1>5, ResultSteps

\* The rules about attributes that are active, and somebody's own, are warranted by
\* the age of the pivot and by theirs.
LEMMA AttributeRules ==
    ASSUME TypeOK, NEW a \in DOMAIN ruleset.rules
    PROVE  /\ \A r \in Requests, t \in Start .. now :
                 LET own == ApplyRuleFlexing(ruleset, Request[r].createdAt, t)
                 IN  a \in DOMAIN own.rules /\ own.rules[a] \in RulesFor(r, a)
           /\ RuleInv => a \in DOMAIN active.rules /\ active.rules[a] \in RulesFor(pivot, a)
  <1>1. /\ {"alliance", "allianceFlex", "rules", "flex"} \subseteq DOMAIN ruleset
        /\ \A i \in DOMAIN ruleset.flex : ruleset.flex[i].duration \in Nat
        /\ now \in Nat /\ Start \in Nat
    BY RuleSetFields, PivotAssumption DEF TypeOK
  <1>2. ASSUME NEW r \in Requests, NEW t \in Start .. now
        PROVE  LET own == ApplyRuleFlexing(ruleset, Request[r].createdAt, t)
               IN  a \in DOMAIN own.rules /\ own.rules[a] \in RulesFor(r, a)
    <2>1. PICK own : own = ApplyRuleFlexing(ruleset, Request[r].createdAt, t)
      OBVIOUS
    <2>2. DOMAIN own.rules = DOMAIN ruleset.rules
      BY <1>1, <2>1 DEF ApplyRuleFlexing
    <2>3. Request[r].createdAt \in Nat
      BY RequestFields, <1>1
    <2>4. \/ own.rules[a] = ruleset.rules[a]
          \/ \E i \in DOMAIN ruleset.flex :
                /\ ruleset.flex[i].attribute = a
                /\ Request[r].createdAt + ruleset.flex[i].duration < t
                /\ own.rules[a] = [criteria |-> ruleset.flex[i].criteria,
                                   reference |-> ruleset.flex[i].reference]
      <3>1. PICK rs, since : rs = ruleset /\ since = Request[r].createdAt
        OBVIOUS
      <3>2. "rules" \in DOMAIN rs /\ a \in DOMAIN rs.rules
        BY <1>1, <3>1
      <3>3. LET rule == ApplyRuleFlexing(rs, since, t).rules[a] IN
            \/ rule = rs.rules[a]
            \/ \E i \in DOMAIN rs.flex :
                  /\ rs.flex[i].attribute = a /\ since + rs.flex[i].duration < t
                  /\ rule = [criteria |-> rs.flex[i].criteria, reference |-> rs.flex[i].reference]
        BY <3>2, FlexedAttribute
      <3>4. QED
        BY <2>1, <3>1, <3>3
    <2>5. CASE own.rules[a] = ruleset.rules[a]
      BY <2>1, <2>2, <2>5 DEF RulesFor
    <2>6. CASE \E i \in DOMAIN ruleset.flex :
                /\ ruleset.flex[i].attribute = a
                /\ Request[r].createdAt + ruleset.flex[i].duration < t
                /\ own.rules[a] = [criteria |-> ruleset.flex[i].criteria,
                                   reference |-> ruleset.flex[i].reference]
      <3>1. PICK i \in DOMAIN ruleset.flex :
                /\ ruleset.flex[i].attribute = a
                /\ Request[r].createdAt + ruleset.flex[i].duration < t
                /\ own.rules[a] = [criteria |-> ruleset.flex[i].criteria,
                                   reference |-> ruleset.flex[i].reference]
        BY <2>6
      <3>2. Request[r].createdAt + ruleset.flex[i].duration < now
        BY <1>1, <2>3, <3>1
      <3>3. ruleset.flex[i] \in {g \in ToSet(ruleset.flex) :
                g.attribute = a /\ Request[r].createdAt + g.duration < now}
        BY <3>1, <3>2 DEF ToSet
      <3>4. own.rules[a] \in RulesFor(r, a)
        BY <3>1, <3>3 DEF RulesFor
      <3>5. QED
        BY <2>1, <2>2, <3>4
    <2>7. QED
      BY <2>4, <2>5, <2>6
  <1>3. ASSUME RuleInv
        PROVE  a \in DOMAIN active.rules /\ active.rules[a] \in RulesFor(pivot, a)
    <2>1. CASE active = ruleset
      BY <2>1 DEF RulesFor
    <2>2. CASE \E t \in Start .. now : active = ActiveRuleSet(ruleset, Request[pivot].createdAt, t)
      <3>1. PICK t \in Start .. now : active = ActiveRuleSet(ruleset, Request[pivot].createdAt, t)
        BY <2>2
      <3>2. active.rules = ApplyRuleFlexing(ruleset, Request[pivot].createdAt, t).rules
        BY <1>1, <3>1, ActiveFields
      <3>3. QED
        BY <1>2, <3>2 DEF TypeOK
    <2>3. QED
      BY <1>3, <2>1, <2>2 DEF RuleInv
  <1>4. QED
    BY <1>2, <1>3

\* Rules that somebody's age warrants stay warranted.
LEMMA RulesForLater ==
    ASSUME TypeOK, [Next]_vars, NEW r \in Requests, NEW a
    PROVE  RulesFor(r, a) \subseteq RulesFor(r, a)'
  <1>1. /\ ruleset' = ruleset /\ now \in Nat /\ now' \in Nat /\ now <= now'
        /\ Request[r].createdAt \in Nat
    BY ClockAndRules, RequestFields, PivotAssumption
  <1>2. \A i \in DOMAIN ruleset.flex : ruleset.flex[i].duration \in Nat
    BY RuleSetFields DEF TypeOK
  <1>3. \A g \in ToSet(ruleset.flex) : g.duration \in Nat
    BY <1>2 DEF ToSet
  <1>4. \A g \in ToSet(ruleset.flex) :
           Request[r].createdAt + g.duration < now => Request[r].createdAt + g.duration < now'
    BY <1>1, <1>3
  <1>5. QED
    BY <1>1, <1>4 DEF RulesFor

\* So whoever was near enough stays near enough.
LEMMA NearLater ==
    ASSUME TypeOK, [Next]_vars, NEW r \in Requests, NEW s \in Requests, NEW a, NEW who \in Requests,
           Near(r, s, a, who)
    PROVE  Near(r, s, a, who)'
  BY RulesForLater DEF Near

\* A candidate is as near as the pivot and the candidate have waited for.
LEMMA CandidateNear ==
    ASSUME TypeOK, RuleInv, NEW r \in Requests, NEW t \in Start .. now,
           MatchByDistance(Request[pivot], active, Request[r], ruleset, t),
           NEW a \in DOMAIN ruleset.rules
    PROVE  /\ Near(r, pivot, a, pivot)
           /\ Near(r, pivot, a, r) \/ \E rule \in RulesFor(pivot, a) : rule.criteria # "distance"
  <1>1. PICK own : own = ApplyRuleFlexing(ruleset, Request[r].createdAt, t)
    OBVIOUS
  <1>2. a \in DOMAIN own.rules /\ own.rules[a] \in RulesFor(r, a)
    BY <1>1, AttributeRules
  <1>3. a \in DOMAIN active.rules /\ active.rules[a] \in RulesFor(pivot, a)
    BY AttributeRules
  <1>4. \A b \in Distances(active) :
           /\ Within(Request[r].values[b], Request[pivot].values[b], active.rules[b].reference)
           /\ b \in Distances(own) =>
                 Within(Request[r].values[b], Request[pivot].values[b], own.rules[b].reference)
    BY <1>1 DEF MatchByDistance
  <1>5. CASE a \in Distances(active)
    <2>1. Within(Request[r].values[a], Request[pivot].values[a], active.rules[a].reference)
      BY <1>4, <1>5
    <2>2. Near(r, pivot, a, pivot)
      BY <1>3, <2>1 DEF Near
    <2>3. own.rules[a].criteria = "distance" =>
             Within(Request[r].values[a], Request[pivot].values[a], own.rules[a].reference)
      BY <1>2, <1>4, <1>5 DEF Distances
    <2>4. Near(r, pivot, a, r)
      BY <1>2, <2>3 DEF Near
    <2>5. QED
      BY <2>2, <2>4
  <1>6. CASE a \notin Distances(active)
    <2>1. active.rules[a].criteria # "distance"
      BY <1>3, <1>6 DEF Distances
    <2>2. Near(r, pivot, a, pivot)
      BY <1>3, <2>1 DEF Near
    <2>3. QED
      BY <1>3, <2>1, <2>2
  <1>7. QED
    BY <1>5, <1>6

\* Nobody is matched beyond the distance the pivot and they have waited for.
LEMMA DistanceKeptInductive ==
    ASSUME TypeOK, PhaseInv, RuleInv, FoundInv, TeamInv, TeamsApart, TeamsInRange, MatchesApart,
           DistanceKept, [Next]_vars
    PROVE  DistanceKept'
  <1>1. ruleset' = ruleset
    BY ClockAndRules
  <1>2. SUFFICES ASSUME ~IsSinglePlayer(ruleset.alliance),
                        NEW m \in ToSet(results'), NEW r \in Requests, r \in InMatch(m) \ {m.pivot},
                        NEW a \in DOMAIN ruleset.rules
                 PROVE  /\ Near(r, m.pivot, a, m.pivot)'
                        /\ Near(r, m.pivot, a, r)' \/
                              \E rule \in RulesFor(m.pivot, a)' : rule.criteria # "distance"
    BY <1>1 DEF DistanceKept, Partners
  <1>3. CASE m \in ToSet(results)
    <2>1. <<m, r>> \in Partners
      BY <1>2, <1>3 DEF Partners
    <2>2. PICK p : p = m.pivot
      OBVIOUS
    <2>3. /\ Near(r, p, a, p)
          /\ Near(r, p, a, r) \/ \E rule \in RulesFor(p, a) : rule.criteria # "distance"
      BY <2>1, <2>2 DEF DistanceKept
    <2>4. p \in Requests
      BY <1>3, <2>2 DEF TypeOK
    <2>5. Near(r, p, a, p)'
      BY <2>3, <2>4, NearLater
    <2>6. Near(r, p, a, r) => Near(r, p, a, r)'
      BY <2>4, NearLater
    <2>7. RulesFor(p, a) \subseteq RulesFor(p, a)'
      BY <2>4, RulesForLater
    <2>8. QED
      BY <2>2, <2>3, <2>5, <2>6, <2>7
  <1>4. CASE MakeMatch /\ m \notin ToSet(results)
    <2>1. PICK k : /\ results' = Append(results, k) /\ k.pivot = pivot
                   /\ InMatch(k) = Members(teams)
                   /\ UNCHANGED <<ruleset, now, pivot, active>>
      BY <1>4, TeamsMatch
    <2>2. k = m
      BY <1>2, <1>4, <2>1, AppendAny DEF TypeOK
    <2>3. pc = "options"
      BY <1>4 DEF MakeMatch
    <2>4. InMatch(m) \subseteq {pivot} \cup ToSet(found)
      BY <2>1, <2>2, <2>3 DEF TeamInv, Teaming
    <2>5. r \in ToSet(found)
      BY <1>2, <2>1, <2>2, <2>4
    <2>6. PICK t \in Start .. now : MatchByDistance(Request[pivot], active, Request[r], ruleset, t)
      BY <2>3, <2>5 DEF FoundInv, Searching, Compared
    <2>7. /\ Near(r, pivot, a, pivot)
          /\ Near(r, pivot, a, r) \/ \E rule \in RulesFor(pivot, a) : rule.criteria # "distance"
      BY <2>6, CandidateNear
    <2>8. PICK p : p = m.pivot /\ p = pivot
      BY <2>1, <2>2
    <2>9. p \in Requests
      BY <2>8 DEF TypeOK
    <2>10. Near(r, p, a, p)'
      BY <2>7, <2>8, <2>9, NearLater
    <2>11. Near(r, p, a, r) => Near(r, p, a, r)'
      BY <2>9, NearLater
    <2>12. RulesFor(p, a) \subseteq RulesFor(p, a)'
      BY <2>9, RulesForLater
    <2>13. QED
      BY <2>7, <2>8, <2>10, <2>11, <2>12
  <1>5. CASE SinglePlayer
    BY <1>2, <1>5, SingleMatch
  <1>6. QED
    BY <1>2, <1>3, <1>4, <1>5, ResultSteps

\* A region within reach stays within reach.
LEMMA PlayedLater ==
    ASSUME TypeOK, [Next]_vars, NEW r \in Requests, NEW p \in Requests, NEW n, Played(r, p, n)
    PROVE  Played(r, p, n)'
  <1>1. /\ ruleset' = ruleset /\ ruleset \in RuleSets /\ now \in Nat /\ now' \in Nat /\ now <= now'
        /\ Request[r].createdAt \in Nat /\ Request[r].createdAt <= now
        /\ Request[p].createdAt \in Nat
    BY ClockAndRules, RequestFields, PivotAssumption DEF TypeOK
  <1>2. PICK i \in DOMAIN Request[r].latency :
            /\ Request[r].latency[i].region = n
            /\ \/ SkipFilterCandidateRegion(Request[p], ruleset, now)
               \/ /\ Request[r].latency[i].ms <= LatencyLimit(Request[r], ruleset, now)
                  /\ WithinMax(Request[r].latency[i].ms, ruleset)
    BY DEF Played
  <1>3. /\ ruleset.rate \in Nat \ {0} /\ {ruleset.initial, ruleset.range, ruleset.max} \subseteq Nat
        /\ ruleset.skipAfter \in Int
    BY <1>1, RuleSetFields DEF IsRuleSet
  <1>4. CASE SkipFilterCandidateRegion(Request[p], ruleset, now)
    <2>1. SkipFilterCandidateRegion(Request[p], ruleset, now')
      BY <1>1, <1>3, <1>4 DEF SkipFilterCandidateRegion
    <2>2. QED
      BY <1>1, <1>2, <2>1 DEF Played
  <1>5. CASE /\ Request[r].latency[i].ms <= LatencyLimit(Request[r], ruleset, now)
             /\ WithinMax(Request[r].latency[i].ms, ruleset)
    <2>1. Request[r].latency[i].ms \in Nat /\ Request[r].latency[1].ms \in Nat
      <3>1. Len(Request[r].latency) \in Nat /\ DOMAIN Request[r].latency = 1 .. Len(Request[r].latency)
        BY RequestRegions, LenProperties
      <3>2. 1 \in DOMAIN Request[r].latency
        BY <3>1
      <3>3. QED
        BY <3>2, RequestRegions
    <2>2. /\ LatencyLimit(Request[r], ruleset, now) \in Nat
          /\ LatencyLimit(Request[r], ruleset, now') \in Nat
          /\ LatencyLimit(Request[r], ruleset, now) <= LatencyLimit(Request[r], ruleset, now')
      BY <1>1, <1>3, <2>1, LimitGrows
    <2>3. Request[r].latency[i].ms <= LatencyLimit(Request[r], ruleset, now')
      BY <1>5, <2>1, <2>2
    <2>4. QED
      BY <1>1, <1>2, <1>5, <2>3 DEF Played
  <1>6. QED
    BY <1>2, <1>4, <1>5

\* A candidate was compared for the region that is tried, and whoever can play in
\* some region was asked about it.
LEMMA CandidatePlays ==
    ASSUME TypeOK, RegionInv, pc \in Searching \ {"region"}, NEW r \in Requests,
           NEW t \in Start .. now, Compared(r, t), Asked(pivot), Asked(r)
    PROVE  Played(r, pivot, RegionAt(pivot, region))
  <1>1. /\ ruleset \in RuleSets /\ pivot \in Requests /\ region \in Nat /\ now \in Nat /\ Start \in Nat
        /\ t \in Nat /\ t <= now
    BY PivotAssumption DEF TypeOK
  <1>2. /\ ruleset.rate \in Nat \ {0} /\ {ruleset.initial, ruleset.range, ruleset.max} \subseteq Nat
        /\ ruleset.skipAfter \in Int
    BY <1>1, RuleSetFields DEF IsRuleSet
  <1>3. PICK u \in Start .. now : regions = FilterRegionByStep(Request[pivot], ruleset, u)
    BY DEF RegionInv, Searching
  <1>4. region < RegionsToTry
    BY DEF RegionInv
  <1>5. ASSUME NEW q \in Requests, Asked(q), NEW v \in Start .. now
        PROVE  \E k \in 0 .. Len(Request[q].latency) :
                  /\ FilterRegionByStep(Request[q], ruleset, v) = [i \in 1 .. k |-> Request[q].latency[i]]
                  /\ k > 0
    <2>1. PICK w, S : w = Request[q] /\ S = [region : DOMAIN Ticket[q].latencies, ms : Nat]
      OBVIOUS
    <2>2. /\ w.latency \in Seq(S) /\ \A i \in DOMAIN w.latency : w.latency[i].ms \in Nat
          /\ \A i, j \in DOMAIN w.latency : i < j => w.latency[i].ms < w.latency[j].ms
      BY <2>1, RequestRegions
    <2>3. w.createdAt \in Nat /\ v \in Nat /\ w.createdAt <= v
      BY <1>1, <2>1, RequestFields
    <2>4. w.latency # <<>> /\ WithinMax(w.latency[1].ms, ruleset)
      BY <1>5, <2>1 DEF Asked
    <2>5. \E k \in 0 .. Len(w.latency) :
              /\ FilterRegionByStep(w, ruleset, v) = [i \in 1 .. k |-> w.latency[i]]
              /\ WithinMax(w.latency[1].ms, ruleset) => k > 0
      BY <1>2, <2>2, <2>3, <2>4, NearestInReach
    <2>6. QED
      BY <2>1, <2>4, <2>5
  <1>6. PICK k \in 0 .. Len(Request[pivot].latency) :
            regions = [i \in 1 .. k |-> Request[pivot].latency[i]] /\ k > 0
    BY <1>1, <1>3, <1>5
  <1>7. /\ Len(Request[pivot].latency) \in Nat
        /\ DOMAIN Request[pivot].latency = 1 .. Len(Request[pivot].latency)
    BY <1>1, RequestRegions, LenProperties
  <1>8. Len(regions) = k /\ regions # <<>> /\ \A i \in 1 .. k : regions[i] = Request[pivot].latency[i]
    <2>1. DOMAIN regions = 1 .. k /\ k \in Nat
      BY <1>6, <1>7
    <2>2. Len(regions) = k
      BY <1>6, <2>1
    <2>3. QED
      BY <1>6, <2>2
  <1>9. region < k /\ region + 1 \in 1 .. k
    BY <1>1, <1>4, <1>8 DEF RegionsToTry
  <1>10. RegionAt(pivot, region) = Request[pivot].latency[region + 1].region
    <2>1. PICK n \in Nat : n = Len(Request[pivot].latency)
      BY <1>7
    <2>2. k \in Nat /\ k <= n
      BY <1>6, <2>1
    <2>3. region < n
      BY <1>1, <1>9, <2>1, <2>2
    <2>4. QED
      BY <2>1, <2>3 DEF RegionAt
  <1>11. PivotRegion = {RegionAt(pivot, region)}
    BY <1>8, <1>9, <1>10 DEF PivotRegion
  <1>12. PICK its : its = IF SkipFilterCandidateRegion(Request[pivot], ruleset, t)
                          THEN Request[r].latency ELSE FilterRegionByStep(Request[r], ruleset, t)
    OBVIOUS
  <1>13. PivotRegion = {} \/ its = <<>> \/ PivotRegion \subseteq RegionNames(its)
    BY <1>12 DEF Compared, MatchByRegionLatency
  <1>14. CASE SkipFilterCandidateRegion(Request[pivot], ruleset, t)
    <2>1. its = Request[r].latency /\ its # <<>>
      BY <1>12, <1>14 DEF Asked
    <2>2. RegionAt(pivot, region) \in RegionNames(its)
      BY <1>11, <1>13, <2>1
    <2>3. PICK i \in DOMAIN Request[r].latency : Request[r].latency[i].region = RegionAt(pivot, region)
      BY <2>1, <2>2 DEF RegionNames
    <2>4. SkipFilterCandidateRegion(Request[pivot], ruleset, now)
      <3>1. PICK c \in Nat, a \in Int : c = Request[pivot].createdAt /\ a = ruleset.skipAfter
        BY <1>1, <1>2, RequestFields
      <3>2. a > 0 /\ a < t - c
        BY <1>14, <3>1 DEF SkipFilterCandidateRegion
      <3>3. a < now - c
        BY <1>1, <3>2
      <3>4. QED
        BY <3>1, <3>2, <3>3 DEF SkipFilterCandidateRegion
    <2>5. QED
      BY <2>3, <2>4 DEF Played
  <1>15. CASE ~SkipFilterCandidateRegion(Request[pivot], ruleset, t)
    <2>1. its = FilterRegionByStep(Request[r], ruleset, t)
      BY <1>12, <1>15
    <2>2. its # <<>>
      <3>1. PICK n \in 0 .. Len(Request[r].latency) :
                its = [i \in 1 .. n |-> Request[r].latency[i]] /\ n > 0
        BY <1>5, <2>1
      <3>2. 1 \in DOMAIN its
        BY <3>1
      <3>3. QED
        BY <3>2
    <2>3. RegionAt(pivot, region) \in RegionNames(its)
      BY <1>11, <1>13, <2>2
    <2>4. PICK i \in DOMAIN Request[r].latency :
              /\ Request[r].latency[i].region = RegionAt(pivot, region)
              /\ InReach(Request[r].latency[i].ms, Request[r], ruleset, t)
      <3>1. PICK w, S : w = Request[r] /\ S = [region : DOMAIN Ticket[r].latencies, ms : Nat]
        OBVIOUS
      <3>2. w.latency \in Seq(S)
        BY <3>1, RequestRegions
      <3>3. RegionNames(FilterRegionByStep(w, ruleset, t)) =
                {w.latency[i].region : i \in {j \in DOMAIN w.latency :
                                                 InReach(w.latency[j].ms, w, ruleset, t)}}
        BY <3>2, RegionsInReach
      <3>4. QED
        BY <2>1, <2>3, <3>1, <3>3
    <2>5. /\ Request[r].latency[i].ms \in Nat /\ Request[r].latency[1].ms \in Nat
          /\ Request[r].createdAt \in Nat /\ Request[r].createdAt <= t
      <3>1. PICK S, q : S = [region : DOMAIN Ticket[r].latencies, ms : Nat] /\ q = Request[r].latency
        OBVIOUS
      <3>2. q \in Seq(S) /\ q # <<>>
        BY <3>1, RequestRegions DEF Asked
      <3>3. 1 \in DOMAIN q
        BY <3>2
      <3>4. Request[r].createdAt \in Nat /\ Request[r].createdAt <= t
        BY <1>1, RequestFields
      <3>5. QED
        BY <3>1, <3>3, <3>4, RequestRegions
    <2>6. /\ LatencyLimit(Request[r], ruleset, t) \in Nat
          /\ LatencyLimit(Request[r], ruleset, now) \in Nat
          /\ LatencyLimit(Request[r], ruleset, t) <= LatencyLimit(Request[r], ruleset, now)
      BY <1>1, <1>2, <2>5, LimitGrows
    <2>7. /\ Request[r].latency[i].ms <= LatencyLimit(Request[r], ruleset, now)
          /\ WithinMax(Request[r].latency[i].ms, ruleset)
      <3>1. PICK x \in Nat, a \in Nat, b \in Nat :
               /\ x = Request[r].latency[i].ms /\ a = LatencyLimit(Request[r], ruleset, t)
               /\ b = LatencyLimit(Request[r], ruleset, now) /\ a <= b
        BY <2>5, <2>6
      <3>2. x <= a /\ WithinMax(x, ruleset)
        BY <2>4, <3>1 DEF InReach
      <3>3. x <= b
        BY <3>1, <3>2
      <3>4. QED
        BY <3>1, <3>2, <3>3
    <2>8. QED
      BY <2>4, <2>7 DEF Played
  <1>16. QED
    BY <1>14, <1>15

\* Everybody in a match can play where it is made.
LEMMA RegionKeptInductive ==
    ASSUME TypeOK, PhaseInv, RuleInv, RegionInv, RegionInv', FoundInv, TeamInv, TeamsApart,
           TeamsInRange, RegionKept, [Next]_vars
    PROVE  RegionKept'
  <1>1. ruleset' = ruleset /\ region' <= RegionsToTry'
    BY ClockAndRules DEF RegionInv
  <1>2. SUFFICES ASSUME ~IsSinglePlayer(ruleset.alliance),
                        NEW m \in ToSet(results'), NEW r \in Requests, r \in InMatch(m) \ {m.pivot},
                        Asked(m.pivot)', Asked(r)'
                 PROVE  Played(r, m.pivot, m.region)'
    BY <1>1 DEF RegionKept, Partners
  <1>3. PICK p, n : p = m.pivot /\ n = m.region
    OBVIOUS
  <1>4. Asked(p) /\ Asked(r)
    BY <1>1, <1>2, <1>3 DEF Asked
  <1>5. CASE m \in ToSet(results)
    <2>1. <<m, r>> \in Partners
      BY <1>2, <1>5 DEF Partners
    <2>2. Played(r, p, n) /\ p \in Requests
      BY <1>3, <1>4, <1>5, <2>1 DEF RegionKept, TypeOK
    <2>3. QED
      BY <1>3, <2>2, PlayedLater
  <1>6. CASE MakeMatch /\ m \notin ToSet(results)
    <2>1. PICK k : /\ results' = Append(results, k) /\ k.pivot = pivot
                   /\ k.region = RegionAt(pivot, region) /\ InMatch(k) = Members(teams)
      BY <1>6, TeamsMatch
    <2>2. k = m
      BY <1>2, <1>6, <2>1, AppendAny DEF TypeOK
    <2>3. pc = "options" /\ pc \in Searching \ {"region"}
      BY <1>6 DEF MakeMatch, Searching
    <2>4. InMatch(m) \subseteq {pivot} \cup ToSet(found)
      BY <2>1, <2>2, <2>3 DEF TeamInv, Teaming
    <2>5. r \in ToSet(found)
      BY <1>2, <2>1, <2>2, <2>4
    <2>6. PICK t \in Start .. now : Compared(r, t)
      BY <2>3, <2>5 DEF FoundInv
    <2>7. p = pivot /\ n = RegionAt(pivot, region) /\ p \in Requests
      BY <1>3, <2>1, <2>2 DEF TypeOK
    <2>8. Played(r, p, n)
      BY <1>4, <2>3, <2>6, <2>7, CandidatePlays
    <2>9. QED
      BY <1>3, <2>7, <2>8, PlayedLater
  <1>7. CASE SinglePlayer
    BY <1>2, <1>7, SingleMatch
  <1>8. QED
    BY <1>2, <1>5, <1>6, <1>7, ResultSteps

\* The parties of the teams are those of the match, and the options are those of
\* the call, whatever the rules were flexed to.
LEMMA PartiesAndOptions ==
    ASSUME TypeOK, RuleInv
    PROVE  /\ active.options = ruleset.options
           /\ LET parties == FlattenSeq(teams) IN
              /\ parties \in Seq(Requests) /\ ToSet(parties) = Members(teams)
              /\ DOMAIN PartyAttributes = DOMAIN parties
              /\ \A i \in DOMAIN parties : PartyAttributes[i] = Request[parties[i]].attributes
  <1>1. active.options = ruleset.options
    <2>1. /\ {"alliance", "allianceFlex", "rules", "flex"} \subseteq DOMAIN ruleset
          /\ "options" \in DOMAIN ruleset \ {"alliance", "rules"}
      BY RuleSetFields DEF TypeOK, IsRuleSet
    <2>2. QED
      BY <2>1, ActiveFields DEF RuleInv
  <1>2. PICK parties : parties = FlattenSeq(teams)
    OBVIOUS
  <1>3. parties \in Seq(Requests) /\ ToSet(parties) = Members(teams)
    BY <1>2, FlattenProperties DEF TypeOK, Members
  <1>4. PartyAttributes = [i \in DOMAIN parties |-> Request[parties[i]].attributes]
    BY <1>2 DEF PartyAttributes
  <1>5. QED
    BY <1>1, <1>2, <1>3, <1>4

\* Values that agree between the parties agree between the requests.
LEMMA OptionsFit ==
    ASSUME TypeOK, RuleInv, AllOptionsFit(PartyAttributes, active),
           UniqueOptionsFit(PartyAttributes, active),
           NEW o \in DOMAIN ruleset.options, NEW r \in Members(teams), NEW s \in Members(teams)
    PROVE  /\ ruleset.options[o] = "unique" /\ r # s => Carried(r, o) \cap Carried(s, o) = {}
           /\ ruleset.options[o] = "all" => Carried(r, o) \subseteq Carried(s, o)
  <1>1. PICK parties : parties = FlattenSeq(teams)
    OBVIOUS
  <1>2. PICK A : A = PartyAttributes
    OBVIOUS
  <1>3. /\ parties \in Seq(Requests) /\ ToSet(parties) = Members(teams)
        /\ DOMAIN A = DOMAIN parties
        /\ \A i \in DOMAIN A : A[i] = Request[parties[i]].attributes
        /\ active.options = ruleset.options
    BY <1>1, <1>2, PartiesAndOptions
  <1>4. PICK i \in DOMAIN A, j \in DOMAIN A : parties[i] = r /\ parties[j] = s
    BY <1>3 DEF ToSet
  <1>5. /\ Values(A[i], o) = Carried(r, o) /\ Values(A[j], o) = Carried(s, o)
    BY <1>3, <1>4 DEF Carried
  <1>6. ASSUME NEW v \in Carried(r, o), NEW type, ruleset.options[o] = type
        PROVE  o \in Present(A, active, type) /\ v \in ValuesOf(A, o) /\ i \in Carriers(A, o, v)
    <2>1. o \in DOMAIN A[i]
      BY <1>5, <1>6 DEF Values
    <2>2. QED
      BY <1>3, <1>5, <1>6, <2>1 DEF Present, ValuesOf, Carriers
  <1>7. ASSUME ruleset.options[o] = "all" PROVE Carried(r, o) \subseteq Carried(s, o)
    <2>1. ASSUME NEW v \in Carried(r, o) PROVE v \in Carried(s, o)
      <3>1. Carriers(A, o, v) = DOMAIN A
        BY <1>2, <1>6, <1>7, <2>1 DEF AllOptionsFit
      <3>2. j \in Carriers(A, o, v)
        BY <3>1
      <3>3. QED
        BY <1>5, <3>2 DEF Carriers
    <2>2. QED
      BY <2>1
  <1>8. ASSUME ruleset.options[o] = "unique", r # s, NEW v \in Carried(r, o), v \in Carried(s, o)
        PROVE  FALSE
    <2>1. Cardinality(Carriers(A, o, v)) = 1
      BY <1>2, <1>6, <1>8 DEF UniqueOptionsFit
    <2>2. i \in Carriers(A, o, v) /\ j \in Carriers(A, o, v) /\ i # j
      BY <1>4, <1>5, <1>8 DEF Carriers
    <2>3. IsFiniteSet(Carriers(A, o, v))
      <3>1. IsFiniteSet(DOMAIN A)
        BY <1>3, LenProperties, FS_Interval
      <3>2. Carriers(A, o, v) \subseteq DOMAIN A
        BY DEF Carriers
      <3>3. QED
        BY <3>1, <3>2, FS_Subset
    <2>4. PICK x : Carriers(A, o, v) = {x}
      BY <2>1, <2>3, FS_Singleton
    <2>5. QED
      BY <2>2, <2>4
  <1>9. QED
    BY <1>7, <1>8

\* The options of every match agree.
LEMMA OptionsAgreeInductive ==
    ASSUME TypeOK, PhaseInv, RuleInv, FoundInv, TeamInv, TeamsApart, TeamsInRange, OptionsAgree,
           [Next]_vars
    PROVE  OptionsAgree'
  <1>1. ruleset' = ruleset
    BY ClockAndRules
  <1>2. SUFFICES ASSUME NEW m \in ToSet(results'), ~IsSinglePlayer(ruleset.alliance)
                 PROVE  /\ AnyAgrees(m.pivot, InMatch(m))
                        /\ \A o \in DOMAIN ruleset.options : \A r, s \in InMatch(m) :
                              /\ ruleset.options[o] = "unique" /\ r # s =>
                                    Carried(r, o) \cap Carried(s, o) = {}
                              /\ ruleset.options[o] = "all" => Carried(r, o) = Carried(s, o)
    BY <1>1 DEF OptionsAgree, AnyAgrees
  <1>3. CASE m \in ToSet(results)
    BY <1>2, <1>3 DEF OptionsAgree
  <1>4. CASE MakeMatch /\ m \notin ToSet(results)
    <2>1. PICK k : /\ results' = Append(results, k) /\ k.pivot = pivot
                   /\ InMatch(k) = Members(teams)
      BY <1>4, TeamsMatch
    <2>2. k = m
      BY <1>2, <1>4, <2>1, AppendAny DEF TypeOK
    <2>3. pc = "options" /\ OptionsMayAgree(PartyAttributes, active)
      BY <1>4 DEF MakeMatch
    <2>4. Members(teams) \subseteq {pivot} \cup ToSet(found) /\ AnyAgrees(pivot, ToSet(found))
      BY <2>3 DEF TeamInv, FoundInv, Teaming, Searching
    <2>5. AnyAgrees(pivot, Members(teams))
      BY <2>4, AnyAgreesSubset
    <2>6. AllOptionsFit(PartyAttributes, active) /\ UniqueOptionsFit(PartyAttributes, active)
      BY <2>3 DEF OptionsMayAgree
    <2>7. \A o \in DOMAIN ruleset.options : \A r, s \in Members(teams) :
              /\ ruleset.options[o] = "unique" /\ r # s => Carried(r, o) \cap Carried(s, o) = {}
              /\ ruleset.options[o] = "all" => Carried(r, o) \subseteq Carried(s, o)
      BY <2>6, OptionsFit
    <2>8. \A o \in DOMAIN ruleset.options : \A r, s \in Members(teams) :
              ruleset.options[o] = "all" => Carried(r, o) = Carried(s, o)
      BY <2>7
    <2>9. QED
      BY <2>1, <2>2, <2>5, <2>7, <2>8
  <1>5. CASE SinglePlayer
    BY <1>2, <1>5, SingleMatch
  <1>6. QED
    BY <1>2, <1>3, <1>4, <1>5, ResultSteps

-----------------------------------------------------------------------------
(* What is sent of the matches.                                            *)

\* A team found for a pivot has players, and a single player is in one.
LEMMA NoTeamEmptyInductive ==
    ASSUME TypeOK, PhaseInv, RuleInv, TeamsApart, TeamsInRange, NoTeamEmpty, [Next]_vars
    PROVE  NoTeamEmpty'
  <1>1. SUFFICES ASSUME NEW m \in ToSet(results') PROVE <<>> \notin ToSet(m.teams)
    BY DEF NoTeamEmpty
  <1>2. CASE m \in ToSet(results)
    BY <1>2 DEF NoTeamEmpty
  <1>3. CASE MakeMatch /\ m \notin ToSet(results)
    <2>0. PICK k : results' = Append(results, k) /\ k.teams = teams
      BY <1>3, TeamsMatch
    <2>1. m.teams = teams
      BY <1>1, <1>3, <2>0, AppendAny DEF TypeOK
    <2>2. \A i \in DOMAIN teams : Size(teams[i]) \in Rule.minPlayers .. Rule.maxPlayers
      BY <1>3 DEF TeamsInRange, Teaming, MakeMatch
    <2>3. Rule.minPlayers \in Nat \ {0}
      BY AllowedBound
    <2>4. Size(<<>>) = 0
      BY ToSetEmpty, PlayersEmpty DEF Size
    <2>5. QED
      BY <2>1, <2>2, <2>3, <2>4 DEF ToSet
  <1>4. CASE SinglePlayer /\ m \notin ToSet(results)
    <2>1. PICK r \in Pool : \E k : results' = Append(results, k) /\ k.teams = <<<<r>>>>
      BY <1>4, SingleMatch
    <2>2. m.teams = <<<<r>>>>
      BY <1>1, <1>4, <2>1, AppendAny DEF TypeOK
    <2>3. ToSet(m.teams) = {<<r>>} /\ <<r>> # <<>>
      BY <2>2 DEF ToSet
    <2>4. QED
      BY <2>3
  <1>5. QED
    BY <1>1, <1>2, <1>3, <1>4, ResultSteps

\* The ticket behind a request is the one the client sent, but for the sessions.
LEMMA SourceFields ==
    ASSUME NEW r \in Requests
    PROVE  /\ Source[r].id = r /\ OverTheWire(Source[r]).id = r
           /\ Source[r].createdAt = Request[r].createdAt
           /\ Source[r].players = Request[r].players
           /\ Source[r].party = Ticket[r].party
  <1>1. IsTicket(Ticket[r]) /\ Ticket[r].id = r
    BY PivotAssumption
  <1>2. PICK t : t = Ticket[r]
    OBVIOUS
  <1>3. PICK w : w = OverTheWire(t)
    OBVIOUS
  <1>4. /\ w.id = t.id /\ w.createdAt = t.createdAt /\ w.players = t.players /\ w.party = t.party
        /\ OverTheWire(w).id = w.id
    BY <1>1, <1>2, <1>3 DEF OverTheWire, IsTicket
  <1>5. Source[r] = w
    BY <1>2, <1>3 DEF Source
  <1>6. Request[r].players = t.players /\ Request[r].createdAt = t.createdAt
    <2>1. Request[r] = ToMatchRequest(OverTheWire(t), Attributes)
      BY <1>2 DEF Request, Source
    <2>2. QED
      BY <1>1, <1>2, <2>1, TicketFields
  <1>7. QED
    BY <1>1, <1>2, <1>4, <1>5, <1>6

\* The tickets of the parties of some requests are those of the requests, with as
\* many players.
LEMMA SourceTickets ==
    ASSUME NEW S, S \subseteq Requests
    PROVE  /\ TicketsOf({CreateMatchingParty(Request[r]) : r \in S}, {Source[r] : r \in Requests})
                  = {Source[r] : r \in S}
           /\ Headcount({Source[r] : r \in S}) = Players(S)
  <1>1. \A r \in Requests : CreateMatchingParty(Request[r]).id = r
    BY RequestFields DEF CreateMatchingParty
  <1>2. TicketsOf({CreateMatchingParty(Request[r]) : r \in S}, {Source[r] : r \in Requests})
            = {Source[r] : r \in S}
    BY <1>1, SourceFields DEF TicketsOf
  <1>3. DEFINE A == UNION {{p} \X DOMAIN p.players : p \in Of(S)}
               B == UNION {{p} \X DOMAIN p.players : p \in {Source[r] : r \in S}}
               f == [x \in A |-> <<Source[x[1].id], x[2]>>]
  <1>4. \A x : x \in A <=> \E r \in S : \E u \in DOMAIN Request[r].players : x = <<Request[r], u>>
    BY DEF Of
  <1>5. \A x : x \in B <=> \E r \in S : \E u \in DOMAIN Request[r].players : x = <<Source[r], u>>
    BY SourceFields
  <1>6. IsFiniteSet(A)
    BY OfFinite, HeadcountFinite
  <1>7. f \in Bijection(A, B)
    <2>1. \A r \in S : Request[r].id = r /\ Source[r].id = r
      BY RequestFields, SourceFields
    <2>2. \A r \in S : \A u \in DOMAIN Request[r].players :
              <<Request[r], u>> \in A /\ f[<<Request[r], u>>] = <<Source[r], u>>
      BY <1>4, <2>1
    <2>3. DOMAIN f = A /\ f = [x \in A |-> f[x]]
      OBVIOUS
    <2>4. HIDE DEF f, A, B
    <2>5. ASSUME NEW x \in A PROVE f[x] \in B
      <3>1. PICK r \in S : \E u \in DOMAIN Request[r].players : x = <<Request[r], u>>
        BY <1>4
      <3>2. PICK u \in DOMAIN Request[r].players : x = <<Request[r], u>>
        BY <3>1
      <3>3. QED
        BY <1>5, <2>2, <3>2
    <2>6. ASSUME NEW y \in B PROVE \E x \in A : f[x] = y
      <3>1. PICK r \in S : \E u \in DOMAIN Request[r].players : y = <<Source[r], u>>
        BY <1>5
      <3>2. PICK u \in DOMAIN Request[r].players : y = <<Source[r], u>>
        BY <3>1
      <3>3. <<Request[r], u>> \in A /\ f[<<Request[r], u>>] = y
        BY <2>2, <3>2
      <3>4. QED
        BY <3>3
    <2>7. \A x, y \in A : f[x] = f[y] => x = y
      <3>1. SUFFICES ASSUME NEW x \in A, NEW y \in A, f[x] = f[y] PROVE x = y
        OBVIOUS
      <3>2. PICK r \in S : \E u \in DOMAIN Request[r].players : x = <<Request[r], u>>
        BY <1>4
      <3>3. PICK u \in DOMAIN Request[r].players : x = <<Request[r], u>>
        BY <3>2
      <3>4. PICK s \in S : \E v \in DOMAIN Request[s].players : y = <<Request[s], v>>
        BY <1>4
      <3>5. PICK v \in DOMAIN Request[s].players : y = <<Request[s], v>>
        BY <3>4
      <3>6. <<Source[r], u>> = <<Source[s], v>>
        BY <2>2, <3>1, <3>3, <3>5
      <3>7. r = s /\ u = v
        BY <2>1, <3>6
      <3>8. QED
        BY <3>3, <3>5, <3>7
    <2>8. f \in [A -> B]
      BY <2>3, <2>5
    <2>9. QED
      BY <2>6, <2>7, <2>8 DEF Bijection, Injection, Surjection, IsInjective
  <1>8. Cardinality(A) = Cardinality(B)
    <2>1. HIDE DEF f, A, B
    <2>2. ExistsBijection(A, B)
      BY <1>7 DEF ExistsBijection
    <2>3. QED
      BY <1>6, <2>2, FS_Bijection
  <1>9. Headcount({Source[r] : r \in S}) = Players(S)
    BY <1>8 DEF Headcount, Players
  <1>10. QED
    BY <1>2, <1>9

\* What a match is sent as: its tickets, and a party for each of them in its team.
LEMMA ConvertedMatch ==
    ASSUME NEW m, m.teams \in Seq(Seq(Requests)), <<>> \notin ToSet(m.teams)
    PROVE  LET e == Converted(m)
               tickets == {Source[r] : r \in InMatch(m)} IN
           /\ e.tickets = {OverTheWire(t) : t \in tickets}
           /\ Len(e.teams) = Len(m.teams)
           /\ \A j \in DOMAIN m.teams :
                 e.teams[j].parties = {[id |-> Ticket[r].party, users |-> DOMAIN Ticket[r].players] :
                                       r \in ToSet(m.teams[j])}
           /\ e.backfill <=> ruleset.autoBackfill /\ ~IsMatchFull(tickets, ruleset, now)
  <1>1. PICK n \in Nat : n = Len(m.teams) /\ DOMAIN m.teams = 1 .. n
    BY LenProperties
  <1>2. \A j \in 1 .. n : m.teams[j] \in Seq(Requests) /\ m.teams[j] # <<>>
    BY <1>1 DEF ToSet
  <1>3. \A j \in 1 .. n : ToSet(m.teams[j]) \subseteq Requests /\ ToSet(m.teams[j]) # {}
    <2>1. SUFFICES ASSUME NEW j \in 1 .. n
                   PROVE  ToSet(m.teams[j]) \subseteq Requests /\ ToSet(m.teams[j]) # {}
      OBVIOUS
    <2>2. PICK q \in Seq(Requests) : q = m.teams[j] /\ q # <<>>
      BY <1>2
    <2>3. PICK k \in Nat \ {0} : DOMAIN q = 1 .. k
      BY <2>2, EmptySeq, LenProperties
    <2>4. q[1] \in ToSet(q)
      BY <2>3 DEF ToSet
    <2>5. QED
      BY <2>2, <2>4, ToSetType
  <1>4. InMatch(m) \subseteq Requests
    BY <1>1, <1>3 DEF InMatch, Members
  <1>5. DEFINE Parties(S) == {CreateMatchingParty(Request[r]) : r \in S}
               src == {Source[r] : r \in Requests}
               al == [i \in DOMAIN m.teams |-> [id |-> "", parties |-> Parties(ToSet(m.teams[i]))]]
               res == [alliances |-> al, region |-> m.region, attributes |-> m.attributes,
                       serverName |-> m.serverName, clientVersion |-> m.clientVersion]
  <1>6. Converted(m) = MatchOverTheWire(FromMatchResult(res, src, ruleset, now))
    BY Zenon DEF Converted
  <1>18. DOMAIN al = 1 .. n /\ al = [i \in 1 .. n |-> al[i]]
         /\ \A i \in 1 .. n : al[i].parties = Parties(ToSet(m.teams[i]))
    <2>1. HIDE DEF Parties
    <2>2. DOMAIN al = DOMAIN m.teams /\ al = [i \in DOMAIN al |-> al[i]]
          /\ \A i \in DOMAIN m.teams : al[i].parties = Parties(ToSet(m.teams[i]))
      BY Zenon
    <2>3. HIDE DEF al
    <2>4. QED
      BY <1>1, <2>2
  <1>19. \A t : t \in src <=> \E r \in Requests : t = Source[r]
    OBVIOUS
  <1>20. \A S, p : p \in Parties(S) <=> \E r \in S : p = CreateMatchingParty(Request[r])
    OBVIOUS
  <1>21. \A S : S \subseteq Requests => TicketsOf(Parties(S), src) = {Source[r] : r \in S}
    BY SourceTickets
  <1>7. res.alliances = al
    OBVIOUS
  <1> HIDE DEF Parties, src, al, res
  <1>8. PICK f : f = FromMatchResult(res, src, ruleset, now)
    OBVIOUS
  <1>9. PICK ps : ps = UNION {al[i].parties : i \in DOMAIN al}
    OBVIOUS
  <1>10. /\ f.tickets = TicketsOf(ps, src) /\ f.teams = ToTeams(src, al)
         /\ f.backfill <=> ruleset.autoBackfill /\ ~IsMatchFull(TicketsOf(ps, src), ruleset, now)
         /\ {"tickets", "teams", "backfill"} \subseteq DOMAIN f
    BY <1>7, <1>8, <1>9, Zenon DEF FromMatchResult
  <1>11. PICK e : e = Converted(m)
    OBVIOUS
  <1>12. e.tickets = {OverTheWire(t) : t \in f.tickets} /\ e.teams = f.teams /\ e.backfill = f.backfill
    BY <1>6, <1>8, <1>10, <1>11 DEF MatchOverTheWire
  <1>13. TicketsOf(ps, src) = {Source[r] : r \in InMatch(m)}
    <2>1. ps = Parties(InMatch(m))
      <3>1. \A r : r \in InMatch(m) <=> \E i \in 1 .. n : r \in ToSet(m.teams[i])
        BY <1>1 DEF InMatch, Members
      <3>2. \A p : p \in ps <=> \E i \in 1 .. n : p \in Parties(ToSet(m.teams[i]))
        BY <1>9, <1>18
      <3>3. ASSUME NEW p \in ps PROVE p \in Parties(InMatch(m))
        <4>1. PICK i \in 1 .. n : p \in Parties(ToSet(m.teams[i]))
          BY <3>2
        <4>2. PICK r \in ToSet(m.teams[i]) : p = CreateMatchingParty(Request[r])
          BY <1>20, <4>1, Zenon
        <4>3. r \in InMatch(m)
          BY <3>1
        <4>4. QED
          BY <1>20, <4>2, <4>3, Zenon
      <3>4. ASSUME NEW p \in Parties(InMatch(m)) PROVE p \in ps
        <4>1. PICK r \in InMatch(m) : p = CreateMatchingParty(Request[r])
          BY <1>20, Zenon
        <4>2. PICK i \in 1 .. n : r \in ToSet(m.teams[i])
          BY <3>1
        <4>3. p \in Parties(ToSet(m.teams[i]))
          BY <1>20, <4>1, <4>2, Zenon
        <4>4. QED
          BY <3>2, <4>3
      <3>5. QED
        BY <3>3, <3>4
    <2>2. QED
      BY <1>4, <1>21, <2>1
  <1>14. /\ DOMAIN f.teams = 1 .. n /\ f.teams = [i \in 1 .. n |-> f.teams[i]]
         /\ \A i \in 1 .. n :
               f.teams[i].parties = {[id |-> PartySession(p, src), users |-> DOMAIN p.players] :
                                     p \in al[i].parties}
    <2>1. DEFINE Team(a) == [id |-> IF a.id = "" THEN "new" ELSE a.id,
                             users |-> UsersOf(a.parties),
                             parties |-> {[id |-> PartySession(p, src), users |-> DOMAIN p.players] :
                                          p \in a.parties}]
                 filled == Picked(al, {i \in DOMAIN al : al[i].parties # {}})
    <2>2. ToTeams(src, al) = [i \in DOMAIN filled |-> Team(filled[i])]
      BY Zenon DEF ToTeams
    <2>3. \A a : Team(a).parties = {[id |-> PartySession(p, src), users |-> DOMAIN p.players] :
                                    p \in a.parties}
      BY Zenon
    <2>4. HIDE DEF Team
    <2>5. ASSUME NEW i \in 1 .. n PROVE al[i].parties # {}
      <3>1. PICK r : r \in ToSet(m.teams[i])
        BY <1>3
      <3>2. CreateMatchingParty(Request[r]) \in Parties(ToSet(m.teams[i]))
        BY <1>20, <3>1, Zenon
      <3>3. QED
        BY <1>18, <3>2
    <2>6. {i \in DOMAIN al : al[i].parties # {}} = 1 .. n
      BY <1>18, <2>5
    <2>7. filled = al
      <3>1. Picked(al, 1 .. n) = al
        BY <1>18, PickedPrefix
      <3>2. QED
        BY <2>6, <3>1, Zenon
    <2>8. f.teams = [i \in 1 .. n |-> Team(al[i])]
      BY <1>10, <1>18, <2>2, <2>7
    <2>9. QED
      BY <2>3, <2>8
  <1>15. Len(f.teams) = n
    BY <1>14
  <1>16. ASSUME NEW j \in 1 .. n
         PROVE  f.teams[j].parties = {[id |-> Ticket[r].party, users |-> DOMAIN Ticket[r].players] :
                                      r \in ToSet(m.teams[j])}
    <2>1. ASSUME NEW r \in Requests
          PROVE  LET p == CreateMatchingParty(Request[r]) IN
                 PartySession(p, src) = Ticket[r].party /\ p.players = Ticket[r].players
      <3>1. PICK p : p = CreateMatchingParty(Request[r])
        OBVIOUS
      <3>2. p.id = r /\ p.players = Ticket[r].players
        BY <3>1, RequestFields DEF CreateMatchingParty
      <3>3. r # ExternalParty
        BY PivotAssumption
      <3>4. \A t \in src : t.id = r <=> t = Source[r]
        BY <1>19, SourceFields
      <3>5. Source[r] \in src /\ Source[r].id = r /\ Source[r].party = Ticket[r].party
        BY <1>19, SourceFields
      <3>6. (CHOOSE t \in src : t.id = r) = Source[r]
        BY <3>4, <3>5
      <3>7. PartySession(p, src) = Ticket[r].party
        <4>1. /\ p.id # ExternalParty /\ \E t \in src : t.id = p.id
              /\ (CHOOSE t \in src : t.id = p.id).party = Ticket[r].party
          BY <3>2, <3>3, <3>5, <3>6
        <4>2. QED
          BY <4>1, Zenon DEF PartySession
      <3>8. QED
        BY <3>1, <3>2, <3>7
    <2>2. \A p : p \in al[j].parties <=> \E r \in ToSet(m.teams[j]) : p = CreateMatchingParty(Request[r])
      BY <1>18, <1>20
    <2>3. f.teams[j].parties = {[id |-> PartySession(p, src), users |-> DOMAIN p.players] :
                                p \in al[j].parties}
      BY <1>14
    <2>4. DEFINE Out(p) == [id |-> PartySession(p, src), users |-> DOMAIN p.players]
                 In(r)  == [id |-> Ticket[r].party, users |-> DOMAIN Ticket[r].players]
    <2>5. \A r \in Requests : Out(CreateMatchingParty(Request[r])) = In(r)
      BY <2>1, Zenon
    <2>6. f.teams[j].parties = {Out(p) : p \in al[j].parties}
      BY <2>3
    <2>7. \A r \in ToSet(m.teams[j]) : r \in Requests
      BY <1>3
    <2>8. HIDE DEF Out, In
    <2>9. f.teams[j].parties = {In(r) : r \in ToSet(m.teams[j])}
      BY <2>2, <2>5, <2>6, <2>7
    <2>10. QED
      BY <2>9 DEF In
  <1>17. QED
    BY <1>1, <1>10, <1>11, <1>12, <1>13, <1>15, <1>16

\* The rule a match is full by is one that the age of one of its requests warrants.
LEMMA FullRule ==
    ASSUME TypeOK, NEW S, S \subseteq Requests, S # {}
    PROVE  \E r \in S : /\ RuleOfOldest({Source[q] : q \in S}, ruleset, now) \in
                              Warranted(ruleset.alliance, ruleset.allianceFlex, Request[r].createdAt)
                        /\ ValidAlliance(RuleOfOldest({Source[q] : q \in S}, ruleset, now))
  <1>1. PICK T : T = {Source[q] : q \in S}
    OBVIOUS
  <1>2. ruleset \in RuleSets
    BY DEF TypeOK
  <1>3. \A q \in S : Source[q].createdAt \in Nat /\ Source[q].createdAt = Request[q].createdAt
    BY SourceFields, RequestFields, PivotAssumption
  <1>4. \E t \in T : \A u \in T : t.createdAt <= u.createdAt
    <2>1. PICK C : C = {t.createdAt : t \in T}
      OBVIOUS
    <2>2. C \subseteq Nat /\ C # {}
      BY <1>1, <1>3, <2>1
    <2>3. PICK n \in C : \A k \in C : n <= k
      BY <2>2, SmallestNumber
    <2>4. PICK t \in T : n = t.createdAt
      BY <2>1, <2>3
    <2>5. \A u \in T : u.createdAt \in C
      BY <2>1
    <2>6. QED
      BY <2>3, <2>4, <2>5
  <1>5. PICK oldest : oldest = CHOOSE t \in T : \A u \in T : t.createdAt <= u.createdAt
    OBVIOUS
  <1>6. oldest \in T
    BY <1>4, <1>5
  <1>7. PICK r \in S : oldest = Source[r]
    BY <1>1, <1>6
  <1>8. PICK rule : rule = RuleOfOldest(T, ruleset, now)
    OBVIOUS
  <1>9. rule = ApplyAllianceFlexingRules(ruleset, oldest.createdAt, now).alliance
    BY <1>5, <1>8, Zenon DEF RuleOfOldest
  <1>10. rule = ApplyAllianceFlexingRule(ruleset.alliance, ruleset.allianceFlex, Request[r].createdAt, now)
    <2>1. "alliance" \in DOMAIN ruleset
      BY <1>2, RuleSetFields
    <2>2. QED
      BY <1>3, <1>7, <1>9, <2>1 DEF ApplyAllianceFlexingRules
  <1>11. rule \in Warranted(ruleset.alliance, ruleset.allianceFlex, Request[r].createdAt)
    BY <1>10, FlexedAlliance DEF Warranted
  <1>12. ValidAlliance(rule)
    BY <1>2, <1>11, RuleSetFields DEF Warranted
  <1>13. QED
    BY <1>1, <1>8, <1>11, <1>12

\* What is sent is what was said about it when it is sent.
LEMMA SentNow ==
    ASSUME TypeOK, NEW m, m.teams \in Seq(Seq(Requests)), <<>> \notin ToSet(m.teams),
           InMatch(m) \subseteq Requests, InMatch(m) # {}
    PROVE  SentAs(m, Converted(m))
  <1>1. PICK e : e = Converted(m)
    OBVIOUS
  <1>2. PICK T : T = {Source[r] : r \in InMatch(m)}
    OBVIOUS
  <1>3. /\ e.tickets = {OverTheWire(t) : t \in T}
        /\ Len(e.teams) = Len(m.teams)
        /\ \A j \in DOMAIN m.teams :
              e.teams[j].parties = {[id |-> Ticket[r].party, users |-> DOMAIN Ticket[r].players] :
                                    r \in ToSet(m.teams[j])}
        /\ e.backfill <=> ruleset.autoBackfill /\ ~IsMatchFull(T, ruleset, now)
    BY <1>1, <1>2, ConvertedMatch
  <1>4. {t.id : t \in e.tickets} = InMatch(m)
    <2>1. \A r \in InMatch(m) : OverTheWire(Source[r]).id = r
      BY SourceFields
    <2>2. e.tickets = {OverTheWire(Source[r]) : r \in InMatch(m)}
      BY <1>2, <1>3
    <2>3. QED
      BY <2>1, <2>2
  <1>5. \A j \in DOMAIN m.teams :
            {<<p.id, p.users>> : p \in e.teams[j].parties}
                = {<<Ticket[r].party, DOMAIN Ticket[r].players>> : r \in ToSet(m.teams[j])}
    <2>1. DEFINE In(r) == [id |-> Ticket[r].party, users |-> DOMAIN Ticket[r].players]
                 Pair(r) == <<Ticket[r].party, DOMAIN Ticket[r].players>>
    <2>2. \A r : Pair(r) = <<In(r).id, In(r).users>>
      OBVIOUS
    <2>3. \A j \in DOMAIN m.teams : e.teams[j].parties = {In(r) : r \in ToSet(m.teams[j])}
      BY <1>3
    <2>4. SUFFICES ASSUME NEW j \in DOMAIN m.teams
                   PROVE  {<<p.id, p.users>> : p \in e.teams[j].parties} = {Pair(r) : r \in ToSet(m.teams[j])}
      OBVIOUS
    <2>5. HIDE DEF In, Pair
    <2>6. PICK ps, q : ps = e.teams[j].parties /\ q = ToSet(m.teams[j])
      OBVIOUS
    <2>7. ps = {In(r) : r \in q}
      BY <2>3, <2>6
    <2>8. {<<p.id, p.users>> : p \in ps} = {Pair(r) : r \in q}
      BY <2>2, <2>7
    <2>9. QED
      BY <2>6, <2>8
  <1>6. PICK rule : rule = RuleOfOldest(T, ruleset, now)
    OBVIOUS
  <1>7. PICK r \in InMatch(m) :
            /\ rule \in Warranted(ruleset.alliance, ruleset.allianceFlex, Request[r].createdAt)
            /\ ValidAlliance(rule)
    BY <1>2, <1>6, FullRule
  <1>8. PICK n : n = rule.maxTeams * rule.maxPlayers
    OBVIOUS
  <1>9. n \in Capacity(m)
    BY <1>7, <1>8 DEF Capacity
  <1>10. n \in Nat
    BY <1>7, <1>8 DEF ValidAlliance
  <1>11. PICK h \in Nat : h = Players(InMatch(m)) /\ h = Headcount(T)
    BY <1>2, SourceTickets, PlayersType
  <1>12. IsMatchFull(T, ruleset, now) <=> n <= h
    BY <1>6, <1>8, <1>11 DEF IsMatchFull
  <1>13. /\ e.backfill => ruleset.autoBackfill /\ h < n
         /\ ruleset.autoBackfill /\ ~e.backfill => h >= n
    BY <1>3, <1>10, <1>11, <1>12
  <1>14. QED
    BY <1>1, <1>3, <1>4, <1>5, <1>9, <1>11, <1>13 DEF SentAs

\* And stays what was said.
LEMMA SentLater ==
    ASSUME TypeOK, [Next]_vars, NEW m, InMatch(m) \subseteq Requests, NEW s, SentAs(m, s)
    PROVE  SentAs(m, s)'
  <1>1. ruleset' = ruleset /\ now \in Nat /\ now' \in Nat /\ now <= now'
    BY ClockAndRules
  <1>2. ASSUME NEW r \in InMatch(m)
        PROVE  Warranted(ruleset.alliance, ruleset.allianceFlex, Request[r].createdAt)
                  \subseteq Warranted(ruleset.alliance, ruleset.allianceFlex, Request[r].createdAt)'
    <2>1. \A i \in DOMAIN ruleset.allianceFlex :
              Request[r].createdAt + ruleset.allianceFlex[i].duration < now =>
                 Request[r].createdAt + ruleset.allianceFlex[i].duration < now'
      BY <1>1, WarrantedLater
    <2>2. QED
      BY <1>1, <2>1 DEF Warranted
  <1>3. Capacity(m) \subseteq Capacity(m)'
    BY <1>2 DEF Capacity
  <1>4. QED
    BY <1>1, <1>3 DEF SentAs

\* Matches are sent as they are, in their order.
LEMMA MatchesSentInductive ==
    ASSUME TypeOK, TypeOK', PhaseInv, MatchesApart, NoTeamEmpty, MatchesSent, [Next]_vars
    PROVE  MatchesSent'
  <1>1. PICK rs, rt, st, tt : rs = results /\ rt = results' /\ st = sent /\ tt = sent'
    OBVIOUS
  <1>2. /\ Len(st) \in Nat /\ DOMAIN st = 1 .. Len(st)
        /\ Len(rs) \in Nat /\ DOMAIN rs = 1 .. Len(rs) /\ Len(st) <= Len(rs)
        /\ rs \in Seq(ToSet(rs)) /\ st \in Seq(ToSet(st))
    BY <1>1, ToSetType DEF TypeOK
  <1>3. \A i \in DOMAIN rs : rs[i] \in ToSet(results)
    BY <1>1 DEF ToSet
  <1>4. \A i \in DOMAIN rs :
            /\ InMatch(rs[i]) \subseteq Requests /\ InMatch(rs[i]) # {}
            /\ rs[i].teams \in Seq(Seq(Requests)) /\ <<>> \notin ToSet(rs[i].teams)
    <2>1. PICK g : g = [i \in DOMAIN rs |-> InMatch(rs[i])]
      OBVIOUS
    <2>2. IsGrouping(g, Requests)
      BY <1>1, <2>1 DEF MatchesApart
    <2>3. Len(g) = Len(rs) /\ \A i \in 1 .. Len(rs) : g[i] = InMatch(rs[i])
      BY <1>2, <2>1, MatchGroups
    <2>4. \A i \in DOMAIN rs : InMatch(rs[i]) \subseteq Requests /\ InMatch(rs[i]) # {}
      BY <1>2, <2>2, <2>3 DEF IsGrouping
    <2>5. \A i \in DOMAIN rs :
              rs[i].teams \in Seq(Seq(Requests)) /\ <<>> \notin ToSet(rs[i].teams)
      BY <1>3 DEF TypeOK, NoTeamEmpty
    <2>6. QED
      BY <2>4, <2>5
  <1>5. \A i \in DOMAIN st : i \in DOMAIN rs /\ SentAs(rs[i], st[i])'
    <2>1. SUFFICES ASSUME NEW i \in DOMAIN st PROVE i \in DOMAIN rs /\ SentAs(rs[i], st[i])'
      OBVIOUS
    <2>2. i \in DOMAIN rs
      BY <1>2
    <2>3. PICK m, s : m = rs[i] /\ s = st[i]
      OBVIOUS
    <2>4. SentAs(m, s)
      BY <1>1, <2>3 DEF MatchesSent
    <2>5. SentAs(m, s)'
      BY <1>4, <2>2, <2>3, <2>4, SentLater
    <2>6. QED
      BY <2>2, <2>3, <2>5
  <1>6. \A i \in DOMAIN rs : rt[i] = rs[i]
    <2>1. CASE results' = results
      BY <1>1, <2>1
    <2>2. CASE \E k : results' = Append(results, k)
      BY <1>1, <1>2, <2>2, AppendAny
    <2>3. results' = results \/ \E k : results' = Append(results, k)
      BY ResultSteps DEF SinglePlayer, MakeMatch
    <2>4. QED
      BY <2>1, <2>2, <2>3
  <1>7. CASE sent' = sent
    BY <1>1, <1>5, <1>6, <1>7 DEF MatchesSent
  <1>8. CASE SendMatch
    <2>1. Len(st) < Len(rs) /\ sent' = Append(st, Converted(rs[Len(st) + 1]))
      BY <1>1, <1>8, Zenon DEF SendMatch
    <2>2. PICK k \in Nat : k = Len(st) + 1
      BY <1>2
    <2>3. k \in DOMAIN rs
      BY <1>2, <2>1, <2>2
    <2>4. PICK m, e : m = rs[k] /\ e = Converted(m)
      OBVIOUS
    <2>5. SentAs(m, e)
      BY <1>4, <2>3, <2>4, SentNow
    <2>6. SentAs(m, e)'
      BY <1>4, <2>3, <2>4, <2>5, SentLater
    <2>7. /\ DOMAIN tt = 1 .. k /\ tt[k] = e
          /\ \A i \in DOMAIN st : tt[i] = st[i]
      BY <1>1, <1>2, <2>1, <2>2, <2>4, AppendAny
    <2>8. \A i \in 1 .. k : i = k \/ i \in DOMAIN st
      BY <1>2, <2>2
    <2>9. SUFFICES ASSUME NEW i \in 1 .. k PROVE SentAs(rt[i], tt[i])'
      BY <1>1, <2>7 DEF MatchesSent
    <2>10. CASE i = k
      BY <1>6, <2>3, <2>4, <2>6, <2>7, <2>10
    <2>11. CASE i \in DOMAIN st
      BY <1>5, <1>6, <2>7, <2>11
    <2>12. QED
      BY <2>8, <2>10, <2>11
  <1>9. sent' = sent \/ SendMatch
    <2>1. CASE ~SendMatch
      BY <2>1 DEF Next, Step, Finished, Tick, vars, outVars, ReturnEarly, Begin, SinglePlayer,
            SinglePlayerEnds, ChoosePivot, SearchRegion, RegionsEnd, NextOrder, OrdersEnd, StartTeam,
            PassEnds, Consider, FillEnds, Validate, OptionsDisagree, MakeMatch, DropPivot, GiveUp
    <2>2. QED
      BY <2>1
  <1>10. QED
    BY <1>7, <1>8, <1>9

-----------------------------------------------------------------------------
(* The theorems.                                                           *)

\* A call starts with no matches, no candidates and no teams.
LEMMA IInvInit == Init => IInv
  <1>1. SUFFICES ASSUME Init PROVE IInv
    OBVIOUS
  <1>2. TypeOK
    BY <1>1, TypeInit
  <1>3. /\ pc = "start" /\ results = <<>> /\ sent = <<>> /\ active = ruleset
        /\ regions = <<>> /\ region = 0
        /\ queue \in UNION {SetToSeqs(S) : S \in (SUBSET Requests) \ {{}}}
    BY <1>1 DEF Init
  <1>4. PICK S \in (SUBSET Requests) \ {{}} : queue \in SetToSeqs(S)
    BY <1>3
  <1>5. IsFiniteSet(S) /\ IsFiniteSet(Requests) /\ S \subseteq Requests /\ S # {}
    BY <1>4, OfFinite, PivotAssumption
  <1>6. ToSet(queue) = S
    BY <1>4, <1>5, SetToSeqsProperties
  <1>7. queue # <<>>
    BY <1>5, <1>6, ToSetEmpty
  <1>8. PhaseInv /\ RuleInv /\ FoundInv /\ TeamInv /\ FillInv
    BY <1>3, <1>7 DEF PhaseInv, RuleInv, FoundInv, TeamInv, FillInv, Searching, Teaming
  <1>9. TeamsApart /\ TeamsInRange
    BY <1>3 DEF TeamsApart, TeamsInRange, Teaming
  <1>10. ToSet(results) = {} /\ results \in Seq({}) /\ Len(results) = 0 /\ DOMAIN results = {}
    BY <1>3, ToSetEmpty
  <1>11. CountInv
    <2>1. Cardinality(Pool) <= Cardinality(Requests) /\ Cardinality(Pool) \in Nat
      BY <1>5, <1>6, FS_Subset, FS_CardinalityType DEF Pool
    <2>2. QED
      BY <1>10, <2>1 DEF CountInv
  <1>12. MatchesApart
    <2>1. PICK g : g = [i \in DOMAIN results |-> InMatch(results[i])]
      OBVIOUS
    <2>2. Len(g) = 0 /\ DOMAIN g = {}
      BY <1>10, <2>1, MatchGroups
    <2>3. Cardinality(Requests) \in Nat
      BY <1>5, FS_CardinalityType
    <2>4. IsGrouping(g, Requests)
      BY <2>2, <2>3 DEF IsGrouping, Disjoint
    <2>5. QED
      BY <1>10, <2>1, <2>4 DEF MatchesApart
  <1>13. /\ RuleKept /\ NoBlockedTogether /\ DistanceKept /\ OptionsAgree /\ NoTeamEmpty
    BY <1>10 DEF RuleKept, NoBlockedTogether, DistanceKept, Partners, OptionsAgree, NoTeamEmpty
  <1>14. RegionInv /\ RegionKept
    BY <1>3, <1>10 DEF RegionInv, RegionKept, RegionsToTry, Partners, Searching
  <1>15. MatchesSent
    <2>1. DOMAIN sent = {}
      BY <1>3
    <2>2. QED
      BY <2>1 DEF MatchesSent
  <1>16. QED
    BY <1>2, <1>8, <1>9, <1>11, <1>12, <1>13, <1>14, <1>15 DEF IInv, NoRequestTwice

\* Every step keeps every part of it.
LEMMA IInvInductive == IInv /\ [Next]_vars => IInv'
  <1>1. SUFFICES ASSUME IInv, [Next]_vars PROVE IInv'
    OBVIOUS
  <1>2. /\ TypeOK /\ PhaseInv /\ RuleInv /\ RegionInv /\ FoundInv /\ TeamInv /\ FillInv /\ CountInv
        /\ TeamsApart /\ MatchesApart /\ TeamsInRange /\ RuleKept /\ NoBlockedTogether /\ DistanceKept
        /\ RegionKept /\ OptionsAgree /\ NoTeamEmpty /\ MatchesSent
    BY <1>1 DEF IInv, NoRequestTwice
  <1>3. TypeOK'
    BY <1>1, <1>2, TypeInductive
  <1>4. PhaseInv' /\ RuleInv' /\ FoundInv' /\ RegionInv'
    BY <1>1, <1>2, <1>3, PhaseInductive, RuleInductive, FoundInductive, RegionInductive
  <1>5. TeamInv' /\ FillInv' /\ TeamsApart' /\ TeamsInRange'
    BY <1>1, <1>2, TeamInductive
  <1>6. MatchesApart' /\ CountInv'
    BY <1>1, <1>2, <1>3, MatchesInductive
  <1>7. RuleKept' /\ NoBlockedTogether' /\ DistanceKept'
    BY <1>1, <1>2, RuleKeptInductive, NoBlockedInductive, DistanceKeptInductive
  <1>8. RegionKept' /\ OptionsAgree'
    BY <1>1, <1>2, <1>4, RegionKeptInductive, OptionsAgreeInductive
  <1>9. NoTeamEmpty' /\ MatchesSent'
    BY <1>1, <1>2, <1>3, NoTeamEmptyInductive, MatchesSentInductive
  <1>10. QED
    BY <1>3, <1>4, <1>5, <1>6, <1>7, <1>8, <1>9 DEF IInv, NoRequestTwice

\* MatchPlayers never leaves the inductive invariant.
THEOREM Invariance == Spec => []IInv
  <1>1. QED
    BY IInvInit, IInvInductive, PTL DEF Spec

\* No request is in two matches or twice in one, in two teams, or in a team or a
\* match and still to be had (matchplayer.go:385-393, 444-460, 586-589, 617-620).
THEOREM RequestsOnce == Spec => []NoRequestTwice
  <1>1. IInv => NoRequestTwice
    BY DEF IInv
  <1>2. QED
    BY <1>1, Invariance, PTL

\* The two passes never build a team of the wrong size, or too many
\* (matchplayer.go:559-623).
THEOREM TeamsWithinRules == Spec => []TeamsInRange
  <1>1. IInv => TeamsInRange
    BY DEF IInv
  <1>2. QED
    BY <1>1, Invariance, PTL

\* Every match keeps the alliance rule that was active for its pivot, one that the
\* pivot's age warrants (matchplayer.go:86-116, 625-712, allianceruleflex.go).
THEOREM MatchesKeepRule == Spec => []RuleKept
  <1>1. IInv => RuleKept
    BY DEF IInv
  <1>2. QED
    BY <1>1, Invariance, PTL

\* Nobody is matched with a player they blocked (manualSearch.go:752-793,
\* matchplayer.go:702-709).
THEOREM BlocksRespected == Spec => []NoBlockedTogether
  <1>1. IInv => NoBlockedTogether
    BY DEF IInv
  <1>2. QED
    BY <1>1, Invariance, PTL

\* Nobody is matched beyond the distance that the pivot, and they themselves, have
\* waited for (flexrule.go:48-56, manualSearch.go:291-364).
THEOREM DistancesKept == Spec => []DistanceKept
  <1>1. IInv => DistanceKept
    BY DEF IInv
  <1>2. QED
    BY <1>1, Invariance, PTL

\* A match is made in a region of its pivot that is within reach for everybody in it
\* who is asked (utils.go:157-182, manualSearch.go:795-835, matchplayer.go:135-141,
\* 219-223).
THEOREM RegionsKept == Spec => []RegionKept
  <1>1. IInv => RegionKept
    BY DEF IInv
  <1>2. QED
    BY <1>1, Invariance, PTL

\* The values of the parties of a match agree in the way of each option
\* (manualSearch.go:466-585, matchplayer.go:258-306).
THEOREM OptionsOfMatchesAgree == Spec => []OptionsAgree
  <1>1. IInv => OptionsAgree
    BY DEF IInv
  <1>2. QED
    BY <1>1, Invariance, PTL

\* Every match is sent with the tickets of its requests, each in its team and under
\* the party it queued with, and asks for players only while a rule has room for them
\* (matchlogic.go:379-490, conversions.go:122-165).
THEOREM MatchesSentWhole == Spec => []MatchesSent
  <1>1. IInv => MatchesSent
    BY DEF IInv
  <1>2. QED
    BY <1>1, Invariance, PTL

\* The tickets of each match that was sent.
SentTickets == [i \in DOMAIN sent |-> {t.id : t \in sent[i].tickets}]

\* What runMatchMaking has sent at any time is what MatchStream takes a worker to send:
\* groups of tickets of its chunk, none empty, no ticket in two of them
\* (matchlogic.go:693-698).
THEOREM SentAsGrouped == Spec => []IsGrouping(SentTickets, Requests)
  <1>1. ASSUME IInv PROVE IsGrouping(SentTickets, Requests)
    <2>1. /\ results \in Seq(ToSet(results)) /\ sent \in Seq(ToSet(sent)) /\ Len(sent) <= Len(results)
          /\ MatchesSent /\ MatchesApart
      BY <1>1 DEF IInv, TypeOK, NoRequestTwice
    <2>2. PICK m \in Nat, n \in Nat :
             /\ m = Len(results) /\ n = Len(sent) /\ n <= m
             /\ DOMAIN results = 1 .. m /\ DOMAIN sent = 1 .. n
      BY <2>1, LenProperties
    <2>3. PICK g, h : g = [i \in DOMAIN results |-> InMatch(results[i])] /\ h = SentTickets
      OBVIOUS
    <2>4. /\ Len(g) <= Cardinality(Requests)
          /\ \A i \in 1 .. Len(g) : g[i] # {} /\ g[i] \subseteq Requests
          /\ \A i, j \in DOMAIN g : i # j => g[i] \cap g[j] = {}
      BY <2>1, <2>3 DEF MatchesApart, IsGrouping, Disjoint
    <2>5. DOMAIN g = 1 .. m /\ Len(g) = m /\ DOMAIN h = 1 .. n /\ Len(h) = n
      BY <2>2, <2>3 DEF SentTickets
    <2>6. ASSUME NEW i \in 1 .. n PROVE i \in 1 .. m /\ h[i] = g[i]
      <3>1. i \in 1 .. m /\ SentAs(results[i], sent[i])
        BY <2>1, <2>2 DEF MatchesSent
      <3>2. h[i] = {t.id : t \in sent[i].tickets} /\ g[i] = InMatch(results[i])
        BY <2>2, <2>3, <3>1 DEF SentTickets
      <3>3. QED
        BY <3>1, <3>2 DEF SentAs
    <2>7. Cardinality(Requests) \in Nat
      BY PivotAssumption, FS_CardinalityType
    <2>8. Len(h) <= Cardinality(Requests)
      BY <2>2, <2>4, <2>5, <2>7
    <2>9. /\ \A i \in 1 .. Len(h) : h[i] # {} /\ h[i] \subseteq Requests
          /\ \A i, j \in DOMAIN h : i # j => h[i] \cap h[j] = {}
      BY <2>4, <2>5, <2>6
    <2>10. QED
      BY <2>3, <2>8, <2>9 DEF IsGrouping, Disjoint
  <1>2. QED
    BY <1>1, Invariance, PTL

\* A request leaves the pool only in a match or as the pivot no match was found for
\* (matchplayer.go:444-460).
THEOREM OthersNotDropped == Spec => OnlyPivotDropped
  <1>1. ASSUME IInv, [Next]_vars
        PROVE  [\A r \in Pool \ Pool' :
                   r = pivot \/ r \in UNION {InMatch(m) : m \in ToSet(results')}]_vars
    <2> SUFFICES ASSUME NEW r \in Pool \ Pool'
                 PROVE  r = pivot \/ \E m \in ToSet(results') : r \in InMatch(m)
      OBVIOUS
    <2>1. /\ TypeOK /\ PhaseInv /\ RuleInv /\ TeamsApart /\ TeamsInRange
      BY <1>1 DEF IInv, NoRequestTwice
    <2>2. CASE SinglePlayer
      <3>0. PICK s \in Pool : \E m : /\ results' = Append(results, m) /\ Pool' = Pool \ {s}
                                      /\ InMatch(m) = {s}
        BY <2>1, <2>2, SingleMatch
      <3>1. PICK m : /\ results' = Append(results, m) /\ Pool' = Pool \ {s} /\ InMatch(m) = {s}
        BY <3>0
      <3>2. m \in ToSet(results')
        BY <2>1, <3>1, AppendAny DEF TypeOK
      <3>3. QED
        BY <3>1, <3>2
    <2>3. CASE MakeMatch
      <3>1. PICK m : results' = Append(results, m) /\ Pool' = Pool \ InMatch(m)
        BY <2>1, <2>3, TeamsMatch
      <3>2. m \in ToSet(results')
        BY <2>1, <3>1, AppendAny DEF TypeOK
      <3>3. QED
        BY <3>1, <3>2
    <2>4. CASE DropPivot
      <3>1. pc = "dropPivot" /\ queue # <<>> /\ Len(queue) >= Rule.minTeams
        BY <2>4 DEF DropPivot, AnotherPivot
      <3>2. Len(queue) \in Nat /\ Rule.minTeams \in Nat
        BY <2>1, ToSetType, AllowedBound DEF TypeOK
      <3>3. pivot \in Pool
        BY <2>1, <3>1, <3>2 DEF PhaseInv
      <3>4. queue' \in Without(queue, {pivot})
        BY <2>4, <3>3 DEF DropPivot
      <3>5. Pool' = Pool \ {pivot}
        BY <2>1, <3>4, WithoutProperties DEF TypeOK, Pool
      <3>6. QED
        BY <3>5
    <2>5. CASE ChoosePivot
      <3>1. queue # <<>> /\ queue' \in OldestFirst(Pool)
        BY <2>1, <2>5 DEF ChoosePivot, PhaseInv
      <3>2. ToSet(queue') = Pool
        BY <2>1, <3>1, OldestFirstProperties
      <3>3. QED
        BY <3>2 DEF Pool
    <2>6. CASE UNCHANGED vars \/ Tick \/ ReturnEarly \/ Begin \/ SinglePlayerEnds \/ SearchRegion
               \/ RegionsEnd \/ NextOrder \/ OrdersEnd \/ StartTeam \/ PassEnds \/ Consider
               \/ FillEnds \/ Validate \/ OptionsDisagree \/ GiveUp \/ SendMatch
      <3>1. queue' = queue
        BY <2>6 DEF vars, Tick, ReturnEarly, Begin, SinglePlayerEnds, SearchRegion, RegionsEnd,
              NextOrder, OrdersEnd, StartTeam, PassEnds, Consider, FillEnds, Validate,
              OptionsDisagree, GiveUp, SendMatch
      <3>2. QED
        BY <3>1 DEF Pool
    <2>7. QED
      BY <1>1, <2>2, <2>3, <2>4, <2>5, <2>6 DEF Next, Step, Finished
  <1>2. QED
    BY <1>1, Invariance, PTL DEF Spec, OnlyPivotDropped
=============================================================================
