--------------------------- MODULE PartyCombination ---------------------------
(***************************************************************************)
(* FindPartyCombination (matchplayer.go) with the party finder of          *)
(* partyfinder_normal.go: the orders of the reorder tool are tried one     *)
(* after the other, each fills a team greedily from where it stands, and   *)
(* the best team seen is kept until one is full.                           *)
(*                                                                         *)
(* The finder's current, best and result are Go slices.  result starts as  *)
(* current, so append writes into current's array while that array has     *)
(* room, and best may still be looking at it.  The array is modelled:      *)
(* "backing" is current's array up to its capacity, a slice either shares  *)
(* it or has an array of its own.                                          *)
(***************************************************************************)
EXTENDS Orders

CONSTANTS
    Source,         \* sourceTickets, in order
    Starts,         \* what a call may come with: the team to start from, a
                    \* sequence of tickets or <<>> (team), and how many orders
                    \* to try, FIND_PARTY_MAX_LOOP or 1 when it is 0 (loops)
    Sizes,          \* per ticket: the sizes its party may have
    Blocks,         \* pairs <<t, u>>: t blocks a member of u
    OtherTeamOnly,  \* blocked players may only match in different teams
    MinPlayer, MaxPlayer,
    Capacity(_)     \* of the array that append gives a team of this length

None == 0
Tickets == ToSet(Source) \cup UNION {ToSet(s.team) : s \in Starts}

ASSUME CombinationAssumption ==
    /\ Starts \subseteq [team : Seq(Tickets), loops : Nat \ {0}]
    /\ \A s \in Starts :
          /\ ToSet(s.team) \cap ToSet(Source) = {} /\ IsInjective(s.team)
          /\ Capacity(Len(s.team)) \in Nat /\ Len(s.team) <= Capacity(Len(s.team))
    /\ Source \in Seq(Tickets) /\ IsInjective(Source)
    /\ None \notin Tickets
    /\ \A t \in Tickets : Sizes[t] \subseteq Nat \ {0}
    /\ MaxPlayer \in Nat /\ MinPlayer \in 1 .. MaxPlayer

VARIABLES
    size,           \* per ticket: the size of its party
    current, loops, \* the team to start from, how many orders to try
    backing,        \* the array behind it, None where nothing was written
    result, best,   \* slices: [shared, len, own]
    tried,          \* orders tried so far
    order, at,      \* the order being tried and how far it has been read
    pc,             \* "next", "fill", "done"
    answer          \* what FindPartyCombination returns

input == <<size, current, loops>>
vars == <<input, backing, result, best, tried, order, at, pc, answer>>

Contents(s) == IF s.shared THEN SubSeq(backing, 1, s.len) ELSE s.own

\* Mutant: the slice starts with all of the array.
StartWholeArray == [shared |-> TRUE, len |-> Len(backing), own |-> <<>>]

Start == [shared |-> TRUE, len |-> Len(current), own |-> <<>>]

\* The members of the parties of a team.
PlayersBy(f, s) == Cardinality(UNION {{i} \X (1 .. f[s[i]]) : i \in DOMAIN s})
Players(s) == PlayersBy(size, s)

Blocked(S) == \E t, u \in S : <<t, u>> \in Blocks

Slice == [shared : BOOLEAN, len : Nat, own : Seq(Tickets)]

TypeOK ==
    /\ \A t \in Tickets : size[t] \in Sizes[t]
    /\ [team |-> current, loops |-> loops] \in Starts
    /\ Len(backing) = Capacity(Len(current)) /\ ToSet(backing) \subseteq Tickets \cup {None}
    /\ result \in Slice /\ best \in Slice
    /\ tried \in Nat
    /\ at \in 1 .. Len(Source) + 1
    /\ pc \in {"next", "fill", "done"}
    /\ None \notin ToSet(Contents(result)) \cup ToSet(Contents(best))

\* A team to start from was found before: it is empty, or has enough players.
Init ==
    /\ size \in {f \in [Tickets -> UNION {Sizes[t] : t \in Tickets}] : \A t \in Tickets : f[t] \in Sizes[t]}
    /\ \E s \in Starts : current = s.team /\ loops = s.loops
    /\ current # <<>> => PlayersBy(size, current) \in MinPlayer .. MaxPlayer
    /\ OtherTeamOnly => ~Blocked(ToSet(current))
    /\ backing = [i \in 1 .. Capacity(Len(current)) |->
                    IF i <= Len(current) THEN current[i] ELSE None]
    /\ result = Start /\ best = Start
    /\ tried = 0 /\ order = <<>> /\ at = 1
    /\ pc = "next"
    /\ answer = <<>>

-----------------------------------------------------------------------------
\* The pivot, or the first ticket when the pivot is not among them, stays
\* first; the others follow in the k-th order of TwoPointer.
OrderAt(k) ==
    IF Source = <<>> THEN <<>> ELSE <<Head(Source)>> \o PairFirst(Tail(Source), k)
OrderCount ==
    LET all == IF Len(Source) < 2 THEN 1 ELSE PairCount(Tail(Source))
    IN  IF loops < all THEN loops ELSE all

NextOrder ==
    /\ pc = "next"
    /\ tried < OrderCount
    /\ order' = OrderAt(tried)
    /\ tried' = tried + 1
    /\ result' = Start
    /\ at' = 1
    /\ pc' = "fill"
    /\ UNCHANGED <<input, backing, best, answer>>

AssignMembers(t) == Players(Contents(result)) + size[t] <= MaxPlayer

\* Mutant: blocked players are looked for in the team only.
JoinsBlockedSeen(t) == OtherTeamOnly /\ Blocked(ToSet(Contents(result)))

JoinsBlocked(t) == OtherTeamOnly /\ Blocked({t} \cup ToSet(Contents(result)))

\* append(f.result, ticket)
AppendResult(t) ==
    IF result.shared /\ result.len < Len(backing)
    THEN /\ backing' = [backing EXCEPT ![result.len + 1] = t]
         /\ result' = [shared |-> TRUE, len |-> result.len + 1, own |-> <<>>]
    ELSE /\ result' = [shared |-> FALSE, len |-> result.len + 1, own |-> Append(Contents(result), t)]
         /\ UNCHANGED backing

Consider ==
    /\ pc = "fill"
    /\ at <= Len(order)
    /\ IF ~JoinsBlocked(order[at]) /\ AssignMembers(order[at])
       THEN AppendResult(order[at])
       ELSE UNCHANGED <<result, backing>>
    /\ at' = at + 1
    /\ UNCHANGED <<input, best, tried, order, pc, answer>>

\* Mutant: only a full team becomes the best.
IsBetterFullOnly ==
    /\ Players(Contents(result)) = MaxPlayer
    /\ Players(Contents(result)) > Players(Contents(best))

\* Mutant: too small a team becomes the best.
IsBetterAnySize ==
    /\ Players(Contents(result)) <= MaxPlayer
    /\ Players(Contents(result)) > Players(Contents(best))

IsBetter ==
    /\ Players(Contents(result)) \in MinPlayer .. MaxPlayer
    /\ Players(Contents(result)) > Players(Contents(best))

\* IsFulfilled: a full team is the answer, a better one becomes the best.
OrderEnds ==
    /\ pc = "fill"
    /\ at > Len(order)
    /\ best' = IF IsBetter THEN result ELSE best
    /\ IF Players(Contents(result)) = MaxPlayer
       THEN answer' = Contents(result) /\ pc' = "done"
       ELSE pc' = "next" /\ UNCHANGED answer
    /\ UNCHANGED <<input, backing, result, tried, order, at>>

ReturnBest ==
    /\ pc = "next"
    /\ tried >= OrderCount
    /\ answer' = Contents(best)
    /\ pc' = "done"
    /\ UNCHANGED <<input, backing, result, best, tried, order, at>>

Finished == pc = "done" /\ UNCHANGED vars

Next == NextOrder \/ Consider \/ OrderEnds \/ ReturnBest \/ Finished

Spec == Init /\ [][Next]_vars

-----------------------------------------------------------------------------
\* A ticket joins a team that has room for it and nobody it blocks or is blocked by.
JoinedBy(f, s, t) ==
    IF PlayersBy(f, s) + f[t] <= MaxPlayer /\ ~(OtherTeamOnly /\ Blocked({t} \cup ToSet(s)))
    THEN Append(s, t) ELSE s

\* The teams that come of it when the tickets of an order join one after the other.
Filled(f, start, o) ==
    LET team[i \in 0 .. Len(o)] == IF i = 0 THEN start ELSE JoinedBy(f, team[i - 1], o[i])
    IN  team

\* What filling greedily in the k-th order gives, with sequences for slices.
Greedy(k) == Filled(size, current, OrderAt(k))[Len(OrderAt(k))]

\* The answer is a legal team whatever was tried on the way: it has the team
\* it started from, no ticket twice, no more players than allowed, and enough
\* of them unless nothing was added (matchplayer.go:700-729).
LegalTeam ==
    pc = "done" =>
        /\ IsPrefix(current, answer)
        /\ IsInjective(answer)
        /\ Players(answer) <= MaxPlayer
        /\ answer # current => Players(answer) >= MinPlayer

\* Nobody is put in a team with a player they blocked (matchplayer.go:702-709).
NoBlockedInTeam == pc = "done" /\ OtherTeamOnly => ~Blocked(ToSet(answer))

\* partyfinder.go:35-37: GetBestResult returns "the best party combination found
\* so far": of the orders tried, none fills a larger team than the answer.
BestOfTried ==
    pc = "done" =>
        \A k \in 0 .. tried - 1 :
            Players(Greedy(k)) >= MinPlayer => Players(answer) >= Players(Greedy(k))
=============================================================================
