---------------------------- MODULE OptionRules ----------------------------
(***************************************************************************)
(* Match options once the players of a match or of a session are known:    *)
(* whether the values agree in the way of each option's type, and the      *)
(* attributes that come of it (matchplayer.go, matchsession.go).           *)
(*                                                                         *)
(* Both work on a sequence A of attributes: those of the parties of a      *)
(* match in order, or those of a session and of the ticket that joins it.  *)
(* The code counts how often each value occurs and asks for a count: as    *)
(* no one carries a value twice, the count is the number of carriers, and  *)
(* the "two" MatchSessions asks for is the length of its sequence.         *)
(***************************************************************************)
EXTENDS Tickets

Carriers(A, option, value) == {i \in DOMAIN A : value \in Values(A[i], option)}

ValuesOf(A, option) == UNION {Values(A[i], option) : i \in DOMAIN A}

\* The options somebody has, of a given type.
Present(A, rs, type) ==
    {o \in DOMAIN rs.options : rs.options[o] = type /\ \E i \in DOMAIN A : o \in DOMAIN A[i]}

\* A value that counts for an option of type any.
Shared(A, rs, option, value) ==
    IF rs.anyCommon THEN Carriers(A, option, value) = DOMAIN A
    ELSE Len(A) = 1 \/ Cardinality(Carriers(A, option, value)) > 1

\* selectedOptions[option].
Selected(A, rs, option) ==
    IF rs.options[option] = "any"
    THEN {v \in ValuesOf(A, option) : Shared(A, rs, option, v)}
    ELSE ValuesOf(A, option)

SelectedOptions(A, rs) ==
    {o \in UNION {Present(A, rs, type) : type \in {"all", "any", "unique"}} : Selected(A, rs, o) # {}}

AllOptionsFit(A, rs) ==
    \A o \in Present(A, rs, "all") : \A v \in ValuesOf(A, o) : Carriers(A, o, v) = DOMAIN A

UniqueOptionsFit(A, rs) ==
    \A o \in Present(A, rs, "unique") : \A v \in ValuesOf(A, o) : Cardinality(Carriers(A, o, v)) = 1

\* The options are judged one by one, in the order of a map iteration; one of
\* type any fails if no option judged up to then has a value selected.  So they
\* may agree if there is something to select, in an order that begins with it...
OptionsMayAgree(A, rs) ==
    /\ AllOptionsFit(A, rs) /\ UniqueOptionsFit(A, rs)
    /\ Present(A, rs, "any") # {} => SelectedOptions(A, rs) # {}

\* ...and may disagree if one of type any has nothing to select, in an order that
\* begins with that one.
OptionsMayDisagree(A, rs) ==
    \/ ~AllOptionsFit(A, rs) \/ ~UniqueOptionsFit(A, rs)
    \/ \E o \in Present(A, rs, "any") : Selected(A, rs, o) = {}

-----------------------------------------------------------------------------
NotCombined == {"match_attempt", "latencies", "server_name", "client_version",
                "member_attributes", "sub_game_mode", "blocked_players_detail"}

\* The value of the first party that has the attribute.
FirstValue(A, key) ==
    LET first == CHOOSE i \in DOMAIN A :
                    key \in DOMAIN A[i] /\ \A j \in 1 .. i - 1 : key \notin DOMAIN A[j]
    IN  A[first][key]

\* The attributes of a match: selected values, everybody's blocked players, and
\* for all other attributes, which must match, the first value there is.
CombinedAttributes(A, rs) ==
    LET others == (UNION {DOMAIN A[i] : i \in DOMAIN A}) \ (DOMAIN rs.options \cup NotCombined)
    IN  [k \in others \cup SelectedOptions(A, rs) |->
            IF k \in DOMAIN rs.options THEN Selected(A, rs, k)
            ELSE IF k = "blocked_players" THEN ValuesOf(A, k)
            ELSE FirstValue(A, k)]

\* Mutant: the values a session has are left as they are.
JoinedAttributesFirst(session, ticket, rs) ==
    LET A        == <<session, ticket>>
        selected == SelectedOptions(A, rs)
    IN  [k \in DOMAIN session \cup selected |->
            IF k \in DOMAIN session THEN session[k] ELSE Selected(A, rs, k)]

\* What a session's attributes become when a ticket joins it: selected values are
\* added, but the values of an option of type any are replaced if they must be
\* common to all.
JoinedAttributes(session, ticket, rs) ==
    LET A        == <<session, ticket>>
        selected == SelectedOptions(A, rs)
        Merged(o) == IF o \notin DOMAIN session \/ (rs.anyCommon /\ rs.options[o] = "any")
                     THEN Selected(A, rs, o)
                     ELSE session[o] \cup Selected(A, rs, o)
    IN  [k \in DOMAIN session \cup selected |-> IF k \in selected THEN Merged(k) ELSE session[k]]
=============================================================================
