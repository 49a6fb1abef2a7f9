-------------------------- MODULE CandidateSearch --------------------------
(***************************************************************************)
(* The search for candidates (manualSearch.go): the filters a ticket has   *)
(* to pass for a pivot or for a session.  Pivots and sessions are          *)
(* "seekers": records with attributes and values (the averages of their    *)
(* players' numeric attributes).  The tickets accepted so far matter too:  *)
(* with each one, some filters become narrower.                            *)
(*                                                                         *)
(* Of a rule set, options maps the match options to "all", "any", "unique" *)
(* or "disable"; refersOptions is MatchOptionsReferredForBackfill, block   *)
(* the blocked player option ("cannot", "other team", "can" or "" for the  *)
(* first); anyCommon is the flag FLAG_ANY_MATCH_OPTION_ALL_COMMON.  No     *)
(* option is listed twice and no list of values has a value twice; a list  *)
(* of options that is there has an option.  An attribute's value is the    *)
(* set of what is listed: one value and a list of it are the same.  A      *)
(* request has a value for every attribute a rule is about, because        *)
(* toMatchRequest gives it one, and no additional criteria.                *)
(***************************************************************************)
EXTENDS RuleFlexing, RegionSearch

-----------------------------------------------------------------------------
(* Distance.                                                               *)

\* Two averages are no further apart than the reference.
Within(v, w, reference) ==
    LET apart == v.sum * w.over - w.sum * v.over
    IN  /\ apart <= reference * v.over * w.over
        /\ -apart <= reference * v.over * w.over

\* getFilterByDistance: the attributes with a distance rule.
Distances(rs) == {a \in DOMAIN rs.rules : rs.rules[a].criteria = "distance"}

\* Mutant: the ticket's own distance is not looked at.
MatchByDistanceOneWay(seeker, active, t, rs, now) ==
    \A a \in Distances(active) : Within(t.values[a], seeker.values[a], active.rules[a].reference)

\* matchByDistance: within the distance the seeker has been flexed to, and within
\* the ticket's own, flexed by its own age.
MatchByDistance(seeker, active, t, rs, now) ==
    LET own == ApplyRuleFlexing(rs, t.createdAt, now)
    IN  \A a \in Distances(active) :
           /\ Within(t.values[a], seeker.values[a], active.rules[a].reference)
           /\ a \in Distances(own) =>
                 Within(t.values[a], seeker.values[a], own.rules[a].reference)

-----------------------------------------------------------------------------
(* Match options and cross-play.                                           *)

\* What is left of a set of values when only those common to all tickets count.
Common(values, S, key) == {v \in values : \A q \in S : v \in Values(q.attributes, key)}

\* getFilterByCrossPlay: option cross_platform is of type any, and the seeker
\* has a platform it is on.
CrossPlays(seeker, rs) ==
    /\ "cross_platform" \in DOMAIN rs.options
    /\ rs.options["cross_platform"] = "any"
    /\ Values(seeker.attributes, "current_platform") # {}

\* Mutant: only the ticket's wishes are looked at.
MatchByAnyCrossPlayOneWay(seeker, rs, t, accepted) ==
    CrossPlays(seeker, rs) =>
        LET on == Values(seeker.attributes, "current_platform")
        IN  /\ Values(t.attributes, "current_platform") # {}
            /\ on \subseteq Values(t.attributes, "cross_platform")

\* matchByAnyCrossPlay: everyone wants to play with everyone else's platform.
\* Unless values must be common to all, tickets are not compared to each other.
MatchByAnyCrossPlay(seeker, rs, t, accepted) ==
    CrossPlays(seeker, rs) =>
        LET key    == "current_platform"
            before == IF rs.anyCommon THEN accepted ELSE {}
            on     == Values(seeker.attributes, key) \cup UNION {Values(q.attributes, key) : q \in before}
            wanted == Common(Values(seeker.attributes, "cross_platform"), before, "cross_platform")
            wants  == Values(t.attributes, "cross_platform")
        IN  /\ Values(t.attributes, key) # {}
            /\ on \subseteq wants
            /\ Values(t.attributes, key) \subseteq wanted
            /\ rs.anyCommon => wanted \cap wants # {}

\* getFilterByMatchOption: the options the seeker itself has.
OptionsOf(seeker, rs) ==
    {o \in DOMAIN rs.options \cap DOMAIN seeker.attributes :
        /\ rs.options[o] # "disable"
        /\ o = "cross_platform" => ~CrossPlays(seeker, rs)}

\* matchByMatchOption: the ticket has each of them, and the values agree in the
\* way of the option's type.
MatchByMatchOption(seeker, rs, t, accepted) ==
    \A o \in OptionsOf(seeker, rs) :
        LET values == seeker.attributes[o]
            its    == Values(t.attributes, o)
            left   == IF rs.anyCommon THEN Common(values, accepted, o) ELSE values
        IN  /\ o \in DOMAIN t.attributes
            /\ rs.options[o] = "any"    => left \cap its # {}
            /\ rs.options[o] = "all"    => values \subseteq its
            /\ rs.options[o] = "unique" => values \cap its = {}

-----------------------------------------------------------------------------
(* Other attributes.                                                       *)

Unfiltered == {"match_attempt", "latencies", "member_attributes", "sub_game_mode",
               "blocked_players", "blocked_players_detail", "new_session_only", "role"}

\* getFilterByPartyAttribute: every other attribute of the seeker must match,
\* except cross_platform when there are no options at all (the code asks for a nil
\* list; that a list is not empty is assumed, see the header).
MustMatch(seeker, rs) ==
    DOMAIN seeker.attributes \ (DOMAIN rs.options \cup Unfiltered
        \cup (IF DOMAIN rs.options = {} THEN {"cross_platform"} ELSE {}))

Blank(attributes, key) == Values(attributes, key) \in {{}, {""}}

\* reflect.DeepEqual, of values that are sets: the order they are listed in is left out.
SameValue(seeker, t, key) ==
    key \in DOMAIN t.attributes /\ t.attributes[key] = seeker.attributes[key]

\* matchByPartyAttribute.  MatchOptionsReferredForBackfill turns this filter off
\* for new matches as well, except for the server and the client version.
MatchByPartyAttribute(seeker, rs, t) ==
    \A k \in MustMatch(seeker, rs) :
        \/ SameValue(seeker, t, k)
        \/ IF k \in {"server_name", "client_version"}
           THEN Blank(seeker.attributes, k) /\ Blank(t.attributes, k)
           ELSE rs.refersOptions \/ seeker.attributes[k] = {""}

RespectsBlocks(rs) == rs.block \notin {"other team", "can"}

\* matchByBlockedPlayers: nobody found before is blocked by the ticket or has
\* blocked one of its players.  `present` is who is there to begin with, `listed`
\* whom the seeker has blocked.
MatchByBlockedPlayers(present, listed, rs, t, accepted) ==
    RespectsBlocks(rs) =>
        /\ BlockedBy({t}) \cap (present \cup UsersOf(accepted)) = {}
        /\ UsersOf({t}) \cap (listed \cup BlockedBy(accepted)) = {}

-----------------------------------------------------------------------------
(* Regions.                                                                *)

\* Mutant: the ticket's regions are those it has a latency to.
MatchByRegionLatencyAll(regions, skip, rs, t, now) ==
    regions = {} \/ t.latency = <<>> \/ regions \subseteq RegionNames(t.latency)

\* matchByRegionLatency: the pivot's region is one the ticket may play in too.
\* `regions` holds the pivot's region, if there is one.
MatchByRegionLatency(regions, skip, rs, t, now) ==
    LET its == IF skip THEN t.latency ELSE FilterRegionByStep(t, rs, now)
    IN  regions = {} \/ its = <<>> \/ regions \subseteq RegionNames(its)

-----------------------------------------------------------------------------
(* The two searches.                                                       *)

\* SearchMatchTickets: whether the pivot takes a ticket after those accepted.
PivotAccepts(pivot, active, rs, regions, t, accepted, now) ==
    /\ t.id # pivot.id
    /\ UsersOf({t}) \cap UsersOf({pivot}) = {}
    /\ MatchByDistance(pivot, active, t, rs, now)
    /\ MatchByAnyCrossPlay(pivot, rs, t, accepted)
    /\ MatchByMatchOption(pivot, rs, t, accepted)
    /\ MatchByPartyAttribute(pivot, rs, t)
    /\ MatchByBlockedPlayers(UsersOf({pivot}), BlockedBy({pivot}), rs, t, accepted)
    /\ MatchByRegionLatency(regions, SkipFilterCandidateRegion(pivot, rs, now), rs, t, now)

\* SearchMatchTicketsBySession: whether a session takes it.  A session is a seeker
\* with ids, parties, region, serverName and clientVersion ("" for none).
SessionAccepts(session, active, rs, t, accepted, now) ==
    /\ t.id \notin {p.id : p \in session.parties}
    /\ t.excluded \cap session.ids = {}
    /\ UsersOf({t}) \cap UsersOf(session.parties) = {}
    /\ session.region # "" => session.region \in RegionNames(FilterRegionByStep(t, rs, now))
    /\ MatchByDistance(session, active, t, rs, now)
    /\ MatchByAnyCrossPlay(session, rs, t, accepted)
    /\ MatchByMatchOption(session, rs, t, accepted)
    /\ MatchByPartyAttribute(session, rs, t)
    /\ MatchByBlockedPlayers(UsersOf(session.parties), BlockedBy({session}), rs, t, accepted)
    /\ session.serverName # "" => Values(t.attributes, "server_name") = {session.serverName}
    /\ session.clientVersion # "" => Values(t.attributes, "client_version") = {session.clientVersion}
=============================================================================
