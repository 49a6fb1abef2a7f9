------------------------------ MODULE MatchFeed ------------------------------
(***************************************************************************)
(* What one MakeMatches or BackfillMatches call promises its client,       *)
(* whatever the goroutines behind it do: tickets come in, groups made of   *)
(* tickets that came in go out, no ticket goes out in two groups, and      *)
(* nothing goes out once the call is over.  For MakeMatches a group is a match, for     *)
(* BackfillMatches it is a backfill ticket with the tickets added to it.   *)
(* MatchStream and BackfillStream implement this specification.            *)
(***************************************************************************)
EXTENDS Naturals, Sequences

CONSTANTS Tickets,      \* the ticket messages a client may send
          Repeats       \* whether a group may go out again, as it is

VARIABLES received,     \* tickets the server took off the stream
          delivered,    \* groups sent back, in order; a group is a set of tickets
          over          \* the call is over

feedVars == <<received, delivered, over>>

FeedTypeOK ==
    /\ received \subseteq Tickets
    /\ delivered \in Seq(SUBSET Tickets)
    /\ over \in BOOLEAN

FeedInit ==
    /\ received = {}
    /\ delivered = <<>>
    /\ over = FALSE

Take(t) ==
    /\ t \notin received
    /\ received' = received \cup {t}
    /\ UNCHANGED <<delivered, over>>

Give(m) ==
    /\ ~over
    /\ m # {}
    /\ m \subseteq received
    /\ \A k \in 1 .. Len(delivered) : delivered[k] \cap m = {} \/ (Repeats /\ delivered[k] = m)
    /\ delivered' = Append(delivered, m)
    /\ UNCHANGED <<received, over>>

End ==
    /\ ~over
    /\ over' = TRUE
    /\ UNCHANGED <<received, delivered>>

FeedNext ==
    \/ \E t \in Tickets : Take(t)
    \/ \E m \in SUBSET Tickets : Give(m)
    \/ End

FeedSpec == FeedInit /\ [][FeedNext]_feedVars
=============================================================================
