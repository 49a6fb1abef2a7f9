--------------------------- MODULE MCMatchStream ---------------------------
(***************************************************************************)
(* TLC instances of MatchStream.                                           *)
(***************************************************************************)
EXTENDS MatchStream

\* With chunks of two: one full chunk and a short one.
ThreeTickets == {"t1", "t2", "t3"}
\* One match for one worker, or one for each of two.
TwoTickets == {"t1", "t2"}
Stray == {"junk"}
NoJunk == {}
=============================================================================
