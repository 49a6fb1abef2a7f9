-------------------------- MODULE MCBackfillStream --------------------------
(***************************************************************************)
(* TLC instances of BackfillStream.                                        *)
(***************************************************************************)
EXTENDS BackfillStream

\* With rounds of one: two rounds, and enough tickets to fill a collector.
TwoTickets == {"t1", "t2"}
TwoSessions == {"b1", "b2"}
OneSession == {"b1"}
OnlyNew == {"t2"}
AnySession == {}
Stray == {"junk"}
NoJunk == {}
=============================================================================
