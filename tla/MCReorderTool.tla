---------------------------- MODULE MCReorderTool ----------------------------
(* Instances of ReorderTool for TLC.                                       *)
EXTENDS ReorderTool
SmallLengths == 0 .. 4
=============================================================================
