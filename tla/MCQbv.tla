------------------------------- MODULE MCQbv --------------------------------
(* Model checking of Qbv and QbvTime: two ports with gates and two         *)
(* domains; the 64 and 32 bit widths are shrunk to 1024 and 64, so that    *)
(* differences and products wrap within the times that are tried.  A       *)
(* behaviour makes one call of the arithmetic, or runs the handlers.       *)
EXTENDS Qbv, QbvTime

MCInit == Init /\ TimeInit
MCNext == Next /\ call = NoCall /\ UNCHANGED call
MCSpec == MCInit /\ [][MCNext]_<<vars, call>>
=============================================================================
