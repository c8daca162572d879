------------------------------ MODULE MCTxRing ------------------------------
(* Model checking of TxRing.  A list of two descriptors is the smallest on *)
(* which a run of several packets, a partly and a completely filled list   *)
(* all occur; the packet bound lets both lists be reused.                  *)
EXTENDS TxRing
=============================================================================
