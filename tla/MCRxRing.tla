------------------------------ MODULE MCRxRing ------------------------------
(* Model checking of RxRing: two descriptors per list, so that a list ends *)
(* while a poll with the smallest useful budget is still under way, and    *)
(* enough packets for the engine to lap the ring.                          *)
EXTENDS RxRing
=============================================================================
