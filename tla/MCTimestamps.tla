---------------------------- MODULE MCTimestamps ----------------------------
(* Model checking of Timestamps: queues of two items, so that they wrap    *)
(* and evict, and more frames than a queue holds.                          *)
EXTENDS Timestamps
=============================================================================
