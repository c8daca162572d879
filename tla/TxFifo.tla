------------------------------- MODULE TxFifo -------------------------------
(***************************************************************************)
(* What a transmit channel promises the network stack: packets, numbered   *)
(* by their acceptance, leave in that order, each at most once.  A packet  *)
(* that has left was sent or was lost to a DMA error; at most Capacity     *)
(* packets are on the way.                                                 *)
(***************************************************************************)
EXTENDS Integers, Sequences

CONSTANTS Channels, Capacity

VARIABLES
  accepted,  \* packets taken from the stack
  departed,  \* packets that are no longer on the ring
  wire,      \* packets sent, in the order they were sent
  lost       \* packets lost to an error

vars == <<accepted, departed, wire, lost>>

Init ==
  /\ accepted = [c \in Channels |-> 0]
  /\ departed = [c \in Channels |-> 0]
  /\ wire = [c \in Channels |-> <<>>]
  /\ lost = [c \in Channels |-> {}]

Accept(c) ==
  /\ accepted[c] - departed[c] < Capacity
  /\ accepted' = [accepted EXCEPT ![c] = @ + 1]
  /\ UNCHANGED <<departed, wire, lost>>

(* The oldest packet still on the ring is sent. *)
Send(c) ==
  /\ departed[c] < accepted[c]
  /\ departed' = [departed EXCEPT ![c] = @ + 1]
  /\ wire' = [wire EXCEPT ![c] = Append(@, departed[c] + 1)]
  /\ UNCHANGED <<accepted, lost>>

(* An error loses a run of the oldest packets. *)
Lose(c) ==
  \E n \in 1 .. accepted[c] - departed[c] :
    /\ departed' = [departed EXCEPT ![c] = @ + n]
    /\ lost' = [lost EXCEPT ![c] = @ \cup departed[c] + 1 .. departed[c] + n]
    /\ UNCHANGED <<accepted, wire>>

Next == \E c \in Channels : Accept(c) \/ Send(c) \/ Lose(c)

Spec == Init /\ [][Next]_vars
=============================================================================
