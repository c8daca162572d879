------------------------------ MODULE DsaBridge ------------------------------
(***************************************************************************)
(* Spanning tree states of the user ports as their interfaces go up and    *)
(* down and join and leave bridges (DSA/port.c, DSA/user.c, DSA/switch.c). *)
(*                                                                         *)
(* The bridge is external.  It keeps its own state for a port, changes it  *)
(* from timers without the rtnl lock, and so only queues the news for the  *)
(* port; the queue is worked off under the lock, and emptied when a port   *)
(* is taken out of its bridge.  Every other step holds the lock.           *)
(***************************************************************************)
EXTENDS Naturals, Sequences, FiniteSets

CONSTANTS
    BrPorts,        \* the user ports
    Bridges,
    MstBridges,     \* those with multiple spanning trees, not offloaded
    NoBridge,
    MaxPend         \* bound: queued changes of state

ASSUME DsaBridgeAssumption ==
    /\ IsFiniteSet(BrPorts) /\ MaxPend \in Nat
    /\ MstBridges \subseteq Bridges /\ NoBridge \notin Bridges

VARIABLES
    dp,     \* [up, stp, bridge]: the port; bridge is dp->bridge
    member, \* [of, state]: the bridge it belongs to, and the state that has
    pend,   \* queued changes of state: <<port, state>>
    shared, \* refcount of the dsa_bridge of every bridge, 0 when there is none
    refused \* history: ports that a join refused and that stayed open since

bridgeVars == <<dp, member, pend, shared, refused>>

StpStates == {"disabled", "blocking", "learning", "forwarding"}
Standalone == [of |-> NoBridge, state |-> "disabled"]

BridgeInit ==
    /\ dp = [p \in BrPorts |-> [up |-> FALSE, stp |-> "disabled", bridge |-> NoBridge]]
    /\ member = [p \in BrPorts |-> Standalone]
    /\ pend = <<>> /\ shared = [b \in Bridges |-> 0] /\ refused = {}

dsa_port_set_state(d, s) == [d EXCEPT !.stp = s]

-----------------------------------------------------------------------------
(* Opening and closing the interface                                       *)

(* Mutant: the port is opened for traffic whether or not a bridge has it. *)
EnableForwards(p) ==
    /\ ~dp[p].up
    /\ dp' = [dp EXCEPT ![p] = dsa_port_set_state([@ EXCEPT !.up = TRUE], "forwarding")]
    /\ UNCHANGED <<member, pend, shared, refused>>

dsa_port_enable_rt(p) ==
    LET d == [dp[p] EXCEPT !.up = TRUE]
    IN  /\ ~dp[p].up
        /\ dp' = [dp EXCEPT ![p] =
               IF d.bridge = NoBridge THEN dsa_port_set_state(d, "forwarding") ELSE d]
        /\ UNCHANGED <<member, pend, shared, refused>>

(* The bridge hears of it, and disables its side. *)
dsa_port_disable_rt(p) ==
    LET d == [dp[p] EXCEPT !.up = FALSE]
    IN  /\ dp[p].up /\ Len(pend) < MaxPend
        /\ dp' = [dp EXCEPT ![p] =
               IF d.bridge = NoBridge THEN dsa_port_set_state(d, "disabled") ELSE d]
        /\ member' = [member EXCEPT ![p].state = "disabled"]
        /\ pend' = IF member[p].state = "disabled" THEN pend ELSE Append(pend, <<p, "disabled">>)
        /\ refused' = refused \ {p}
        /\ UNCHANGED shared

-----------------------------------------------------------------------------
(* The bridge's news                                                       *)

StpTimer(p, s) ==
    /\ member[p].of # NoBridge /\ dp[p].up /\ s # member[p].state /\ Len(pend) < MaxPend
    /\ member' = [member EXCEPT ![p].state = s]
    /\ pend' = Append(pend, <<p, s>>)
    /\ UNCHANGED <<dp, shared, refused>>

(* SWITCHDEV_ATTR_ID_PORT_STP_STATE is for ports that offload a bridge. *)
dsa_user_port_attr_set(d, item, p) ==
    IF item[1] = p /\ d.bridge # NoBridge THEN dsa_port_set_state(d, item[2]) ELSE d

(* The state that the newest item of a queue has for port p, or s. *)
Latest(queue, p, s) ==
    LET mine == {k \in 1 .. Len(queue) : queue[k][1] = p}
    IN  IF mine = {} THEN s ELSE queue[CHOOSE k \in mine : \A l \in mine : l <= k][2]

(* A whole queue is worked off: the newest item of a port is what stays. *)
AttrSetAll(d, queue, p) ==
    IF d.bridge # NoBridge THEN dsa_port_set_state(d, Latest(queue, p, d.stp)) ELSE d

Deferred ==
    /\ pend # <<>> /\ pend' = Tail(pend)
    /\ dp' = [p \in BrPorts |-> dsa_user_port_attr_set(dp[p], Head(pend), p)]
    /\ UNCHANGED <<member, shared, refused>>

-----------------------------------------------------------------------------
(* Joining and leaving                                                     *)

(* dp->bridge is found in the tree or made, with a reference for the port; *)
(* the last one frees it.                                                  *)
dsa_port_bridge_create(d, b)  == [d EXCEPT !.bridge = b]
dsa_port_bridge_destroy(d)    == [d EXCEPT !.bridge = NoBridge]
refcount_inc(b) == [shared EXCEPT ![b] = @ + 1]
refcount_dec(b) == IF b = NoBridge THEN shared ELSE [shared EXCEPT ![b] = @ - 1]

(* The state the bridge has for a new port, before filtering is looked at *)
dsa_port_switchdev_sync_attrs(d) == dsa_port_set_state(d, "disabled")

(* A bridge that cannot be offloaded takes the port all the same.  A join  *)
(* that fails late, over VLAN filtering, is rolled back but for the state. *)
dsa_port_bridge_join(p, b) ==
    LET joined == dsa_port_switchdev_sync_attrs(dsa_port_bridge_create(dp[p], b))
    IN  /\ member[p].of = NoBridge
        /\ \/ /\ dp' = IF b \in MstBridges THEN dp ELSE [dp EXCEPT ![p] = joined]
              /\ member' = [member EXCEPT ![p].of = b]
              /\ shared' = IF b \in MstBridges THEN shared ELSE refcount_inc(b)
              /\ refused' = IF b \in MstBridges THEN refused ELSE refused \ {p}
           \/ /\ b \notin MstBridges
              /\ dp' = [dp EXCEPT ![p] = dsa_port_bridge_destroy(joined)]
              /\ refused' = refused \cup {p}
              /\ UNCHANGED <<member, shared>>
        /\ UNCHANGED pend

dsa_port_switchdev_unsync_attrs(d) == dsa_port_set_state(d, "forwarding")

dsa_port_bridge_leave(d) ==
    IF d.bridge = NoBridge THEN d
    ELSE dsa_port_switchdev_unsync_attrs(dsa_port_bridge_destroy(d))

(* The bridge disables the port, has its queue worked off, and lets go. *)
LeaveBridge(p) ==
    LET all == IF member[p].state = "disabled" THEN pend ELSE Append(pend, <<p, "disabled">>)
        heard(q) == AttrSetAll(dp[q], all, q)
    IN  /\ member[p].of # NoBridge
        /\ member' = [member EXCEPT ![p] = Standalone]
        /\ pend' = <<>>
        /\ dp' = [q \in BrPorts |-> IF q = p THEN dsa_port_bridge_leave(heard(q)) ELSE heard(q)]
        /\ shared' = refcount_dec(dp[p].bridge)
        /\ UNCHANGED refused

BridgeNext ==
    \/ \E p \in BrPorts :
          \/ dsa_port_enable_rt(p) \/ dsa_port_disable_rt(p) \/ LeaveBridge(p)
          \/ \E s \in StpStates : StpTimer(p, s)
          \/ \E b \in Bridges : dsa_port_bridge_join(p, b)
    \/ Deferred

BridgeSpec == BridgeInit /\ [][BridgeNext]_bridgeVars

-----------------------------------------------------------------------------
(* A port is in the state its bridge has for it, or will be once the news  *)
(* on its way has arrived, however it was opened, closed, moved between    *)
(* bridges and delayed; no news outlives the membership; a port on its own *)
(* forwards while it is open, except after a join that was refused late,   *)
(* whose rollback leaves it disabled until it is closed                    *)
(* (dsa_port_enable_rt, dsa_port_bridge_join, dsa_port_bridge_leave,       *)
(* dsa_user_port_attr_set).  Ports of one bridge share one dsa_bridge,     *)
(* with as many references as ports (dsa_port_bridge_create, _destroy).    *)
PortFollowsBridge ==
    /\ \A p \in BrPorts :
          /\ dp[p].bridge # NoBridge =>
                /\ dp[p].bridge = member[p].of
                /\ Latest(pend, p, dp[p].stp) = member[p].state
          /\ member[p].of = NoBridge => \A k \in 1 .. Len(pend) : pend[k][1] # p
          /\ dp[p].bridge = NoBridge /\ dp[p].up /\ p \notin refused => dp[p].stp = "forwarding"
    /\ \A b \in Bridges : shared[b] = Cardinality({p \in BrPorts : dp[p].bridge = b})
=============================================================================
