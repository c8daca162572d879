------------------------------- MODULE DsaVlan -------------------------------
(***************************************************************************)
(* VLANs of a switch: what DSA/user.c, DSA/port.c and DSA/switch.c ask of  *)
(* the dsa_loop driver when 802.1Q uppers come and go, when ports join and *)
(* leave a bridge, when VLANs are configured on the bridge and its ports,  *)
(* and when the bridge becomes VLAN-aware or stops being so.               *)
(*                                                                         *)
(* All of it runs under rtnl, so an operation is one step; inside a step   *)
(* the calls are made in the code's order and stop where the code stops.   *)
(* "sw" is what they change: a call takes it and returns its result, a     *)
(* record of the new value and of whether the call succeeded.              *)
(*                                                                         *)
(* The bridge has one switch under it and no foreign interfaces.  Memory   *)
(* allocation succeeds; a VLAN is refused only when it is not in the       *)
(* driver's table.  The bridge's own VLANs are taken from the table.       *)
(***************************************************************************)
EXTENDS Naturals, Sequences, FiniteSets, SequencesExt

CONSTANTS
    VlanPorts,    \* the switch's user ports
    Cpu,          \* its CPU port
    Vids,         \* VLAN identifiers in use
    Table,        \* those below DSA_LOOP_VLANS
    MaxUppers,    \* bound: 802.1Q uppers of a port
    MaxRenotify   \* bound: bridge VLANs notified again after a change

ASSUME DsaVlanAssumption ==
    /\ Cpu \notin VlanPorts
    /\ Table \subseteq Vids
    /\ IsFiniteSet(VlanPorts) /\ IsFiniteSet(Vids)
    /\ MaxUppers \in Nat /\ MaxRenotify \in Nat

VARIABLES
    sw,         \* the switch, see SwitchState
    uppers,     \* 802.1Q uppers of every user port, in the order they came
    inBr,       \* user ports in the bridge
    aware,      \* br_vlan_enabled
    pv,         \* bridge VLANs of every user port
    bv,         \* VLANs of the bridge itself
    renotified, \* number of notifications with vlan->changed
    split,      \* history: a bridge change reached only some of its ports
    wiped       \* history: <<port, vid>> deleted on behalf of a refused upper

vlanVars == <<sw, uppers, inBr, aware, pv, bv, renotified, split, wiped>>

(* mem: ports in each VLAN of ps->vlans.  ref: refcount of a VLAN in the CPU *)
(* port's dp->vlans, 0 when not listed.  cond: references on the conduit's   *)
(* VLAN filter.  filt: dp->vlan_filtering.  feat: the interface filters in   *)
(* hardware.  oob: how a VLAN outside ps->vlans was deleted.                 *)
SwitchState ==
    [mem  : [Table -> SUBSET (VlanPorts \cup {Cpu})],
     ref  : [Vids -> Nat],
     cond : [Vids -> Nat],
     filt : SUBSET VlanPorts,
     feat : SUBSET VlanPorts,
     oob  : {"never", "undo", "other"}]

VlanTypeOK ==
    /\ sw \in SwitchState
    /\ \A p \in VlanPorts : uppers[p] \in Seq(Vids) /\ IsInjective(uppers[p])
    /\ inBr \subseteq VlanPorts
    /\ aware \in BOOLEAN /\ split \in BOOLEAN
    /\ pv \in [VlanPorts -> SUBSET Vids]
    /\ bv \subseteq Table
    /\ renotified \in 0 .. MaxRenotify
    /\ wiped \subseteq VlanPorts \X Vids

VlanInit ==
    /\ sw = [mem  |-> [v \in Table |-> {}], ref |-> [v \in Vids |-> 0],
             cond |-> [v \in Vids |-> 0], filt |-> {}, feat |-> {}, oob |-> "never"]
    /\ uppers = [p \in VlanPorts |-> << >>]
    /\ inBr = {} /\ aware = FALSE
    /\ pv = [p \in VlanPorts |-> {}] /\ bv = {}
    /\ renotified = 0 /\ split = FALSE /\ wiped = {}

Ok(s)   == [s |-> s, ok |-> TRUE]
Err(s)  == [s |-> s, ok |-> FALSE]
(* The call Op on each element of seq, as long as the calls succeed. *)
Each(Op(_, _), s, seq) ==
    LET run[n \in 0 .. Len(seq)] ==
            IF n = 0 THEN Ok(s)
            ELSE LET r == run[n - 1] IN IF r.ok THEN Op(r.s, seq[n]) ELSE r
    IN  run[Len(seq)]

Uppers(p) == ToSet(uppers[p])
(* br_vlan_get_info finds the VLANs of the bridge and of any of its ports. *)
BridgeHas(v) == v \in bv \/ \E p \in inBr : v \in pv[p]

-----------------------------------------------------------------------------
(* The driver.                                                              *)

dsa_loop_port_vlan_add(s, p, v) ==
    IF v \in Table THEN Ok([s EXCEPT !.mem[v] = @ \cup {p}]) ELSE Err(s)

(* The deletion has no range check; "how" says on whose behalf it is made. *)
dsa_loop_port_vlan_del(s, p, v, how) ==
    IF v \in Table THEN Ok([s EXCEPT !.mem[v] = @ \ {p}]) ELSE Ok([s EXCEPT !.oob = how])

-----------------------------------------------------------------------------
(* switch.c: user ports are not counted, the CPU port is.                   *)

(* dsa_port_do_vlan_add on the CPU port, and vlan_vid_add on the conduit. *)
dsa_port_host_vlan_add(s, v, changed) ==
    LET n == [s EXCEPT !.cond[v] = @ + 1]
        r == dsa_loop_port_vlan_add(n, Cpu, v)
    IN  CASE changed      -> Ok(n)
          [] ~changed /\ s.ref[v] > 0 -> Ok([n EXCEPT !.ref[v] = @ + 1])
          [] OTHER -> IF r.ok THEN Ok([r.s EXCEPT !.ref[v] = 1]) ELSE Err(s)

(* Mutant: the first deletion takes the VLAN from everybody. *)
HostDelUncounted(s, v, how) ==
    IF s.ref[v] = 0 THEN Err(s)
    ELSE dsa_loop_port_vlan_del([s EXCEPT !.ref[v] = 0, !.cond[v] = @ - 1], Cpu, v, how)

dsa_port_host_vlan_del(s, v, how) ==
    LET n == [s EXCEPT !.ref[v] = @ - 1, !.cond[v] = IF @ > 0 THEN @ - 1 ELSE 0]
    IN  CASE s.ref[v] = 0 -> Err(s)
          [] s.ref[v] = 1 -> dsa_loop_port_vlan_del(n, Cpu, v, how)
          [] OTHER        -> Ok(n)

-----------------------------------------------------------------------------
(* user.c: hardware filtering of 802.1Q uppers.                             *)

dsa_user_vlan_rx_add_vid(s, p, v) ==
    LET r == dsa_loop_port_vlan_add(s, p, v)
    IN  IF r.ok THEN dsa_port_host_vlan_add(r.s, v, FALSE) ELSE r

(* Mutant: only the CPU port forgets the VLAN. *)
KillHostOnly(s, p, v, how) == dsa_port_host_vlan_del(s, v, how)

dsa_user_vlan_rx_kill_vid(s, p, v, how) ==
    dsa_port_host_vlan_del(dsa_loop_port_vlan_del(s, p, v, how).s, v, how)

Restore(s, p) ==
    Each(LAMBDA t, v : dsa_user_vlan_rx_add_vid(t, p, v), s, uppers[p])

Clear(s, p, how) ==
    Each(LAMBDA t, v : dsa_user_vlan_rx_kill_vid(t, p, v, how), s, uppers[p])

dsa_user_manage_vlan_filtering(s, p, on) ==
    LET restored == Restore(s, p)
        cleared  == Clear(s, p, "other")
    IN  IF on
        THEN IF restored.ok THEN Ok([restored.s EXCEPT !.feat = @ \cup {p}])
             ELSE Err([Clear(restored.s, p, "undo").s EXCEPT !.feat = @ \ {p}])
        ELSE IF cleared.ok THEN Ok([cleared.s EXCEPT !.feat = @ \ {p}])
             ELSE cleared

(* Mutant: filtering is turned on without a look at the uppers. *)
FilteringUnchecked(s, p, on) ==
    LET n == [s EXCEPT !.filt = IF on THEN @ \cup {p} ELSE @ \ {p}]
        r == dsa_user_manage_vlan_filtering(n, p, on)
    IN  CASE (p \in s.filt) = on -> Ok(s)
          [] OTHER -> IF r.ok THEN r ELSE Err([r.s EXCEPT !.filt = s.filt])

dsa_port_vlan_filtering(s, p, on) ==
    LET n == [s EXCEPT !.filt = IF on THEN @ \cup {p} ELSE @ \ {p}]
        r == dsa_user_manage_vlan_filtering(n, p, on)
        denied == on /\ \E v \in Uppers(p) : BridgeHas(v)
    IN  CASE denied -> Err(s)
          [] ~denied /\ (p \in s.filt) = on -> Ok(s)
          [] OTHER -> IF r.ok THEN r ELSE Err([r.s EXCEPT !.filt = s.filt])

-----------------------------------------------------------------------------
(* Operations.                                                              *)

(* An 802.1Q upper is added.  The VLAN core programs the VLAN first and asks *)
(* dsa_user_check_8021q_upper then; when that refuses it deletes the VLAN.   *)
AddUpper(p, v) ==
    LET refused == p \in inBr /\ aware /\ BridgeHas(v)
        added   == IF p \in sw.feat THEN dsa_user_vlan_rx_add_vid(sw, p, v) ELSE Ok(sw)
        killed  == IF p \in sw.feat
                   THEN dsa_user_vlan_rx_kill_vid(added.s, p, v, "other").s ELSE sw
    IN  /\ v \notin Uppers(p) /\ Len(uppers[p]) < MaxUppers
        /\ \/ /\ added.ok /\ ~refused
              /\ sw' = added.s
              /\ uppers' = [uppers EXCEPT ![p] = Append(@, v)]
              /\ UNCHANGED wiped
           \/ /\ added.ok /\ refused
              /\ sw' = killed
              /\ wiped' = wiped \cup (IF v \in pv[p] THEN {<<p, v>>} ELSE {})
              /\ UNCHANGED uppers
        /\ UNCHANGED <<inBr, aware, pv, bv, renotified, split>>

DelUpper(p, v) ==
    /\ \E n \in DOMAIN uppers[p] :
        uppers[p][n] = v /\ uppers' = [uppers EXCEPT ![p] = RemoveAt(@, n)]
    /\ sw' = IF p \in sw.feat THEN dsa_user_vlan_rx_kill_vid(sw, p, v, "other").s ELSE sw
    /\ UNCHANGED <<inBr, aware, pv, bv, renotified, split, wiped>>

(* The bridge replays its own VLANs to a port that joins, and takes them     *)
(* back from one that leaves.                                                *)
Replay(s)   == Each(LAMBDA t, v : dsa_port_host_vlan_add(t, v, FALSE), s, SetToSeq(bv))
Unreplay(s) == Each(LAMBDA t, v : dsa_port_host_vlan_del(t, v, "other"), s, SetToSeq(bv))

(* dsa_port_bridge_join: offload, then dsa_port_switchdev_sync_attrs. *)
Join(p) ==
    LET r == dsa_port_vlan_filtering(Replay(sw).s, p, aware)
    IN  /\ p \notin inBr
        /\ sw' = IF r.ok THEN r.s ELSE Unreplay(r.s).s
        /\ inBr' = IF r.ok THEN inBr \cup {p} ELSE inBr
        /\ UNCHANGED <<uppers, aware, pv, bv, renotified, split, wiped>>

(* The bridge flushes the port's VLANs and unoffloads the port, and          *)
(* dsa_port_bridge_leave resets the filtering of an aware bridge's port.     *)
dsa_port_reset_vlan_filtering(s, p) ==
    IF aware THEN dsa_port_vlan_filtering(s, p, FALSE).s ELSE s

Flush(s, p) ==
    Each(LAMBDA t, v : dsa_loop_port_vlan_del(t, p, v, "other"), s, SetToSeq(pv[p]))

Leave(p) ==
    /\ p \in inBr
    /\ sw' = dsa_port_reset_vlan_filtering(Unreplay(Flush(sw, p).s).s, p)
    /\ inBr' = inBr \ {p}
    /\ pv' = [pv EXCEPT ![p] = {}]
    /\ wiped' = {w \in wiped : w[1] # p}
    /\ UNCHANGED <<uppers, aware, bv, renotified, split>>

(* A VLAN of a port is added, or its flags change. *)
dsa_user_vlan_add(p, v) ==
    LET r == dsa_loop_port_vlan_add(sw, p, v)
    IN  /\ p \in inBr
        /\ ~(aware /\ v \in Uppers(p))
        /\ r.ok
        /\ sw' = r.s
        /\ pv' = [pv EXCEPT ![p] = @ \cup {v}]
        /\ wiped' = wiped \ {<<p, v>>}
        /\ UNCHANGED <<uppers, inBr, aware, bv, renotified, split>>

dsa_user_vlan_del(p, v) ==
    /\ p \in inBr /\ v \in pv[p]
    /\ sw' = dsa_loop_port_vlan_del(sw, p, v, "other").s
    /\ pv' = [pv EXCEPT ![p] = @ \ {v}]
    /\ wiped' = wiped \ {<<p, v>>}
    /\ UNCHANGED <<uppers, inBr, aware, bv, renotified, split>>

(* A VLAN of the bridge itself is notified to every port below it; one whose *)
(* flags have changed is notified again, as "changed".                       *)
HostAddAll(s, v, changed) ==
    Each(LAMBDA t, p : dsa_port_host_vlan_add(t, v, changed), s, SetToSeq(inBr))
HostDelAll(s, v) ==
    Each(LAMBDA t, p : dsa_port_host_vlan_del(t, v, "other"), s, SetToSeq(inBr))

dsa_user_host_vlan_add(v) ==
    LET changed == v \in bv
    IN  /\ changed => renotified < MaxRenotify
        /\ sw' = HostAddAll(sw, v, changed).s
        /\ bv' = bv \cup {v}
        /\ renotified' = IF changed THEN renotified + 1 ELSE renotified
        /\ UNCHANGED <<uppers, inBr, aware, pv, split, wiped>>

dsa_user_host_vlan_del(v) ==
    /\ v \in bv
    /\ sw' = HostDelAll(sw, v).s
    /\ bv' = bv \ {v}
    /\ UNCHANGED <<uppers, inBr, aware, pv, renotified, split, wiped>>

(* The bridge's vlan_filtering is toggled: its ports are asked one after     *)
(* another, in some order, until one refuses, and then the bridge stays as   *)
(* it was.                                                                   *)
FilterAll(s, order) ==
    Each(LAMBDA t, p : dsa_port_vlan_filtering(t, p, ~aware), s, order)

Toggle(order) ==
    LET r == FilterAll(sw, order)
    IN  /\ sw' = r.s
        /\ aware' = IF r.ok THEN ~aware ELSE aware
        /\ split' = (split \/ (~r.ok /\ r.s.filt # sw.filt))
        /\ UNCHANGED <<uppers, inBr, pv, bv, renotified, wiped>>

VlanNext ==
    \/ \E p \in VlanPorts, v \in Vids :
          \/ AddUpper(p, v) \/ DelUpper(p, v)
          \/ dsa_user_vlan_add(p, v) \/ dsa_user_vlan_del(p, v)
    \/ \E p \in VlanPorts : Join(p) \/ Leave(p)
    \/ \E v \in Table : dsa_user_host_vlan_add(v) \/ dsa_user_host_vlan_del(v)
    \/ \E order \in SetToSeqs(inBr) : Toggle(order)

VlanSpec == VlanInit /\ [][VlanNext]_vlanVars

-----------------------------------------------------------------------------
(* Properties.                                                              *)

(***************************************************************************)
(* The CPU port's reference count of a VLAN is the number of ports that    *)
(* want it, for a hardware filtered upper or for the bridge: so the WARN   *)
(* in dsa_switch_release_ports on a VLAN list that is not empty stays      *)
(* quiet, whatever refused or partly applied operations came before.  The  *)
(* conduit's VLAN filter admits a VLAN at least as often: no deletion      *)
(* takes away the reference of another port.                               *)
(***************************************************************************)
HostRefsBalanced ==
    /\ VlanTypeOK
    /\ \A v \in Vids :
        /\ sw.ref[v] = Cardinality({p \in sw.feat : v \in Uppers(p)})
                       + (IF v \in bv THEN Cardinality(inBr) ELSE 0)
        /\ v \in Table => (Cpu \in sw.mem[v] <=> sw.ref[v] > 0)
        /\ sw.cond[v] >= sw.ref[v]

(***************************************************************************)
(* The switch's table holds what the comment on                            *)
(* dsa_user_manage_vlan_filtering promises of a port: its bridge VLANs,    *)
(* and its 8021q uppers when it is VLAN-aware.  Left out are the VLANs of  *)
(* a refused upper and what follows a change that reached only some ports. *)
(* dsa_loop_port_vlan_del, which does not check the VID, is called for one *)
(* outside the table in one situation only: undoing uppers that            *)
(* dsa_user_manage_vlan_filtering could not restore.                       *)
(***************************************************************************)
TableMatches ==
    /\ sw.oob # "other"
    /\ ~split => \A p \in VlanPorts, v \in Table :
        <<p, v>> \notin wiped =>
            (p \in sw.mem[v] <=> v \in pv[p] \/ (p \in sw.feat /\ v \in Uppers(p)))

(***************************************************************************)
(* Under a VLAN-aware bridge no VID is both a bridge VLAN of a port and an *)
(* 8021q upper of it, in whatever order bridge, VLANs and uppers came: the *)
(* three checks (a VLAN added, an upper added, filtering turned on) leave  *)
(* no gap.                                                                 *)
(***************************************************************************)
NoSharedVid ==
    aware => \A p \in inBr : Uppers(p) \cap pv[p] = {}
=============================================================================
