------------------------------- MODULE DsaTree -------------------------------
(***************************************************************************)
(* Registration of a card's switch with the DSA core (DSA/dsa2.c), the     *)
(* conduit and user interfaces that come and go with it (DSA/conduit.c,    *)
(* DSA/user.c), and the driver that asks for it (DSA/dsa_loop.c).          *)
(*                                                                         *)
(* Registering and unregistering are serialised by dsa2_mutex: "holder" is *)
(* the card whose call holds it and "pc" how far the call has come.  The   *)
(* rtnl lock is taken only around single steps of such a call, so what an  *)
(* administrator does to the interfaces happens between any two of them.   *)
(*                                                                         *)
(* Every card registers with platform data, as the only switch of tree 0.  *)
(* A card stands for its switch, its CPU port and its conduit interface;   *)
(* the routing table stays empty and the switch has no LAGs.               *)
(***************************************************************************)
EXTENDS Naturals, FiniteSets

CONSTANTS
    Cards,      \* cards bound, or to be bound, to the dsa_loop driver
    UserPorts,  \* the ports of a switch that have an interface name
    NoCard      \* no card

ASSUME DsaTreeAssumption == NoCard \notin Cards

VARIABLES
    holder,     \* the card whose call holds dsa2_mutex, or NoCard
    pc,         \* the next step of that call
    failed,     \* the call is a registration that is being rolled back
    bound,      \* cards whose registration succeeded
    refs,       \* dst->refcount, 0 when there is no tree
    treeSetup,  \* dst->setup
    tagged,     \* dst->tag_ops is set
    tagRefs,    \* references held on the tagging driver
    sw,         \* cards with ds->setup
    kind,       \* dp->type of every user port, "none" when it is not listed
    ready,      \* cards whose CPU port has dp->setup
    isSetup,    \* user ports with dp->setup
    cpuDp,      \* dp->cpu_dp of every user port, as the card of that CPU port
    netdev,     \* user ports whose interface is registered
    userUp,     \* user ports whose interface is up
    dsaPtr,     \* conduit->dsa_ptr: null, a CPU port, or one that was freed
    track,      \* what the CPU port and the switches know of the conduit
    conduit,    \* the conduit interface itself
    stray,      \* user ports that outlived a close of their conduit in a call
    abandoned,  \* history: cards whose dsa_conduit_setup failed halfway
    oops        \* "none", or how a notifier broke

mutexVars   == <<holder, pc, failed, bound>>
treeVars    == <<refs, treeSetup, tagged, tagRefs>>
portVars    == <<sw, kind, ready, isSetup, cpuDp>>
netVars     == <<netdev, userUp, stray>>
conduitVars == <<dsaPtr, track, conduit, abandoned, oops>>
vars        == <<mutexVars, treeVars, portVars, netVars, conduitVars>>

Ports == Cards \X UserPorts
Of(c) == {c} \X UserPorts

ConduitState == [up : BOOLEAN, qdisc : BOOLEAN, oper : BOOLEAN]
TrackState   == [admin : BOOLEAN, oper : BOOLEAN, heard : BOOLEAN]
Unknown      == [admin |-> FALSE, oper |-> FALSE, heard |-> FALSE]

TypeOK ==
    /\ holder \in Cards \cup {NoCard}
    /\ pc \in {"idle", "parse", "check", "switch", "shared", "users", "conduit",
               "done", "tdConduit", "tdUsers", "tdShared", "tdSwitch", "tdCpu",
               "release"}
    /\ failed \in BOOLEAN
    /\ bound \subseteq Cards
    /\ refs \in Nat /\ tagRefs \in Nat
    /\ treeSetup \in BOOLEAN /\ tagged \in BOOLEAN
    /\ sw \subseteq Cards /\ ready \subseteq Cards
    /\ kind \in [Ports -> {"none", "unused", "user"}]
    /\ isSetup \subseteq Ports
    /\ cpuDp \in [Ports -> Cards \cup {NoCard}]
    /\ netdev \subseteq Ports /\ userUp \subseteq Ports /\ stray \subseteq Ports
    /\ dsaPtr \in [Cards -> {"null", "live", "stale"}]
    /\ track \in [Cards -> TrackState]
    /\ conduit \in [Cards -> ConduitState]
    /\ abandoned \subseteq Cards
    /\ oops \in {"none", "nullNetdev", "freedPort"}

Init ==
    /\ holder = NoCard /\ pc = "idle" /\ failed = FALSE /\ bound = {}
    /\ refs = 0 /\ treeSetup = FALSE /\ tagged = FALSE /\ tagRefs = 0
    /\ sw = {} /\ ready = {} /\ isSetup = {} /\ abandoned = {}
    /\ cpuDp = [p \in Ports |-> NoCard]
    /\ kind = [p \in Ports |-> "none"]
    /\ netdev = {} /\ userUp = {} /\ stray = {}
    /\ dsaPtr = [c \in Cards |-> "null"]
    /\ track = [c \in Cards |-> Unknown]
    /\ conduit = [c \in Cards |-> [up |-> FALSE, qdisc |-> FALSE, oper |-> TRUE]]
    /\ oops = "none"

-----------------------------------------------------------------------------
(* Tree references.  The last one frees the tree, and with it the tagger's. *)

(* Tree 0 is found, or allocated with its first reference. *)
dsa_tree_touch == refs' = refs + 1

dsa_tree_put(n) ==
    /\ refs' = refs - n
    /\ tagged' = (tagged /\ refs' > 0)
    /\ tagRefs' = IF tagged /\ refs' = 0 THEN tagRefs - 1 ELSE tagRefs

-----------------------------------------------------------------------------
(* What the tree remembers of a conduit.  Both operators take and return a  *)
(* TrackState: the switches are notified, and so hear, only of a change.    *)

Operational(t) == t.admin /\ t.oper

dsa_tree_conduit_admin_state_change(t, isUp) ==
    LET now == [t EXCEPT !.admin = isUp]
    IN  IF Operational(t) # Operational(now)
        THEN [now EXCEPT !.heard = Operational(now)] ELSE now

(* Mutant: a change of the operational state that is only recorded. *)
OperChangeUnheard(t, isUp) == [t EXCEPT !.oper = isUp]

dsa_tree_conduit_oper_state_change(t, isUp) ==
    LET now == [t EXCEPT !.oper = isUp]
    IN  IF Operational(t) # Operational(now)
        THEN [now EXCEPT !.heard = Operational(now)] ELSE now

(* NETDEV_UP and NETDEV_CHANGE of card c's conduit, now in state n. *)
ConduitChanged(c, n) ==
    LET oper == dsa_tree_conduit_oper_state_change(track[c], n.oper)
        both == dsa_tree_conduit_admin_state_change(oper, n.qdisc)
    IN  /\ conduit' = [conduit EXCEPT ![c] = n]
        /\ track' = IF dsaPtr[c] = "live" THEN [track EXCEPT ![c] = both] ELSE track
        /\ oops' = IF dsaPtr[c] = "stale" THEN "freedPort" ELSE oops

(* Mutant: closing every user port of the tree, whichever conduit it hangs on. *)
ClosesWithAny(c) == {p \in Ports : kind[p] = "user"}

(* NETDEV_GOING_DOWN closes the user ports whose cpu_dp is this conduit's. *)
ClosesWith(c) == {p \in Ports : kind[p] = "user" /\ cpuDp[p] = c}

ConduitGoingDown(c) ==
    /\ track' = IF dsaPtr[c] = "live"
                THEN [track EXCEPT ![c] = dsa_tree_conduit_admin_state_change(@, FALSE)]
                ELSE track
    /\ userUp' = IF dsaPtr[c] = "live" THEN userUp \ ClosesWith(c) ELSE userUp
    /\ stray' = (stray \cup (IF holder = NoCard THEN {} ELSE userUp \cap Of(c))) \cap userUp'
    /\ oops' = CASE dsaPtr[c] = "stale" -> "freedPort"
                 [] dsaPtr[c] = "live" /\ ~(ClosesWith(c) \subseteq netdev) -> "nullNetdev"
                 [] OTHER -> oops

-----------------------------------------------------------------------------
(* Registration: dsa_loop's probe calls dsa_register_switch.               *)

(* A step of dsa_tree_setup failed: roll back from this stage on. *)
Rollback(stage) == pc' = stage /\ failed' = TRUE

(* The driver's probe has its switch registered, beginning with the tree. *)
RegisterBegin(c) ==
    /\ holder = NoCard /\ c \notin bound
    /\ holder' = c /\ pc' = "parse"
    /\ dsa_tree_touch
    /\ UNCHANGED <<failed, bound, treeSetup, tagged, tagRefs, portVars, netVars, conduitVars>>

(* dsa_switch_parse lists the ports and gets the tagger, which is counted   *)
(* once per tree; dsa_switch_probe then takes its own reference on the tree.*)
ParseOk(c) ==
    /\ holder = c /\ pc = "parse"
    /\ kind' = [p \in Ports |-> IF p \in Of(c) THEN "user" ELSE kind[p]]
    /\ tagged' = TRUE
    /\ tagRefs' = IF tagged THEN tagRefs ELSE tagRefs + 1
    /\ track' = [track EXCEPT ![c] = Unknown]
    /\ refs' = refs + 1
    /\ pc' = "check"
    /\ UNCHANGED <<holder, failed, bound, treeSetup, sw, ready, isSetup, cpuDp, netVars,
                   dsaPtr, conduit, abandoned, oops>>

(* A port cannot be allocated, or the tagger is missing. *)
ParseFails(c) ==
    /\ holder = c /\ pc = "parse"
    /\ dsa_tree_put(1)
    /\ holder' = NoCard /\ pc' = "idle"
    /\ UNCHANGED <<failed, bound, treeSetup, portVars, netVars, conduitVars>>

(* dsa_tree_setup refuses a tree that is up; otherwise every user port gets *)
(* the switch's own CPU port.                                               *)
CheckTree(c) ==
    /\ holder = c /\ pc = "check"
    /\ \/ /\ treeSetup
          /\ Rollback("release")
          /\ UNCHANGED cpuDp
       \/ /\ ~treeSetup
          /\ pc' = "switch"
          /\ cpuDp' = [p \in Ports |-> IF kind[p] = "user" /\ cpuDp[p] = NoCard
                                        THEN p[1] ELSE cpuDp[p]]
          /\ UNCHANGED failed
    /\ UNCHANGED <<holder, bound, treeVars, sw, kind, ready, isSetup, netVars, conduitVars>>

(* dsa_switch_setup, which undoes its own steps when one of them fails. *)
SetupSwitch(c) ==
    /\ holder = c /\ pc = "switch"
    /\ \/ sw' = sw \cup {c} /\ pc' = "shared" /\ UNCHANGED failed
       \/ UNCHANGED sw /\ Rollback("tdCpu")
    /\ UNCHANGED <<holder, bound, treeVars, kind, ready, isSetup, cpuDp, netVars, conduitVars>>

(* dsa_port_setup of the CPU port, first of the tree's ports. *)
SetupShared(c) ==
    /\ holder = c /\ pc = "shared"
    /\ \/ ready' = ready \cup {c} /\ pc' = "users" /\ UNCHANGED failed
       \/ UNCHANGED ready /\ Rollback("tdUsers")
    /\ UNCHANGED <<holder, bound, treeVars, sw, kind, isSetup, cpuDp, netVars, conduitVars>>

(* The interface is registered and linked to the conduit; when a step fails *)
(* the earlier ones are undone.                                             *)
dsa_user_create(p) == netdev' = netdev \cup {p}

(* dsa_port_setup of a user port: dsa_user_create registers its interface;  *)
(* when that fails the port is set up as unused, and when that fails too    *)
(* the ports are torn down.                                                 *)
SetupUser(c, p) ==
    /\ holder = c /\ pc = "users" /\ p \in Of(c) \ isSetup
    /\ \/ /\ dsa_user_create(p) /\ isSetup' = isSetup \cup {p}
          /\ UNCHANGED <<kind, pc, failed>>
       \/ /\ kind' = [kind EXCEPT ![p] = "unused"]
          /\ isSetup' = isSetup \cup {p}
          /\ UNCHANGED <<netdev, pc, failed>>
       \/ /\ kind' = [kind EXCEPT ![p] = "unused"]
          /\ Rollback("tdUsers")
          /\ UNCHANGED <<netdev, isSetup>>
    /\ UNCHANGED <<holder, bound, treeVars, sw, ready, cpuDp, userUp, stray, conduitVars>>

UsersDone(c) ==
    /\ holder = c /\ pc = "users" /\ Of(c) \subseteq isSetup
    /\ pc' = "conduit"
    /\ UNCHANGED <<holder, failed, bound, treeVars, portVars, netVars, conduitVars>>

(* dsa_conduit_setup sets dev->dsa_ptr before the steps that can fail, and  *)
(* its error path does not clear the pointer.                               *)
dsa_conduit_setup(c, ok) ==
    /\ dsaPtr' = [dsaPtr EXCEPT ![c] = "live"]
    /\ abandoned' = IF ok THEN abandoned \ {c} ELSE abandoned \cup {c}

dsa_conduit_teardown(c) == dsaPtr' = [dsaPtr EXCEPT ![c] = "null"]

(* dsa_tree_setup_conduit, under rtnl: the conduit's state is replayed. *)
SetupConduit(c) ==
    LET n     == conduit[c]
        admin == dsa_tree_conduit_admin_state_change(track[c], n.up /\ n.qdisc)
    IN  /\ holder = c /\ pc = "conduit"
        /\ \/ /\ dsa_conduit_setup(c, TRUE)
              /\ track' = [track EXCEPT ![c] =
                               dsa_tree_conduit_oper_state_change(admin, n.oper)]
              /\ pc' = "done"
              /\ UNCHANGED failed
           \/ /\ dsa_conduit_setup(c, FALSE)
              /\ Rollback("tdUsers")
              /\ UNCHANGED track
        /\ UNCHANGED <<holder, bound, treeVars, portVars, netVars, conduit, oops>>

(* The tree is up; dsa_register_switch drops the reference of its touch. *)
RegisterDone(c) ==
    /\ holder = c /\ pc = "done"
    /\ treeSetup' = TRUE /\ bound' = bound \cup {c}
    /\ refs' = refs - 1
    /\ holder' = NoCard /\ pc' = "idle"
    /\ UNCHANGED <<failed, tagged, tagRefs, portVars, netVars, conduitVars>>

-----------------------------------------------------------------------------
(* Unregistration, and the same steps as the rollback of a registration.   *)

UnregisterBegin(c) ==
    /\ holder = NoCard /\ c \in bound
    /\ holder' = c /\ bound' = bound \ {c}
    /\ pc' = IF treeSetup THEN "tdConduit" ELSE "release"
    /\ UNCHANGED <<failed, treeVars, portVars, netVars, conduitVars>>

(* dsa_tree_teardown_conduit: the switches hear of an "admin down" first. *)
TeardownConduit(c) ==
    /\ holder = c /\ pc = "tdConduit"
    /\ track' = [track EXCEPT ![c] = dsa_tree_conduit_admin_state_change(@, FALSE)]
    /\ dsa_conduit_teardown(c)
    /\ pc' = "tdUsers"
    /\ UNCHANGED <<holder, failed, bound, treeVars, portVars, netVars, conduit, abandoned, oops>>

(* The interface is unregistered, and so closed. *)
dsa_user_destroy(p) ==
    /\ netdev' = netdev \ {p} /\ userUp' = userUp \ {p} /\ stray' = stray \ {p}

(* dsa_port_teardown of a port that is not shared. *)
TeardownUser(c, p) ==
    /\ holder = c /\ pc = "tdUsers" /\ p \in Of(c) \cap isSetup
    /\ isSetup' = isSetup \ {p}
    /\ dsa_user_destroy(p)
    /\ UNCHANGED <<mutexVars, treeVars, sw, kind, ready, cpuDp, conduitVars>>

UsersGone(c) ==
    /\ holder = c /\ pc = "tdUsers" /\ Of(c) \cap isSetup = {}
    /\ pc' = "tdShared"
    /\ UNCHANGED <<holder, failed, bound, treeVars, portVars, netVars, conduitVars>>

TeardownShared(c) ==
    /\ holder = c /\ pc = "tdShared"
    /\ ready' = ready \ {c}
    /\ pc' = "tdSwitch"
    /\ UNCHANGED <<holder, failed, bound, treeVars, sw, kind, isSetup, cpuDp, netVars, conduitVars>>

TeardownSwitch(c) ==
    /\ holder = c /\ pc = "tdSwitch"
    /\ sw' = sw \ {c}
    /\ pc' = "tdCpu"
    /\ UNCHANGED <<holder, failed, bound, treeVars, kind, ready, isSetup, cpuDp, netVars, conduitVars>>

(* A port that became unused keeps its cpu_dp. *)
TeardownCpuPorts(c) ==
    /\ holder = c /\ pc = "tdCpu"
    /\ cpuDp' = [p \in Ports |-> IF kind[p] = "user" THEN NoCard ELSE cpuDp[p]]
    /\ treeSetup' = FALSE
    /\ pc' = "release"
    /\ UNCHANGED <<holder, failed, bound, refs, tagged, tagRefs, sw, kind, ready, isSetup,
                   netVars, conduitVars>>

(* Mutant: a failed registration that drops only the reference of its touch. *)
ReleasePortsOnce(c) ==
    /\ holder = c /\ pc = "release"
    /\ kind' = [p \in Ports |-> IF p \in Of(c) THEN "none" ELSE kind[p]]
    /\ cpuDp' = [p \in Ports |-> IF p \in Of(c) THEN NoCard ELSE cpuDp[p]]
    /\ dsaPtr' = [dsaPtr EXCEPT ![c] = IF @ = "live" THEN "stale" ELSE @]
    /\ dsa_tree_put(1)
    /\ holder' = NoCard /\ pc' = "idle" /\ failed' = FALSE
    /\ UNCHANGED <<bound, treeSetup, sw, ready, isSetup, netVars, track, conduit,
                   abandoned, oops>>

(* dsa_switch_release_ports, then the call's references on the tree: a      *)
(* registration that failed holds two, a switch being removed holds one.    *)
ReleasePorts(c) ==
    /\ holder = c /\ pc = "release"
    /\ kind' = [p \in Ports |-> IF p \in Of(c) THEN "none" ELSE kind[p]]
    /\ cpuDp' = [p \in Ports |-> IF p \in Of(c) THEN NoCard ELSE cpuDp[p]]
    /\ dsaPtr' = [dsaPtr EXCEPT ![c] = IF @ = "live" THEN "stale" ELSE @]
    /\ dsa_tree_put(IF failed THEN 2 ELSE 1)
    /\ holder' = NoCard /\ pc' = "idle" /\ failed' = FALSE
    /\ UNCHANGED <<bound, treeSetup, sw, ready, isSetup, netVars, track, conduit,
                   abandoned, oops>>

-----------------------------------------------------------------------------
(* The interfaces, under rtnl.                                              *)

(* dev_open of the conduit.  A qdisc is attached now, or by linkwatch. *)
OpenConduit(c) ==
    /\ ~conduit[c].up
    /\ \E q \in BOOLEAN : ConduitChanged(c, [conduit[c] EXCEPT !.up = TRUE, !.qdisc = q])
    /\ stray' = stray \ Of(c)

ConduitOpen(c) ==
    /\ OpenConduit(c)
    /\ UNCHANGED <<mutexVars, treeVars, portVars, netdev, userUp, dsaPtr, abandoned>>

ConduitClose(c) ==
    /\ conduit[c].up
    /\ ConduitGoingDown(c)
    /\ conduit' = [conduit EXCEPT ![c].up = FALSE, ![c].qdisc = FALSE]
    /\ UNCHANGED <<mutexVars, treeVars, portVars, netdev, dsaPtr, abandoned>>

(* linkwatch_do_dev: the event is only sent for an interface that is up. *)
LinkChange(c) ==
    /\ \E o, q \in BOOLEAN :
        LET n == [conduit[c] EXCEPT !.oper = o, !.qdisc = q /\ conduit[c].up]
        IN  IF conduit[c].up THEN ConduitChanged(c, n)
            ELSE conduit' = [conduit EXCEPT ![c] = n] /\ UNCHANGED <<track, oops>>
    /\ UNCHANGED <<mutexVars, treeVars, portVars, netVars, dsaPtr, abandoned>>

(* Mutant: a user port that comes up without its conduit. *)
UserOpenAlone(p) ==
    /\ p \in netdev \ userUp
    /\ userUp' = userUp \cup {p}
    /\ UNCHANGED <<mutexVars, treeVars, portVars, netdev, stray, conduitVars>>

(* dsa_user_open opens the conduit first, and does not close it again when  *)
(* the port cannot be enabled.                                              *)
UserOpen(p) ==
    /\ p \in netdev \ userUp
    /\ \/ OpenConduit(p[1])
       \/ conduit[p[1]].up /\ UNCHANGED <<conduit, track, oops, stray>>
    /\ userUp' \in {userUp, userUp \cup {p}}
    /\ UNCHANGED <<mutexVars, treeVars, portVars, netdev, dsaPtr, abandoned>>

UserClose(p) ==
    /\ p \in userUp
    /\ userUp' = userUp \ {p} /\ stray' = stray \ {p}
    /\ UNCHANGED <<mutexVars, treeVars, portVars, netdev, conduitVars>>

-----------------------------------------------------------------------------
Running == oops = "none"

Next ==
    /\ Running
    /\ \/ \E c \in Cards :
            \/ RegisterBegin(c) \/ ParseOk(c) \/ ParseFails(c) \/ CheckTree(c)
            \/ SetupSwitch(c) \/ SetupShared(c) \/ UsersDone(c) \/ SetupConduit(c)
            \/ RegisterDone(c) \/ UnregisterBegin(c) \/ TeardownConduit(c)
            \/ UsersGone(c) \/ TeardownShared(c) \/ TeardownSwitch(c)
            \/ TeardownCpuPorts(c) \/ ReleasePorts(c)
            \/ ConduitOpen(c) \/ ConduitClose(c) \/ LinkChange(c)
       \/ \E c \in Cards, p \in Ports : SetupUser(c, p) \/ TeardownUser(c, p)
       \/ \E p \in Ports : UserOpen(p) \/ UserClose(p)

Spec == Init /\ [][Next]_vars

-----------------------------------------------------------------------------
(* Properties.                                                              *)

(***************************************************************************)
(* A notifier of dsa_user_netdevice_event finds an interface behind every  *)
(* user port it closes and a port behind conduit->dsa_ptr, whatever a      *)
(* registration or removal is doing meanwhile, including the failing       *)
(* registration of a second card whose ports are on the same list.  The    *)
(* one way to break it is the error path of dsa_conduit_setup.             *)
(***************************************************************************)
NotifierSafe == oops # "none" => abandoned # {}

(***************************************************************************)
(* While a conduit points to its CPU port, the port's conduit_admin_up and *)
(* conduit_oper_up give the interface's real state, and the switches heard *)
(* the last change of it, also when the interface changed before           *)
(* dsa_tree_setup_conduit replayed its state.  Once a conduit is no longer *)
(* one, the last thing the switches heard is that it is down.              *)
(***************************************************************************)
ConduitTracked ==
    \A c \in Cards \ abandoned :
        /\ dsaPtr[c] = "null" => ~track[c].heard
        /\ dsaPtr[c] = "live" =>
            LET n == conduit[c]
            IN  /\ Operational(track[c]) = (n.up /\ n.qdisc /\ n.oper)
                /\ track[c].heard = Operational(track[c])

(***************************************************************************)
(* When no call is under way the tree has one reference per bound card and *)
(* the tagger one per tree, the tree is up iff a card is bound, at most    *)
(* one card is, and a card that is not bound has left nothing behind,      *)
(* whichever step of its registration failed.                              *)
(***************************************************************************)
Balanced ==
    /\ TypeOK
    /\ holder = NoCard =>
        /\ refs = Cardinality(bound) /\ refs <= 1
        /\ tagRefs = refs /\ tagged = (refs > 0)
        /\ treeSetup = (bound # {})
        /\ sw = bound /\ ready = bound
        /\ \A p \in Ports :
             p[1] \notin bound => /\ kind[p] = "none" /\ cpuDp[p] = NoCard
                                 /\ p \notin isSetup \cup netdev \cup userUp
        /\ \A c \in Cards : dsaPtr[c] = "live" => c \in bound

(***************************************************************************)
(* A user interface that is up has its conduit up, because dsa_user_open   *)
(* opens it and a conduit going down takes its user ports along.  The      *)
(* exception are ports whose conduit was closed while it had no dsa_ptr,   *)
(* before dsa_conduit_setup or after dsa_conduit_teardown: that can happen *)
(* while a call holds dsa2_mutex, and a registered tree never adds one.    *)
(***************************************************************************)
UserUpHasConduit ==
    \A p \in userUp : conduit[p[1]].up \/ p \in stray
=============================================================================
