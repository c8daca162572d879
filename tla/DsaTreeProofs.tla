--------------------------- MODULE DsaTreeProofs ----------------------------
(***************************************************************************)
(* Proofs about DsaTree for any number of cards and user ports.            *)
(***************************************************************************)
EXTENDS DsaTree, TLAPS, FiniteSetTheorems

(* The steps of a registration; those after which the tree has its own      *)
(* reference, and those in which the switch is set up.                      *)
Teardown   == {"tdConduit", "tdUsers", "tdShared", "tdSwitch", "tdCpu"}
SettingUp  == {"switch", "shared", "users", "conduit", "done"}
Parsed     == {"check"} \cup SettingUp
Registering == {"parse"} \cup Parsed
HasSwitch  == {"shared", "users", "conduit", "done", "tdConduit", "tdUsers", "tdShared",
               "tdSwitch"}

(* Who holds the mutex, and how many references there are: one for a bound  *)
(* card and those of the call under way.                                    *)
MutexShape ==
  /\ (holder = NoCard) <=> (pc = "idle")
  /\ holder \notin bound
  /\ pc \in {"idle", "tdConduit"} \cup Registering => ~failed
  /\ \A a, b \in bound : a = b
  /\ pc \in SettingUp \cup Teardown => bound = {}

CallRefs == CASE pc = "idle" -> 0
              [] pc = "parse" -> 1
              [] pc \in Parsed -> 2
              [] OTHER -> IF failed THEN 2 ELSE 1

RefShape ==
  /\ refs = CallRefs + (IF bound = {} THEN 0 ELSE 1)
  /\ tagged <=> (bound # {} \/ pc \notin {"idle", "parse"})
  /\ tagRefs = IF tagged THEN 1 ELSE 0
  /\ pc \in {"idle", "parse", "check", "release"} => (treeSetup <=> bound # {})
  /\ pc \in SettingUp => ~treeSetup
  /\ pc \in Teardown => (treeSetup <=> ~failed)

(* A card that is not registered, and one that is. *)
Gone(c) ==
  /\ c \notin sw \cup ready /\ dsaPtr[c] # "live"
  /\ \A p \in Of(c) : kind[p] = "none" /\ cpuDp[p] = NoCard /\ p \notin isSetup

Complete(c) ==
  /\ c \in sw /\ c \in ready /\ dsaPtr[c] = "live" /\ c \notin abandoned
  /\ \A p \in Of(c) : p \in isSetup /\ cpuDp[p] = c /\ (kind[p] = "user" => p \in netdev)

(* The card of the call under way. *)
Busy(c) ==
  /\ (c \in sw) <=> (pc \in HasSwitch)
  /\ pc \in {"users", "conduit"} => c \in ready
  /\ pc \in {"check", "switch", "shared", "tdSwitch", "tdCpu", "release"} => c \notin ready
  /\ pc = "parse" => Gone(c)
  /\ pc \in {"done", "tdConduit"} => Complete(c)
  /\ pc \in Registering \ {"done"} => dsaPtr[c] # "live"
  /\ pc \in Parsed \ {"done"} => track[c] = Unknown
  /\ dsaPtr[c] = "live" => c \in abandoned \/ pc \in {"done", "tdConduit"}
  /\ \A p \in Of(c) :
       /\ pc \in {"check", "switch", "shared"} => kind[p] = "user" /\ p \notin isSetup
       /\ pc = "check" => cpuDp[p] = NoCard
       /\ pc \in SettingUp => cpuDp[p] = c
       /\ pc \in {"users", "conduit"} =>
            IF p \in isSetup THEN kind[p] = "user" => p \in netdev ELSE kind[p] = "user"
       /\ pc = "conduit" => p \in isSetup
       /\ pc \in {"tdShared", "tdSwitch", "tdCpu", "release"} => p \notin isSetup

CardShape ==
  \A c \in Cards : IF c = holder THEN Busy(c)
                   ELSE IF c \in bound THEN Complete(c) ELSE Gone(c)

(* The interfaces of the ports, and the CPU port they may have. *)
PortShape ==
  /\ netdev \subseteq isSetup /\ userUp \subseteq netdev
  /\ \A p \in Ports : cpuDp[p] \in {NoCard, p[1]}
  /\ \A p \in netdev : kind[p] = "user"

(* What is left of a conduit that was abandoned, and a qdisc is attached    *)
(* only to an interface that is up.                                         *)
ConduitShape ==
  \A c \in Cards : /\ dsaPtr[c] = "stale" => c \in abandoned
                   /\ conduit[c].qdisc => conduit[c].up

TreeInv == /\ TypeOK /\ MutexShape /\ RefShape /\ CardShape /\ PortShape /\ ConduitShape
           /\ NotifierSafe /\ ConduitTracked /\ UserUpHasConduit

(* The steps of a call under the mutex, and those of the interfaces' users. *)
Call(c) ==
  \/ RegisterBegin(c) \/ ParseOk(c) \/ ParseFails(c) \/ CheckTree(c)
  \/ SetupSwitch(c) \/ SetupShared(c) \/ UsersDone(c) \/ SetupConduit(c)
  \/ RegisterDone(c) \/ UnregisterBegin(c) \/ TeardownConduit(c)
  \/ UsersGone(c) \/ TeardownShared(c) \/ TeardownSwitch(c)
  \/ TeardownCpuPorts(c) \/ ReleasePorts(c)
  \/ \E p \in Ports : SetupUser(c, p) \/ TeardownUser(c, p)

Admin ==
  \/ \E c \in Cards : ConduitOpen(c) \/ ConduitClose(c) \/ LinkChange(c)
  \/ \E p \in Ports : UserOpen(p) \/ UserClose(p)

-----------------------------------------------------------------------------
(* Every step is one or the other. *)
LEMMA NextCases ==
  Next => Running /\ ((\E c \in Cards : Call(c)) \/ Admin)
BY DEF Next, Call, Admin

(* The ports of a card are those whose first component is the card. *)
LEMMA PortsOf ==
  /\ \A p \in Ports : p[1] \in Cards
  /\ \A c \in Cards : \A p : p \in Of(c) <=> p \in Ports /\ p[1] = c
BY DEF Ports, Of

(* A change of the conduit's administrative or operational state is         *)
(* recorded, and when the switches had heard the state before it they have  *)
(* heard the state after it.                                                *)
LEMMA AdminChange ==
  ASSUME NEW t \in TrackState, NEW b \in BOOLEAN,
         NEW r, r = dsa_tree_conduit_admin_state_change(t, b)
  PROVE  /\ r \in TrackState
         /\ Operational(r) <=> b /\ t.oper
         /\ r.oper <=> t.oper
         /\ (t.heard <=> Operational(t)) => (r.heard <=> Operational(r))
BY DEF dsa_tree_conduit_admin_state_change, TrackState, Operational

(* The same for the operational state. *)
LEMMA OperChange ==
  ASSUME NEW t \in TrackState, NEW b \in BOOLEAN,
         NEW r, r = dsa_tree_conduit_oper_state_change(t, b)
  PROVE  /\ r \in TrackState
         /\ r.oper <=> b
         /\ Operational(r) <=> b /\ t.admin
         /\ (t.heard <=> Operational(t)) => (r.heard <=> Operational(r))
BY DEF dsa_tree_conduit_oper_state_change, TrackState, Operational

(* The invariant holds before any card registers. *)
LEMMA InitInv == Init => TreeInv
<1> SUFFICES ASSUME Init PROVE TreeInv
  OBVIOUS
<1>1. TypeOK
  BY DsaTreeAssumption DEF Init, TypeOK, ConduitState, TrackState, Unknown
<1>2. MutexShape /\ RefShape
  BY DsaTreeAssumption DEF Init, MutexShape, RefShape, CallRefs, SettingUp, Teardown, Parsed, Registering
<1>3. CardShape
  BY DsaTreeAssumption, PortsOf DEF Init, CardShape, Gone, Ports
<1>4. PortShape /\ ConduitShape
  BY DEF Init, PortShape, ConduitShape
<1>5. NotifierSafe /\ ConduitTracked /\ UserUpHasConduit
  BY DEF Init, NotifierSafe, ConduitTracked, UserUpHasConduit, Unknown
<1> QED
  BY <1>1, <1>2, <1>3, <1>4, <1>5 DEF TreeInv

-----------------------------------------------------------------------------
(* What a user does to the interfaces leaves the calls, the tree, the ports *)
(* and the pointers alone, and only a conduit in use is told.               *)
LEMMA AdminFrame ==
  ASSUME TypeOK, Admin
  PROVE  /\ UNCHANGED <<mutexVars, treeVars, portVars, netdev, dsaPtr, abandoned>>
         /\ \A c \in Cards : dsaPtr[c] # "live" => track'[c] = track[c]
<1>1. CASE \E c \in Cards : ConduitOpen(c)
  BY <1>1 DEF ConduitOpen, OpenConduit, ConduitChanged, TypeOK
<1>2. CASE \E c \in Cards : ConduitClose(c)
  BY <1>2 DEF ConduitClose, ConduitGoingDown, TypeOK
<1>3. CASE \E c \in Cards : LinkChange(c)
  <2>1. PICK c \in Cards : LinkChange(c)
    BY <1>3
  <2>2. \/ UNCHANGED track
        \/ \E n : ConduitChanged(c, n)
    BY <2>1 DEF LinkChange
  <2>3. \A d \in Cards : dsaPtr[d] # "live" => track'[d] = track[d]
    BY <2>2 DEF ConduitChanged, TypeOK
  <2> QED
    BY <2>1, <2>3 DEF LinkChange, netVars
<1>4. CASE \E p \in Ports : UserOpen(p)
  BY <1>4 DEF UserOpen, OpenConduit, ConduitChanged, TypeOK
<1>5. CASE \E p \in Ports : UserClose(p)
  BY <1>5 DEF UserClose, conduitVars
<1> QED
  BY <1>1, <1>2, <1>3, <1>4, <1>5 DEF Admin

(* A conduit's event keeps the types. *)
LEMMA ChangedTypes ==
  ASSUME TypeOK, NEW c \in Cards, NEW n \in ConduitState, ConduitChanged(c, n)
  PROVE  /\ conduit' \in [Cards -> ConduitState] /\ track' \in [Cards -> TrackState]
         /\ oops' \in {"none", "nullNetdev", "freedPort"}
<1> DEFINE o == dsa_tree_conduit_oper_state_change(track[c], n.oper)
           b == dsa_tree_conduit_admin_state_change(o, n.qdisc)
<1>1. track[c] \in TrackState /\ n.oper \in BOOLEAN /\ n.qdisc \in BOOLEAN
  BY DEF TypeOK, ConduitState
<1>2. o \in TrackState
  BY <1>1, OperChange
<1>3. b \in TrackState
  BY <1>1, <1>2, AdminChange
<1>4. track' = IF dsaPtr[c] = "live" THEN [track EXCEPT ![c] = b] ELSE track
  BY DEF ConduitChanged
<1> HIDE DEF o, b
<1>5. track' \in [Cards -> TrackState]
  BY <1>3, <1>4 DEF TypeOK
<1> QED
  BY <1>5 DEF TypeOK, ConduitChanged

(* What a user does keeps the types. *)
LEMMA TypeAdmin ==
  ASSUME TypeOK, Admin
  PROVE  TypeOK'
<1> SUFFICES /\ conduit' \in [Cards -> ConduitState] /\ track' \in [Cards -> TrackState]
             /\ oops' \in {"none", "nullNetdev", "freedPort"}
             /\ userUp' \subseteq Ports /\ stray' \subseteq Ports
  BY AdminFrame DEF TypeOK, mutexVars, treeVars, portVars
<1>1. ASSUME NEW c \in Cards, OpenConduit(c)
      PROVE  /\ conduit' \in [Cards -> ConduitState] /\ track' \in [Cards -> TrackState]
             /\ oops' \in {"none", "nullNetdev", "freedPort"} /\ stray' \subseteq Ports
  <2>1. PICK q \in BOOLEAN : ConduitChanged(c, [conduit[c] EXCEPT !.up = TRUE, !.qdisc = q])
    BY <1>1 DEF OpenConduit
  <2>2. [conduit[c] EXCEPT !.up = TRUE, !.qdisc = q] \in ConduitState
    BY DEF TypeOK, ConduitState
  <2> QED
    BY <1>1, <2>1, <2>2, ChangedTypes DEF OpenConduit, TypeOK
<1>2. CASE \E c \in Cards : ConduitOpen(c)
  BY <1>1, <1>2 DEF ConduitOpen, TypeOK
<1>3. CASE \E c \in Cards : ConduitClose(c)
  <2>1. PICK c \in Cards : ConduitClose(c)
    BY <1>3
  <2> DEFINE r == dsa_tree_conduit_admin_state_change(track[c], FALSE)
  <2>2. r \in TrackState
    BY AdminChange DEF TypeOK
  <2>3. track' = IF dsaPtr[c] = "live" THEN [track EXCEPT ![c] = r] ELSE track
    BY <2>1 DEF ConduitClose, ConduitGoingDown, TypeOK
  <2> HIDE DEF r
  <2>4. track' \in [Cards -> TrackState]
    BY <2>2, <2>3 DEF TypeOK
  <2>5. conduit' \in [Cards -> ConduitState]
    BY <2>1 DEF ConduitClose, TypeOK, ConduitState
  <2>6. userUp' \subseteq Ports /\ stray' \subseteq Ports
    BY <2>1 DEF ConduitClose, ConduitGoingDown, TypeOK
  <2>7. oops' \in {"none", "nullNetdev", "freedPort"}
    BY <2>1 DEF ConduitClose, ConduitGoingDown, TypeOK
  <2> QED
    BY <2>4, <2>5, <2>6, <2>7
<1>4. CASE \E c \in Cards : LinkChange(c)
  <2>1. PICK c \in Cards, o \in BOOLEAN, q \in BOOLEAN :
          LET n == [conduit[c] EXCEPT !.oper = o, !.qdisc = q /\ conduit[c].up]
          IN  IF conduit[c].up THEN ConduitChanged(c, n)
              ELSE conduit' = [conduit EXCEPT ![c] = n] /\ UNCHANGED <<track, oops>>
    BY <1>4 DEF LinkChange
  <2> DEFINE n == [conduit[c] EXCEPT !.oper = o, !.qdisc = q /\ conduit[c].up]
  <2>2. n \in ConduitState
    BY DEF TypeOK, ConduitState
  <2>3. userUp' = userUp /\ stray' = stray
    BY <1>4 DEF LinkChange, netVars
  <2>4. CASE conduit[c].up
    BY <2>1, <2>2, <2>3, <2>4, ChangedTypes DEF TypeOK
  <2>5. CASE ~conduit[c].up
    BY <2>1, <2>2, <2>3, <2>5 DEF TypeOK
  <2> QED
    BY <2>4, <2>5
<1>5. CASE \E p \in Ports : UserOpen(p)
  <2>1. PICK p \in Ports : UserOpen(p)
    BY <1>5
  <2>2. userUp' \subseteq Ports
    BY <2>1 DEF UserOpen, TypeOK
  <2>3. CASE OpenConduit(p[1])
    BY <1>1, <2>2, <2>3, PortsOf
  <2>4. CASE UNCHANGED <<conduit, track, oops, stray>>
    BY <2>2, <2>4 DEF TypeOK
  <2> QED
    BY <2>1, <2>3, <2>4 DEF UserOpen
<1>6. CASE \E p \in Ports : UserClose(p)
  BY <1>6 DEF UserClose, conduitVars, TypeOK
<1> QED
  BY <1>2, <1>3, <1>4, <1>5, <1>6 DEF Admin

(* A call's step keeps the types; the references it drops are there. *)
LEMMA TypeCall ==
  ASSUME TypeOK, MutexShape, RefShape, NEW c \in Cards, Call(c)
  PROVE  TypeOK'
<1> USE DEF TypeOK, mutexVars, treeVars, portVars, netVars, conduitVars
<1>1. CASE RegisterBegin(c)
  BY <1>1 DEF RegisterBegin, dsa_tree_touch
<1>2. CASE ParseOk(c)
  <2>1. Unknown \in TrackState
    BY DEF Unknown, TrackState
  <2>2. track' \in [Cards -> TrackState]
    BY <1>2, <2>1 DEF ParseOk
  <2>3. kind' \in [Ports -> {"none", "unused", "user"}]
    BY <1>2 DEF ParseOk
  <2> QED
    BY <1>2, <2>2, <2>3 DEF ParseOk
<1>3. CASE ParseFails(c)
  <2>1. refs \in Nat \ {0} /\ (tagged => tagRefs = 1)
    BY <1>3 DEF ParseFails, RefShape, CallRefs, Parsed, SettingUp
  <2> QED
    BY <1>3, <2>1 DEF ParseFails, dsa_tree_put
<1>4. CASE CheckTree(c)
  <2>1. cpuDp' \in [Ports -> Cards \cup {NoCard}]
    BY <1>4, PortsOf DEF CheckTree
  <2> QED
    BY <1>4, <2>1 DEF CheckTree, Rollback
<1>5. CASE SetupSwitch(c)
  BY <1>5 DEF SetupSwitch, Rollback
<1>6. CASE SetupShared(c)
  BY <1>6 DEF SetupShared, Rollback
<1>7. CASE UsersDone(c)
  BY <1>7 DEF UsersDone
<1>8. CASE SetupConduit(c)
  <2> DEFINE n == conduit[c]
             a == dsa_tree_conduit_admin_state_change(track[c], n.up /\ n.qdisc)
             o == dsa_tree_conduit_oper_state_change(a, n.oper)
  <2>1. n.up \in BOOLEAN /\ n.qdisc \in BOOLEAN /\ n.oper \in BOOLEAN
    BY DEF ConduitState
  <2>2. a \in TrackState
    BY <2>1, AdminChange
  <2>3. o \in TrackState
    BY <2>1, <2>2, OperChange
  <2>4. track' \in {track, [track EXCEPT ![c] = o]}
    BY <1>8 DEF SetupConduit
  <2> HIDE DEF a, o
  <2>5. track' \in [Cards -> TrackState]
    BY <2>3, <2>4
  <2> QED
    BY <1>8, <2>5 DEF SetupConduit, Rollback, dsa_conduit_setup
<1>9. CASE RegisterDone(c)
  <2>1. refs \in Nat \ {0}
    BY <1>9 DEF RegisterDone, RefShape, CallRefs, Parsed, SettingUp
  <2> QED
    BY <1>9, <2>1 DEF RegisterDone
<1>10. CASE UnregisterBegin(c)
  BY <1>10 DEF UnregisterBegin
<1>11. CASE TeardownConduit(c)
  <2> DEFINE a == dsa_tree_conduit_admin_state_change(track[c], FALSE)
  <2>1. a \in TrackState
    BY AdminChange
  <2>2. track' = [track EXCEPT ![c] = a]
    BY <1>11 DEF TeardownConduit
  <2> HIDE DEF a
  <2>3. track' \in [Cards -> TrackState]
    BY <2>1, <2>2
  <2> QED
    BY <1>11, <2>3 DEF TeardownConduit, dsa_conduit_teardown
<1>12. CASE UsersGone(c)
  BY <1>12 DEF UsersGone
<1>13. CASE TeardownShared(c)
  BY <1>13 DEF TeardownShared
<1>14. CASE TeardownSwitch(c)
  BY <1>14 DEF TeardownSwitch
<1>15. CASE TeardownCpuPorts(c)
  BY <1>15 DEF TeardownCpuPorts
<1>16. CASE ReleasePorts(c)
  <2>1. refs \in Nat /\ refs >= (IF failed THEN 2 ELSE 1) /\ (tagged => tagRefs = 1)
    BY <1>16 DEF ReleasePorts, RefShape, CallRefs, Parsed, SettingUp
  <2>2. refs' \in Nat /\ tagRefs' \in Nat /\ tagged' \in BOOLEAN
    BY <1>16, <2>1 DEF ReleasePorts, dsa_tree_put
  <2>3. /\ kind' \in [Ports -> {"none", "unused", "user"}]
        /\ cpuDp' \in [Ports -> Cards \cup {NoCard}]
        /\ dsaPtr' \in [Cards -> {"null", "live", "stale"}]
    BY <1>16 DEF ReleasePorts
  <2> QED
    BY <1>16, <2>2, <2>3 DEF ReleasePorts
<1>17. CASE \E p \in Ports : SetupUser(c, p)
  BY <1>17 DEF SetupUser, Rollback, dsa_user_create
<1>18. CASE \E p \in Ports : TeardownUser(c, p)
  BY <1>18 DEF TeardownUser, dsa_user_destroy
<1> QED
  BY <1>1, <1>2, <1>3, <1>4, <1>5, <1>6, <1>7, <1>8, <1>9, <1>10, <1>11, <1>12, <1>13,
     <1>14, <1>15, <1>16, <1>17, <1>18 DEF Call

(* A call's step keeps the mutex and the references in order. *)
LEMMA CountCall ==
  ASSUME TypeOK, MutexShape, RefShape, NEW c \in Cards, Call(c)
  PROVE  MutexShape' /\ RefShape'
<1> USE DsaTreeAssumption DEF TypeOK, MutexShape, RefShape, CallRefs, Parsed, SettingUp, Teardown,
        Registering, mutexVars, treeVars, Rollback
<1>1. CASE RegisterBegin(c)
  BY <1>1 DEF RegisterBegin, dsa_tree_touch
<1>2. CASE ParseOk(c)
  BY <1>2 DEF ParseOk
<1>3. CASE ParseFails(c)
  BY <1>3 DEF ParseFails, dsa_tree_put
<1>4. CASE CheckTree(c)
  BY <1>4 DEF CheckTree
<1>5. CASE SetupSwitch(c)
  BY <1>5 DEF SetupSwitch
<1>6. CASE SetupShared(c)
  BY <1>6 DEF SetupShared
<1>7. CASE UsersDone(c)
  BY <1>7 DEF UsersDone
<1>8. CASE SetupConduit(c)
  <2>1. /\ holder = c /\ pc = "conduit" /\ UNCHANGED <<holder, bound, treeVars>>
        /\ \/ pc' = "done" /\ UNCHANGED failed
           \/ pc' = "tdUsers" /\ failed' = TRUE
    BY <1>8 DEF SetupConduit
  <2> QED
    BY <2>1
<1>9. CASE RegisterDone(c)
  BY <1>9 DEF RegisterDone
<1>10. CASE UnregisterBegin(c)
  BY <1>10 DEF UnregisterBegin
<1>11. CASE TeardownConduit(c)
  BY <1>11 DEF TeardownConduit
<1>12. CASE UsersGone(c)
  BY <1>12 DEF UsersGone
<1>13. CASE TeardownShared(c)
  BY <1>13 DEF TeardownShared
<1>14. CASE TeardownSwitch(c)
  BY <1>14 DEF TeardownSwitch
<1>15. CASE TeardownCpuPorts(c)
  BY <1>15 DEF TeardownCpuPorts
<1>16. CASE ReleasePorts(c)
  BY <1>16 DEF ReleasePorts, dsa_tree_put
<1>17. CASE \E p \in Ports : SetupUser(c, p)
  BY <1>17 DEF SetupUser
<1>18. CASE \E p \in Ports : TeardownUser(c, p)
  BY <1>18 DEF TeardownUser
<1> QED
  BY <1>1, <1>2, <1>3, <1>4, <1>5, <1>6, <1>7, <1>8, <1>9, <1>10, <1>11, <1>12, <1>13,
     <1>14, <1>15, <1>16, <1>17, <1>18 DEF Call

-----------------------------------------------------------------------------
(* A step that leaves card d's switch, ports and pointer alone leaves the   *)
(* card registered, or gone, as it was.                                     *)
Same(d) ==
  /\ d \in sw' <=> d \in sw
  /\ d \in ready' <=> d \in ready
  /\ d \in abandoned' <=> d \in abandoned
  /\ dsaPtr'[d] = dsaPtr[d]
  /\ \A p \in Of(d) : /\ kind'[p] = kind[p] /\ cpuDp'[p] = cpuDp[p]
                      /\ p \in isSetup' <=> p \in isSetup
                      /\ p \in netdev' <=> p \in netdev

(* So it is: nothing that Gone or Complete speaks of has changed. *)
LEMMA SameCard ==
  ASSUME NEW d, Same(d)
  PROVE  (Gone(d) => Gone(d)') /\ (Complete(d) => Complete(d)')
BY DEF Same, Gone, Complete, Of

(* The other cards during a step of card c's call. *)
LEMMA OtherCards ==
  ASSUME TypeOK, MutexShape, RefShape, CardShape, NEW c \in Cards, Call(c),
         NEW d \in Cards, d # c
  PROVE  /\ d # holder /\ d # holder' /\ Same(d)
         /\ d \in bound' <=> d \in bound
<1> USE PortsOf, DsaTreeAssumption DEF TypeOK, Same, mutexVars, treeVars, portVars, netVars, conduitVars,
        Rollback
<1>0. d # holder => (d \notin bound => \A p \in Of(d) : kind[p] = "none" /\ cpuDp[p] = NoCard)
  BY DEF CardShape, Gone
<1>1. CASE RegisterBegin(c)
  BY <1>1 DEF RegisterBegin
<1>2. CASE ParseOk(c)
  BY <1>2 DEF ParseOk
<1>3. CASE ParseFails(c)
  BY <1>3 DEF ParseFails
<1>4. CASE CheckTree(c)
  BY <1>0, <1>4 DEF CheckTree, MutexShape, Parsed, Registering, RefShape
<1>5. CASE SetupSwitch(c)
  BY <1>5 DEF SetupSwitch
<1>6. CASE SetupShared(c)
  BY <1>6 DEF SetupShared
<1>7. CASE UsersDone(c)
  BY <1>7 DEF UsersDone
<1>8. CASE SetupConduit(c)
  BY <1>8 DEF SetupConduit, dsa_conduit_setup
<1>9. CASE RegisterDone(c)
  BY <1>9 DEF RegisterDone
<1>10. CASE UnregisterBegin(c)
  BY <1>10 DEF UnregisterBegin
<1>11. CASE TeardownConduit(c)
  BY <1>11 DEF TeardownConduit, dsa_conduit_teardown
<1>12. CASE UsersGone(c)
  BY <1>12 DEF UsersGone
<1>13. CASE TeardownShared(c)
  BY <1>13 DEF TeardownShared
<1>14. CASE TeardownSwitch(c)
  BY <1>14 DEF TeardownSwitch
<1>15. CASE TeardownCpuPorts(c)
  BY <1>0, <1>15 DEF TeardownCpuPorts, MutexShape, Teardown
<1>16. CASE ReleasePorts(c)
  BY <1>16 DEF ReleasePorts
<1>17. CASE \E p \in Ports : SetupUser(c, p)
  BY <1>17 DEF SetupUser, dsa_user_create
<1>18. CASE \E p \in Ports : TeardownUser(c, p)
  BY <1>18 DEF TeardownUser, dsa_user_destroy
<1> QED
  BY <1>1, <1>2, <1>3, <1>4, <1>5, <1>6, <1>7, <1>8, <1>9, <1>10, <1>11, <1>12, <1>13,
     <1>14, <1>15, <1>16, <1>17, <1>18 DEF Call

(* The card of the call: every step takes it to the next stage, or leaves   *)
(* it registered or gone.                                                   *)
LEMMA BusyCard ==
  ASSUME TypeOK, MutexShape, RefShape, CardShape, PortShape, ConduitShape, NEW c \in Cards, Call(c)
  PROVE  IF c = holder' THEN Busy(c)'
         ELSE IF c \in bound' THEN Complete(c)' ELSE Gone(c)'
<1> USE PortsOf, DsaTreeAssumption DEF TypeOK, mutexVars, treeVars, portVars, netVars, conduitVars,
        Rollback, Busy, Gone, Complete, Registering, Parsed, SettingUp, HasSwitch
<1>0. /\ c = holder => Busy(c) /\ c \notin bound
      /\ c # holder /\ c \in bound => Complete(c)
      /\ c # holder /\ c \notin bound => Gone(c)
  BY DEF CardShape, MutexShape
<1>1. CASE RegisterBegin(c)
  BY <1>0, <1>1 DEF RegisterBegin
<1>2. CASE ParseOk(c)
  BY <1>0, <1>2 DEF ParseOk
<1>3. CASE ParseFails(c)
  BY <1>0, <1>3 DEF ParseFails
<1>4. CASE CheckTree(c)
  BY <1>0, <1>4 DEF CheckTree
<1>5. CASE SetupSwitch(c)
  BY <1>0, <1>5 DEF SetupSwitch
<1>6. CASE SetupShared(c)
  BY <1>0, <1>6 DEF SetupShared
<1>7. CASE UsersDone(c)
  BY <1>0, <1>7 DEF UsersDone
<1>8. CASE SetupConduit(c)
  BY <1>0, <1>8 DEF SetupConduit, dsa_conduit_setup
<1>9. CASE RegisterDone(c)
  BY <1>0, <1>9 DEF RegisterDone
<1>10. CASE UnregisterBegin(c)
  BY <1>0, <1>10 DEF UnregisterBegin, MutexShape, RefShape
<1>11. CASE TeardownConduit(c)
  BY <1>0, <1>11 DEF TeardownConduit, dsa_conduit_teardown
<1>12. CASE UsersGone(c)
  BY <1>0, <1>12 DEF UsersGone
<1>13. CASE TeardownShared(c)
  BY <1>0, <1>13 DEF TeardownShared
<1>14. CASE TeardownSwitch(c)
  BY <1>0, <1>14 DEF TeardownSwitch
<1>15. CASE TeardownCpuPorts(c)
  BY <1>0, <1>15 DEF TeardownCpuPorts
<1>16. CASE ReleasePorts(c)
  BY <1>0, <1>16 DEF ReleasePorts
<1>17. CASE \E p \in Ports : SetupUser(c, p)
  BY <1>0, <1>17 DEF SetupUser, dsa_user_create, PortShape
<1>18. CASE \E p \in Ports : TeardownUser(c, p)
  BY <1>0, <1>18 DEF TeardownUser, dsa_user_destroy
<1> QED
  BY <1>1, <1>2, <1>3, <1>4, <1>5, <1>6, <1>7, <1>8, <1>9, <1>10, <1>11, <1>12, <1>13,
     <1>14, <1>15, <1>16, <1>17, <1>18 DEF Call

(* Together: a call's step keeps every card in shape. *)
LEMMA CardCall ==
  ASSUME TypeOK, MutexShape, RefShape, CardShape, PortShape, ConduitShape, NEW c \in Cards, Call(c)
  PROVE  CardShape'
<1> SUFFICES ASSUME NEW d \in Cards
             PROVE  IF d = holder' THEN Busy(d)'
                    ELSE IF d \in bound' THEN Complete(d)' ELSE Gone(d)'
  BY DEF CardShape
<1>1. CASE d = c
  BY <1>1, BusyCard
<1>2. CASE d # c
  <2>1. d # holder /\ d # holder' /\ Same(d) /\ (d \in bound' <=> d \in bound)
    BY <1>2, OtherCards
  <2>2. IF d \in bound THEN Complete(d) ELSE Gone(d)
    BY <2>1 DEF CardShape
  <2> QED
    BY <2>1, <2>2, SameCard
<1> QED
  BY <1>1, <1>2

(* A call's step keeps interfaces to ports that are set up, CPU ports to    *)
(* their own card, and stale pointers to abandoned conduits.                *)
LEMMA PortCall ==
  ASSUME TypeOK, MutexShape, RefShape, CardShape, PortShape, ConduitShape, NEW c \in Cards, Call(c)
  PROVE  PortShape' /\ ConduitShape'
<1> USE PortsOf, DsaTreeAssumption DEF TypeOK, mutexVars, treeVars, portVars, netVars, conduitVars,
        Rollback, PortShape, ConduitShape
<1>0. c = holder => Busy(c)
  BY DEF CardShape
<1>1. CASE RegisterBegin(c)
  BY <1>1 DEF RegisterBegin
<1>2. CASE ParseOk(c)
  BY <1>2 DEF ParseOk
<1>3. CASE ParseFails(c)
  BY <1>3 DEF ParseFails
<1>4. CASE CheckTree(c)
  BY <1>4 DEF CheckTree
<1>5. CASE SetupSwitch(c)
  BY <1>5 DEF SetupSwitch
<1>6. CASE SetupShared(c)
  BY <1>6 DEF SetupShared
<1>7. CASE UsersDone(c)
  BY <1>7 DEF UsersDone
<1>8. CASE SetupConduit(c)
  BY <1>8 DEF SetupConduit, dsa_conduit_setup
<1>9. CASE RegisterDone(c)
  BY <1>9 DEF RegisterDone
<1>10. CASE UnregisterBegin(c)
  BY <1>10 DEF UnregisterBegin
<1>11. CASE TeardownConduit(c)
  BY <1>11 DEF TeardownConduit, dsa_conduit_teardown
<1>12. CASE UsersGone(c)
  BY <1>12 DEF UsersGone
<1>13. CASE TeardownShared(c)
  BY <1>13 DEF TeardownShared
<1>14. CASE TeardownSwitch(c)
  BY <1>14 DEF TeardownSwitch
<1>15. CASE TeardownCpuPorts(c)
  BY <1>15 DEF TeardownCpuPorts
<1>16. CASE ReleasePorts(c)
  BY <1>0, <1>16 DEF ReleasePorts, Busy
<1>17. CASE \E p \in Ports : SetupUser(c, p)
  BY <1>0, <1>17 DEF SetupUser, dsa_user_create, Busy
<1>18. CASE \E p \in Ports : TeardownUser(c, p)
  BY <1>18 DEF TeardownUser, dsa_user_destroy
<1> QED
  BY <1>1, <1>2, <1>3, <1>4, <1>5, <1>6, <1>7, <1>8, <1>9, <1>10, <1>11, <1>12, <1>13,
     <1>14, <1>15, <1>16, <1>17, <1>18 DEF Call

(* What a call's steps do to the interfaces: they take user interfaces down *)
(* with the port, and touch nothing else that a user sees.                  *)
LEMMA CallFrame ==
  ASSUME NEW c \in Cards, Call(c)
  PROVE  /\ conduit' = conduit /\ oops' = oops
         /\ \A p \in userUp' : p \in userUp /\ (p \in stray => p \in stray')
<1> USE DEF netVars, conduitVars, mutexVars, treeVars, portVars
<1>1. CASE \/ RegisterBegin(c) \/ ParseOk(c) \/ ParseFails(c) \/ CheckTree(c)
           \/ SetupSwitch(c) \/ SetupShared(c) \/ UsersDone(c) \/ SetupConduit(c)
           \/ RegisterDone(c) \/ UnregisterBegin(c) \/ TeardownConduit(c)
           \/ UsersGone(c) \/ TeardownShared(c) \/ TeardownSwitch(c)
           \/ TeardownCpuPorts(c) \/ ReleasePorts(c)
  BY <1>1 DEF RegisterBegin, ParseOk, ParseFails, CheckTree, SetupSwitch, SetupShared, UsersDone,
     SetupConduit, RegisterDone, UnregisterBegin, TeardownConduit, UsersGone, TeardownShared,
     TeardownSwitch, TeardownCpuPorts, ReleasePorts
<1>2. CASE \E p \in Ports : SetupUser(c, p) \/ TeardownUser(c, p)
  BY <1>2 DEF SetupUser, TeardownUser, dsa_user_destroy
<1> QED
  BY <1>1, <1>2 DEF Call

(* So a call neither breaks a notifier nor leaves a user interface behind. *)
LEMMA UsersCall ==
  ASSUME NEW c \in Cards, Call(c), Running, UserUpHasConduit
  PROVE  UserUpHasConduit' /\ NotifierSafe'
BY CallFrame DEF UserUpHasConduit, NotifierSafe, Running

(* The conduit's state is replayed when the pointer is set and taken back   *)
(* before it is cleared; no other step of a call touches what was heard.    *)
LEMMA TrackedCall ==
  ASSUME TypeOK, CardShape, ConduitTracked, ConduitShape, NEW c \in Cards, Call(c)
  PROVE  ConduitTracked'
<1>0. c = holder => Busy(c)
  BY DEF CardShape
<1>1. conduit' = conduit
  BY CallFrame
<1>2. CASE UNCHANGED <<track, dsaPtr, abandoned>>
  BY <1>1, <1>2 DEF ConduitTracked
<1>3. CASE ParseOk(c)
  <2>1. dsaPtr[c] # "live"
    BY <1>0, <1>3 DEF ParseOk, Busy, Registering
  <2>2. track' = [track EXCEPT ![c] = Unknown] /\ UNCHANGED <<dsaPtr, abandoned>>
    BY <1>3 DEF ParseOk
  <2>3. ~Unknown.heard
    BY DEF Unknown
  <2> QED
    BY <1>1, <2>1, <2>2, <2>3 DEF ConduitTracked, TypeOK
<1>4. CASE SetupConduit(c)
  <2> DEFINE n == conduit[c]
             a == dsa_tree_conduit_admin_state_change(track[c], n.up /\ n.qdisc)
             o == dsa_tree_conduit_oper_state_change(a, n.oper)
  <2>1. n.up \in BOOLEAN /\ n.qdisc \in BOOLEAN /\ n.oper \in BOOLEAN
    BY DEF TypeOK, ConduitState
  <2>2. track[c] \in TrackState /\ (track[c].heard <=> Operational(track[c]))
    BY <1>0, <1>4 DEF SetupConduit, Busy, Parsed, SettingUp, Unknown, Operational, TypeOK
  <2>3. /\ a \in TrackState /\ (Operational(a) <=> n.up /\ n.qdisc /\ track[c].oper)
        /\ a.heard <=> Operational(a)
    BY <2>1, <2>2, AdminChange
  <2>4. a.admin <=> n.up /\ n.qdisc
    BY <2>1, <2>2 DEF dsa_tree_conduit_admin_state_change, TrackState
  <2>5. /\ o \in TrackState /\ (Operational(o) <=> n.oper /\ a.admin)
        /\ o.heard <=> Operational(o)
    BY <2>1, <2>3, OperChange
  <2>6. \A d \in Cards \ {c} : /\ track'[d] = track[d] /\ dsaPtr'[d] = dsaPtr[d]
                               /\ d \in abandoned' <=> d \in abandoned
    BY <1>4 DEF SetupConduit, dsa_conduit_setup, TypeOK
  <2>7. c \notin abandoned' => track'[c] = o /\ dsaPtr'[c] = "live"
    BY <1>4 DEF SetupConduit, dsa_conduit_setup, TypeOK
  <2> HIDE DEF n, a, o
  <2>8. SUFFICES ASSUME NEW d \in Cards \ abandoned'
                 PROVE  /\ dsaPtr'[d] = "null" => ~track'[d].heard
                        /\ dsaPtr'[d] = "live" =>
                             /\ Operational(track'[d]) =
                                  (conduit'[d].up /\ conduit'[d].qdisc /\ conduit'[d].oper)
                             /\ track'[d].heard = Operational(track'[d])
    BY DEF ConduitTracked, Operational
  <2>9. CASE d # c
    BY <1>1, <2>6, <2>9 DEF ConduitTracked, Operational
  <2>10. CASE d = c
    <3>1. track'[d] = o /\ dsaPtr'[d] = "live" /\ conduit'[d] = n
      BY <1>1, <2>7, <2>10 DEF n
    <3>2. Operational(o) = (n.up /\ n.qdisc /\ n.oper)
      BY <2>1, <2>4, <2>5 DEF Operational, TrackState
    <3>3. o.heard = Operational(o)
      BY <2>5 DEF Operational, TrackState
    <3> QED
      BY <3>1, <3>2, <3>3
  <2> QED
    BY <2>9, <2>10
<1>5. CASE TeardownConduit(c)
  <2> DEFINE a == dsa_tree_conduit_admin_state_change(track[c], FALSE)
  <2>1. dsaPtr[c] = "live" /\ c \notin abandoned
    BY <1>0, <1>5 DEF TeardownConduit, Busy, Complete
  <2>2. track[c] \in TrackState /\ (track[c].heard <=> Operational(track[c]))
    BY <2>1 DEF ConduitTracked, TypeOK
  <2>3. ~a.heard
    BY <2>2, AdminChange
  <2>4. /\ track' = [track EXCEPT ![c] = a]
        /\ dsaPtr' = [dsaPtr EXCEPT ![c] = "null"] /\ abandoned' = abandoned
    BY <1>5 DEF TeardownConduit, dsa_conduit_teardown
  <2> HIDE DEF a
  <2> QED
    BY <1>1, <2>3, <2>4 DEF ConduitTracked, TypeOK, Operational
<1>6. CASE ReleasePorts(c)
  <2>1. dsaPtr[c] = "live" => c \in abandoned
    BY <1>0, <1>6 DEF ReleasePorts, Busy
  <2> QED
    BY <1>1, <1>6, <2>1 DEF ReleasePorts, ConduitTracked, TypeOK, Operational
<1> QED
  BY <1>2, <1>3, <1>4, <1>5, <1>6 DEF Call, RegisterBegin, ParseFails, CheckTree,
     SetupSwitch, SetupShared, UsersDone, RegisterDone, UnregisterBegin, UsersGone,
     TeardownShared, TeardownSwitch, TeardownCpuPorts, SetupUser, TeardownUser, conduitVars

-----------------------------------------------------------------------------
(* A user's step disturbs no card. *)
LEMMA CardAdmin ==
  ASSUME TypeOK, CardShape, Admin
  PROVE  CardShape'
<1>1. /\ UNCHANGED <<mutexVars, treeVars, portVars, netdev, dsaPtr, abandoned>>
      /\ \A c \in Cards : dsaPtr[c] # "live" => track'[c] = track[c]
  BY AdminFrame
<1> USE DEF mutexVars, portVars
<1>2. \A c \in Cards : (Gone(c) => Gone(c)') /\ (Complete(c) => Complete(c)')
  BY <1>1 DEF Gone, Complete
<1>3. ASSUME NEW c \in Cards, Busy(c)
      PROVE  Busy(c)'
  BY <1>1, <1>2, <1>3 DEF Busy, Registering, Parsed, SettingUp, HasSwitch
<1> QED
  BY <1>1, <1>2, <1>3 DEF CardShape

(* A conduit's event leaves the other conduits alone, records the state n   *)
(* of a conduit in use, and breaks only on a pointer that was freed.        *)
LEMMA ChangedTracked ==
  ASSUME TypeOK, ConduitTracked, NEW c \in Cards, NEW n \in ConduitState, n.up,
         ConduitChanged(c, n), UNCHANGED <<dsaPtr, abandoned>>
  PROVE  ConduitTracked'
<1> DEFINE o == dsa_tree_conduit_oper_state_change(track[c], n.oper)
           b == dsa_tree_conduit_admin_state_change(o, n.qdisc)
<1>1. track[c] \in TrackState /\ n.oper \in BOOLEAN /\ n.qdisc \in BOOLEAN /\ n.up \in BOOLEAN
  BY DEF TypeOK, ConduitState
<1>2. /\ o \in TrackState /\ (o.oper <=> n.oper)
      /\ (track[c].heard <=> Operational(track[c])) => (o.heard <=> Operational(o))
  BY <1>1, OperChange
<1>3. /\ b \in TrackState /\ (Operational(b) <=> n.qdisc /\ o.oper)
      /\ (o.heard <=> Operational(o)) => (b.heard <=> Operational(b))
  BY <1>1, <1>2, AdminChange
<1>4. /\ track' = IF dsaPtr[c] = "live" THEN [track EXCEPT ![c] = b] ELSE track
      /\ conduit' = [conduit EXCEPT ![c] = n]
  BY DEF ConduitChanged
<1> HIDE DEF o, b
<1>5. SUFFICES ASSUME NEW d \in Cards \ abandoned
               PROVE  /\ dsaPtr[d] = "null" => ~track'[d].heard
                      /\ dsaPtr[d] = "live" =>
                           /\ Operational(track'[d]) =
                                (conduit'[d].up /\ conduit'[d].qdisc /\ conduit'[d].oper)
                           /\ track'[d].heard = Operational(track'[d])
  BY DEF ConduitTracked, Operational
<1>6. CASE d # c \/ dsaPtr[c] = "null"
  BY <1>4, <1>6 DEF ConduitTracked, TypeOK
<1>7. CASE d = c /\ dsaPtr[c] = "live"
  <2>1. track[c].heard <=> Operational(track[c])
    BY <1>7 DEF ConduitTracked
  <2>2. track'[d] = b /\ conduit'[d] = n
    BY <1>4, <1>7 DEF TypeOK
  <2>3. b.heard = Operational(b)
    BY <1>2, <1>3, <2>1 DEF TrackState, Operational
  <2>4. Operational(b) = (n.up /\ n.qdisc /\ n.oper)
    BY <1>1, <1>2, <1>3 DEF TrackState, Operational
  <2> QED
    BY <1>7, <2>2, <2>3, <2>4
<1> QED
  BY <1>6, <1>7 DEF TypeOK

(* A conduit that opens has its state recorded. *)
LEMMA OpenTracked ==
  ASSUME TypeOK, ConduitTracked, NEW c \in Cards, OpenConduit(c), UNCHANGED <<dsaPtr, abandoned>>
  PROVE  ConduitTracked'
<1>1. PICK q \in BOOLEAN : ConduitChanged(c, [conduit[c] EXCEPT !.up = TRUE, !.qdisc = q])
  BY DEF OpenConduit
<1> DEFINE n == [conduit[c] EXCEPT !.up = TRUE, !.qdisc = q]
<1>2. n \in ConduitState /\ n.up
  BY DEF TypeOK, ConduitState
<1> QED
  BY <1>1, <1>2, ChangedTracked

(* Whatever a user does, the ports know the conduits' states. *)
LEMMA TrackedAdmin ==
  ASSUME TypeOK, ConduitShape, ConduitTracked, Admin
  PROVE  ConduitTracked'
<1>1. UNCHANGED <<dsaPtr, abandoned>>
  BY AdminFrame
<1>2. CASE \E c \in Cards : ConduitOpen(c)
  BY <1>1, <1>2, OpenTracked DEF ConduitOpen
<1>3. CASE \E p \in Ports : UserOpen(p)
  <2>1. PICK p \in Ports : UserOpen(p)
    BY <1>3
  <2>2. CASE OpenConduit(p[1])
    BY <1>1, <2>2, PortsOf, OpenTracked
  <2>3. CASE UNCHANGED <<conduit, track, oops, stray>>
    BY <1>1, <2>3 DEF ConduitTracked
  <2> QED
    BY <2>1, <2>2, <2>3 DEF UserOpen
<1>4. CASE \E p \in Ports : UserClose(p)
  BY <1>4 DEF UserClose, conduitVars, ConduitTracked
<1>5. CASE \E c \in Cards : LinkChange(c)
  <2>1. PICK c \in Cards, o \in BOOLEAN, q \in BOOLEAN :
          LET n == [conduit[c] EXCEPT !.oper = o, !.qdisc = q /\ conduit[c].up]
          IN  IF conduit[c].up THEN ConduitChanged(c, n)
              ELSE conduit' = [conduit EXCEPT ![c] = n] /\ UNCHANGED <<track, oops>>
    BY <1>5 DEF LinkChange
  <2> DEFINE n == [conduit[c] EXCEPT !.oper = o, !.qdisc = q /\ conduit[c].up]
  <2>2. n \in ConduitState /\ (n.up <=> conduit[c].up)
    BY DEF TypeOK, ConduitState
  <2>3. CASE conduit[c].up
    BY <1>1, <2>1, <2>2, <2>3, ChangedTracked
  <2>4. CASE ~conduit[c].up
    BY <1>1, <2>1, <2>2, <2>4 DEF ConduitTracked, TypeOK, ConduitState
  <2> QED
    BY <2>3, <2>4
<1>6. CASE \E c \in Cards : ConduitClose(c)
  <2>1. PICK c \in Cards : ConduitClose(c)
    BY <1>6
  <2> DEFINE a == dsa_tree_conduit_admin_state_change(track[c], FALSE)
  <2>2. /\ a \in TrackState /\ ~Operational(a)
        /\ (track[c].heard <=> Operational(track[c])) => ~a.heard
    BY AdminChange DEF TypeOK
  <2>3. /\ track' = IF dsaPtr[c] = "live" THEN [track EXCEPT ![c] = a] ELSE track
        /\ conduit' = [conduit EXCEPT ![c].up = FALSE, ![c].qdisc = FALSE]
    BY <2>1 DEF ConduitClose, ConduitGoingDown
  <2> HIDE DEF a
  <2>4. SUFFICES ASSUME NEW d \in Cards \ abandoned
                 PROVE  /\ dsaPtr[d] = "null" => ~track'[d].heard
                        /\ dsaPtr[d] = "live" =>
                             /\ Operational(track'[d]) =
                                  (conduit'[d].up /\ conduit'[d].qdisc /\ conduit'[d].oper)
                             /\ track'[d].heard = Operational(track'[d])
    BY <1>1 DEF ConduitTracked, Operational
  <2>5. CASE d # c
    BY <2>3, <2>5 DEF ConduitTracked, TypeOK
  <2>6. CASE d = c /\ dsaPtr[c] # "live"
    BY <2>3, <2>6 DEF ConduitTracked, TypeOK
  <2>7. CASE d = c /\ dsaPtr[c] = "live"
    <3>1. track[c].heard <=> Operational(track[c])
      BY <2>7 DEF ConduitTracked
    <3>2. track'[d] = a /\ conduit'[d].up = FALSE
      BY <2>3, <2>7 DEF TypeOK, ConduitState
    <3>3. Operational(a) = FALSE /\ a.heard = FALSE
      BY <2>2, <3>1 DEF Operational, TrackState
    <3> QED
      BY <2>7, <3>2, <3>3
  <2> QED
    BY <2>5, <2>6, <2>7
<1> QED
  BY <1>2, <1>3, <1>4, <1>5, <1>6 DEF Admin

(* A user brings up only interfaces that exist, and a qdisc is attached only *)
(* to a conduit that is up.                                                  *)
LEMMA PortAdmin ==
  ASSUME TypeOK, PortShape, ConduitShape, Admin
  PROVE  PortShape' /\ ConduitShape'
<1>1. UNCHANGED <<mutexVars, treeVars, portVars, netdev, dsaPtr, abandoned>>
  BY AdminFrame
<1>2. userUp' \subseteq netdev
  BY DEF Admin, ConduitOpen, ConduitClose, ConduitGoingDown, LinkChange, UserOpen, UserClose,
     PortShape, netVars
<1>3. ASSUME NEW c \in Cards, OpenConduit(c)
      PROVE  \A d \in Cards : conduit'[d].qdisc => conduit'[d].up
  BY <1>3 DEF OpenConduit, ConduitChanged, ConduitShape, TypeOK, ConduitState
<1>4. \A d \in Cards : conduit'[d].qdisc => conduit'[d].up
  <2>1. CASE \E c \in Cards : ConduitOpen(c)
    BY <1>3, <2>1 DEF ConduitOpen
  <2>2. CASE \E c \in Cards : ConduitClose(c)
    BY <2>2 DEF ConduitClose, ConduitShape, TypeOK, ConduitState
  <2>3. CASE \E c \in Cards : LinkChange(c)
    <3>1. PICK c \in Cards, o \in BOOLEAN, q \in BOOLEAN :
            conduit' = [conduit EXCEPT ![c] =
                          [conduit[c] EXCEPT !.oper = o, !.qdisc = q /\ conduit[c].up]]
      BY <2>3 DEF LinkChange, ConduitChanged
    <3> QED
      BY <3>1 DEF ConduitShape, TypeOK, ConduitState
  <2>4. CASE \E p \in Ports : UserOpen(p)
    BY <1>3, <2>4, PortsOf DEF UserOpen, ConduitShape
  <2>5. CASE \E p \in Ports : UserClose(p)
    BY <2>5 DEF UserClose, conduitVars, ConduitShape
  <2> QED
    BY <2>1, <2>2, <2>3, <2>4, <2>5 DEF Admin
<1> QED
  BY <1>1, <1>2, <1>4 DEF PortShape, ConduitShape, portVars

(* When a conduit in use goes down, the user ports that are closed with it  *)
(* are its own, and if its setup did not fail they all have an interface    *)
(* and none is left out.                                                    *)
LEMMA OwnPorts ==
  ASSUME TypeOK, CardShape, PortShape, NEW c \in Cards, dsaPtr[c] = "live", c \notin abandoned
  PROVE  /\ ClosesWith(c) \subseteq netdev
         /\ \A p \in Of(c) : p \in userUp => p \in ClosesWith(c)
<1>1. Complete(c)
  BY DEF CardShape, Busy, Gone
<1> QED
  BY <1>1, PortsOf, DsaTreeAssumption DEF Complete, ClosesWith, PortShape, TypeOK

(* A card that no call is about has a conduit in use or no interface up. *)
LEMMA IdlePorts ==
  ASSUME TypeOK, MutexShape, CardShape, PortShape, holder = NoCard, NEW c \in Cards,
         NEW p \in Of(c), p \in userUp
  PROVE  dsaPtr[c] = "live" /\ c \notin abandoned
BY DsaTreeAssumption DEF CardShape, PortShape, Gone, Complete

(* The notifiers of a user's step break only on a conduit whose setup was   *)
(* abandoned.                                                               *)
LEMMA NotifierAdmin ==
  ASSUME TypeOK, CardShape, PortShape, ConduitShape, Running, Admin
  PROVE  NotifierSafe'
<1>1. UNCHANGED abandoned
  BY AdminFrame
<1>2. ASSUME NEW c \in Cards, NEW n, ConduitChanged(c, n)
      PROVE  NotifierSafe'
  BY <1>1, <1>2 DEF ConduitChanged, ConduitShape, NotifierSafe, Running
<1>3. CASE \E c \in Cards : ConduitOpen(c)
  BY <1>2, <1>3 DEF ConduitOpen, OpenConduit
<1>4. CASE \E c \in Cards : ConduitClose(c)
  <2>1. PICK c \in Cards : ConduitClose(c)
    BY <1>4
  <2>2. oops' = "none" \/ dsaPtr[c] = "stale" \/ (dsaPtr[c] = "live" /\ ~(ClosesWith(c) \subseteq netdev))
    BY <2>1 DEF ConduitClose, ConduitGoingDown, Running
  <2> QED
    BY <1>1, <2>2, OwnPorts DEF NotifierSafe, ConduitShape
<1>5. CASE \E c \in Cards : LinkChange(c)
  <2>1. oops' = oops \/ \E c \in Cards : \E n : ConduitChanged(c, n)
    BY <1>5 DEF LinkChange
  <2> QED
    BY <1>2, <2>1 DEF NotifierSafe, Running
<1>6. CASE \E p \in Ports : UserOpen(p)
  <2>1. PICK p \in Ports : UserOpen(p)
    BY <1>6
  <2>2. oops' = oops \/ \E n : ConduitChanged(p[1], n)
    BY <2>1 DEF UserOpen, OpenConduit
  <2> QED
    BY <1>2, <2>2, PortsOf DEF NotifierSafe, Running
<1>7. CASE \E p \in Ports : UserClose(p)
  BY <1>7 DEF UserClose, conduitVars, NotifierSafe, Running
<1> QED
  BY <1>3, <1>4, <1>5, <1>6, <1>7 DEF Admin

(* A user interface comes up with its conduit and goes down with it, or is  *)
(* a stray one of a call.                                                   *)
LEMMA UsersAdmin ==
  ASSUME TypeOK, MutexShape, CardShape, PortShape, UserUpHasConduit, Admin
  PROVE  UserUpHasConduit'
<1>1. userUp \subseteq Ports
  BY DEF TypeOK
<1>2. ASSUME NEW c \in Cards, OpenConduit(c)
      PROVE  /\ conduit'[c].up
             /\ \A p \in userUp : conduit'[p[1]].up \/ p \in stray'
  <2>1. PICK q \in BOOLEAN : conduit' = [conduit EXCEPT ![c] =
                                            [conduit[c] EXCEPT !.up = TRUE, !.qdisc = q]]
    BY <1>2 DEF OpenConduit, ConduitChanged
  <2>2. conduit'[c].up /\ \A d \in Cards \ {c} : conduit'[d] = conduit[d]
    BY <2>1 DEF TypeOK, ConduitState
  <2> QED
    BY <1>1, <1>2, <2>2, PortsOf DEF OpenConduit, UserUpHasConduit
<1>3. CASE \E c \in Cards : ConduitOpen(c)
  BY <1>2, <1>3 DEF ConduitOpen, UserUpHasConduit
<1>4. CASE \E c \in Cards : ConduitClose(c)
  <2>1. PICK c \in Cards : ConduitClose(c)
    BY <1>4
  <2>2. \A d \in Cards \ {c} : conduit'[d] = conduit[d]
    BY <2>1 DEF ConduitClose, TypeOK
  <2>3. SUFFICES ASSUME NEW p \in userUp' PROVE conduit'[p[1]].up \/ p \in stray'
    BY DEF UserUpHasConduit
  <2>4. p \in userUp /\ p \in Ports
    BY <1>1, <2>1 DEF ConduitClose, ConduitGoingDown
  <2>5. CASE p[1] # c
    BY <2>1, <2>2, <2>4, <2>5, PortsOf DEF ConduitClose, ConduitGoingDown, UserUpHasConduit
  <2>6. CASE p[1] = c
    <3>1. p \in Of(c)
      BY <2>4, <2>6, PortsOf
    <3>2. CASE holder = NoCard
      <4>1. dsaPtr[c] = "live" /\ c \notin abandoned
        BY <2>4, <3>1, <3>2, IdlePorts
      <4>2. p \in ClosesWith(c)
        BY <2>4, <3>1, <4>1, OwnPorts
      <4> QED
        BY <2>1, <2>3, <4>1, <4>2 DEF ConduitClose, ConduitGoingDown
    <3>3. CASE holder # NoCard
      BY <2>1, <2>3, <2>4, <3>1, <3>3 DEF ConduitClose, ConduitGoingDown
    <3> QED
      BY <3>2, <3>3
  <2> QED
    BY <2>5, <2>6
<1>5. CASE \E c \in Cards : LinkChange(c)
  <2>1. PICK c \in Cards, o \in BOOLEAN, q \in BOOLEAN :
          conduit' = [conduit EXCEPT ![c] =
                        [conduit[c] EXCEPT !.oper = o, !.qdisc = q /\ conduit[c].up]]
    BY <1>5 DEF LinkChange, ConduitChanged
  <2>2. \A d \in Cards : conduit'[d].up <=> conduit[d].up
    BY <2>1 DEF TypeOK, ConduitState
  <2>3. userUp' = userUp /\ stray' = stray
    BY <1>5 DEF LinkChange, netVars
  <2> QED
    BY <1>1, <2>2, <2>3, PortsOf DEF UserUpHasConduit
<1>6. CASE \E p \in Ports : UserOpen(p)
  <2>1. PICK p \in Ports : UserOpen(p)
    BY <1>6
  <2>2. userUp' \subseteq userUp \cup {p}
    BY <2>1 DEF UserOpen
  <2>3. CASE OpenConduit(p[1])
    BY <1>2, <2>2, <2>3, PortsOf DEF UserUpHasConduit
  <2>4. CASE conduit[p[1]].up /\ UNCHANGED <<conduit, track, oops, stray>>
    BY <2>2, <2>4 DEF UserUpHasConduit
  <2> QED
    BY <2>1, <2>3, <2>4 DEF UserOpen
<1>7. CASE \E p \in Ports : UserClose(p)
  BY <1>7 DEF UserClose, conduitVars, UserUpHasConduit
<1> QED
  BY <1>3, <1>4, <1>5, <1>6, <1>7 DEF Admin

-----------------------------------------------------------------------------
(* Every step preserves the invariant. *)
LEMMA StepInv == TreeInv /\ [Next]_vars => TreeInv'
<1> SUFFICES ASSUME TreeInv, [Next]_vars PROVE TreeInv'
  OBVIOUS
<1> USE DEF TreeInv
<1>1. ASSUME NEW c \in Cards, Call(c), Running
      PROVE  TreeInv'
  BY <1>1, TypeCall, CountCall, CardCall, PortCall, UsersCall, TrackedCall
<1>2. CASE Admin /\ Running
  <2>1. MutexShape' /\ RefShape'
    BY <1>2, AdminFrame DEF mutexVars, treeVars, MutexShape, RefShape, CallRefs
  <2> QED
    BY <1>2, <2>1, TypeAdmin, CardAdmin, PortAdmin, TrackedAdmin, NotifierAdmin, UsersAdmin
<1>3. CASE UNCHANGED vars
  <2> USE <1>3 DEF vars, mutexVars, treeVars, portVars, netVars, conduitVars
  <2>1. TypeOK' /\ MutexShape' /\ RefShape'
    BY DEF TypeOK, MutexShape, RefShape, CallRefs
  <2>2. CardShape'
    BY DEF CardShape, Busy, Gone, Complete
  <2>3. PortShape' /\ ConduitShape'
    BY DEF PortShape, ConduitShape
  <2>4. NotifierSafe' /\ ConduitTracked' /\ UserUpHasConduit'
    BY DEF NotifierSafe, ConduitTracked, UserUpHasConduit
  <2> QED
    BY <2>1, <2>2, <2>3, <2>4
<1> QED
  BY <1>1, <1>2, <1>3, NextCases

(* The invariant holds in every reachable state. *)
LEMMA Invariance == Spec => []TreeInv
BY InitInv, StepInv, PTL DEF Spec

(* Whatever a registration or a removal is doing, and whatever else shares  *)
(* the tree's list of ports, a notifier finds an interface behind every     *)
(* user port it closes and a port behind the conduit's pointer, unless      *)
(* dsa_conduit_setup failed halfway on some card.                           *)
THEOREM NotifiersAreSafe == Spec => []NotifierSafe
<1>1. TreeInv => NotifierSafe
  BY DEF TreeInv
<1> QED
  BY <1>1, Invariance, PTL

(* The CPU port and the switches know the state of every conduit in use, and *)
(* have heard that it is down of one no longer in use.                       *)
THEOREM ConduitsAreTracked == Spec => []ConduitTracked
<1>1. TreeInv => ConduitTracked
  BY DEF TreeInv
<1> QED
  BY <1>1, Invariance, PTL

(* A user interface that is up has its conduit up, or its conduit was closed *)
(* during a call, while the pointer was not set.                             *)
THEOREM UsersHaveConduits == Spec => []UserUpHasConduit
<1>1. TreeInv => UserUpHasConduit
  BY DEF TreeInv
<1> QED
  BY <1>1, Invariance, PTL

(* Between calls the references on tree and tagger are those of the bound   *)
(* card, and a card whose registration failed at any step left nothing.     *)
THEOREM RegistrationBalances == Spec => []Balanced
<1>1. ASSUME TreeInv PROVE Balanced
  <2> USE <1>1 DEF TreeInv
  <2>1. SUFFICES ASSUME holder = NoCard
                 PROVE  Balanced
    BY DEF Balanced
  <2>2. pc = "idle" /\ CallRefs = 0
    <3>1. pc = "idle"
      BY <2>1 DEF MutexShape
    <3> QED
      BY <3>1 DEF CallRefs, Parsed, SettingUp
  <2>3. refs = Cardinality(bound) /\ refs <= 1 /\ (refs > 0 <=> bound # {})
    <3>1. CASE bound = {}
      BY <2>2, <3>1, FS_EmptySet DEF RefShape
    <3>2. CASE bound # {}
      <4>1. PICK c \in bound : bound = {c}
        BY <3>2 DEF MutexShape
      <4>2. Cardinality(bound) = 1
        BY <4>1, FS_Singleton
      <4> QED
        BY <2>2, <3>2, <4>2 DEF RefShape
    <3> QED
      BY <3>1, <3>2
  <2>4. /\ tagged <=> bound # {}
        /\ treeSetup <=> bound # {}
    BY <2>2 DEF RefShape
  <2>5. tagged = (refs > 0) /\ treeSetup = (bound # {})
    BY <2>3, <2>4 DEF TypeOK
  <2>6. tagRefs = refs
    BY <2>2, <2>4 DEF RefShape
  <2>7. \A d \in Cards : IF d \in bound THEN Complete(d) ELSE Gone(d)
    BY <2>1, DsaTreeAssumption DEF CardShape
  <2>8. sw = bound /\ ready = bound
    BY <2>7 DEF Complete, Gone, TypeOK
  <2>9. \A p \in Ports :
           p[1] \notin bound => /\ kind[p] = "none" /\ cpuDp[p] = NoCard
                               /\ p \notin isSetup \cup netdev \cup userUp
    BY <2>7, PortsOf DEF Gone, PortShape
  <2>10. \A d \in Cards : dsaPtr[d] = "live" => d \in bound
    BY <2>7 DEF Gone
  <2> QED
    BY <2>3, <2>5, <2>6, <2>8, <2>9, <2>10 DEF Balanced
<1> QED
  BY <1>1, Invariance, PTL
=============================================================================
