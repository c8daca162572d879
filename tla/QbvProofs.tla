----------------------------- MODULE QbvProofs ------------------------------
(***************************************************************************)
(* Proofs about Qbv for any number of ports and domains, any set of ports  *)
(* with gates and any number of requests and clock operations, with one    *)
(* interrupt and with MSI-X; and about the arithmetic of QbvTime.          *)
(***************************************************************************)
EXTENDS Qbv, QbvTime, TLAPS, WellFoundedInduction

(* The steps of a handler that has chosen a port, selected it, and read it. *)
HasPort  == {"port", "read", "select", "time", "write"}
Selected == {"read", "select", "time", "write"}
OnPort   == {"select", "time", "write"}

(* What the handlers know, however they interleave: requests name ports, or *)
(* timers, and a handler that goes to a port has one.                       *)
RequestShape ==
  /\ req["config"] \in SUBSET Ports /\ req["timer"] \in SUBSET Ports
  /\ req["value"] \in SUBSET Timers
  /\ \A h \in Handlers : pc[h] \in HasPort => port[h] \in Ports

(* Without overlap one handler is under way, and the selector stays where   *)
(* it put it.                                                               *)
OneHandler == \A g, h \in Handlers : pc[g] # "idle" /\ pc[h] # "idle" => g = h
SelectorHeld ==
  \A h \in Handlers :
    /\ pc[h] \in Selected => port_sel = port[h]
    /\ pc[h] \in OnPort => regs[h] = port_sel

Want(p) == [port |-> p, timer |-> domain[p] + 1]

(* A change of port p's timer that ax_irq_timer_change has still to see, or *)
(* will clear unseen.                                                       *)
Due(p) ==
  \/ p \in req["timer"] /\ irq["timer"] /\ pc["timer"] = "idle"
  \/ p \in req["timer"] /\ p # port["timer"] /\ pc["timer"] # "idle"
  \/ p = port["timer"] /\ pc["timer"] \in HasPort

(* The times of port p belong to its timer: the one it starts at, the one a *)
(* pending change will start it at, and the one a handler is about to write. *)
OwnTimer(p) ==
  /\ \/ Due(p)
     \/ pending[p] /\ change[p] = Want(p)
     \/ ~pending[p] /\ start[p] = Want(p)
  /\ \A h \in Handlers : port[h] = p =>
       /\ pc[h] = "time" => tmr_sel = domain[p] + 1 \/ (h # "timer" /\ Due(p))
       /\ pc[h] = "write" => time[h] = domain[p] + 1 \/ (h # "timer" /\ Due(p))

TimesNamed == \A p \in Ports : start[p].port \in {-1, p} /\ change[p].port \in {-1, p}
SafePassed ==
  \A p \in Ports : ctrl[p] = 2 =>
    \/ pending[p]
    \/ \E h \in Handlers \ {"config"} : regs[h] = p /\ pc[h] \in OnPort
OwnTimers == \A p \in Enabled \ crossed : OwnTimer(p)

(* All of it, and what holds as long as no two handlers have met. *)
Undisturbed == OneHandler /\ SelectorHeld /\ TimesNamed /\ SafePassed /\ OwnTimers
QbvInv == TypeOK /\ RequestShape /\ (~overlap => Undisturbed)

-----------------------------------------------------------------------------
(* A set of natural numbers that is not empty has a least element. *)
LEMMA NatMin ==
  ASSUME NEW S \in SUBSET Nat, S # {}
  PROVE  \E i \in S : \A j \in S : i <= j
<1>1. IsWellFoundedOn(OpToRel(<, Nat), Nat)
  BY NatLessThanWellFounded
<1> DEFINE R == OpToRel(<, Nat)
<1>2. \E x \in S : \A y \in S : ~ (<<y, x>> \in R)
  <2> HIDE DEF R
  <2>1. IsWellFoundedOn(R, Nat)
    BY <1>1 DEF R
  <2> QED
    BY <2>1, WFMin
<1>3. \A x, y \in Nat : y < x => <<y, x>> \in R
  BY DEF OpToRel
<1>4. PICK x \in S : \A y \in S : ~ (<<y, x>> \in R)
  BY <1>2
<1> HIDE DEF R
<1>5. ASSUME NEW y \in S PROVE x <= y
  <2>1. x \in Nat /\ y \in Nat /\ ~(<<y, x>> \in R)
    BY <1>4
  <2>2. ~(y < x)
    BY <1>3, <2>1
  <2> QED
    BY <2>1, <2>2
<1> QED
  BY <1>5

(* get_index_by_mask finds a bit that is set, if there is one. *)
LEMMA IndexInMask ==
  ASSUME NEW mask \in SUBSET Nat
  PROVE  /\ mask = {} => get_index_by_mask(mask) = -1
         /\ mask # {} => get_index_by_mask(mask) \in mask
BY NatMin DEF get_index_by_mask

(* The index a handler takes from its request register. *)
LEMMA IndexTypes ==
  ASSUME RequestShape, NEW h \in Handlers
  PROVE  LET i == get_index_by_mask(req[h])
         IN  /\ req[h] = {} => i = -1
             /\ req[h] # {} => i \in req[h]
             /\ h # "value" => i \in {-1} \cup Ports
             /\ h = "value" => i \in {-1} \cup Timers
<1>1. Ports \subseteq Nat /\ Timers \subseteq Nat
  BY QbvAssumption DEF Ports, Timers
<1>2. /\ h # "value" => req[h] \in SUBSET Ports
      /\ h = "value" => req[h] \in SUBSET Timers
  BY DEF RequestShape, Handlers
<1>3. req[h] \in SUBSET Nat
  BY <1>1, <1>2
<1> QED
  BY <1>2, <1>3, IndexInMask

(* The initial state: every port runs on the timer of domain 0. *)
LEMMA InitInv == Init => QbvInv
<1> SUFFICES ASSUME Init PROVE QbvInv
  OBVIOUS
<1> USE QbvAssumption
<1>1. 0 \in Ports /\ 0 \in Domains /\ 0 \in Timers /\ 1 \in Timers
  BY DEF Ports, Domains, Timers
<1>2. NoTime \in Times /\ \A q \in Ports : [port |-> q, timer |-> 1] \in Times
  BY <1>1 DEF NoTime, Times
<1>3. TypeOK
  <2>1. /\ port_sel \in Ports /\ tmr_sel \in Timers
        /\ domain \in [Ports -> Domains]
        /\ pending \in [Ports -> BOOLEAN]
        /\ req \in [Handlers -> SUBSET (Ports \cup Timers)]
        /\ irq \in [Handlers -> BOOLEAN]
        /\ port \in [Handlers -> {-1} \cup Ports]
        /\ regs \in [Handlers -> {-1} \cup Ports]
        /\ time \in [Handlers -> {-1} \cup Timers]
        /\ changed \in {-1} \cup Timers
    BY <1>1 DEF Init
  <2>2. ctrl \in [Ports -> 0 .. 2]
    BY DEF Init
  <2>3. start \in [Ports -> Times] /\ change \in [Ports -> Times]
    BY <1>2 DEF Init
  <2>4. /\ pc \in [Handlers -> {"idle", "port", "read", "select", "time", "write", "end"}]
        /\ clock \in [Domains -> {"idle", "get", "set", "adjtime", "adjfine"}]
    BY DEF Init
  <2>5. requests \in 0 .. MaxRequests /\ clock_ops \in 0 .. MaxClockOps
    BY DEF Init
  <2>6. legacy \in BOOLEAN /\ overlap \in BOOLEAN /\ crossed \subseteq Ports
    BY DEF Init
  <2> QED
    BY <2>1, <2>2, <2>3, <2>4, <2>5, <2>6 DEF TypeOK
<1>4. RequestShape
  BY DEF Init, RequestShape, Handlers, HasPort
<1>5. OneHandler /\ SelectorHeld
  BY DEF Init, OneHandler, SelectorHeld, Selected, OnPort
<1>6. TimesNamed
  BY DEF Init, TimesNamed, NoTime
<1>7. SafePassed
  BY DEF Init, SafePassed
<1>8. OwnTimers
  BY DEF Init, OwnTimers, OwnTimer, Want
<1> QED
  BY <1>3, <1>4, <1>5, <1>6, <1>7, <1>8 DEF QbvInv, Undisturbed

-----------------------------------------------------------------------------
(* Types, and what requests and handlers name, in every step. *)
LEMMA TypeStep ==
  ASSUME TypeOK, RequestShape, [Next]_vars
  PROVE  TypeOK' /\ RequestShape'
<1> USE QbvAssumption
<1>1. ASSUME NEW p \in Ports, RequestConfig(p)
      PROVE  TypeOK' /\ RequestShape'
  <2>1. TypeOK'
    BY <1>1 DEF TypeOK, RequestConfig, Raise, switch, local, clocks, mode, Handlers
  <2>2. RequestShape'
    BY <1>1 DEF TypeOK, RequestShape, RequestConfig, Raise, local, Handlers
  <2> QED
    BY <2>1, <2>2
<1>2. ASSUME NEW p \in Ports, HwConfigApplied(p)
      PROVE  TypeOK' /\ RequestShape'
  <2>1. TypeOK'
    BY <1>2 DEF TypeOK, HwConfigApplied, local, clocks, mode
  <2>2. RequestShape'
    BY <1>2 DEF RequestShape, HwConfigApplied, local
  <2> QED
    BY <2>1, <2>2
<1>3. ASSUME NEW p \in Ports, NEW e \in Domains, ChangeTimer(p, e)
      PROVE  TypeOK' /\ RequestShape'
  <2>1. TypeOK'
    BY <1>3 DEF TypeOK, ChangeTimer, Raise, local, clocks, Handlers
  <2>2. RequestShape'
    BY <1>3 DEF TypeOK, RequestShape, ChangeTimer, Raise, local, Handlers
  <2> QED
    BY <2>1, <2>2
<1>4. ASSUME NEW e \in Domains, ClockSelect(e)
      PROVE  TypeOK' /\ RequestShape'
  <2>1. \A h \in Handlers : pc[h] = "time" => port[h] \in Ports
    BY DEF RequestShape, HasPort
  <2>2. TypeOK'
    BY <1>4, <2>1 DEF TypeOK, ClockSelect, local, Domains, Timers
  <2>3. RequestShape'
    BY <1>4 DEF RequestShape, ClockSelect, local
  <2> QED
    BY <2>2, <2>3
<1>5. ASSUME NEW e \in Domains, ClockAccess(e)
      PROVE  TypeOK' /\ RequestShape'
  BY <1>5 DEF TypeOK, RequestShape, ClockAccess, switch, local, mode
<1>6. ASSUME NEW e \in Domains, ClockWrite(e)
      PROVE  TypeOK' /\ RequestShape'
  <2>1. TypeOK'
    BY <1>6 DEF TypeOK, ClockWrite, switch, local, mode, Handlers
  <2>2. RequestShape'
    BY <1>6 DEF TypeOK, RequestShape, ClockWrite, switch, local, Handlers
  <2> QED
    BY <2>1, <2>2
<1>7. ASSUME NEW h \in Handlers, Enter(h)
      PROVE  TypeOK' /\ RequestShape'
  <2> DEFINE i == get_index_by_mask(req[h])
  <2>1. /\ h # "value" => i \in {-1} \cup Ports
        /\ h = "value" => i \in {-1} \cup Timers
    BY IndexTypes
  <2>2. 0 \in Ports
    BY DEF Ports
  <2> HIDE DEF i
  <2>3. CASE h = "value"
    <3>1. /\ changed' = i /\ port' = [port EXCEPT ![h] = 0]
          /\ pc' = [pc EXCEPT ![h] = "port"] /\ irq' = [irq EXCEPT ![h] = FALSE]
          /\ overlap' \in BOOLEAN
          /\ UNCHANGED <<switch, req, regs, time, clocks, requests, legacy, crossed>>
      BY <1>7, <2>3 DEF Enter, Goto, i
    <3> QED
      BY <2>1, <2>2, <2>3, <3>1 DEF TypeOK, RequestShape, switch, clocks, HasPort
  <2>4. CASE h # "value"
    <3>1. /\ changed' = changed /\ port' = [port EXCEPT ![h] = i]
          /\ pc' = [pc EXCEPT ![h] = IF i = -1 THEN "end" ELSE "port"]
          /\ irq' = [irq EXCEPT ![h] = FALSE]
          /\ overlap' \in BOOLEAN
          /\ UNCHANGED <<switch, req, regs, time, clocks, requests, legacy, crossed>>
      BY <1>7, <2>4 DEF Enter, Goto, i
    <3>2. TypeOK'
      BY <2>1, <2>4, <3>1 DEF TypeOK, switch, clocks
    <3>3. RequestShape'
      BY <2>1, <2>4, <3>1 DEF TypeOK, RequestShape, HasPort
    <3> QED
      BY <3>2, <3>3
  <2> QED
    BY <2>3, <2>4
<1>8. ASSUME NEW h \in Handlers, SelectPort(h)
      PROVE  TypeOK' /\ RequestShape'
  BY <1>8 DEF TypeOK, RequestShape, SelectPort, Goto, clocks, mode, HasPort
<1>9. ASSUME NEW h \in Handlers, Leave(h), pc[h] \in HasPort
      PROVE  /\ port' \in [Handlers -> {-1} \cup Ports]
             /\ pc' \in [Handlers -> {"idle", "port", "read", "select", "time", "write", "end"}]
             /\ \A g \in Handlers : pc'[g] \in HasPort => port'[g] \in Ports
  <2>1. port[h] \in Ports
    BY <1>9 DEF RequestShape
  <2>2. CASE h = "value" /\ port[h] + 1 < NumPorts
    <3>1. port[h] + 1 \in Ports
      BY <2>1, <2>2 DEF Ports
    <3>2. pc' = [pc EXCEPT ![h] = "port"] /\ port' = [port EXCEPT ![h] = port[h] + 1]
      BY <1>9, <2>2 DEF Leave, Goto
    <3> QED
      BY <3>1, <3>2 DEF TypeOK, RequestShape
  <2>3. CASE ~(h = "value" /\ port[h] + 1 < NumPorts)
    BY <1>9, <2>3 DEF Leave, Goto, TypeOK, RequestShape, HasPort
  <2> QED
    BY <2>2, <2>3
<1>10. ASSUME NEW h \in Handlers, ReadPort(h)
       PROVE  TypeOK' /\ RequestShape'
  <2>1. pc[h] = "read" /\ UNCHANGED <<port_sel, tmr_sel, domain, pending, start, change,
                                      req, irq, time, changed, clocks, requests, mode>>
    BY <1>10 DEF ReadPort
  <2>2. CASE Concerned(h)
    <3>1. /\ regs' = [regs EXCEPT ![h] = port_sel]
          /\ ctrl' = IF h = "config" THEN ctrl ELSE [ctrl EXCEPT ![port_sel] = 2]
          /\ pc' = [pc EXCEPT ![h] = "select"] /\ port' = port
      BY <1>10, <2>2 DEF ReadPort, Goto
    <3> QED
      BY <2>1, <3>1 DEF TypeOK, RequestShape, HasPort, clocks, mode
  <2>3. CASE ~Concerned(h)
    <3>1. Leave(h) /\ regs' = regs /\ ctrl' = ctrl
      BY <1>10, <2>3 DEF ReadPort
    <3>2. /\ port' \in [Handlers -> {-1} \cup Ports]
          /\ pc' \in [Handlers -> {"idle", "port", "read", "select", "time", "write", "end"}]
          /\ \A g \in Handlers : pc'[g] \in HasPort => port'[g] \in Ports
      BY <1>9, <2>1, <3>1 DEF HasPort
    <3> QED
      BY <2>1, <3>1, <3>2 DEF TypeOK, RequestShape, clocks, mode
  <2> QED
    BY <2>2, <2>3
<1>11. ASSUME NEW h \in Handlers, SelectTimer(h)
       PROVE  TypeOK' /\ RequestShape'
  <2>1. domain[port_sel] + 1 \in Timers
    BY DEF TypeOK, Domains, Timers
  <2> QED
    BY <1>11, <2>1 DEF TypeOK, RequestShape, SelectTimer, Goto, clocks, mode, HasPort
<1>12. ASSUME NEW h \in Handlers, ReadTime(h)
       PROVE  TypeOK' /\ RequestShape'
  BY <1>12 DEF TypeOK, RequestShape, ReadTime, Goto, switch, clocks, mode, HasPort
<1>13. ASSUME NEW h \in Handlers, WritePort(h)
       PROVE  TypeOK' /\ RequestShape'
  <2>1. /\ pc[h] = "write" /\ Leave(h) /\ port_sel \in Ports
        /\ UNCHANGED <<port_sel, tmr_sel, domain, req, irq, regs, time, changed,
                       clocks, requests, legacy, overlap>>
    BY <1>13 DEF WritePort, TypeOK
  <2>2. /\ port' \in [Handlers -> {-1} \cup Ports]
        /\ pc' \in [Handlers -> {"idle", "port", "read", "select", "time", "write", "end"}]
        /\ \A g \in Handlers : pc'[g] \in HasPort => port'[g] \in Ports
    BY <1>9, <2>1 DEF HasPort
  <2>3. Computed(h) \in Times
    BY DEF Computed, Times, TypeOK
  <2>4. /\ start' \in [Ports -> Times] /\ change' \in [Ports -> Times]
        /\ pending' \in [Ports -> BOOLEAN] /\ ctrl' \in [Ports -> 0 .. 2]
    <3>1. CASE UNCHANGED <<start, change, pending, ctrl>>
      BY <3>1 DEF TypeOK
    <3>2. CASE /\ change' = [change EXCEPT ![port_sel] = Computed(h)]
               /\ pending' = [pending EXCEPT ![port_sel] = TRUE]
               /\ UNCHANGED <<start, ctrl>>
      BY <2>1, <2>3, <3>2 DEF TypeOK
    <3>3. CASE WriteCycleStart(h)
      <4> HIDE DEF Computed
      <4> QED
        BY <2>1, <2>3, <3>3 DEF WriteCycleStart, TypeOK
    <3> QED
      BY <1>13, <3>1, <3>2, <3>3 DEF WritePort
  <2>5. crossed' \subseteq Ports
    BY <1>13, <2>1 DEF WritePort, TypeOK
  <2> QED
    BY <2>1, <2>2, <2>4, <2>5 DEF TypeOK, RequestShape, clocks
<1>14. ASSUME NEW h \in Handlers, Finish(h)
       PROVE  TypeOK' /\ RequestShape'
  <2>1. crossed' \subseteq Ports
    BY <1>14 DEF Finish, TypeOK, RequestShape
  <2> QED
    BY <1>14, <2>1 DEF TypeOK, RequestShape, Finish, Goto, switch, clocks, HasPort, Handlers
<1>15. CASE UNCHANGED vars
  BY <1>15 DEF TypeOK, RequestShape, vars, switch, local, clocks, mode
<1> QED
  BY <1>1, <1>2, <1>3, <1>4, <1>5, <1>6, <1>7, <1>8, <1>10, <1>11, <1>12, <1>13, <1>14,
     <1>15 DEF Next, Step

-----------------------------------------------------------------------------
(***************************************************************************)
(* Without overlap.  A step of a handler is the step of the only one that  *)
(* is under way.                                                           *)
(***************************************************************************)
LEMMA HandlerAlone ==
  ASSUME OneHandler, NEW h \in Handlers, pc[h] # "idle"
  PROVE  \A g \in Handlers : g # h => pc[g] = "idle"
BY DEF OneHandler

(* How Leave moves the handler: to the next port, or to its end. *)
LEMMA LeaveMoves ==
  ASSUME TypeOK, NEW h \in Handlers, Leave(h)
  PROVE  /\ pc'[h] \in {"port", "end"}
         /\ \A g \in Handlers : g # h => pc'[g] = pc[g] /\ port'[g] = port[g]
         /\ h # "value" => pc'[h] = "end" /\ port' = port
<1>1. CASE h = "value" /\ port[h] + 1 < NumPorts
  BY <1>1 DEF Leave, Goto, TypeOK
<1>2. CASE ~(h = "value" /\ port[h] + 1 < NumPorts)
  BY <1>2 DEF Leave, Goto, TypeOK
<1> QED
  BY <1>1, <1>2

(* The locals and selectors that a step of something else than a handler    *)
(* leaves alone.                                                            *)
Bystander == UNCHANGED <<port_sel, pc, port, regs, time, overlap>>

(* The environment and the clock operations. *)
LEMMA BystanderSteps ==
  ASSUME TypeOK,
         \/ \E p \in Ports : RequestConfig(p) \/ HwConfigApplied(p)
         \/ \E p \in Ports, e \in Domains : ChangeTimer(p, e)
         \/ \E e \in Domains : ClockSelect(e) \/ ClockAccess(e) \/ ClockWrite(e)
         \/ UNCHANGED vars
  PROVE  Bystander
BY DEF Bystander, RequestConfig, HwConfigApplied, ChangeTimer, ClockSelect, ClockAccess,
  ClockWrite, vars, switch, local, mode

(* One handler at a time, and the selector where it put it. *)
LEMMA OneHandlerStep ==
  ASSUME QbvInv, [Next]_vars, ~overlap'
  PROVE  ~overlap /\ OneHandler' /\ SelectorHeld'
<1>1. CASE Bystander
  BY <1>1 DEF Bystander, QbvInv, Undisturbed, OneHandler, SelectorHeld
<1>2. ASSUME NEW h \in Handlers, Enter(h)
      PROVE  ~overlap /\ OneHandler' /\ SelectorHeld'
  <2>1. ~overlap /\ \A g \in Handlers : pc[g] = "idle"
    BY <1>2 DEF Enter
  <2>2. pc'[h] \in {"port", "end"} /\ \A g \in Handlers : g # h => pc'[g] = pc[g]
    BY <1>2 DEF Enter, Goto, QbvInv, TypeOK
  <2> QED
    BY <2>1, <2>2 DEF OneHandler, SelectorHeld, Selected, OnPort
<1>3. ASSUME NEW h \in Handlers,
             \/ SelectPort(h) \/ ReadPort(h) \/ SelectTimer(h) \/ ReadTime(h)
             \/ WritePort(h) \/ Finish(h)
      PROVE  ~overlap /\ OneHandler' /\ SelectorHeld'
  <2>1. ~overlap
    BY <1>3 DEF SelectPort, ReadPort, SelectTimer, ReadTime, WritePort, Finish, mode
  <2>2. TypeOK /\ OneHandler /\ SelectorHeld
    BY <2>1 DEF QbvInv, Undisturbed
  <2>3. pc[h] # "idle"
    BY <1>3 DEF SelectPort, ReadPort, SelectTimer, ReadTime, WritePort, Finish
  <2>4. \A g \in Handlers : g # h => pc[g] = "idle"
    BY <2>2, <2>3, HandlerAlone
  <2>5. CASE SelectPort(h)
    BY <2>1, <2>2, <2>4, <2>5 DEF SelectPort, Goto, TypeOK, OneHandler, SelectorHeld,
      Selected, OnPort
  <2>6. CASE ReadPort(h)
    <3>1. CASE Concerned(h)
      BY <2>1, <2>2, <2>4, <2>6, <3>1 DEF ReadPort, Goto, TypeOK, OneHandler, SelectorHeld,
        Selected, OnPort
    <3>2. CASE ~Concerned(h)
      <4>1. Leave(h) /\ port_sel' = port_sel
        BY <2>6, <3>2 DEF ReadPort
      <4> QED
        BY <2>1, <2>2, <2>4, <4>1, LeaveMoves DEF OneHandler, SelectorHeld, Selected, OnPort
    <3> QED
      BY <3>1, <3>2
  <2>7. CASE SelectTimer(h) \/ ReadTime(h)
    BY <2>1, <2>2, <2>4, <2>7 DEF SelectTimer, ReadTime, Goto, TypeOK, OneHandler,
      SelectorHeld, Selected, OnPort, switch
  <2>8. CASE WritePort(h)
    <3>1. Leave(h) /\ port_sel' = port_sel
      BY <2>8 DEF WritePort
    <3> QED
      BY <2>1, <2>2, <2>4, <3>1, LeaveMoves DEF OneHandler, SelectorHeld, Selected, OnPort
  <2>9. CASE Finish(h)
    BY <2>1, <2>2, <2>4, <2>9 DEF Finish, Goto, TypeOK, OneHandler, SelectorHeld,
      Selected, OnPort
  <2> QED
    BY <1>3, <2>5, <2>6, <2>7, <2>8, <2>9
<1> QED
  BY <1>1, <1>2, <1>3, BystanderSteps DEF Next, Step, QbvInv

(* What is written to a port was computed for it. *)
LEMMA TimesNamedStep ==
  ASSUME QbvInv, [Next]_vars, ~overlap'
  PROVE  TimesNamed'
<1>1. ~overlap /\ TypeOK /\ OneHandler /\ SelectorHeld /\ TimesNamed
  BY OneHandlerStep DEF QbvInv, Undisturbed
<1>2. CASE UNCHANGED <<start, change>>
  BY <1>1, <1>2 DEF TimesNamed
<1>3. ASSUME NEW p \in Ports, HwConfigApplied(p)
      PROVE  TimesNamed'
  BY <1>1, <1>3 DEF HwConfigApplied, TimesNamed, TypeOK
<1>4. ASSUME NEW h \in Handlers, WritePort(h)
      PROVE  TimesNamed'
  <2>1. Computed(h).port = port_sel /\ port_sel \in Ports
    BY <1>1, <1>4 DEF Computed, WritePort, SelectorHeld, Selected, TypeOK
  <2>2. /\ start' \in {start, [start EXCEPT ![port_sel] = Computed(h)]}
        /\ change' \in {change, [change EXCEPT ![port_sel] = Computed(h)]}
    BY <1>4 DEF WritePort, WriteCycleStart
  <2> HIDE DEF Computed
  <2> QED
    BY <1>1, <2>1, <2>2 DEF TimesNamed, TypeOK
<1> QED
  BY <1>1, <1>2, <1>3, <1>4 DEF Next, Step, RequestConfig, ChangeTimer, ClockSelect,
    ClockAccess, ClockWrite, Enter, SelectPort, ReadPort, SelectTimer, ReadTime, Finish,
    vars, switch

(* The safe state is passed through. *)
LEMMA SafePassedStep ==
  ASSUME QbvInv, [Next]_vars, ~overlap'
  PROVE  SafePassed'
<1>1. ~overlap /\ TypeOK /\ OneHandler /\ SelectorHeld /\ SafePassed
  BY OneHandlerStep DEF QbvInv, Undisturbed
<1>2. CASE UNCHANGED <<ctrl, pending, regs, pc>>
  BY <1>1, <1>2 DEF SafePassed
<1>3. ASSUME NEW p \in Ports, HwConfigApplied(p)
      PROVE  SafePassed'
  BY <1>1, <1>3 DEF HwConfigApplied, SafePassed, TypeOK, local
<1>4. ASSUME NEW h \in Handlers, UNCHANGED <<ctrl, pending, regs>>, pc[h] \notin OnPort,
             \A g \in Handlers : g # h => pc'[g] = pc[g]
      PROVE  SafePassed'
  BY <1>1, <1>4 DEF SafePassed
<1>5. ASSUME NEW h \in Handlers, Enter(h) \/ SelectPort(h) \/ Finish(h)
      PROVE  SafePassed'
  <2>1. /\ UNCHANGED <<ctrl, pending, regs>> /\ pc[h] \notin OnPort
        /\ \A g \in Handlers : g # h => pc'[g] = pc[g]
    BY <1>1, <1>5 DEF Enter, SelectPort, Finish, Goto, TypeOK, OnPort, switch
  <2> QED
    BY <1>4, <2>1
<1>6. ASSUME NEW h \in Handlers, ReadPort(h)
      PROVE  SafePassed'
  <2>1. pc[h] = "read" /\ pending' = pending /\ port_sel \in Ports
    BY <1>1, <1>6 DEF ReadPort, TypeOK
  <2>2. CASE Concerned(h)
    <3>1. /\ regs' = [regs EXCEPT ![h] = port_sel]
          /\ ctrl' = IF h = "config" THEN ctrl ELSE [ctrl EXCEPT ![port_sel] = 2]
          /\ pc' = [pc EXCEPT ![h] = "select"]
      BY <1>6, <2>2 DEF ReadPort, Goto
    <3>2. /\ regs'[h] = port_sel /\ pc'[h] \in OnPort
          /\ \A g \in Handlers : g # h => regs'[g] = regs[g] /\ pc'[g] = pc[g]
      BY <1>1, <3>1 DEF TypeOK, OnPort
    <3> SUFFICES ASSUME NEW p \in Ports, ctrl'[p] = 2
                 PROVE  \/ pending'[p]
                        \/ \E g \in Handlers \ {"config"} : regs'[g] = p /\ pc'[g] \in OnPort
      BY DEF SafePassed
    <3>3. CASE ctrl[p] # 2
      <4>1. h # "config" /\ p = port_sel
        BY <1>1, <2>1, <3>1, <3>3 DEF TypeOK
      <4> QED
        BY <3>2, <4>1
    <3>4. CASE ctrl[p] = 2 /\ ~pending[p]
      <4>1. PICK g \in Handlers \ {"config"} : regs[g] = p /\ pc[g] \in OnPort
        BY <1>1, <3>4 DEF SafePassed
      <4>2. g # h
        BY <2>1, <4>1 DEF OnPort
      <4> QED
        BY <3>2, <4>1, <4>2
    <3> QED
      BY <2>1, <3>3, <3>4
  <2>3. CASE ~Concerned(h)
    <3>1. Leave(h) /\ regs' = regs /\ ctrl' = ctrl
      BY <1>6, <2>3 DEF ReadPort
    <3> QED
      BY <1>1, <1>4, <2>1, <3>1, LeaveMoves DEF OnPort
  <2> QED
    BY <2>2, <2>3
<1>7. ASSUME NEW h \in Handlers, SelectTimer(h) \/ ReadTime(h)
      PROVE  SafePassed'
  <2>1. /\ UNCHANGED <<ctrl, pending, regs>> /\ pc'[h] \in OnPort
        /\ \A g \in Handlers : g # h => pc'[g] = pc[g]
    BY <1>1, <1>7 DEF SelectTimer, ReadTime, Goto, TypeOK, OnPort, switch
  <2> QED
    BY <1>1, <2>1 DEF SafePassed
<1>8. ASSUME NEW h \in Handlers, WritePort(h)
      PROVE  SafePassed'
  <2>1. pc[h] = "write" /\ Leave(h) /\ regs' = regs /\ port_sel \in Ports
    BY <1>1, <1>8 DEF WritePort, TypeOK
  <2>2. regs[h] = port_sel /\ \A g \in Handlers : g # h => pc[g] = "idle"
    BY <1>1, <2>1, HandlerAlone DEF SelectorHeld, OnPort
  <2>3. \A p \in Ports : p # port_sel => ctrl'[p] = ctrl[p] /\ pending'[p] = pending[p]
    BY <1>1, <1>8, <2>1 DEF WritePort, WriteCycleStart, TypeOK
  <2>4. CASE h # "config"
    <3>1. ctrl'[port_sel] = 1 \/ pending'[port_sel]
      BY <1>1, <1>8, <2>1, <2>4 DEF WritePort, WriteCycleStart, TypeOK
    <3> QED
      BY <1>1, <2>2, <2>3, <3>1 DEF SafePassed, OnPort
  <2>5. CASE h = "config"
    <3>1. ctrl' = ctrl
      BY <1>8, <2>5 DEF WritePort
    <3>2. pending'[port_sel]
      BY <1>1, <1>8, <2>1, <2>5 DEF WritePort, TypeOK
    <3> QED
      BY <1>1, <2>2, <2>3, <2>5, <3>1, <3>2 DEF SafePassed, OnPort
  <2> QED
    BY <2>4, <2>5
<1> QED
  BY <1>1, <1>2, <1>3, <1>5, <1>6, <1>7, <1>8 DEF Next, Step, RequestConfig, ChangeTimer,
    ClockSelect, ClockAccess, ClockWrite, vars, switch, local

(* A step that does not concern the timer handler leaves Due alone. *)
LEMMA DueKept ==
  ASSUME NEW p \in Ports, Due(p),
         req'["timer"] = req["timer"], irq'["timer"] = irq["timer"],
         pc'["timer"] = pc["timer"], port'["timer"] = port["timer"]
  PROVE  Due(p)'
BY DEF Due

(* The cycle of a port starts at a time of its own timer, or a change of    *)
(* its timer is still to be seen.                                           *)
LEMMA OwnTimersStep ==
  ASSUME QbvInv, [Next]_vars, ~overlap'
  PROVE  OwnTimers'
<1>1. ~overlap /\ TypeOK /\ RequestShape /\ OneHandler /\ SelectorHeld /\ OwnTimers
  BY OneHandlerStep DEF QbvInv, Undisturbed
<1>2. crossed \subseteq crossed'
  BY DEF Next, Step, RequestConfig, HwConfigApplied, ChangeTimer, ClockSelect,
    ClockAccess, ClockWrite, Enter, SelectPort, ReadPort, SelectTimer, ReadTime,
    WritePort, Finish, vars, switch, local, mode
<1> SUFFICES ASSUME NEW p \in Enabled \ crossed' PROVE OwnTimer(p)'
  BY DEF OwnTimers
<1>3. p \in Ports /\ OwnTimer(p)
  BY <1>1, <1>2, QbvAssumption DEF OwnTimers
<1>4. "timer" \in Handlers /\ "config" \in Handlers /\ "value" \in Handlers
  BY DEF Handlers
<1>5. CASE /\ UNCHANGED <<domain, pending, start, change, tmr_sel, pc, port, time>>
           /\ req'["timer"] = req["timer"] /\ irq'["timer"] = irq["timer"]
  BY <1>3, <1>5 DEF OwnTimer, Due, Want
<1>6. ASSUME NEW q \in Ports, HwConfigApplied(q)
      PROVE  OwnTimer(p)'
  <2>1. /\ UNCHANGED <<domain, change, req, irq, tmr_sel, pc, port, time>>
        /\ pending[q] /\ pending' = [pending EXCEPT ![q] = FALSE]
        /\ start' = [start EXCEPT ![q] = change[q]]
    BY <1>6 DEF HwConfigApplied, local
  <2>2. Due(p)' <=> Due(p)
    BY <2>1 DEF Due
  <2>3. CASE p = q
    BY <1>1, <1>3, <2>1, <2>2, <2>3 DEF OwnTimer, Want, TypeOK
  <2>4. CASE p # q
    BY <1>1, <1>3, <2>1, <2>2, <2>4 DEF OwnTimer, Want, TypeOK
  <2> QED
    BY <2>3, <2>4
<1>7. ASSUME NEW q \in Ports, NEW e \in Domains, ChangeTimer(q, e)
      PROVE  OwnTimer(p)'
  <2>1. /\ UNCHANGED <<pending, start, change, tmr_sel, pc, port, time>>
        /\ domain' = [domain EXCEPT ![q] = e]
        /\ req'["timer"] = req["timer"] \cup {q} /\ irq'["timer"]
        /\ crossed' = IF pc["timer"] = "idle" THEN crossed ELSE crossed \cup {q}
    BY <1>1, <1>4, <1>7 DEF ChangeTimer, Raise, local, TypeOK
  <2>2. CASE p = q
    <3>1. pc["timer"] = "idle"
      BY <2>1, <2>2
    <3>2. Due(p)'
      BY <2>1, <2>2, <3>1 DEF Due
    <3> QED
      BY <2>1, <3>1, <3>2 DEF OwnTimer
  <2>3. CASE p # q
    <3>1. Due(p) => Due(p)'
      BY <2>1 DEF Due
    <3>2. domain'[p] = domain[p]
      BY <1>1, <1>3, <2>1, <2>3 DEF TypeOK
    <3> QED
      BY <1>3, <2>1, <3>1, <3>2 DEF OwnTimer, Want
  <2> QED
    BY <2>2, <2>3
<1>8. ASSUME NEW e \in Domains, ClockSelect(e)
      PROVE  OwnTimer(p)'
  <2>1. /\ UNCHANGED <<domain, pending, start, change, req, irq, pc, port, time>>
        /\ \A h \in Handlers : pc[h] = "time" => port[h] # p
    BY <1>8 DEF ClockSelect, local
  <2> QED
    BY <1>3, <2>1 DEF OwnTimer, Due, Want
<1>9. ASSUME NEW h \in Handlers, Enter(h)
      PROVE  OwnTimer(p)'
  <2>1. /\ UNCHANGED <<domain, pending, start, change, req, tmr_sel, time>>
        /\ irq' = [irq EXCEPT ![h] = FALSE]
        /\ \A g \in Handlers : pc[g] = "idle"
    BY <1>9 DEF Enter, switch
  <2>2. /\ pc'[h] \in {"port", "end"}
        /\ \A g \in Handlers : g # h =>
             pc'[g] = pc[g] /\ port'[g] = port[g] /\ irq'[g] = irq[g]
    BY <1>1, <1>9, <2>1 DEF Enter, Goto, TypeOK
  <2>3. Due(p) => Due(p)'
    <3>1. CASE h # "timer"
      BY <1>3, <1>4, <2>1, <2>2, <3>1, DueKept
    <3>2. CASE h = "timer"
      <4> SUFFICES ASSUME Due(p) PROVE Due(p)'
        OBVIOUS
      <4> DEFINE i == get_index_by_mask(req[h])
      <4>1. p \in req["timer"]
        BY <1>4, <2>1, <3>2 DEF Due, HasPort
      <4>2. i \in Ports
        BY <1>1, <3>2, <4>1, IndexTypes DEF RequestShape
      <4> HIDE DEF i
      <4>3. i # -1
        BY <4>2 DEF Ports
      <4>4. port'["timer"] = i /\ pc'["timer"] = "port"
        BY <1>1, <1>9, <3>2, <4>3 DEF Enter, Goto, TypeOK, i
      <4> QED
        BY <2>1, <4>1, <4>4 DEF Due, HasPort
    <3> QED
      BY <3>1, <3>2
  <2> QED
    BY <1>3, <2>1, <2>2, <2>3 DEF OwnTimer, Want
<1>10. ASSUME NEW h \in Handlers, pc[h] \in HasPort, pc'[h] \in HasPort,
              port' = port, UNCHANGED <<req, irq>>,
              \A g \in Handlers : g # h => pc'[g] = pc[g]
       PROVE  Due(p)' <=> Due(p)
  BY <1>4, <1>10 DEF Due, HasPort
<1>11. ASSUME NEW h \in Handlers, SelectPort(h)
       PROVE  OwnTimer(p)'
  <2>1. /\ UNCHANGED <<domain, pending, start, change, req, irq, tmr_sel, port, time>>
        /\ pc[h] = "port" /\ pc'[h] = "read"
        /\ \A g \in Handlers : g # h => pc'[g] = pc[g]
    BY <1>1, <1>11 DEF SelectPort, Goto, TypeOK
  <2>2. Due(p)' <=> Due(p)
    BY <1>10, <2>1 DEF HasPort
  <2> QED
    BY <1>3, <2>1, <2>2 DEF OwnTimer, Want
<1>12. ASSUME NEW h \in Handlers, ReadPort(h)
       PROVE  OwnTimer(p)'
  <2>1. /\ UNCHANGED <<domain, pending, start, change, req, irq, tmr_sel, time>>
        /\ pc[h] = "read" /\ port_sel = port[h]
    BY <1>1, <1>12 DEF ReadPort, SelectorHeld, Selected
  <2>2. CASE Concerned(h)
    <3>1. /\ port' = port /\ pc'[h] = "select"
          /\ \A g \in Handlers : g # h => pc'[g] = pc[g]
      BY <1>1, <1>12, <2>2 DEF ReadPort, Goto, TypeOK
    <3>2. Due(p)' <=> Due(p)
      BY <1>10, <2>1, <3>1 DEF HasPort
    <3> QED
      BY <1>3, <2>1, <3>1, <3>2 DEF OwnTimer, Want
  <2>3. CASE ~Concerned(h)
    <3>1. Leave(h)
      BY <1>12, <2>3 DEF ReadPort
    <3>2. /\ pc'[h] \in {"port", "end"}
          /\ \A g \in Handlers : g # h => pc'[g] = pc[g] /\ port'[g] = port[g]
          /\ h # "value" => pc'[h] = "end" /\ port' = port
      BY <1>1, <3>1, LeaveMoves
    <3>3. Due(p) => Due(p)'
      <4>1. CASE h # "timer"
        BY <1>3, <1>4, <2>1, <3>2, <4>1, DueKept
      <4>2. CASE h = "timer"
        <5>1. p # port["timer"]
          BY <2>1, <2>3, <4>2 DEF Concerned
        <5> QED
          BY <2>1, <3>2, <4>2, <5>1 DEF Due
      <4> QED
        BY <4>1, <4>2
    <3> QED
      BY <1>3, <2>1, <3>2, <3>3 DEF OwnTimer, Want
  <2> QED
    BY <2>2, <2>3
<1>13. ASSUME NEW h \in Handlers, SelectTimer(h)
       PROVE  OwnTimer(p)'
  <2>1. /\ UNCHANGED <<domain, pending, start, change, req, irq, port, time>>
        /\ pc[h] = "select" /\ pc'[h] = "time"
        /\ tmr_sel' = domain[port_sel] + 1 /\ port_sel = port[h]
        /\ \A g \in Handlers : g # h => pc'[g] = pc[g]
    BY <1>1, <1>13 DEF SelectTimer, Goto, TypeOK, SelectorHeld, Selected
  <2>2. \A g \in Handlers : g # h => pc[g] = "idle"
    BY <1>1, <2>1, HandlerAlone
  <2>3. Due(p)' <=> Due(p)
    BY <1>10, <2>1 DEF HasPort
  <2> QED
    BY <1>3, <2>1, <2>2, <2>3 DEF OwnTimer, Want
<1>14. ASSUME NEW h \in Handlers, ReadTime(h)
       PROVE  OwnTimer(p)'
  <2>1. /\ UNCHANGED <<domain, pending, start, change, req, irq, port, tmr_sel>>
        /\ pc[h] = "time" /\ pc'[h] = "write" /\ time'[h] = tmr_sel
        /\ \A g \in Handlers : g # h => pc'[g] = pc[g]
    BY <1>1, <1>14 DEF ReadTime, Goto, TypeOK, switch
  <2>2. \A g \in Handlers : g # h => pc[g] = "idle"
    BY <1>1, <2>1, HandlerAlone
  <2>3. Due(p)' <=> Due(p)
    BY <1>10, <2>1 DEF HasPort
  <2> QED
    BY <1>3, <2>1, <2>2, <2>3 DEF OwnTimer, Want
<1>15. ASSUME NEW h \in Handlers, WritePort(h)
       PROVE  OwnTimer(p)'
  <2>1. /\ UNCHANGED <<domain, req, irq, tmr_sel, time>> /\ Leave(h)
        /\ pc[h] = "write" /\ port_sel = port[h] /\ port_sel \in Ports
        /\ \A g \in Handlers : g # h => pc[g] = "idle"
    BY <1>1, <1>15, HandlerAlone DEF WritePort, SelectorHeld, Selected, TypeOK
  <2>2. /\ pc'[h] \in {"port", "end"}
        /\ \A g \in Handlers : g # h => pc'[g] = pc[g] /\ port'[g] = port[g]
        /\ h # "value" => pc'[h] = "end" /\ port' = port
    BY <1>1, <2>1, LeaveMoves
  <2>3. \A g \in Handlers : pc'[g] \notin {"time", "write"}
    BY <2>1, <2>2
  <2>4. h # "timer" /\ Due(p) => Due(p)'
    BY <1>3, <1>4, <2>1, <2>2, DueKept
  <2>5. CASE p # port_sel
    <3>1. pending'[p] = pending[p] /\ start'[p] = start[p] /\ change'[p] = change[p]
      BY <1>1, <1>3, <1>15, <2>1, <2>5 DEF WritePort, WriteCycleStart, TypeOK
    <3>2. Due(p) => Due(p)'
      BY <2>1, <2>2, <2>4, <2>5 DEF Due
    <3> QED
      BY <1>3, <2>1, <2>3, <3>1, <3>2 DEF OwnTimer, Want
  <2>6. CASE p = port_sel
    <3>1. time[h] = domain[p] + 1 \/ (h # "timer" /\ Due(p))
      BY <1>3, <2>1, <2>6 DEF OwnTimer
    <3>2. CASE h # "timer" /\ Due(p)
      BY <2>3, <2>4, <3>2 DEF OwnTimer
    <3>3. CASE time[h] = domain[p] + 1
      <4>1. Computed(h) = Want(p) /\ Want(p)' = Want(p)
        BY <2>1, <2>6, <3>3 DEF Computed, Want
      <4>2. CASE h = "config"
        <5>1. change'[p] = Computed(h) /\ pending'[p]
          BY <1>1, <1>15, <2>1, <2>6, <4>2 DEF WritePort, TypeOK
        <5> QED
          BY <2>3, <4>1, <5>1 DEF OwnTimer
      <4>3. CASE h # "config"
        <5>1. ~pending[p]
          BY <1>15, <2>6, <4>3 DEF WritePort
        <5>2. start'[p] = Computed(h) /\ pending' = pending
          BY <1>1, <1>15, <2>1, <2>6, <4>3, <5>1 DEF WritePort, WriteCycleStart, TypeOK
        <5> QED
          BY <2>3, <4>1, <5>1, <5>2 DEF OwnTimer
      <4> QED
        BY <4>2, <4>3
    <3> QED
      BY <3>1, <3>2, <3>3
  <2> QED
    BY <2>5, <2>6
<1>16. ASSUME NEW h \in Handlers, Finish(h)
       PROVE  OwnTimer(p)'
  <2>1. /\ UNCHANGED <<domain, pending, start, change, irq, tmr_sel, port, time>>
        /\ pc[h] = "end" /\ pc'[h] = "idle"
        /\ \A g \in Handlers : g # h => pc'[g] = pc[g] /\ req'[g] = req[g]
        /\ h = "timer" => crossed' = crossed \cup (req[h] \ {port[h]})
    BY <1>1, <1>16 DEF Finish, Goto, TypeOK, switch
  <2>2. Due(p) => h # "timer" /\ Due(p)'
    <3>1. CASE h = "timer"
      BY <2>1, <3>1 DEF Due, HasPort
    <3>2. CASE h # "timer"
      BY <1>3, <1>4, <2>1, <3>2, DueKept
    <3> QED
      BY <3>1, <3>2
  <2> QED
    BY <1>3, <2>1, <2>2 DEF OwnTimer, Want
<1>17. ASSUME \/ \E q \in Ports : RequestConfig(q)
              \/ \E e \in Domains : ClockAccess(e) \/ ClockWrite(e)
              \/ UNCHANGED vars
       PROVE  OwnTimer(p)'
  <2>1. /\ UNCHANGED <<domain, pending, start, change, tmr_sel, pc, port, time>>
        /\ req'["timer"] = req["timer"] /\ irq'["timer"] = irq["timer"]
    BY <1>1, <1>17 DEF RequestConfig, Raise, ClockAccess, ClockWrite, vars, switch, local,
      TypeOK, Handlers
  <2> QED
    BY <1>5, <2>1
<1> QED
  BY <1>6, <1>7, <1>8, <1>9, <1>11, <1>12, <1>13, <1>14, <1>15, <1>16, <1>17
  DEF Next, Step

-----------------------------------------------------------------------------
(* The invariant holds in every state of every behaviour. *)
LEMMA QbvInvariant == Spec => []QbvInv
<1>1. QbvInv /\ [Next]_vars => QbvInv'
  <2> SUFFICES ASSUME QbvInv, [Next]_vars PROVE QbvInv'
    OBVIOUS
  <2>1. TypeOK' /\ RequestShape'
    BY TypeStep DEF QbvInv
  <2>2. ~overlap' => Undisturbed'
    BY OneHandlerStep, TimesNamedStep, SafePassedStep, OwnTimersStep DEF Undisturbed
  <2> QED
    BY <2>1, <2>2 DEF QbvInv
<1> QED
  BY InitInv, <1>1, PTL DEF Spec

(* No port is left in the safe state of the two timer handlers. *)
THEOREM SafeStateIsPassed == Spec => []SafeStateEnds
<1>1. QbvInv => SafeStateEnds
  BY DEF QbvInv, Undisturbed, SafePassed, SafeStateEnds, OnPort
<1> QED
  BY <1>1, QbvInvariant, PTL

(* The selector, the requests and the locals name ports and timers that     *)
(* exist, and what a handler writes to a port was computed for it.          *)
THEOREM WritesReachPorts == Spec => []WritesReachTheirPort
<1>1. QbvInv => WritesReachTheirPort
  BY DEF QbvInv, Undisturbed, TimesNamed, WritesReachTheirPort
<1> QED
  BY <1>1, QbvInvariant, PTL

(* At rest, every cycle starts at a time of the timer its port uses now,    *)
(* but for the races that are named.                                        *)
THEOREM CyclesFollowTimers == Spec => []CyclesOnOwnTimer
<1>1. QbvInv => CyclesOnOwnTimer
  <2> SUFFICES ASSUME QbvInv, ~overlap, \A h \in Handlers : pc[h] = "idle",
                      ~irq["timer"], NEW p \in Enabled \ crossed, ~pending[p]
               PROVE  start[p] = [port |-> p, timer |-> domain[p] + 1]
    BY DEF CyclesOnOwnTimer
  <2>1. OwnTimer(p)
    BY DEF QbvInv, Undisturbed, OwnTimers
  <2>2. ~Due(p)
    BY DEF Due, Handlers, HasPort
  <2> QED
    BY <2>1, <2>2 DEF OwnTimer, Want
<1> QED
  BY <1>1, QbvInvariant, PTL

-----------------------------------------------------------------------------
(***************************************************************************)
(* The time arithmetic of QbvTime, for every width, every time a timer can *)
(* show and every cycle time.                                              *)
(***************************************************************************)

(* Quotient and remainder. *)
LEMMA DivMod ==
  ASSUME NEW n \in Nat, NEW d \in Nat \ {0}
  PROVE  /\ n \div d \in Nat /\ n % d \in 0 .. d - 1
         /\ n = ((n \div d) * d) + (n % d)
OBVIOUS

(* A value below the width is not cut. *)
LEMMA ModSmall ==
  ASSUME NEW m \in Nat \ {0}, NEW n \in 0 .. m - 1
  PROVE  n % m = n
OBVIOUS

(* A value that wraps once. *)
LEMMA ModOnce ==
  ASSUME NEW m \in Nat \ {0}, NEW n \in 0 .. m - 1
  PROVE  (n + m) % m = n
OBVIOUS

(* A multiple leaves no remainder. *)
LEMMA ModMultiple ==
  ASSUME NEW k \in Nat, NEW d \in Nat \ {0}
  PROVE  (k * d) % d = 0
OBVIOUS

(* A product that is less has a factor that is less. *)
LEMMA MulLess ==
  ASSUME NEW a \in Int, NEW b \in Int, NEW d \in Nat \ {0}, a * d < b * d
  PROVE  a < b
OBVIOUS

-----------------------------------------------------------------------------
(* The step of a schedule: from a base time that has passed, the last start *)
(* of a cycle before now lies less than a cycle back.                       *)
LEMMA LastStart ==
  ASSUME NEW d \in Nat, NEW len \in Nat \ {0}, NEW j \in Nat
  PROVE  /\ d \div len \in Nat
         /\ ((d \div len) + j) * len = (d - (d % len)) + j * len
         /\ d % len \in 0 .. len - 1
         /\ (((d \div len) + j) * len) % len = 0
<1>1. /\ d \div len \in Nat /\ d % len \in 0 .. len - 1
      /\ d = ((d \div len) * len) + (d % len)
  BY DivMod
<1>2. ((d \div len) + j) * len = ((d \div len) * len) + j * len
  BY <1>1
<1>3. (((d \div len) + j) * len) % len = 0
  <2> DEFINE k == (d \div len) + j
  <2>1. k \in Nat
    BY <1>1
  <2> HIDE DEF k
  <2>2. (k * len) % len = 0
    BY <2>1, ModMultiple
  <2> QED
    BY <2>2 DEF k
<1>4. (d \div len) * len \in Int /\ j * len \in Int
  BY <1>1
<1> QED
  BY <1>1, <1>2, <1>3, <1>4

(* get_cycle_start_time keeps to the grid of the schedule. *)
LEMMA CycleStarts ==
  ASSUME NEW now \in 0 .. MaxTime, NEW base \in 0 .. MaxTime, NEW cycle \in 1 .. MaxCycle
  PROVE  LET begin == get_cycle_start_time(now, base, cycle)
         IN /\ begin >= now
            /\ (begin - base) % cycle = 0
            /\ base >= now => begin = base
            /\ base < now => begin - now \in cycle + 1 .. 2 * cycle
<1> DEFINE begin == get_cycle_start_time(now, base, cycle)
<1>0. cycle \in Nat \ {0} /\ now \in Nat /\ base \in Nat /\ MaxTime \in Nat
  BY QbvTimeAssumption
<1>1. CASE base >= now
  <2>1. begin = base
    BY <1>1 DEF get_cycle_start_time
  <2>2. (base - base) % cycle = 0
    BY <1>0
  <2> QED
    BY <1>0, <1>1, <2>1, <2>2
<1>2. CASE base < now
  <2> DEFINE d == now - base
             q == ((d \div cycle) + 2) * cycle
  <2>1. d \in Nat
    BY <1>0, <1>2
  <2> HIDE DEF d
  <2>2. /\ q = (d - (d % cycle)) + 2 * cycle /\ d % cycle \in 0 .. cycle - 1
        /\ q % cycle = 0
    BY <1>0, <2>1, LastStart, ZenonT(40)
  <2>3. begin = (base + q) % T64
    BY <1>0, <1>2 DEF get_cycle_start_time, d
  <2> HIDE DEF q, begin
  <2>4. q \in Nat /\ q >= d + cycle + 1 /\ q <= d + 2 * cycle
    BY <1>0, <2>1, <2>2
  <2>5. base + q \in 0 .. T64 - 1
    BY <1>0, <2>1, <2>4, QbvTimeAssumption DEF d, Lead
  <2>6. begin = base + q
    BY <2>3, <2>5, ModSmall, QbvTimeAssumption
  <2>7. begin - base = q
    BY <1>0, <2>4, <2>6
  <2> QED
    BY <1>0, <1>2, <2>1, <2>2, <2>4, <2>6, <2>7 DEF d, begin
<1> QED
  BY <1>0, <1>1, <1>2

(* Where the time of ax_irq_config_change lies, with and without the        *)
(* difference wrapping.                                                     *)
LEMMA ChangeTimes ==
  ASSUME NEW now \in 0 .. MaxTime, NEW base \in 0 .. MaxTime, NEW cycle \in 1 .. MaxCycle,
         Lead * cycle < T32
  PROVE  LET turn == config_change_time(now, base, cycle)
         IN IF base >= now + Lead * cycle
            THEN turn = base
            ELSE /\ turn - now \in (Lead - 1) * cycle + 1 .. Lead * cycle
                 /\ base <= now => (turn - base) % cycle = 0
<1> DEFINE turn == config_change_time(now, base, cycle)
           ahead  == Lead * cycle
<1>0. cycle \in Nat \ {0} /\ now \in Nat /\ base \in Nat /\ MaxTime \in Nat /\ T64 \in Nat \ {0}
  BY QbvTimeAssumption
<1>1. ahead \in Nat /\ ahead = 10 * cycle /\ (Lead - 1) * cycle = 9 * cycle
  BY <1>0 DEF Lead
<1>2. ahead % T32 = ahead
  BY <1>1, ModSmall, QbvTimeAssumption
<1>3. now + ahead \in 0 .. T64 - 1
  BY <1>0, <1>1, QbvTimeAssumption DEF Lead
<1>4. (now + (ahead % T32)) % T64 = now + ahead
  BY <1>2, <1>3, ModSmall, <1>0
<1>5. CASE base >= now + ahead
  <2>1. turn = base
    BY <1>4, <1>5 DEF config_change_time
  <2> QED
    BY <1>0, <1>1, <1>5, <2>1
<1>6. CASE base < now + ahead
  <2> DEFINE d == (now - base) % T64
             q == ((d \div cycle) + Lead) * cycle
  <2>1. turn = (base + q) % T64
    BY <1>0, <1>1, <1>4, <1>6 DEF config_change_time
  <2>2. d = IF base <= now THEN now - base ELSE (now - base) + T64
    <3>1. CASE base <= now
      BY <1>0, <3>1, ModSmall, QbvTimeAssumption
    <3>2. CASE base > now
      BY <1>0, <3>2, QbvTimeAssumption
    <3> QED
      BY <1>0, <3>1, <3>2
  <2>3. d \in Nat
    BY <1>0, <2>2, QbvTimeAssumption
  <2> HIDE DEF d
  <2>4. /\ q = (d - (d % cycle)) + Lead * cycle /\ d % cycle \in 0 .. cycle - 1
        /\ q % cycle = 0
    BY <1>0, <2>3, LastStart, ZenonT(40) DEF Lead
  <2> HIDE DEF q, turn
  <2>5. q \in Nat /\ q >= d + 9 * cycle + 1 /\ q <= d + 10 * cycle
    BY <1>0, <1>1, <2>3, <2>4
  <2>6. CASE base <= now
    <3>1. base + q \in 0 .. T64 - 1
      BY <1>0, <1>1, <1>3, <2>2, <2>5, <2>6
    <3>2. turn = base + q
      BY <1>0, <2>1, <3>1, ModSmall
    <3>3. turn - base = q
      BY <1>0, <2>5, <3>2
    <3> QED
      BY <1>0, <1>1, <2>2, <2>4, <2>5, <2>6, <3>2, <3>3 DEF turn
  <2>7. CASE base > now
    <3> DEFINE n == (base + q) - T64
    <3>1. n \in 0 .. T64 - 1 /\ base + q = n + T64
          /\ n >= now + 9 * cycle + 1 /\ n <= now + 10 * cycle
      BY <1>0, <1>1, <1>3, <2>2, <2>5, <2>7
    <3> HIDE DEF n
    <3>2. turn = n
      BY <1>0, <2>1, <3>1, ModOnce
    <3> QED
      BY <1>0, <1>1, <1>6, <2>7, <3>1, <3>2 DEF turn
  <2> QED
    BY <1>0, <2>6, <2>7
<1> QED
  BY <1>0, <1>1, <1>5, <1>6

-----------------------------------------------------------------------------
(* A timer's registers, read and put together, give its time. *)
LEMMA ReadBack ==
  ASSUME NEW t \in Nat
  PROVE  (t \div NS_PER_SEC) * NS_PER_SEC + (t % NS_PER_SEC) = t
BY DivMod, QbvTimeAssumption

(* ax_ptp_adjtime takes a clock from any time to any other. *)
LEMMA ClockMoves ==
  ASSUME NEW now \in 0 .. MaxTime, NEW base \in 0 .. MaxTime
  PROVE  ax_ptp_adjtime(Registers(now), base - now) = Registers(base)
<1> DEFINE sec == now \div NS_PER_SEC
           ns  == now % NS_PER_SEC
<1>0. /\ now \in Nat /\ base \in Nat /\ MaxTime \in Nat /\ T32 \in Nat \ {0}
      /\ NS_PER_SEC \in Nat \ {0} /\ T64 \in Nat \ {0} /\ base < T64
  BY QbvTimeAssumption
<1>1. sec * NS_PER_SEC + ns = now /\ sec \in Nat /\ ns \in Nat
  BY <1>0, ReadBack, DivMod
<1>2. Registers(now).sec = sec /\ Registers(now).ns = ns
  BY DEF Registers
<1> HIDE DEF sec, ns
<1>3. (sec * NS_PER_SEC + ns) + (base - now) = base
  BY <1>0, <1>1
<1>4. (Registers(now).sec * NS_PER_SEC + Registers(now).ns + (base - now)) % T64 = base
  BY <1>0, <1>2, <1>3, ModSmall
<1>5. ax_ptp_adjtime(Registers(now), base - now)
        = [sec |-> (base \div NS_PER_SEC) % T32, ns |-> base % NS_PER_SEC]
  BY <1>4 DEF ax_ptp_adjtime
<1>6. (base \div NS_PER_SEC) % T32 = base \div NS_PER_SEC
  <2> DEFINE q == base \div NS_PER_SEC
  <2>1. q \in Nat /\ base % NS_PER_SEC \in Nat /\ base = q * NS_PER_SEC + (base % NS_PER_SEC)
    BY <1>0, DivMod
  <2> HIDE DEF q
  <2>2. q * NS_PER_SEC < T32 * NS_PER_SEC
    BY <1>0, <2>1, QbvTimeAssumption
  <2>3. q < T32
    BY <1>0, <2>1, <2>2, MulLess
  <2>4. q % T32 = q
    BY <1>0, <2>1, <2>3, ModSmall
  <2> QED
    BY <2>4 DEF q
<1> QED
  BY <1>5, <1>6 DEF Registers

(* ax_ptp_adjfine: the addend moves by the same amount up and down, and by  *)
(* less than a step from what was asked for.                                *)
LEMMA RateIsMet ==
  ASSUME NEW addend \in 0 .. MaxTime, NEW ppb \in 1 .. MaxCycle,
         addend * (NS_PER_SEC + ppb) < T32 * NS_PER_SEC, ppb < NS_PER_SEC
  PROVE  LET up   == ax_ptp_adjfine(addend, ppb)
             down == ax_ptp_adjfine(addend, -ppb)
         IN /\ (up - addend) * NS_PER_SEC \in addend * ppb - NS_PER_SEC + 1 .. addend * ppb
            /\ up - addend = addend - down
<1> DEFINE p == addend * ppb
           q == p \div NS_PER_SEC
<1>0. /\ addend \in Nat /\ ppb \in Nat \ {0} /\ MaxTime \in Nat /\ T32 \in Nat \ {0}
      /\ NS_PER_SEC \in Nat \ {0} /\ T64 \in Nat \ {0}
  BY QbvTimeAssumption
<1>1. p \in Nat /\ addend * (NS_PER_SEC + ppb) = addend * NS_PER_SEC + p
  BY <1>0
<1>2. addend * NS_PER_SEC \in Nat /\ p <= addend * NS_PER_SEC
  BY <1>0
<1>3. p < T64
  BY <1>0, <1>1, <1>2, QbvTimeAssumption
<1>4. ((addend * ppb) % T64) \div NS_PER_SEC = q
  <2>1. (addend * ppb) % T64 = p
    BY <1>0, <1>1, <1>3, ModSmall
  <2> QED
    BY <2>1
<1> HIDE DEF p
<1>5. q \in Nat /\ p % NS_PER_SEC \in 0 .. NS_PER_SEC - 1 /\ p = q * NS_PER_SEC + (p % NS_PER_SEC)
  BY <1>0, <1>1, DivMod
<1>6. ax_ptp_adjfine(addend, ppb) = (addend + q) % T32
  BY <1>0, <1>4 DEF ax_ptp_adjfine
<1>7. ax_ptp_adjfine(addend, -ppb) = (addend - q) % T32
  <2>1. -ppb < 0 /\ -(-ppb) = ppb
    BY <1>0
  <2> QED
    BY <1>4, <2>1 DEF ax_ptp_adjfine
<1> HIDE DEF q
<1>8. addend + q < T32
  <2>1. q * NS_PER_SEC <= p
    BY <1>0, <1>5
  <2>2. (addend + q) * NS_PER_SEC = addend * NS_PER_SEC + q * NS_PER_SEC
    BY <1>0, <1>5
  <2>3. (addend + q) * NS_PER_SEC < T32 * NS_PER_SEC
    BY <1>0, <1>1, <1>2, <1>5, <2>1, <2>2
  <2> QED
    BY <1>0, <1>5, <2>3, MulLess
<1>9. q <= addend
  <2>1. q * NS_PER_SEC < (addend + 1) * NS_PER_SEC
    BY <1>0, <1>2, <1>5
  <2> QED
    BY <1>0, <1>5, <2>1, MulLess
<1>10. (addend + q) % T32 = addend + q
  <2>1. addend + q \in 0 .. T32 - 1
    BY <1>0, <1>5, <1>8
  <2> QED
    BY <1>0, <2>1, ModSmall, Zenon
<1>11. (addend - q) % T32 = addend - q
  <2>1. addend - q \in 0 .. T32 - 1
    BY <1>0, <1>5, <1>8, <1>9
  <2> QED
    BY <1>0, <2>1, ModSmall, Zenon
<1>12. q * NS_PER_SEC \in p - NS_PER_SEC + 1 .. p
  BY <1>0, <1>1, <1>5
<1>13. (addend + q) - addend = q /\ addend - (addend - q) = q
  BY <1>0, <1>5
<1> QED
  BY <1>6, <1>7, <1>10, <1>11, <1>12, <1>13 DEF p

(***************************************************************************)
(* Whatever the widths, the current time, the base time and the cycle: the *)
(* times the three handlers program lie exactly where TimesExact says: a   *)
(* cycle start on its grid within two cycles, a configuration change at    *)
(* its base time or in the tenth cycle from now; and the PTP clocks are    *)
(* set to the time and the rate asked for.                                 *)
(***************************************************************************)
THEOREM TimesAreExact == TimeSpec => []TimesExact
<1>1. ASSUME TimeInit PROVE TimesExact
  <2>1. CASE call = NoCall
    BY <2>1 DEF TimesExact, CycleStartOnGrid, ChangeTimePlaced, ClocksExact
  <2>2. CASE call \in Calls
    <3>1. call.now \in 0 .. MaxTime /\ call.base \in 0 .. MaxTime /\ call.cycle \in 1 .. MaxCycle
      BY <2>2 DEF Calls
    <3>2. CycleStartOnGrid
      BY <3>1, CycleStarts DEF CycleStartOnGrid
    <3>3. ChangeTimePlaced
      BY <3>1, ChangeTimes DEF ChangeTimePlaced
    <3>4. ClocksExact
      BY <3>1, ClockMoves, RateIsMet DEF ClocksExact
    <3> QED
      BY <3>2, <3>3, <3>4 DEF TimesExact
  <2> QED
    BY <1>1, <2>1, <2>2 DEF TimeInit
<1>2. TimeInit /\ [FALSE]_call => TimeInit'
  BY DEF TimeInit, Calls, NoCall
<1> QED
  BY <1>1, <1>2, PTL DEF TimeSpec
=============================================================================
