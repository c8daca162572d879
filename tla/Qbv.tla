-------------------------------- MODULE Qbv ---------------------------------
(***************************************************************************)
(* The 802.1Qbv interrupt handlers (ax_irq_config_change,                  *)
(* ax_irq_timer_change, ax_irq_timer_value_change in ax_switch.c) and the  *)
(* PTP clock operations (ax_ptp.c).                                        *)
(*                                                                         *)
(* The registers of a port are reached through QBV_PORT_SELECTOR and those *)
(* of a timer through AS_T_SELECTOR.  Both selectors are shared by all     *)
(* callers and no lock protects them, so an operation is split wherever it *)
(* selects, and between selecting and what it does with the selection;     *)
(* what it reads, or writes, in a row through one selection is one step.   *)
(* The arithmetic is in module QbvTime: here a time written to a           *)
(* port is the port it was computed for and the timer that was read.       *)
(* Timer 0 is the free running one, timer d + 1 that of domain d.          *)
(***************************************************************************)
EXTENDS Integers, FiniteSets

CONSTANTS
  NumPorts,     \* pSwitch->number_of_ports
  NumDomains,   \* pSwitch->number_of_domains
  Enabled,      \* ports with QBV_GATE_ENABLED set
  MaxRequests,  \* bound: requests of the switch
  MaxClockOps   \* bound: operations on the PTP clocks

Ports   == 0 .. NumPorts - 1
Domains == 0 .. NumDomains - 1
Timers  == 0 .. NumDomains

ASSUME QbvAssumption ==
  /\ NumPorts \in Nat \ {0}
  /\ NumDomains \in Nat \ {0}
  /\ Enabled \subseteq Ports
  /\ MaxRequests \in Nat /\ MaxClockOps \in Nat

Handlers == {"config", "timer", "value"}

VARIABLES
  port_sel, tmr_sel, \* QBV_PORT_SELECTOR, AS_T_SELECTOR
  domain,            \* QBV_TIMER_DOMAIN_INDEX of each port
  ctrl,              \* QBV_CYCLE_START_TIME_CTRL: 0, 1 started, 2 safe state
  pending,           \* QBV_CONFIG_CHANGE_STATE
  start, change,     \* the cycle start and config change time of each port
  req,               \* the request registers: ports, ports, timers
  irq,               \* interrupts requested
  pc, port, regs, time, changed, \* locals of the handlers
  clock,             \* clock operation under way on each domain
  requests, clock_ops,
  legacy,            \* no MSI-X: one interrupt runs the handlers in turn
  overlap,           \* history: two handlers have been under way at once
  crossed            \* history: ports whose timer was read or changed in a race

switch == <<port_sel, tmr_sel, domain, ctrl, pending, start, change>>
local  == <<pc, port, regs, time, changed>>
clocks == <<clock, clock_ops>>
mode   == <<legacy, overlap, crossed>>
vars   == <<switch, req, irq, local, clocks, requests, mode>>

NoTime == [port |-> -1, timer |-> -1]

(* Every enabled port runs its cycle on the timer of domain 0. *)
Init ==
  /\ port_sel = 0 /\ tmr_sel = 0
  /\ domain = [p \in Ports |-> 0]
  /\ ctrl = [p \in Ports |-> IF p \in Enabled THEN 1 ELSE 0]
  /\ pending = [p \in Ports |-> FALSE]
  /\ start = [p \in Ports |-> IF p \in Enabled THEN [port |-> p, timer |-> 1] ELSE NoTime]
  /\ change = [p \in Ports |-> NoTime]
  /\ req = [h \in Handlers |-> {}]
  /\ irq = [h \in Handlers |-> FALSE]
  /\ pc = [h \in Handlers |-> "idle"]
  /\ port = [h \in Handlers |-> -1]
  /\ regs = [h \in Handlers |-> -1]
  /\ time = [h \in Handlers |-> -1]
  /\ changed = -1
  /\ clock = [d \in Domains |-> "idle"]
  /\ requests = 0 /\ clock_ops = 0
  /\ legacy \in BOOLEAN /\ overlap = FALSE /\ crossed = {}

(* get_index_by_mask: the lowest bit set, or -1. *)
get_index_by_mask(mask) ==
  IF mask = {} THEN -1 ELSE CHOOSE i \in mask : \A j \in mask : i <= j

Goto(h, l) == pc' = [pc EXCEPT ![h] = l]

-----------------------------------------------------------------------------
(* The environment: the switch and the applications. *)

Raise(h, i) ==
  /\ requests < MaxRequests
  /\ requests' = requests + 1
  /\ req' = [req EXCEPT ![h] = @ \cup {i}]
  /\ irq' = [irq EXCEPT ![h] = TRUE]

(* A new gate control list is written for port p. *)
RequestConfig(p) ==
  /\ Raise("config", p)
  /\ UNCHANGED <<switch, local, clocks, mode>>

(* Port p is given the timer of domain d.  A request that is made while    *)
(* the handler is under way may be cleared by it unseen.                   *)
ChangeTimer(p, d) ==
  /\ domain[p] # d
  /\ domain' = [domain EXCEPT ![p] = d]
  /\ Raise("timer", p)
  /\ crossed' = IF pc["timer"] = "idle" THEN crossed ELSE crossed \cup {p}
  /\ UNCHANGED <<port_sel, tmr_sel, ctrl, pending, start, change, local,
                 clocks, legacy, overlap>>

(* The configuration takes effect: the gates leave the safe state and the  *)
(* cycle starts at the config change time.                                 *)
HwConfigApplied(p) ==
  /\ pending[p]
  /\ pending' = [pending EXCEPT ![p] = FALSE]
  /\ ctrl' = [ctrl EXCEPT ![p] = 1]
  /\ start' = [start EXCEPT ![p] = change[p]]
  /\ UNCHANGED <<port_sel, tmr_sel, domain, change, req, irq, local,
                 clocks, requests, mode>>

-----------------------------------------------------------------------------
(* PTP clock operations of domain d: all select the timer first, also      *)
(* between a handler's own selection and its reading of the time.          *)

ClockSelect(d) ==
  /\ clock[d] = "idle"
  /\ clock_ops < MaxClockOps
  /\ clock_ops' = clock_ops + 1
  /\ tmr_sel' = d + 1
  /\ \E op \in {"get", "set", "adjtime", "adjfine"} :
       clock' = [clock EXCEPT ![d] = op]
  /\ crossed' = crossed \cup {port[h] : h \in {g \in Handlers : pc[g] = "time"}}
  /\ UNCHANGED <<port_sel, domain, ctrl, pending, start, change, req, irq,
                 local, requests, legacy, overlap>>

(* ax_ptp_gettime64, ax_ptp_adjfine, and the first half of ax_ptp_adjtime. *)
ClockAccess(d) ==
  /\ clock[d] \in {"get", "adjfine", "adjtime"}
  /\ clock' = [clock EXCEPT ![d] = IF @ = "adjtime" THEN "set" ELSE "idle"]
  /\ UNCHANGED <<switch, req, irq, local, clock_ops, requests, mode>>

(* ax_ptp_settime64, and the write of ax_ptp_adjtime: the value of the     *)
(* selected timer jumps, which the switch signals.                         *)
ClockWrite(d) ==
  /\ clock[d] = "set"
  /\ clock' = [clock EXCEPT ![d] = "idle"]
  /\ req' = [req EXCEPT !["value"] = @ \cup {tmr_sel}]
  /\ irq' = [irq EXCEPT !["value"] = TRUE]
  /\ UNCHANGED <<switch, local, clock_ops, requests, mode>>

-----------------------------------------------------------------------------
(* The handlers. *)

(* MSI-X: every handler has a vector of its own, masked while it runs.     *)
(* Legacy: xdma_isr runs them in turn and knows no "value" handler.        *)
MayRun(h) ==
  legacy => h # "value" /\ \A g \in Handlers : pc[g] = "idle"

(* The interrupt is acknowledged and the request register read. *)
Enter(h) ==
  /\ pc[h] = "idle"
  /\ irq[h]
  /\ MayRun(h)
  /\ irq' = [irq EXCEPT ![h] = FALSE]
  /\ overlap' = (overlap \/ \E g \in Handlers : pc[g] # "idle")
  /\ LET i == get_index_by_mask(req[h])
     IN \/ /\ h = "value"
           /\ changed' = i
           /\ port' = [port EXCEPT ![h] = 0]
           /\ Goto(h, "port")
        \/ /\ h # "value"
           /\ port' = [port EXCEPT ![h] = i]
           /\ Goto(h, IF i = -1 THEN "end" ELSE "port")
           /\ UNCHANGED changed
  /\ UNCHANGED <<switch, req, regs, time, clocks, requests, legacy, crossed>>

(* Mutant: the handler trusts the selector's present value. *)
SelectPortSkipped(h) ==
  /\ pc[h] = "port"
  /\ Goto(h, "read")
  /\ UNCHANGED <<switch, req, irq, port, regs, time, changed, clocks, requests, mode>>

SelectPort(h) ==
  /\ pc[h] = "port"
  /\ port_sel' = port[h]
  /\ Goto(h, "read")
  /\ UNCHANGED <<tmr_sel, domain, ctrl, pending, start, change, req, irq,
                 port, regs, time, changed, clocks, requests, mode>>

(* ax_irq_timer_value_change goes on to the next port. *)
Leave(h) ==
  IF h = "value" /\ port[h] + 1 < NumPorts
  THEN Goto(h, "port") /\ port' = [port EXCEPT ![h] = @ + 1]
  ELSE Goto(h, "end") /\ UNCHANGED port

Concerned(h) ==
  \/ h = "config"
  \/ h = "timer" /\ port_sel \in Enabled
  \/ h = "value" /\ port_sel \in Enabled /\ changed = domain[port_sel] + 1

(* The port's registers are read; the gates go to the safe state. *)
ReadPort(h) ==
  /\ pc[h] = "read"
  /\ \/ /\ Concerned(h)
        /\ regs' = [regs EXCEPT ![h] = port_sel]
        /\ ctrl' = IF h = "config" THEN ctrl ELSE [ctrl EXCEPT ![port_sel] = 2]
        /\ Goto(h, "select")
        /\ UNCHANGED port
     \/ /\ ~Concerned(h)
        /\ Leave(h)
        /\ UNCHANGED <<regs, ctrl>>
  /\ UNCHANGED <<port_sel, tmr_sel, domain, pending, start, change, req, irq,
                 time, changed, clocks, requests, mode>>

(* Mutant: the port's index is taken for the selector's, which counts the  *)
(* free running timer.                                                     *)
SelectTimerUncounted(h) ==
  /\ pc[h] = "select"
  /\ tmr_sel' = domain[port_sel]
  /\ Goto(h, "time")
  /\ UNCHANGED <<port_sel, domain, ctrl, pending, start, change, req, irq,
                 port, regs, time, changed, clocks, requests, mode>>

SelectTimer(h) ==
  /\ pc[h] = "select"
  /\ tmr_sel' = domain[port_sel] + 1
  /\ Goto(h, "time")
  /\ UNCHANGED <<port_sel, domain, ctrl, pending, start, change, req, irq,
                 port, regs, time, changed, clocks, requests, mode>>

ReadTime(h) ==
  /\ pc[h] = "time"
  /\ time' = [time EXCEPT ![h] = tmr_sel]
  /\ Goto(h, "write")
  /\ UNCHANGED <<switch, req, irq, port, regs, changed, clocks, requests, mode>>

Computed(h) == [port |-> port[h], timer |-> time[h]]

(* Mutant: the start time is written but not commanded. *)
WriteCycleStartForgets(h) ==
  /\ start' = [start EXCEPT ![port_sel] = Computed(h)]
  /\ UNCHANGED <<change, pending, ctrl>>

(* The new cycle start time, which ends the safe state. *)
WriteCycleStart(h) ==
  /\ start' = [start EXCEPT ![port_sel] = Computed(h)]
  /\ ctrl' = [ctrl EXCEPT ![port_sel] = 1]
  /\ UNCHANGED <<change, pending>>

(* A change that is pending and comes too soon is commanded again and the  *)
(* cycle start time skipped.                                               *)
WritePort(h) ==
  /\ pc[h] = "write"
  /\ \/ /\ h = "config"
        /\ change' = [change EXCEPT ![port_sel] = Computed(h)]
        /\ pending' = [pending EXCEPT ![port_sel] = TRUE]
        /\ UNCHANGED <<start, ctrl>>
     \/ /\ h # "config"
        /\ WriteCycleStart(h)
     \/ /\ h # "config"
        /\ pending[port_sel]
        /\ UNCHANGED <<start, change, pending, ctrl>>
  /\ Leave(h)
  /\ crossed' = IF h # "config" /\ pending[port_sel] THEN crossed \cup {port_sel} ELSE crossed
  /\ UNCHANGED <<port_sel, tmr_sel, domain, req, irq, regs, time, changed,
                 clocks, requests, legacy, overlap>>

(* The whole request register is cleared, with requests for other ports. *)
Finish(h) ==
  /\ pc[h] = "end"
  /\ req' = [req EXCEPT ![h] = {}]
  /\ Goto(h, "idle")
  /\ crossed' = IF h = "timer" THEN crossed \cup (req[h] \ {port[h]}) ELSE crossed
  /\ UNCHANGED <<switch, irq, port, regs, time, changed, clocks, requests, legacy, overlap>>

Step(h) == \/ Enter(h) \/ SelectPort(h) \/ ReadPort(h) \/ SelectTimer(h)
           \/ ReadTime(h) \/ WritePort(h) \/ Finish(h)

Next ==
  \/ \E p \in Ports : RequestConfig(p) \/ HwConfigApplied(p)
  \/ \E p \in Ports, d \in Domains : ChangeTimer(p, d)
  \/ \E d \in Domains : ClockSelect(d) \/ ClockAccess(d) \/ ClockWrite(d)
  \/ \E h \in Handlers : Step(h)

Spec == Init /\ [][Next]_vars

-----------------------------------------------------------------------------
Times == [port : {-1} \cup Ports, timer : {-1} \cup Timers]

(* The selectors and the handlers' locals name ports and timers that exist. *)
TypeOK ==
  /\ port_sel \in Ports /\ tmr_sel \in Timers
  /\ domain \in [Ports -> Domains]
  /\ ctrl \in [Ports -> 0 .. 2]
  /\ pending \in [Ports -> BOOLEAN]
  /\ start \in [Ports -> Times] /\ change \in [Ports -> Times]
  /\ req \in [Handlers -> SUBSET (Ports \cup Timers)]
  /\ irq \in [Handlers -> BOOLEAN]
  /\ pc \in [Handlers -> {"idle", "port", "read", "select", "time", "write", "end"}]
  /\ port \in [Handlers -> {-1} \cup Ports]
  /\ regs \in [Handlers -> {-1} \cup Ports]
  /\ time \in [Handlers -> {-1} \cup Timers]
  /\ changed \in {-1} \cup Timers
  /\ clock \in [Domains -> {"idle", "get", "set", "adjtime", "adjfine"}]
  /\ requests \in 0 .. MaxRequests /\ clock_ops \in 0 .. MaxClockOps
  /\ legacy \in BOOLEAN /\ overlap \in BOOLEAN /\ crossed \subseteq Ports

(***************************************************************************)
(* The safe state of ax_irq_timer_change and ax_irq_timer_value_change is  *)
(* passed through: as long as no two handlers have met, a port is in it    *)
(* only while a handler is on its way to that port's cycle start time, or  *)
(* a pending change will end it.                                           *)
(***************************************************************************)
SafeStateEnds ==
  ~overlap => \A p \in Ports : ctrl[p] = 2 =>
    \/ pending[p]
    \/ \E h \in Handlers \ {"config"} :
         regs[h] = p /\ pc[h] \in {"select", "time", "write"}

(***************************************************************************)
(* "Select port" (ax_switch.c:293, :373): what the handlers write to a     *)
(* port was computed for that port, always with one interrupt for all and  *)
(* with MSI-X as long as no two of them have met.                          *)
(***************************************************************************)
WritesReachTheirPort ==
  /\ TypeOK
  /\ ~overlap => \A p \in Ports :
    start[p].port \in {-1, p} /\ change[p].port \in {-1, p}

(***************************************************************************)
(* When the handlers have come to rest, the cycle of every port with gates *)
(* starts at a time of the timer the port uses now, after any changes of   *)
(* timers, lists and clocks.  The exceptions are the races the code does   *)
(* not exclude, each known by its step: two handlers met, a clock          *)
(* operation moved AS_T_SELECTOR between a handler's selection and its     *)
(* reading (ax_switch.c:396), a request was cleared with another port's or *)
(* came while the handler ran (:451), or a list change was pending whose   *)
(* time had been computed with the old timer (:402).                       *)
(***************************************************************************)
CyclesOnOwnTimer ==
  ~overlap /\ (\A h \in Handlers : pc[h] = "idle") /\ ~irq["timer"] =>
    \A p \in Enabled \ crossed :
      ~pending[p] => start[p] = [port |-> p, timer |-> domain[p] + 1]
=============================================================================
