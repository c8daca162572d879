------------------------------ MODULE QbvTime -------------------------------
(***************************************************************************)
(* The time arithmetic of the 802.1Qbv handlers (ax_switch.c), where a     *)
(* cycle starts and when a configuration change takes effect, and of the   *)
(* PTP clocks (ax_ptp.c), how a clock is moved and how its rate is set.    *)
(* Times are uint64_t, cycle times and registers uint32_t; both widths are *)
(* parameters, so that the products and differences that wrap in C wrap    *)
(* here.                                                                   *)
(***************************************************************************)
EXTENDS Integers

CONSTANTS
  T64,      \* 2^64
  T32,      \* 2^32
  NS_PER_SEC,
  MaxTime,  \* bound: current and base times
  MaxCycle  \* bound: cycle times

Lead == 10   \* 6 + n cycles, n <= 4

(* All that the registers of a timer can show fits 64 bits, and so do the  *)
(* times the handlers compute from it.                                     *)
ASSUME QbvTimeAssumption ==
  /\ T64 \in Nat \ {0} /\ T32 \in Nat \ {0} /\ NS_PER_SEC \in 1 .. T32
  /\ MaxTime \in Nat /\ MaxTime < T32 * NS_PER_SEC /\ T32 * NS_PER_SEC <= T64
  /\ MaxCycle \in 1 .. T32 - 1 /\ MaxTime + Lead * MaxCycle < T64

VARIABLE call   \* the arguments of one call, or NoCall

(* get_cycle_start_time *)
get_cycle_start_time(now, from, len) ==
  IF from >= now THEN from
  ELSE (from + (((now - from) \div len) + 2) * len) % T64

(* Mutant: one cycle less. *)
config_change_Early(now, from, len) ==
  IF from >= (now + ((Lead * len) % T32)) % T64 THEN from
  ELSE (from + ((((now - from) % T64) \div len) + Lead - 1) * len) % T64

(* config_change_time of ax_irq_config_change: 10 * len is a 32-bit        *)
(* product, and now - from wraps when the base time lies ahead.            *)
config_change_time(now, from, len) ==
  IF from >= (now + ((Lead * len) % T32)) % T64 THEN from
  ELSE (from + ((((now - from) % T64) \div len) + Lead) * len) % T64

(* A timer reads and takes seconds and nanoseconds. *)
Registers(t) == [sec |-> t \div NS_PER_SEC, ns |-> t % NS_PER_SEC]

(* ns is u64 and delta signed; the seconds are cut to their register. *)
ax_ptp_adjtime(timer, delta) ==
  LET ns == (timer.sec * NS_PER_SEC + timer.ns + delta) % T64
  IN  [sec |-> (ns \div NS_PER_SEC) % T32, ns |-> ns % NS_PER_SEC]

(* The addend for a rate ppb parts per NS_PER_SEC above base_addend_val *)
ax_ptp_adjfine(base_addend_val, ppb) ==
  LET adjust_val(n) == ((base_addend_val * n) % T64) \div NS_PER_SEC
  IN  IF ppb < 0 THEN (base_addend_val - adjust_val(-ppb)) % T32
      ELSE (base_addend_val + adjust_val(ppb)) % T32

-----------------------------------------------------------------------------
(* Every call the bounds allow. *)
Calls == [now : 0 .. MaxTime, base : 0 .. MaxTime, cycle : 1 .. MaxCycle]
NoCall == [now |-> -1, base |-> -1, cycle |-> 0]

(* One of them is looked at, or none. *)
TimeInit == call \in Calls \cup {NoCall}
TimeSpec == TimeInit /\ [][FALSE]_call

(***************************************************************************)
(* A cycle starts on the grid base + k * cycle, never in the past, at the  *)
(* base time itself while that is ahead and otherwise within two cycles    *)
(* (get_cycle_start_time).                                                 *)
(***************************************************************************)
CycleStartOnGrid == call # NoCall =>
  LET start == get_cycle_start_time(call.now, call.base, call.cycle)
  IN /\ start >= call.now
     /\ (start - call.base) % call.cycle = 0
     /\ call.base >= call.now => start = call.base
     /\ call.base < call.now => start - call.now \in call.cycle + 1 .. 2 * call.cycle

(***************************************************************************)
(* When a configuration change takes effect (ax_irq_config_change), as     *)
(* long as 10 * cycle fits 32 bits: at the base time if that is Lead       *)
(* cycles ahead, and otherwise in the Lead-th cycle from now, whatever     *)
(* wraps on the way.  So it falls short of the Lead cycles the code asks   *)
(* for (ChangeTenAhead), by less than one.  It is on the grid of the new   *)
(* schedule if the base time has passed; a base time that is ahead makes   *)
(* the difference wrap, and the grid is lost.                              *)
(***************************************************************************)
ChangeTimePlaced == call # NoCall =>
  LET change == config_change_time(call.now, call.base, call.cycle)
  IN Lead * call.cycle < T32 =>
       IF call.base >= call.now + Lead * call.cycle
       THEN change = call.base
       ELSE /\ change - call.now \in (Lead - 1) * call.cycle + 1 .. Lead * call.cycle
            /\ call.base <= call.now => (change - call.base) % call.cycle = 0

(***************************************************************************)
(* What ax_irq_config_change says of itself (ax_switch.c:308 "Config       *)
(* Change Time must be set al least 6+n cycles ahead", with n at its       *)
(* maximum of 4): the change is Lead cycles ahead.                         *)
(***************************************************************************)
ChangeTenAhead ==
  call # NoCall /\ Lead * call.cycle < T32 =>
    config_change_time(call.now, call.base, call.cycle) >= call.now + Lead * call.cycle

(***************************************************************************)
(* A clock that is moved by base - now, ahead or back, over any carry of   *)
(* the nanoseconds, reads base (ax_ptp_adjtime).  A rate is met to within  *)
(* one step of the addend, and slowing down by ppb takes exactly as much   *)
(* off as speeding up by it adds, as long as the faster one fits the       *)
(* register (ax_ptp_adjfine).                                              *)
(***************************************************************************)
ClocksExact == call # NoCall =>
  /\ ax_ptp_adjtime(Registers(call.now), call.base - call.now) = Registers(call.base)
  /\ LET up   == ax_ptp_adjfine(call.now, call.cycle)
         down == ax_ptp_adjfine(call.now, -call.cycle)
     IN  call.now * (NS_PER_SEC + call.cycle) < T32 * NS_PER_SEC /\ call.cycle < NS_PER_SEC =>
           /\ (up - call.now) * NS_PER_SEC \in
                call.now * call.cycle - NS_PER_SEC + 1 .. call.now * call.cycle
           /\ up - call.now = call.now - down

(* Where exactly the times the handlers program lie, ahead and on their    *)
(* schedule's grid where the arithmetic does not wrap, and that clocks are *)
(* set to the time and rate asked for (get_cycle_start_time,               *)
(* ax_irq_config_change, ax_ptp_adjtime, ax_ptp_adjfine).                  *)
TimesExact == CycleStartOnGrid /\ ChangeTimePlaced /\ ClocksExact
=============================================================================
