------------------------------ MODULE XdmaDev ------------------------------
(***************************************************************************)
(* How libxdma.c takes a card over and gives it back: xdma_device_open     *)
(* with its unwinding, xdma_device_close, and the xdma_device_offline and  *)
(* xdma_device_online that bracket a PCI reset (xdma_mod.c).               *)
(*                                                                         *)
(* PCI core callbacks of one card exclude each other, so there is one      *)
(* control point "pc"; interrupts come between any two steps.  What the    *)
(* driver believes (struct xdma_dev) is kept apart from what the kernel    *)
(* has lent it and from what the card's registers hold: the properties     *)
(* relate the three.                                                       *)
(***************************************************************************)
EXTENDS Integers, FiniteSets

CONSTANTS
    Layouts,    \* BAR layouts a card may have
    UserMax,    \* user interrupt lines the driver asks for
    Faults,     \* the calls of the driver that may fail
    MaxOpens    \* bound: how often the card is probed

XDMA_BAR_NUM == 3
BarIds == 0 .. XDMA_BAR_NUM - 1
Users  == 0 .. UserMax - 1
H2C == {<<"h2c", 0>>, <<"h2c", 1>>}
C2H == {<<"c2h", 0>>}
Engines == H2C \cup C2H
Isr == <<"isr", 0>>                       \* xdma_isr, the one legacy handler
UserIrq(u) == <<"user", u>>
Bits == 0 .. 3                            \* channel interrupt bits of the card

ASSUME XdmaDevAssumption ==
    /\ UserMax \in Nat /\ MaxOpens \in Nat
    /\ Layouts \subseteq [BarIds -> {"absent", "plain", "config"}]

VARIABLES
    pc,         \* the next step of the call in progress, or where it rests
    i,          \* the loop counter of the step
    ret,        \* the caller of irq_setup: "open" or "online"
    hw,         \* the card: its BARs, engines and MSI-X capability
    x,          \* struct xdma_dev
    k,          \* what the kernel lends: enable count, regions, maps, irqs
    r,          \* the card's interrupt registers
    tsk,        \* tsk_ptp points to a tasklet
    frozen,     \* the reset in progress began with a frozen channel
    opens,      \* bound: calls of xdma_device_open so far
    declined,   \* history: opens that found the regions in use
    stray,      \* history: an interrupt was freed that was not requested
    oops,       \* tasklet_kill(NULL)
    hit         \* history: the faults after which a property may fail

vars == <<pc, i, ret, hw, x, k, r, tsk, frozen, opens, declined, stray, oops,
          hit>>
calm  == <<hw, tsk, frozen, opens, declined, stray, oops>>
quiet == <<calm, hit>>

Hit(f) == hit' = hit \cup {f}

(* alloc_dev_instance: kzalloc and the fields that are not zero. *)
alloc_dev_instance ==
    [bars |-> {}, config |-> -1, user |-> -1, bypass |-> -1,
     list |-> <<>>, pos |-> 0, got |-> FALSE, inUse |-> FALSE,
     h2c |-> 2, c2h |-> 1, built |-> {}, num |-> 0,
     bit |-> [e \in Engines |-> 0], line |-> [e \in Engines |-> -1],
     msix |-> FALSE, irqLine |-> -1, mask |-> {}, offline |-> TRUE]

Returned == [enabled |-> 0, regions |-> FALSE, mapped |-> {}, mem |-> {},
             vectors |-> FALSE, irqs |-> {}, listed |-> FALSE]

Init ==
    /\ pc = "closed" /\ i = 0 /\ ret = "open"
    /\ hw \in [layout : Layouts, h2c : 0 .. 2, c2h : 0 .. 1, msix : BOOLEAN]
    /\ x = alloc_dev_instance /\ k = Returned
    /\ r \in [chan : BOOLEAN, user : {{}, Users}, eng : {{}, Engines},
              table : {[b \in Bits |-> 0]}]
    /\ tsk = FALSE /\ frozen = FALSE /\ opens = 0 /\ declined = 0
    /\ stray = FALSE /\ oops = FALSE /\ hit = {}

-----------------------------------------------------------------------------
(* xdma_device_open, up to the engines.                                    *)

Open ==
    /\ pc = "closed" /\ opens < MaxOpens
    /\ opens' = opens + 1
    /\ x' = alloc_dev_instance
    /\ k' = [k EXCEPT !.listed = TRUE]
    /\ pc' = "enable" /\ i' = 0 /\ ret' = "open"
    /\ UNCHANGED <<hw, r, tsk, frozen, declined, stray, oops, hit>>

EnableDevice ==
    /\ pc = "enable"
    /\ \/ k' = [k EXCEPT !.enabled = @ + 1] /\ pc' = "regions"
       \/ "enable" \in Faults /\ pc' = "unlist" /\ k' = k
    /\ UNCHANGED <<i, ret, x, r, quiet>>

request_regions ==
    /\ pc = "regions"
    /\ \/ /\ x' = [x EXCEPT !.got = TRUE]
          /\ k' = [k EXCEPT !.regions = TRUE]
          /\ pc' = "map" /\ UNCHANGED declined
       \/ /\ "regions" \in Faults
          /\ x' = [x EXCEPT !.inUse = TRUE]
          /\ declined' = declined + 1
          /\ pc' = "disable" /\ k' = k
    /\ UNCHANGED <<i, ret, r, hw, tsk, frozen, opens, stray, oops, hit>>

(* Mutant: the BARs are only marked as unmapped. *)
UnmapMarks == k' = k /\ x' = [x EXCEPT !.bars = {}]

unmap_bars ==
    /\ k' = [k EXCEPT !.mapped = @ \ x.bars]
    /\ x' = [x EXCEPT !.bars = {}]

(* identify_bars: the user logic comes first and the bypass BAR last. *)
identify_bars(d) ==
    LET n == Cardinality(DOMAIN d.list) IN
    CASE n = 2 /\ d.pos = 0 -> [d EXCEPT !.bypass = d.list[2]]
      [] n = 2 /\ d.pos = 1 -> [d EXCEPT !.user = d.list[1]]
      [] n \in {3, 4} /\ d.pos \in {1, 2} ->
            [d EXCEPT !.user = d.list[1], !.bypass = d.list[n]]
      [] OTHER -> d

(* A BAR is limited to INT_MAX bytes, which no property depends on. *)
map_single_bar == k' = [k EXCEPT !.mapped = @ \cup {i}]

(* One turn of the loop of map_bars, with is_config_bar. *)
map_bars ==
    /\ pc = "map" /\ i < XDMA_BAR_NUM
    /\ \/ /\ hw.layout[i] = "absent"
          /\ i' = i + 1 /\ UNCHANGED <<pc, x, k>>
       \/ /\ hw.layout[i] # "absent"
          /\ map_single_bar
          /\ LET n == Cardinality(DOMAIN x.list)
                 found == hw.layout[i] = "config" /\ x.config < 0
             IN x' = [x EXCEPT
                        !.bars = @ \cup {i},
                        !.list = [m \in 1 .. n + 1 |-> IF m > n THEN i ELSE @[m]],
                        !.config = IF found THEN i ELSE @,
                        !.pos = IF found THEN n ELSE @]
          /\ i' = i + 1 /\ UNCHANGED pc
       \/ /\ hw.layout[i] # "absent" /\ "iomap" \in Faults
          /\ unmap_bars
          /\ pc' = "release" /\ i' = 0
    /\ UNCHANGED <<ret, r, quiet>>

MapBarsDone ==
    /\ pc = "map" /\ i = XDMA_BAR_NUM
    /\ i' = 0
    /\ \/ x.config < 0 /\ unmap_bars /\ pc' = "release"
       \/ x.config >= 0 /\ x' = identify_bars(x) /\ pc' = "dma" /\ k' = k
    /\ UNCHANGED <<ret, r, quiet>>

set_dma_mask ==
    /\ pc = "dma"
    /\ \/ pc' = "zero"
       \/ "dma" \in Faults /\ pc' = "unmap"
    /\ UNCHANGED <<i, ret, x, k, r, quiet>>

InterruptsOff == r' = [r EXCEPT !.chan = FALSE, !.user = {}]

ZeroInterrupts ==
    /\ pc = "zero" /\ InterruptsOff /\ pc' = "probe_h2c"
    /\ UNCHANGED <<i, ret, x, k, quiet>>

-----------------------------------------------------------------------------
(* Engines: probe_engines, engine_init and remove_engines.                 *)

EngineAt == <<IF pc = "probe_h2c" THEN "h2c" ELSE "c2h", i>>
Identified(e) == e[2] < (IF e[1] = "h2c" THEN hw.h2c ELSE hw.c2h)

(* engine_init up to the allocations: the next interrupt bit is taken. *)
Numbered(e) == [x EXCEPT !.num = @ + 1, !.bit[e] = x.num]

engine_init_regs(S) == r' = [r EXCEPT !.eng = @ \cup S]

engine_init(e) ==
    /\ x' = [Numbered(e) EXCEPT !.built = @ \cup {e}]
    /\ k' = [k EXCEPT !.mem = @ \cup {e}]
    /\ engine_init_regs({e})

probe_for_engine ==
    /\ \/ pc = "probe_h2c" /\ i < x.h2c
       \/ pc = "probe_c2h" /\ i < x.c2h
    /\ Identified(EngineAt)
    /\ engine_init(EngineAt)
    /\ i' = i + 1
    /\ UNCHANGED <<pc, ret, quiet>>

(* The loops of probe_engines end at the first engine that is missing or   *)
(* cannot be set up, and set the number of channels of that direction.     *)
NextProbe(d) ==
    \/ pc = "probe_h2c" /\ x' = [d EXCEPT !.h2c = i] /\ pc' = "probe_c2h"
    \/ pc = "probe_c2h" /\ x' = [d EXCEPT !.c2h = i] /\ pc' = "msix"

probe_engines ==
    /\ i' = 0
    /\ \/ pc = "probe_h2c" /\ i = x.h2c /\ NextProbe(x)
       \/ pc = "probe_c2h" /\ i = x.c2h /\ NextProbe(x)
       \/ pc = "probe_h2c" /\ i < x.h2c /\ ~Identified(EngineAt) /\ NextProbe(x)
       \/ pc = "probe_c2h" /\ i < x.c2h /\ ~Identified(EngineAt) /\ NextProbe(x)
    /\ UNCHANGED <<ret, k, r, quiet>>

(* engine_alloc_resource runs out of memory: it frees what it got, but the *)
(* interrupt bit stays taken.                                              *)
EngineNoMemory ==
    /\ "engine" \in Faults
    /\ \/ pc = "probe_h2c" /\ i < x.h2c
       \/ pc = "probe_c2h" /\ i < x.c2h
    /\ Identified(EngineAt)
    /\ i' = 0 /\ NextProbe(Numbered(EngineAt))
    /\ Hit("engine")
    /\ UNCHANGED <<ret, k, r, calm>>

engine_destroy ==
    /\ r' = [r EXCEPT !.eng = @ \ x.built]
    /\ k' = [k EXCEPT !.mem = @ \ x.built]
    /\ x' = [x EXCEPT !.built = {}, !.num = @ - Cardinality(x.built)]

-----------------------------------------------------------------------------
(* Interrupt vectors: enable_msi_msix, irq_setup and irq_teardown.         *)

enable_msi_msix ==
    /\ pc = "msix"
    /\ x' = [x EXCEPT !.msix = hw.msix]
    /\ \/ k' = [k EXCEPT !.vectors = hw.msix] /\ pc' = "irq"
       \/ hw.msix /\ "msix" \in Faults /\ k' = k /\ pc' = "nomsix"
    /\ UNCHANGED <<i, ret, r, quiet>>

UserVector(u) == x.h2c + x.c2h + u
EngineList == [n \in 0 .. x.h2c + x.c2h - 1 |->
                  IF n < x.h2c THEN <<"h2c", n>> ELSE <<"c2h", n - x.h2c>>]

(* The caller of irq_setup: xdma_device_open unwinds, xdma_device_online   *)
(* does not look at the result.                                            *)
IrqSetupFailed == IF ret = "open" THEN "teardown" ELSE "ready"

IrqSetup ==
    /\ pc = "irq"
    /\ i' = 0 /\ pc' = IF x.msix THEN "chan_irq" ELSE "legacy_irq"
    /\ UNCHANGED <<ret, x, k, r, quiet>>

RequestIrq(v, owner) == k' = [k EXCEPT !.irqs = @ \cup {<<v, owner>>}]

(* Mutant: the line remembered for an engine is the next one. *)
RequestAndMisrecord ==
    /\ pc = "chan_irq" /\ i < x.h2c + x.c2h
    /\ RequestIrq(i, EngineList[i])
    /\ x' = [x EXCEPT !.line[EngineList[i]] = i + 1]
    /\ i' = i + 1
    /\ UNCHANGED <<pc, ret, r, quiet>>

irq_msix_channel_setup ==
    /\ pc = "chan_irq" /\ i < x.h2c + x.c2h
    /\ \/ /\ RequestIrq(i, EngineList[i])
          /\ x' = [x EXCEPT !.line[EngineList[i]] = i]
          /\ i' = i + 1 /\ pc' = pc /\ UNCHANGED hit
       \/ /\ "request_irq" \in Faults /\ Hit("request_irq")
          /\ pc' = IrqSetupFailed /\ i' = 0
          /\ UNCHANGED <<x, k>>
    /\ UNCHANGED <<ret, r, calm>>

ChannelIrqsDone ==
    /\ pc = "chan_irq" /\ i = x.h2c + x.c2h
    /\ tsk' = TRUE                        \* kzalloc and tasklet_init
    /\ pc' = "user_irq" /\ i' = 0
    /\ UNCHANGED <<ret, x, k, r, hw, frozen, opens, declined, stray, oops, hit>>

(* free_irq of a set of registrations; one of them is not there: a warning *)
FreeIrqs(S) ==
    /\ k' = [k EXCEPT !.irqs = @ \ S]
    /\ stray' = (stray \/ ~ S \subseteq k.irqs)

UserIrqs(n) == {<<UserVector(u), UserIrq(u)>> : u \in {m \in Users : m < n}}

irq_msix_user_setup ==
    /\ pc = "user_irq" /\ i < UserMax
    /\ \/ /\ RequestIrq(UserVector(i), UserIrq(i))
          /\ i' = i + 1 /\ pc' = pc /\ UNCHANGED <<stray, hit>>
       \/ /\ "request_irq" \in Faults /\ Hit("request_irq")
          /\ FreeIrqs(UserIrqs(i))
          /\ pc' = IrqSetupFailed /\ i' = 0
    /\ UNCHANGED <<ret, x, r, hw, tsk, frozen, opens, declined, oops>>

(* Mutant: the last channel's vector is not written. *)
ProgOneLess == [b \in Bits |-> IF b + 1 < x.h2c + x.c2h THEN b ELSE 0]

(* Four vectors to a register: bit b interrupts through vector b, bits     *)
(* beyond the last channel through vector 0.                               *)
prog_irq_msix_channel ==
    [b \in Bits |-> IF b < x.h2c + x.c2h THEN b ELSE 0]

ProgVectors ==
    /\ pc = "user_irq" /\ i = UserMax
    /\ r' = [r EXCEPT !.table = prog_irq_msix_channel]
    /\ pc' = "ready" /\ i' = 0
    /\ UNCHANGED <<ret, x, k, quiet>>

irq_legacy_setup ==
    /\ pc = "legacy_irq"
    /\ x' = [x EXCEPT !.irqLine = 0]
    /\ \/ RequestIrq(0, Isr) /\ pc' = "ready" /\ UNCHANGED hit
       \/ /\ "request_irq" \in Faults /\ Hit("request_irq")
          /\ pc' = IrqSetupFailed /\ k' = k
    /\ UNCHANGED <<i, ret, r, calm>>

(* The channels whose interrupt irq_msix_channel_teardown frees: those     *)
(* before the first that never had one, in each direction.                 *)
Lined(S, n) == {e \in S : e[2] < n /\ \A m \in 0 .. e[2] : x.line[<<e[1], m>>] # -1}
ChannelIrqs == {<<x.line[e], e>> : e \in Lined(H2C, x.h2c) \cup Lined(C2H, x.c2h)}

(* irq_msix_channel_teardown and irq_msix_user_teardown, or the legacy one *)
irq_teardown ==
    \/ /\ x.msix /\ tsk
       /\ r' = [r EXCEPT !.table = [b \in Bits |-> 0]]
       /\ FreeIrqs(ChannelIrqs \cup UserIrqs(UserMax))
       /\ UNCHANGED oops
    \/ /\ x.msix /\ ~tsk                  \* tasklet_kill(tsk_ptp)
       /\ r' = [r EXCEPT !.table = [b \in Bits |-> 0]]
       /\ FreeIrqs(ChannelIrqs)
       /\ oops' = TRUE
    \/ /\ ~x.msix
       /\ FreeIrqs(IF x.irqLine = -1 THEN {} ELSE {<<x.irqLine, Isr>>})
       /\ UNCHANGED <<r, oops>>

(* The end of xdma_device_open and of xdma_device_online. *)
Ready ==
    /\ pc = "ready"
    /\ r' = [r EXCEPT !.chan = TRUE,
                      !.user = IF ret = "online" THEN @ \cup x.mask ELSE @]
    /\ x' = [x EXCEPT !.offline = FALSE]
    /\ pc' = "open"
    /\ UNCHANGED <<i, ret, k, quiet>>

-----------------------------------------------------------------------------
(* Unwinding a failed open, and xdma_device_close, which joins it.         *)

TeardownIrqs ==
    /\ pc = "teardown" /\ irq_teardown
    /\ pc' = IF oops' THEN "oops" ELSE "nomsix"
    /\ UNCHANGED <<i, ret, x, hw, tsk, frozen, opens, declined, hit>>

disable_msi_msix ==
    /\ pc = "nomsix"
    /\ k' = [k EXCEPT !.vectors = IF x.msix THEN FALSE ELSE @]
    /\ x' = [x EXCEPT !.msix = FALSE]
    /\ pc' = "remove"
    /\ UNCHANGED <<i, ret, r, quiet>>

remove_engines ==
    /\ pc = "remove" /\ engine_destroy /\ pc' = "unmap"
    /\ UNCHANGED <<i, ret, quiet>>

UnmapBars ==
    /\ pc = "unmap" /\ unmap_bars /\ pc' = "release"
    /\ UNCHANGED <<i, ret, r, quiet>>

ReleaseRegions ==
    /\ pc = "release"
    /\ k' = [k EXCEPT !.regions = IF x.got THEN FALSE ELSE @]
    /\ pc' = "disable"
    /\ UNCHANGED <<i, ret, x, r, quiet>>

DisableDevice ==
    /\ pc = "disable"
    /\ k' = [k EXCEPT !.enabled = IF x.inUse THEN @ ELSE @ - 1]
    /\ pc' = "unlist"
    /\ UNCHANGED <<i, ret, x, r, quiet>>

ListRemove ==
    /\ pc = "unlist"
    /\ k' = [k EXCEPT !.listed = FALSE]
    /\ x' = alloc_dev_instance            \* kfree: nothing of it is kept
    /\ pc' = "closed"
    /\ UNCHANGED <<i, ret, r, quiet>>

(* Mutant: the interrupts are freed last. *)
CloseUnmapsFirst ==
    /\ pc \in {"open", "dead"} /\ InterruptsOff /\ pc' = "remove"
    /\ UNCHANGED <<i, ret, x, k, quiet>>

xdma_device_close ==
    /\ pc \in {"open", "dead"} /\ InterruptsOff /\ pc' = "teardown"
    /\ UNCHANGED <<i, ret, x, k, quiet>>

-----------------------------------------------------------------------------
(* User interrupts of an open device.                                      *)

xdma_user_isr_enable(m) ==
    /\ pc = "open"
    /\ x' = [x EXCEPT !.mask = @ \cup m]
    /\ r' = [r EXCEPT !.user = @ \cup m]
    /\ UNCHANGED <<pc, i, ret, k, quiet>>

xdma_user_isr_disable(m) ==
    /\ pc = "open"
    /\ x' = [x EXCEPT !.mask = @ \ m]
    /\ r' = [r EXCEPT !.user = @ \ m]
    /\ UNCHANGED <<pc, i, ret, k, quiet>>

-----------------------------------------------------------------------------
(* A PCI reset: error_detected and slot_reset, or reset_prepare and        *)
(* reset_done.  The card forgets its registers in between.                 *)

xdma_device_offline(f) ==
    /\ pc = "open"
    /\ x' = [x EXCEPT !.offline = TRUE]
    /\ InterruptsOff
    /\ frozen' = f
    /\ pc' = "off_teardown"
    /\ UNCHANGED <<i, ret, k, hw, tsk, opens, declined, stray, oops, hit>>

axpci_error_detected == xdma_device_offline(TRUE)
axpci_reset_prepare  == xdma_device_offline(FALSE)

OfflineDone ==
    /\ pc = "off_teardown" /\ irq_teardown
    /\ pc' = IF oops' THEN "oops" ELSE IF frozen THEN "frozen" ELSE "reset"
    /\ UNCHANGED <<i, ret, x, hw, tsk, frozen, opens, declined, hit>>

FrozenDisable ==
    /\ pc = "frozen"
    /\ k' = [k EXCEPT !.enabled = @ - 1]
    /\ pc' = "reset"
    /\ UNCHANGED <<i, ret, x, r, quiet>>

Reset ==
    /\ pc = "reset"
    /\ r' = [chan |-> FALSE, user |-> {}, eng |-> {}, table |-> [b \in Bits |-> 0]]
    /\ pc' = IF frozen THEN "slot" ELSE "online"
    /\ UNCHANGED <<i, ret, x, k, quiet>>

axpci_slot_reset ==
    /\ pc = "slot"
    /\ \/ k' = [k EXCEPT !.enabled = @ + 1] /\ pc' = "online" /\ UNCHANGED hit
       \/ "slot_reset" \in Faults /\ Hit("slot_reset") /\ pc' = "dead" /\ k' = k
    /\ UNCHANGED <<i, ret, x, r, calm>>

xdma_device_online ==
    /\ pc = "online"
    /\ engine_init_regs(x.built)
    /\ ret' = "online" /\ pc' = "irq"
    /\ UNCHANGED <<i, x, k, quiet>>

-----------------------------------------------------------------------------
OpenStep == Open \/ EnableDevice \/ request_regions \/ map_bars \/ MapBarsDone
            \/ set_dma_mask \/ ZeroInterrupts \/ probe_for_engine
            \/ probe_engines \/ EngineNoMemory \/ enable_msi_msix \/ Ready
IrqStep == IrqSetup \/ irq_msix_channel_setup \/ ChannelIrqsDone
            \/ irq_msix_user_setup \/ ProgVectors \/ irq_legacy_setup
CloseStep == xdma_device_close \/ TeardownIrqs \/ disable_msi_msix
            \/ remove_engines \/ UnmapBars \/ ReleaseRegions \/ DisableDevice
            \/ ListRemove
UserStep == \E m \in (SUBSET Users) \ {{}} :
            xdma_user_isr_enable(m) \/ xdma_user_isr_disable(m)
ResetStep == axpci_error_detected \/ axpci_reset_prepare \/ OfflineDone
            \/ FrozenDisable \/ Reset \/ axpci_slot_reset \/ xdma_device_online

Next == OpenStep \/ IrqStep \/ CloseStep \/ UserStep \/ ResetStep

Spec == Init /\ [][Next]_vars

-----------------------------------------------------------------------------
Steps == {"closed", "enable", "regions", "map", "dma", "zero", "probe_h2c",
          "probe_c2h", "msix", "irq", "chan_irq", "user_irq", "legacy_irq",
          "ready", "open", "teardown", "nomsix", "remove", "unmap", "release",
          "disable", "unlist", "off_teardown", "frozen", "reset", "slot",
          "online", "dead", "oops"}

(* Types of the control point, of the driver's structure, of what the      *)
(* kernel lent and of the card's registers (libxdma.h, struct xdma_dev).   *)
TypeOK ==
    /\ pc \in Steps /\ i \in 0 .. 4 + UserMax /\ ret \in {"open", "online"}
    /\ x.bars \subseteq BarIds /\ x.config \in -1 .. XDMA_BAR_NUM - 1
    /\ x.h2c \in 0 .. 2 /\ x.c2h \in 0 .. 1 /\ x.num \in 0 .. 3
    /\ x.built \subseteq Engines /\ x.mask \subseteq Users
    /\ k.enabled \in -MaxOpens .. MaxOpens /\ k.mapped \subseteq BarIds
    /\ k.mem \subseteq Engines
    /\ \A p \in k.irqs : p[1] \in 0 .. 2 + UserMax
    /\ r.user \subseteq Users /\ r.eng \subseteq Engines
    /\ hit \subseteq Faults /\ declined \in 0 .. opens /\ {tsk, frozen, stray, oops} \subseteq BOOLEAN

(* A registration the card can fire now.  The legacy line is shared, so    *)
(* xdma_isr may be called at any time.                                     *)
Deliverable(p) ==
    \/ p[2] = Isr
    \/ p[2] \in Engines /\ r.chan /\ p[2] \in r.eng
    \/ \E u \in r.user : p[2] = UserIrq(u)

(* An interrupt handler never finds its engine destroyed or the BARs it    *)
(* reads unmapped: every handler reads the interrupt block of the config   *)
(* BAR or the switch's status in BAR 0 (xdma_isr, xdma_channel_C2H_irq,    *)
(* xdma_user_irq), whatever the open, close or reset in progress.          *)
HandlerSafe ==
    \A p \in k.irqs : Deliverable(p) =>
        /\ x.config \in k.mapped /\ x.bars \subseteq k.mapped
        /\ p[2] \in Engines => p[2] \in x.built \cap k.mem

(* A card that is not open keeps nothing: an open that fails and a close   *)
(* give back the BARs, the regions, the vectors, the interrupts, the DMA   *)
(* memory and the list entry (xdma_device_open's err_ labels,              *)
(* xdma_device_close).  The PCI enable count is back too, except for the   *)
(* opens that found the regions in use and leave the device to its other   *)
(* user on purpose ("assume device is in use"), and for a close that       *)
(* follows a failed slot reset.  One failure is not survived, and it is    *)
(* the only one: with MSI-X, a channel's request_irq that fails in         *)
(* xdma_device_open before any open has made the tasklet.  The unwinding   *)
(* frees the interrupts, calls tasklet_kill(NULL) and goes no further.     *)
NothingLeft ==
    /\ TypeOK
    /\ pc = "closed" =>
        /\ k = [Returned EXCEPT !.enabled = k.enabled]
        /\ "slot_reset" \notin hit => k.enabled = declined
    /\ pc = "oops" =>
        /\ "request_irq" \in hit /\ ret = "open" /\ x.msix /\ ~tsk
        /\ k.irqs = {}

(* xdma_device_open "returns a opaque handle [...] NULL, in case of error" *)
(* (libxdma_api.h:60): whatever fails, the unwinding gets to its end and   *)
(* does not stop the kernel on the way.                                    *)
FailedOpenReturns == ~oops

(* The card numbers its channel interrupts by its own engines, the driver  *)
(* by the engines it could set up.                                         *)
HwBit(e) == IF e[1] = "h2c" THEN e[2] ELSE hw.h2c + e[2]

(* The vector the card was given for an engine's bit is the one requested  *)
(* with that engine (engine_init, prog_irq_msix_channel,                   *)
(* irq_msix_channel_setup).                                                *)
Routed(e) == <<r.table[HwBit(e)], e>> \in k.irqs /\ x.bit[e] = HwBit(e)

(* An open device hears the card, also after any number of resets: channel *)
(* interrupts are on, every engine's own mask is set, exactly the user     *)
(* interrupts asked for are on ("user interrupt will not enabled until     *)
(* xdma_user_isr_enable() is called", libxdma_api.h), every handler is     *)
(* installed and every engine's interrupt reaches its own.  An engine that *)
(* could not be set up shifts the bits of those after it; a request_irq    *)
(* that fails in xdma_device_online is not noticed.                        *)
Listening ==
    pc = "open" =>
        /\ r.chan /\ x.built \subseteq r.eng /\ r.user = x.mask /\ ~x.offline
        /\ "request_irq" \notin hit =>
              /\ x.msix => UserIrqs(UserMax) \subseteq k.irqs
              /\ ~x.msix => <<0, Isr>> \in k.irqs
              /\ x.msix /\ "engine" \notin hit => \A e \in x.built : Routed(e)

(* "free IRQs that were successfully requested" (irq_msix_user_setup) and  *)
(* no others: no path of open, close or reset frees an interrupt that is   *)
(* not installed at that moment.  The exceptions are the unwinding after a *)
(* request_irq that failed and the close after a failed slot reset.        *)
FreesOnlyRequested == stray => hit \cap {"request_irq", "slot_reset"} # {}
=============================================================================
