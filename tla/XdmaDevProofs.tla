--------------------------- MODULE XdmaDevProofs ----------------------------
(***************************************************************************)
(* Proofs about XdmaDev for any BAR layouts, any number of user interrupt  *)
(* lines, any set of calls that fail and any number of opens.              *)
(***************************************************************************)
EXTENDS XdmaDev, TLAPS, FiniteSetTheorems

(* The records, field by field. *)
XShape ==
  x = [bars |-> x.bars, config |-> x.config, user |-> x.user, bypass |-> x.bypass,
       list |-> x.list, pos |-> x.pos, got |-> x.got, inUse |-> x.inUse,
       h2c |-> x.h2c, c2h |-> x.c2h, built |-> x.built, num |-> x.num,
       bit |-> x.bit, line |-> x.line, msix |-> x.msix, irqLine |-> x.irqLine,
       mask |-> x.mask, offline |-> x.offline]

KShape ==
  k = [enabled |-> k.enabled, regions |-> k.regions, mapped |-> k.mapped, mem |-> k.mem,
       vectors |-> k.vectors, irqs |-> k.irqs, listed |-> k.listed]

RShape == r = [chan |-> r.chan, user |-> r.user, eng |-> r.eng, table |-> r.table]

Shape == XShape /\ KShape /\ RShape

(* The card, and the driver's control point, counters and flags. *)
HwShape == hw.h2c \in 0 .. 2 /\ hw.c2h \in 0 .. 1 /\ hw.msix \in BOOLEAN

CtlShape ==
  /\ pc \in Steps /\ ret \in {"open", "online"}
  /\ tsk \in BOOLEAN /\ frozen \in BOOLEAN /\ stray \in BOOLEAN /\ oops \in BOOLEAN
  /\ hit \subseteq Faults
  /\ pc = "frozen" => frozen = TRUE

(* The BARs the driver lists are the ones mapped for it, and the config BAR *)
(* is among them until they are unmapped.                                   *)
Unmapped == {"closed", "enable", "regions", "release", "disable", "unlist"}

BarShape ==
  /\ k.mapped = x.bars /\ x.bars \subseteq BarIds
  /\ x.config \in -1 .. XDMA_BAR_NUM - 1
  /\ pc \in {"enable", "regions", "map"} => i \in 0 .. XDMA_BAR_NUM
  /\ pc \in {"enable", "regions"} => x.config = -1
  /\ pc \in Unmapped => x.bars = {}
  /\ pc \notin Unmapped \cup {"map"} => x.config >= 0
  /\ pc \notin Unmapped /\ x.config >= 0 => x.config \in x.bars

(* Regions, vectors and the list entry. *)
Regioned == Steps \ {"closed", "enable", "regions", "disable", "unlist"}
Vectored == {"irq", "chan_irq", "user_irq", "legacy_irq", "ready", "open", "teardown", "nomsix",
             "off_teardown", "frozen", "reset", "slot", "online", "dead", "oops"}

LoanShape ==
  /\ x.got \in BOOLEAN /\ k.regions \in BOOLEAN /\ (k.regions => x.got /\ pc \in Regioned)
  /\ k.vectors \in BOOLEAN /\ x.msix \in BOOLEAN /\ (k.vectors => x.msix /\ pc \in Vectored)
  /\ pc = "closed" => k.listed = FALSE

(* The PCI enable count: the opens that found the regions in use keep one   *)
(* each, the open in progress holds one, and a close after a failed slot    *)
(* reset gives back one too many.                                           *)
HoldsEnable ==
  IF \/ pc \in {"closed", "enable", "unlist", "slot"}
     \/ pc = "disable" /\ x.inUse
     \/ pc = "reset" /\ frozen
  THEN 0 ELSE 1

Closing == {"closed", "teardown", "nomsix", "remove", "unmap", "release", "disable", "unlist",
            "dead", "oops"}

EnableShape ==
  /\ x.inUse \in BOOLEAN /\ (x.inUse => pc \in {"disable", "unlist"})
  /\ opens \in 0 .. MaxOpens /\ declined \in Nat
  /\ declined + (IF pc = "closed" \/ x.inUse THEN 0 ELSE 1) <= opens
  /\ k.enabled \in Int /\ k.enabled <= declined + HoldsEnable
  /\ k.enabled >= HoldsEnable - opens + (IF pc \in Closing THEN 0 ELSE 1)
  /\ "slot_reset" \notin hit => pc # "dead" /\ k.enabled = declined + HoldsEnable

(* The engines that are set up are the first of each direction, as many as  *)
(* there are channels, and every one has its memory.                        *)
Chans(a, b) == {e \in Engines : IF e[1] = "h2c" THEN e[2] < a ELSE e[2] < b}

Unbuilt == Unmapped \cup {"map", "dma", "zero", "unmap"}
Fresh   == {"enable", "regions", "map", "dma", "zero"}

EngineShape ==
  /\ k.mem = x.built
  /\ x.h2c \in 0 .. 2 /\ x.c2h \in 0 .. 1 /\ x.num \in 0 .. 3
  /\ x.bit \in [Engines -> Int]
  /\ pc \in Fresh => x.h2c = 2 /\ x.c2h = 1 /\ x.num = 0
  /\ pc \in {"dma", "zero"} => i = 0
  /\ pc \in Unbuilt => x.built = {}
  /\ pc = "probe_h2c" =>
       /\ i \in 0 .. hw.h2c /\ x.h2c = 2 /\ x.c2h = 1 /\ x.num = i
       /\ x.built = Chans(i, 0)
       /\ \A e \in x.built : x.bit[e] = HwBit(e)
  /\ pc = "probe_c2h" =>
       /\ i \in 0 .. hw.c2h /\ x.c2h = 1
       /\ x.num \in x.h2c + i .. x.h2c + i + 1 /\ x.num <= i + 2
       /\ x.built = Chans(x.h2c, i)
       /\ "engine" \notin hit =>
            /\ x.h2c = hw.h2c /\ x.num = x.h2c + i
            /\ \A e \in x.built : x.bit[e] = HwBit(e)
  /\ pc \notin Unbuilt \cup {"probe_h2c", "probe_c2h"} =>
       /\ x.built = Chans(x.h2c, x.c2h) /\ x.num >= x.h2c + x.c2h
       /\ "engine" \notin hit => /\ x.h2c = hw.h2c
                                 /\ \A e \in x.built : x.bit[e] = HwBit(e)

(* The vector of an engine; the interrupts of the engines that have one.    *)
Vec(e) == IF e[1] = "h2c" THEN e[2] ELSE x.h2c + e[2]
WithLine == {e \in x.built : x.line[e] # -1}
IrqsOf(S) == {<<Vec(e), e>> : e \in S}

(* Lines are recorded in the order of the vectors.  Outside irq_setup and   *)
(* the life it begins there are no interrupts; inside it they are those     *)
(* that were requested so far; and at rest they are among those that        *)
(* irq_teardown will free, all of them when no request failed.              *)
Early  == Fresh \cup {"probe_h2c", "probe_c2h", "msix"}
Manned == {"ready", "open", "teardown", "off_teardown", "oops"}

LineShape ==
  /\ x.line \in [Engines -> Int] /\ x.irqLine \in {-1, 0}
  /\ pc \in Early => x.line = [e \in Engines |-> -1]
  /\ pc \in Vectored =>
       /\ \A e \in x.built : x.line[e] \in {-1, Vec(e)}
       /\ \A e, f \in x.built : Vec(f) <= Vec(e) /\ x.line[e] # -1 => x.line[f] # -1

IrqShape ==
  /\ pc \notin Manned \cup {"chan_irq", "user_irq"} => k.irqs = {}
  /\ pc = "chan_irq" =>
       /\ x.msix /\ i \in 0 .. x.h2c + x.c2h
       /\ \A e \in x.built : Vec(e) < i => x.line[e] # -1
       /\ k.irqs = IrqsOf({e \in x.built : Vec(e) < i})
  /\ pc = "user_irq" =>
       /\ x.msix /\ i \in 0 .. UserMax /\ WithLine = x.built
       /\ k.irqs = IrqsOf(x.built) \cup UserIrqs(i)
  /\ pc = "legacy_irq" => ~x.msix
  /\ pc \in Manned =>
       k.irqs \subseteq IF x.msix THEN IrqsOf(WithLine) \cup UserIrqs(UserMax)
                        ELSE {<<0, Isr>>}
  /\ pc \in Manned /\ ~x.msix => x.irqLine = 0
  /\ pc \in {"frozen", "reset", "slot", "online", "dead"} /\ ~x.msix => x.irqLine = 0
  /\ /\ "request_irq" \notin hit
     /\ pc \in {"ready", "open", "off_teardown"} \/ (pc = "teardown" /\ "slot_reset" \notin hit)
     => IF x.msix THEN WithLine = x.built /\ k.irqs = IrqsOf(x.built) \cup UserIrqs(UserMax)
        ELSE k.irqs = {<<0, Isr>>}

(* The card's registers. *)
Wired == {"irq", "chan_irq", "user_irq", "legacy_irq", "ready"}

RegShape ==
  /\ r.user \subseteq Users /\ r.eng \subseteq Engines /\ x.mask \subseteq Users
  /\ pc \in Early => ret = "open"
  /\ (pc \in Early \/ (pc \in Wired /\ ret = "open")) => x.mask = {}
  /\ pc \in {"probe_h2c", "probe_c2h", "msix", "slot", "online"} \cup Wired => r.user = {}
  /\ pc \in {"probe_h2c", "probe_c2h", "msix"} \cup Wired => x.built \subseteq r.eng
  /\ pc = "open" => r.chan = TRUE /\ x.built \subseteq r.eng /\ r.user = x.mask /\ x.offline = FALSE
  /\ pc \in {"ready", "open"} /\ x.msix /\ "request_irq" \notin hit => r.table = prog_irq_msix_channel

(* Where the tasklet exists.  An open whose first request_irq failed tears  *)
(* down without it, with no interrupts but those of channels.               *)
Tasked == {"user_irq", "ready", "open", "off_teardown", "frozen", "reset", "slot", "online", "dead"}

TaskShape ==
  /\ oops <=> pc = "oops"
  /\ x.msix /\ pc \in Tasked => tsk
  /\ x.msix /\ pc \in {"irq", "chan_irq"} => tsk \/ ret = "open"
  /\ pc \in {"teardown", "oops"} /\ x.msix /\ ~tsk =>
       /\ "request_irq" \in hit /\ ret = "open"
       /\ k.irqs \subseteq IF pc = "oops" THEN {} ELSE IrqsOf(WithLine)
  /\ pc = "oops" => x.msix /\ ~tsk

DevInv == /\ Shape /\ HwShape /\ CtlShape /\ BarShape /\ LoanShape /\ EnableShape
          /\ EngineShape /\ LineShape /\ IrqShape /\ RegShape /\ TaskShape
          /\ i \in 0 .. 4 + UserMax /\ FreesOnlyRequested

(* Every step keeps the records' fields. *)
LEMMA ShapeStep ==
  ASSUME Shape, Next
  PROVE  Shape'
<1> USE DEF Shape, XShape, KShape, RShape, quiet, calm
<1>1. CASE Open
  BY <1>1 DEF Open, alloc_dev_instance
<1>2. CASE EnableDevice
  BY <1>2 DEF EnableDevice
<1>3. CASE request_regions
  BY <1>3 DEF request_regions
<1>4. CASE map_bars
  BY <1>4 DEF map_bars, unmap_bars, map_single_bar
<1>5. CASE MapBarsDone
  BY <1>5 DEF MapBarsDone, unmap_bars, identify_bars
<1>6. CASE set_dma_mask
  BY <1>6 DEF set_dma_mask
<1>7. CASE ZeroInterrupts
  BY <1>7 DEF ZeroInterrupts, InterruptsOff
<1>8. CASE probe_for_engine
  BY <1>8 DEF probe_for_engine, engine_init, Numbered, engine_init_regs
<1>9. CASE probe_engines
  BY <1>9 DEF probe_engines, NextProbe
<1>10. CASE EngineNoMemory
  BY <1>10 DEF EngineNoMemory, NextProbe, Numbered, Hit
<1>11. CASE enable_msi_msix
  BY <1>11 DEF enable_msi_msix
<1>12. CASE Ready
  BY <1>12 DEF Ready
<1>13. CASE IrqSetup
  BY <1>13 DEF IrqSetup
<1>14. CASE irq_msix_channel_setup
  BY <1>14 DEF irq_msix_channel_setup, RequestIrq, Hit, IrqSetupFailed
<1>15. CASE ChannelIrqsDone
  BY <1>15 DEF ChannelIrqsDone
<1>16. CASE irq_msix_user_setup
  BY <1>16 DEF irq_msix_user_setup, RequestIrq, Hit, FreeIrqs, IrqSetupFailed
<1>17. CASE ProgVectors
  BY <1>17 DEF ProgVectors
<1>18. CASE irq_legacy_setup
  BY <1>18 DEF irq_legacy_setup, RequestIrq, Hit, IrqSetupFailed
<1>19. CASE xdma_device_close
  BY <1>19 DEF xdma_device_close, InterruptsOff
<1>20. CASE TeardownIrqs
  BY <1>20 DEF TeardownIrqs, irq_teardown, FreeIrqs
<1>21. CASE disable_msi_msix
  BY <1>21 DEF disable_msi_msix
<1>22. CASE remove_engines
  BY <1>22 DEF remove_engines, engine_destroy
<1>23. CASE UnmapBars
  BY <1>23 DEF UnmapBars, unmap_bars
<1>24. CASE ReleaseRegions
  BY <1>24 DEF ReleaseRegions
<1>25. CASE DisableDevice
  BY <1>25 DEF DisableDevice
<1>26. CASE ListRemove
  BY <1>26 DEF ListRemove, alloc_dev_instance
<1>27. CASE UserStep
  BY <1>27 DEF UserStep, xdma_user_isr_enable, xdma_user_isr_disable
<1>28. CASE axpci_error_detected
  BY <1>28 DEF axpci_error_detected, xdma_device_offline, InterruptsOff
<1>29. CASE axpci_reset_prepare
  BY <1>29 DEF axpci_reset_prepare, xdma_device_offline, InterruptsOff
<1>30. CASE OfflineDone
  BY <1>30 DEF OfflineDone, irq_teardown, FreeIrqs
<1>31. CASE FrozenDisable
  BY <1>31 DEF FrozenDisable
<1>32. CASE Reset
  BY <1>32 DEF Reset
<1>33. CASE axpci_slot_reset
  BY <1>33 DEF axpci_slot_reset, Hit
<1>34. CASE xdma_device_online
  BY <1>34 DEF xdma_device_online, engine_init_regs
<1> QED
BY <1>1, <1>2, <1>3, <1>4, <1>5, <1>6, <1>7, <1>8, <1>9, <1>10, <1>11, <1>12, <1>13, <1>14,
     <1>15, <1>16, <1>17, <1>18, <1>19, <1>20, <1>21, <1>22, <1>23, <1>24, <1>25, <1>26, <1>27,
     <1>28, <1>29, <1>30, <1>31, <1>32, <1>33, <1>34 DEF Next, OpenStep, IrqStep, CloseStep,
     ResetStep

(* The engine that is being probed is one of the card's. *)
LEMMA Probed ==
  ASSUME HwShape, EngineShape, pc \in {"probe_h2c", "probe_c2h"},
         i < (IF pc = "probe_h2c" THEN x.h2c ELSE x.c2h)
  PROVE  EngineAt \in Engines
BY DEF HwShape, EngineShape, EngineAt, Engines, H2C, C2H

(* The control point, the flags and the card. *)
LEMMA CtlStep ==
  ASSUME Shape, HwShape, CtlShape, Next
  PROVE  HwShape' /\ CtlShape'
<1> USE DEF Shape, HwShape, CtlShape, Steps, quiet, calm
<1>1. CASE Open
  BY <1>1 DEF Open
<1>2. CASE EnableDevice
  BY <1>2 DEF EnableDevice
<1>3. CASE request_regions
  BY <1>3 DEF request_regions
<1>4. CASE map_bars
  BY <1>4 DEF map_bars
<1>5. CASE MapBarsDone
  BY <1>5 DEF MapBarsDone
<1>6. CASE set_dma_mask
  BY <1>6 DEF set_dma_mask
<1>7. CASE ZeroInterrupts
  BY <1>7 DEF ZeroInterrupts
<1>8. CASE probe_for_engine
  BY <1>8 DEF probe_for_engine
<1>9. CASE probe_engines
  BY <1>9 DEF probe_engines, NextProbe
<1>10. CASE EngineNoMemory
  BY <1>10 DEF EngineNoMemory, NextProbe, Hit
<1>11. CASE enable_msi_msix
  BY <1>11 DEF enable_msi_msix
<1>12. CASE Ready
  BY <1>12 DEF Ready
<1>13. CASE IrqSetup
  BY <1>13 DEF IrqSetup
<1>14. CASE irq_msix_channel_setup
  BY <1>14 DEF irq_msix_channel_setup, Hit, IrqSetupFailed
<1>15. CASE ChannelIrqsDone
  BY <1>15 DEF ChannelIrqsDone
<1>16. CASE irq_msix_user_setup
  BY <1>16 DEF irq_msix_user_setup, Hit, FreeIrqs, IrqSetupFailed
<1>17. CASE ProgVectors
  BY <1>17 DEF ProgVectors
<1>18. CASE irq_legacy_setup
  BY <1>18 DEF irq_legacy_setup, Hit, IrqSetupFailed
<1>19. CASE xdma_device_close
  BY <1>19 DEF xdma_device_close
<1>20. CASE TeardownIrqs
  BY <1>20 DEF TeardownIrqs, irq_teardown, FreeIrqs
<1>21. CASE disable_msi_msix
  BY <1>21 DEF disable_msi_msix
<1>22. CASE remove_engines
  BY <1>22 DEF remove_engines
<1>23. CASE UnmapBars
  BY <1>23 DEF UnmapBars
<1>24. CASE ReleaseRegions
  BY <1>24 DEF ReleaseRegions
<1>25. CASE DisableDevice
  BY <1>25 DEF DisableDevice
<1>26. CASE ListRemove
  BY <1>26 DEF ListRemove
<1>27. CASE UserStep
  BY <1>27 DEF UserStep, xdma_user_isr_enable, xdma_user_isr_disable
<1>28. CASE axpci_error_detected
  BY <1>28 DEF axpci_error_detected, xdma_device_offline
<1>29. CASE axpci_reset_prepare
  BY <1>29 DEF axpci_reset_prepare, xdma_device_offline
<1>30. CASE OfflineDone
  BY <1>30 DEF OfflineDone, irq_teardown, FreeIrqs
<1>31. CASE FrozenDisable
  BY <1>31 DEF FrozenDisable
<1>32. CASE Reset
  BY <1>32 DEF Reset
<1>33. CASE axpci_slot_reset
  BY <1>33 DEF axpci_slot_reset, Hit
<1>34. CASE xdma_device_online
  BY <1>34 DEF xdma_device_online
<1> QED
BY <1>1, <1>2, <1>3, <1>4, <1>5, <1>6, <1>7, <1>8, <1>9, <1>10, <1>11, <1>12, <1>13, <1>14,
     <1>15, <1>16, <1>17, <1>18, <1>19, <1>20, <1>21, <1>22, <1>23, <1>24, <1>25, <1>26, <1>27,
     <1>28, <1>29, <1>30, <1>31, <1>32, <1>33, <1>34 DEF Next, OpenStep, IrqStep, CloseStep,
     ResetStep

(* The BARs: mapped one after another, and unmapped together. *)
LEMMA BarStep ==
  ASSUME Shape, CtlShape, BarShape, Next
  PROVE  BarShape'
<1> USE DEF Shape, CtlShape, BarShape, Unmapped, Steps, XDMA_BAR_NUM, BarIds, XShape, KShape,
        RShape, quiet, calm
<1>1. CASE Open
  BY <1>1 DEF Open, alloc_dev_instance
<1>2. CASE EnableDevice
  BY <1>2 DEF EnableDevice
<1>3. CASE request_regions
  BY <1>3 DEF request_regions
<1>4. CASE map_bars
  <2>1. CASE UNCHANGED <<pc, x, k>> /\ i' = i + 1 /\ pc = "map" /\ i < XDMA_BAR_NUM
    BY <2>1
  <2>2. CASE pc' = "release" /\ unmap_bars
    BY <2>2 DEF unmap_bars
  <2>3. CASE hw.layout[i] # "absent" /\ map_single_bar /\ pc' = pc
    <3>1. /\ pc = "map" /\ i < 3 /\ i' = i + 1 /\ x'.bars = x.bars \cup {i}
          /\ x'.config = x.config \/ (x'.config = i /\ x.config < 0)
      BY <1>4, <2>3 DEF map_bars, unmap_bars
    <3>2. k'.mapped = k.mapped \cup {i}
      BY <2>3 DEF map_single_bar
    <3> QED
      BY <2>3, <3>1, <3>2
  <2> QED
    BY <1>4, <2>1, <2>2, <2>3 DEF map_bars
<1>5. CASE MapBarsDone
  <2>1. CASE pc' = "release" /\ unmap_bars
    BY <2>1 DEF unmap_bars
  <2>2. CASE x.config >= 0 /\ x' = identify_bars(x) /\ pc' = "dma" /\ k' = k
    <3>1. x'.bars = x.bars /\ x'.config = x.config
      BY <2>2 DEF identify_bars
    <3> QED
      BY <1>5, <2>2, <3>1 DEF MapBarsDone
  <2> QED
    BY <1>5, <2>1, <2>2 DEF MapBarsDone
<1>6. CASE set_dma_mask
  BY <1>6 DEF set_dma_mask
<1>7. CASE ZeroInterrupts
  BY <1>7 DEF ZeroInterrupts, InterruptsOff
<1>8. CASE probe_for_engine
  BY <1>8 DEF probe_for_engine, engine_init, Numbered, engine_init_regs
<1>9. CASE probe_engines
  BY <1>9 DEF probe_engines, NextProbe
<1>10. CASE EngineNoMemory
  BY <1>10 DEF EngineNoMemory, NextProbe, Numbered, Hit
<1>11. CASE enable_msi_msix
  BY <1>11 DEF enable_msi_msix
<1>12. CASE Ready
  BY <1>12 DEF Ready
<1>13. CASE IrqSetup
  BY <1>13 DEF IrqSetup
<1>14. CASE irq_msix_channel_setup
  BY <1>14 DEF irq_msix_channel_setup, RequestIrq, Hit, IrqSetupFailed
<1>15. CASE ChannelIrqsDone
  BY <1>15 DEF ChannelIrqsDone
<1>16. CASE irq_msix_user_setup
  BY <1>16 DEF irq_msix_user_setup, RequestIrq, Hit, FreeIrqs, IrqSetupFailed
<1>17. CASE ProgVectors
  BY <1>17 DEF ProgVectors
<1>18. CASE irq_legacy_setup
  BY <1>18 DEF irq_legacy_setup, RequestIrq, Hit, IrqSetupFailed
<1>19. CASE xdma_device_close
  BY <1>19 DEF xdma_device_close, InterruptsOff
<1>20. CASE TeardownIrqs
  BY <1>20 DEF TeardownIrqs, irq_teardown, FreeIrqs
<1>21. CASE disable_msi_msix
  BY <1>21 DEF disable_msi_msix
<1>22. CASE remove_engines
  BY <1>22 DEF remove_engines, engine_destroy
<1>23. CASE UnmapBars
  BY <1>23 DEF UnmapBars, unmap_bars
<1>24. CASE ReleaseRegions
  BY <1>24 DEF ReleaseRegions
<1>25. CASE DisableDevice
  BY <1>25 DEF DisableDevice
<1>26. CASE ListRemove
  BY <1>26 DEF ListRemove, alloc_dev_instance
<1>27. CASE UserStep
  BY <1>27 DEF UserStep, xdma_user_isr_enable, xdma_user_isr_disable
<1>28. CASE axpci_error_detected
  BY <1>28 DEF axpci_error_detected, xdma_device_offline, InterruptsOff
<1>29. CASE axpci_reset_prepare
  BY <1>29 DEF axpci_reset_prepare, xdma_device_offline, InterruptsOff
<1>30. CASE OfflineDone
  BY <1>30 DEF OfflineDone, irq_teardown, FreeIrqs
<1>31. CASE FrozenDisable
  BY <1>31 DEF FrozenDisable
<1>32. CASE Reset
  BY <1>32 DEF Reset
<1>33. CASE axpci_slot_reset
  BY <1>33 DEF axpci_slot_reset, Hit
<1>34. CASE xdma_device_online
  BY <1>34 DEF xdma_device_online, engine_init_regs
<1> QED
BY <1>1, <1>2, <1>3, <1>4, <1>5, <1>6, <1>7, <1>8, <1>9, <1>10, <1>11, <1>12, <1>13, <1>14,
     <1>15, <1>16, <1>17, <1>18, <1>19, <1>20, <1>21, <1>22, <1>23, <1>24, <1>25, <1>26, <1>27,
     <1>28, <1>29, <1>30, <1>31, <1>32, <1>33, <1>34 DEF Next, OpenStep, IrqStep, CloseStep,
     ResetStep

(* Regions, vectors and the list entry. *)
LEMMA LoanStep ==
  ASSUME Shape, HwShape, CtlShape, LoanShape, Next
  PROVE  LoanShape'
<1> USE DEF Shape, HwShape, CtlShape, LoanShape, Regioned, Vectored, Steps, XShape, KShape,
        RShape, quiet, calm
<1>1. CASE Open
  BY <1>1 DEF Open, alloc_dev_instance
<1>2. CASE EnableDevice
  BY <1>2 DEF EnableDevice
<1>3. CASE request_regions
  BY <1>3 DEF request_regions
<1>4. CASE map_bars
  BY <1>4 DEF map_bars, unmap_bars, map_single_bar
<1>5. CASE MapBarsDone
  BY <1>5 DEF MapBarsDone, unmap_bars, identify_bars
<1>6. CASE set_dma_mask
  BY <1>6 DEF set_dma_mask
<1>7. CASE ZeroInterrupts
  BY <1>7 DEF ZeroInterrupts, InterruptsOff
<1>8. CASE probe_for_engine
  BY <1>8 DEF probe_for_engine, engine_init, Numbered, engine_init_regs
<1>9. CASE probe_engines
  BY <1>9 DEF probe_engines, NextProbe
<1>10. CASE EngineNoMemory
  BY <1>10 DEF EngineNoMemory, NextProbe, Numbered, Hit
<1>11. CASE enable_msi_msix
  BY <1>11 DEF enable_msi_msix
<1>12. CASE Ready
  BY <1>12 DEF Ready
<1>13. CASE IrqSetup
  BY <1>13 DEF IrqSetup
<1>14. CASE irq_msix_channel_setup
  BY <1>14 DEF irq_msix_channel_setup, RequestIrq, Hit, IrqSetupFailed
<1>15. CASE ChannelIrqsDone
  BY <1>15 DEF ChannelIrqsDone
<1>16. CASE irq_msix_user_setup
  BY <1>16 DEF irq_msix_user_setup, RequestIrq, Hit, FreeIrqs, IrqSetupFailed
<1>17. CASE ProgVectors
  BY <1>17 DEF ProgVectors
<1>18. CASE irq_legacy_setup
  BY <1>18 DEF irq_legacy_setup, RequestIrq, Hit, IrqSetupFailed
<1>19. CASE xdma_device_close
  BY <1>19 DEF xdma_device_close, InterruptsOff
<1>20. CASE TeardownIrqs
  BY <1>20 DEF TeardownIrqs, irq_teardown, FreeIrqs
<1>21. CASE disable_msi_msix
  BY <1>21 DEF disable_msi_msix
<1>22. CASE remove_engines
  BY <1>22 DEF remove_engines, engine_destroy
<1>23. CASE UnmapBars
  BY <1>23 DEF UnmapBars, unmap_bars
<1>24. CASE ReleaseRegions
  BY <1>24 DEF ReleaseRegions
<1>25. CASE DisableDevice
  BY <1>25 DEF DisableDevice
<1>26. CASE ListRemove
  BY <1>26 DEF ListRemove, alloc_dev_instance
<1>27. CASE UserStep
  BY <1>27 DEF UserStep, xdma_user_isr_enable, xdma_user_isr_disable
<1>28. CASE axpci_error_detected
  BY <1>28 DEF axpci_error_detected, xdma_device_offline, InterruptsOff
<1>29. CASE axpci_reset_prepare
  BY <1>29 DEF axpci_reset_prepare, xdma_device_offline, InterruptsOff
<1>30. CASE OfflineDone
  BY <1>30 DEF OfflineDone, irq_teardown, FreeIrqs
<1>31. CASE FrozenDisable
  BY <1>31 DEF FrozenDisable
<1>32. CASE Reset
  BY <1>32 DEF Reset
<1>33. CASE axpci_slot_reset
  BY <1>33 DEF axpci_slot_reset, Hit
<1>34. CASE xdma_device_online
  BY <1>34 DEF xdma_device_online, engine_init_regs
<1> QED
BY <1>1, <1>2, <1>3, <1>4, <1>5, <1>6, <1>7, <1>8, <1>9, <1>10, <1>11, <1>12, <1>13, <1>14,
     <1>15, <1>16, <1>17, <1>18, <1>19, <1>20, <1>21, <1>22, <1>23, <1>24, <1>25, <1>26, <1>27,
     <1>28, <1>29, <1>30, <1>31, <1>32, <1>33, <1>34 DEF Next, OpenStep, IrqStep, CloseStep,
     ResetStep

(* The PCI enable count. *)
LEMMA EnableStep ==
  ASSUME Shape, CtlShape, EnableShape, Next
  PROVE  EnableShape'
<1> USE XdmaDevAssumption DEF Shape, CtlShape, EnableShape, HoldsEnable, Closing, Steps, XShape,
        KShape, RShape, quiet, calm
<1>1. CASE Open
  BY <1>1 DEF Open, alloc_dev_instance
<1>2. CASE EnableDevice
  BY <1>2 DEF EnableDevice
<1>3. CASE request_regions
  <2>1. CASE pc' = "map"
    BY <1>3, <2>1 DEF request_regions
  <2>2. CASE pc' = "disable"
    <3>1. /\ pc = "regions" /\ declined' = declined + 1 /\ UNCHANGED <<opens, hit, frozen>>
          /\ x'.inUse = TRUE /\ x'.inUse /\ k'.enabled = k.enabled
      BY <1>3, <2>2 DEF request_regions
    <3>2. HoldsEnable = 1 /\ HoldsEnable' = 0 /\ ~x.inUse
      BY <2>2, <3>1
    <3>3. /\ declined \in Nat /\ opens \in 0 .. MaxOpens /\ k.enabled \in Int
          /\ declined + 1 <= opens /\ k.enabled <= declined + 1 /\ k.enabled >= 2 - opens
          /\ "slot_reset" \notin hit => k.enabled = declined + 1
      BY <3>1, <3>2
    <3>4. /\ x'.inUse \in BOOLEAN /\ (x'.inUse => pc' \in {"disable", "unlist"})
          /\ opens' \in 0 .. MaxOpens /\ declined' \in Nat
          /\ declined' + (IF pc' = "closed" \/ x'.inUse THEN 0 ELSE 1) <= opens'
      <4>1. x'.inUse \in BOOLEAN /\ (x'.inUse => pc' \in {"disable", "unlist"})
        BY <2>2, <3>1
      <4>2. (IF pc' = "closed" \/ x'.inUse THEN 0 ELSE 1) = 0
        BY <3>1
      <4>3. opens' \in 0 .. MaxOpens /\ declined' \in Nat /\ declined' <= opens'
        BY <3>1, <3>3
      <4> QED
        BY <4>1, <4>2, <4>3
    <3>5. /\ k'.enabled \in Int /\ k'.enabled <= declined' + HoldsEnable'
          /\ k'.enabled >= HoldsEnable' - opens' + (IF pc' \in Closing THEN 0 ELSE 1)
          /\ "slot_reset" \notin hit' => pc' # "dead" /\ k'.enabled = declined' + HoldsEnable'
      BY <2>2, <3>1, <3>2, <3>3
    <3> QED
      BY <3>4, <3>5
  <2> QED
    BY <1>3, <2>1, <2>2 DEF request_regions
<1>4. CASE map_bars
  <2>1. /\ pc = "map" /\ pc' \in {"map", "release"} /\ UNCHANGED <<opens, declined, hit, frozen>>
        /\ x'.inUse = x.inUse /\ k'.enabled = k.enabled
    BY <1>4 DEF map_bars, unmap_bars, map_single_bar
  <2> QED
    BY <2>1
<1>5. CASE MapBarsDone
  <2>1. /\ pc = "map" /\ pc' \in {"dma", "release"} /\ UNCHANGED <<opens, declined, hit, frozen>>
        /\ x'.inUse = x.inUse /\ k'.enabled = k.enabled
    BY <1>5 DEF MapBarsDone, unmap_bars, identify_bars
  <2> QED
    BY <2>1
<1>6. CASE set_dma_mask
  BY <1>6 DEF set_dma_mask
<1>7. CASE ZeroInterrupts
  BY <1>7 DEF ZeroInterrupts, InterruptsOff
<1>8. CASE probe_for_engine
  BY <1>8 DEF probe_for_engine, engine_init, Numbered, engine_init_regs
<1>9. CASE probe_engines
  BY <1>9 DEF probe_engines, NextProbe
<1>10. CASE EngineNoMemory
  BY <1>10 DEF EngineNoMemory, NextProbe, Numbered, Hit
<1>11. CASE enable_msi_msix
  BY <1>11 DEF enable_msi_msix
<1>12. CASE Ready
  BY <1>12 DEF Ready
<1>13. CASE IrqSetup
  BY <1>13 DEF IrqSetup
<1>14. CASE irq_msix_channel_setup
  BY <1>14 DEF irq_msix_channel_setup, RequestIrq, Hit, IrqSetupFailed
<1>15. CASE ChannelIrqsDone
  BY <1>15 DEF ChannelIrqsDone
<1>16. CASE irq_msix_user_setup
  BY <1>16 DEF irq_msix_user_setup, RequestIrq, Hit, FreeIrqs, IrqSetupFailed
<1>17. CASE ProgVectors
  BY <1>17 DEF ProgVectors
<1>18. CASE irq_legacy_setup
  BY <1>18 DEF irq_legacy_setup, RequestIrq, Hit, IrqSetupFailed
<1>19. CASE xdma_device_close
  BY <1>19 DEF xdma_device_close, InterruptsOff
<1>20. CASE TeardownIrqs
  BY <1>20 DEF TeardownIrqs, irq_teardown, FreeIrqs
<1>21. CASE disable_msi_msix
  BY <1>21 DEF disable_msi_msix
<1>22. CASE remove_engines
  BY <1>22 DEF remove_engines, engine_destroy
<1>23. CASE UnmapBars
  BY <1>23 DEF UnmapBars, unmap_bars
<1>24. CASE ReleaseRegions
  BY <1>24 DEF ReleaseRegions
<1>25. CASE DisableDevice
  BY <1>25 DEF DisableDevice
<1>26. CASE ListRemove
  BY <1>26 DEF ListRemove, alloc_dev_instance
<1>27. CASE UserStep
  BY <1>27 DEF UserStep, xdma_user_isr_enable, xdma_user_isr_disable
<1>28. CASE axpci_error_detected
  BY <1>28 DEF axpci_error_detected, xdma_device_offline, InterruptsOff
<1>29. CASE axpci_reset_prepare
  BY <1>29 DEF axpci_reset_prepare, xdma_device_offline, InterruptsOff
<1>30. CASE OfflineDone
  BY <1>30 DEF OfflineDone, irq_teardown, FreeIrqs
<1>31. CASE FrozenDisable
  BY <1>31 DEF FrozenDisable
<1>32. CASE Reset
  BY <1>32 DEF Reset
<1>33. CASE axpci_slot_reset
  BY <1>33 DEF axpci_slot_reset, Hit
<1>34. CASE xdma_device_online
  BY <1>34 DEF xdma_device_online, engine_init_regs
<1> QED
BY <1>1, <1>2, <1>3, <1>4, <1>5, <1>6, <1>7, <1>8, <1>9, <1>10, <1>11, <1>12, <1>13, <1>14,
     <1>15, <1>16, <1>17, <1>18, <1>19, <1>20, <1>21, <1>22, <1>23, <1>24, <1>25, <1>26, <1>27,
     <1>28, <1>29, <1>30, <1>31, <1>32, <1>33, <1>34 DEF Next, OpenStep, IrqStep, CloseStep,
     ResetStep

(* The registers, and the mask the driver remembers across a reset. *)
LEMMA RegStep ==
  ASSUME Shape, HwShape, CtlShape, EngineShape, IrqShape, RegShape, Next
  PROVE  RegShape'
<1> USE DEF Shape, CtlShape, RegShape, Early, Fresh, Wired, Steps, prog_irq_msix_channel,
        XShape, KShape, RShape, quiet, calm
<1>0. /\ x.built \subseteq Engines
      /\ pc = "zero" => x.built = {}
  BY DEF EngineShape, Unbuilt, Unmapped, Chans
<1>1. CASE Open
  BY <1>1 DEF Open, alloc_dev_instance
<1>2. CASE EnableDevice
  BY <1>2 DEF EnableDevice
<1>3. CASE request_regions
  BY <1>3 DEF request_regions
<1>4. CASE map_bars
  BY <1>4 DEF map_bars, unmap_bars, map_single_bar
<1>5. CASE MapBarsDone
  BY <1>5 DEF MapBarsDone, unmap_bars, identify_bars
<1>6. CASE set_dma_mask
  BY <1>6 DEF set_dma_mask
<1>7. CASE ZeroInterrupts
  BY <1>0, <1>7 DEF ZeroInterrupts, InterruptsOff
<1>8. CASE probe_for_engine
  <2>1. EngineAt \in Engines
    BY <1>8, Probed DEF probe_for_engine
  <2>2. /\ x'.built = x.built \cup {EngineAt} /\ r'.eng = r.eng \cup {EngineAt}
        /\ x'.mask = x.mask /\ r'.user = r.user
        /\ UNCHANGED <<pc, ret, hit>> /\ pc \in {"probe_h2c", "probe_c2h"}
    BY <1>8 DEF probe_for_engine, engine_init, Numbered, engine_init_regs
  <2> QED
    BY <2>1, <2>2
<1>9. CASE probe_engines
  BY <1>9 DEF probe_engines, NextProbe
<1>10. CASE EngineNoMemory
  BY <1>10 DEF EngineNoMemory, NextProbe, Numbered, Hit
<1>11. CASE enable_msi_msix
  BY <1>11 DEF enable_msi_msix
<1>12. CASE Ready
  BY <1>12 DEF Ready
<1>13. CASE IrqSetup
  BY <1>13 DEF IrqSetup
<1>14. CASE irq_msix_channel_setup
  BY <1>14 DEF irq_msix_channel_setup, RequestIrq, Hit, IrqSetupFailed
<1>15. CASE ChannelIrqsDone
  BY <1>15 DEF ChannelIrqsDone
<1>16. CASE irq_msix_user_setup
  BY <1>16 DEF irq_msix_user_setup, RequestIrq, Hit, FreeIrqs, IrqSetupFailed
<1>17. CASE ProgVectors
  BY <1>17 DEF ProgVectors
<1>18. CASE irq_legacy_setup
  <2>1. ~x.msix
    BY <1>18 DEF irq_legacy_setup, IrqShape
  <2> QED
    BY <1>18, <2>1 DEF irq_legacy_setup, Hit, IrqSetupFailed
<1>19. CASE xdma_device_close
  BY <1>19 DEF xdma_device_close, InterruptsOff
<1>20. CASE TeardownIrqs
  BY <1>20 DEF TeardownIrqs, irq_teardown, FreeIrqs
<1>21. CASE disable_msi_msix
  BY <1>21 DEF disable_msi_msix
<1>22. CASE remove_engines
  BY <1>22 DEF remove_engines, engine_destroy
<1>23. CASE UnmapBars
  BY <1>23 DEF UnmapBars, unmap_bars
<1>24. CASE ReleaseRegions
  BY <1>24 DEF ReleaseRegions
<1>25. CASE DisableDevice
  BY <1>25 DEF DisableDevice
<1>26. CASE ListRemove
  BY <1>26 DEF ListRemove, alloc_dev_instance
<1>27. CASE UserStep
  <2>1. PICK m \in SUBSET Users : xdma_user_isr_enable(m) \/ xdma_user_isr_disable(m)
    BY <1>27 DEF UserStep
  <2>2. CASE xdma_user_isr_enable(m)
    BY <2>2 DEF xdma_user_isr_enable
  <2>3. CASE xdma_user_isr_disable(m)
    BY <2>3 DEF xdma_user_isr_disable
  <2> QED
    BY <2>1, <2>2, <2>3
<1>28. CASE axpci_error_detected
  BY <1>28 DEF axpci_error_detected, xdma_device_offline, InterruptsOff
<1>29. CASE axpci_reset_prepare
  BY <1>29 DEF axpci_reset_prepare, xdma_device_offline, InterruptsOff
<1>30. CASE OfflineDone
  BY <1>30 DEF OfflineDone, irq_teardown, FreeIrqs
<1>31. CASE FrozenDisable
  BY <1>31 DEF FrozenDisable
<1>32. CASE Reset
  BY <1>32 DEF Reset
<1>33. CASE axpci_slot_reset
  BY <1>33 DEF axpci_slot_reset, Hit
<1>34. CASE xdma_device_online
  BY <1>0, <1>34 DEF xdma_device_online, engine_init_regs
<1> QED
BY <1>1, <1>2, <1>3, <1>4, <1>5, <1>6, <1>7, <1>8, <1>9, <1>10, <1>11, <1>12, <1>13, <1>14,
     <1>15, <1>16, <1>17, <1>18, <1>19, <1>20, <1>21, <1>22, <1>23, <1>24, <1>25, <1>26, <1>27,
     <1>28, <1>29, <1>30, <1>31, <1>32, <1>33, <1>34 DEF Next, OpenStep, IrqStep, CloseStep,
     ResetStep

(* The channels of a card are as many as its two counts say. *)
LEMMA ChanCard ==
  ASSUME NEW a \in 0 .. 2, NEW b \in 0 .. 1
  PROVE  Cardinality(Chans(a, b)) = a + b
<1> USE DEF Chans, Engines, H2C, C2H
<1>1. Chans(0, 0) = {} /\ Cardinality({}) = 0 /\ IsFiniteSet({})
  BY FS_EmptySet
<1>2. \A S, e : IsFiniteSet(S) /\ e \notin S =>
        IsFiniteSet(S \cup {e}) /\ Cardinality(S \cup {e}) = Cardinality(S) + 1
  BY FS_AddElement
<1> DEFINE p == <<"h2c", 0>>  q == <<"h2c", 1>>  c == <<"c2h", 0>>
<1>3. p # q /\ p # c /\ q # c
  OBVIOUS
<1>4. Engines = {p, q, c}
  OBVIOUS
<1>5. /\ Chans(1, 0) = {} \cup {p} /\ Chans(2, 0) = Chans(1, 0) \cup {q}
      /\ Chans(0, 1) = {} \cup {c} /\ Chans(1, 1) = Chans(1, 0) \cup {c}
      /\ Chans(2, 1) = Chans(2, 0) \cup {c}
  OBVIOUS
<1>6. q \notin Chans(1, 0) /\ c \notin Chans(1, 0) /\ c \notin Chans(2, 0)
  OBVIOUS
<1> HIDE DEF Chans, p, q, c
<1>7. IsFiniteSet(Chans(1, 0)) /\ Cardinality(Chans(1, 0)) = 1
  BY <1>1, <1>2, <1>5
<1>8. IsFiniteSet(Chans(2, 0)) /\ Cardinality(Chans(2, 0)) = 2
  BY <1>2, <1>5, <1>6, <1>7
<1>9. Cardinality(Chans(0, 1)) = 1
  BY <1>1, <1>2, <1>5
<1>10. Cardinality(Chans(1, 1)) = 2
  BY <1>2, <1>5, <1>6, <1>7
<1>11. Cardinality(Chans(2, 1)) = 3
  BY <1>2, <1>5, <1>6, <1>8
<1> QED
  BY <1>1, <1>7, <1>8, <1>9, <1>10, <1>11

(* The engines: the first of each direction, numbered as the card numbers   *)
(* them as long as none runs out of memory.                                 *)
LEMMA EngineStep ==
  ASSUME Shape, HwShape, CtlShape, EngineShape, Next
  PROVE  EngineShape'
<1> USE DEF Shape, HwShape, CtlShape, EngineShape, Unbuilt, Unmapped, Fresh, Steps, XShape,
        KShape, RShape, quiet, calm
<1>0. ASSUME /\ pc \notin Unbuilt \cup {"probe_h2c", "probe_c2h"}
             /\ pc' \in Steps /\ pc' \notin Unbuilt \cup {"probe_h2c", "probe_c2h"}
             /\ x'.h2c = x.h2c /\ x'.c2h = x.c2h /\ x'.num = x.num /\ x'.bit = x.bit
             /\ x'.built = x.built /\ k'.mem = k.mem /\ hw' = hw /\ hit \subseteq hit'
      PROVE  EngineShape'
  BY <1>0 DEF HwBit
<1>1. CASE Open
  BY <1>1 DEF Open, alloc_dev_instance
<1>2. CASE EnableDevice
  BY <1>2 DEF EnableDevice
<1>3. CASE request_regions
  BY <1>3 DEF request_regions
<1>4. CASE map_bars
  <2>1. /\ x'.h2c = x.h2c /\ x'.c2h = x.c2h /\ x'.num = x.num /\ x'.bit = x.bit
        /\ x'.built = x.built /\ k'.mem = k.mem
    BY <1>4 DEF map_bars, unmap_bars, map_single_bar
  <2>2. pc = "map" /\ pc' \in {"map", "release"}
    BY <1>4 DEF map_bars
  <2> QED
    BY <2>1, <2>2
<1>5. CASE MapBarsDone
  <2>1. /\ x'.h2c = x.h2c /\ x'.c2h = x.c2h /\ x'.num = x.num /\ x'.bit = x.bit
        /\ x'.built = x.built /\ k'.mem = k.mem
    BY <1>5 DEF MapBarsDone, unmap_bars, identify_bars
  <2>2. pc = "map" /\ pc' \in {"dma", "release"} /\ i' = 0
    BY <1>5 DEF MapBarsDone
  <2> QED
    BY <2>1, <2>2
<1>6. CASE set_dma_mask
  BY <1>6 DEF set_dma_mask
<1>7. CASE ZeroInterrupts
  <2>1. pc = "zero" /\ pc' = "probe_h2c" /\ UNCHANGED <<i, x, k, hw>>
    BY <1>7 DEF ZeroInterrupts
  <2>2. Chans(0, 0) = {}
    BY DEF Chans, Engines, H2C, C2H
  <2> QED
    BY <2>1, <2>2
<1>8. CASE probe_for_engine
  <2> DEFINE e == EngineAt
  <2>1. e \in Engines /\ pc \in {"probe_h2c", "probe_c2h"} /\ Identified(e) /\ i' = i + 1
    BY <1>8, Probed DEF probe_for_engine
  <2>2. /\ x'.h2c = x.h2c /\ x'.c2h = x.c2h /\ x'.num = x.num + 1
        /\ x'.bit = [x.bit EXCEPT ![e] = x.num]
        /\ x'.built = x.built \cup {e} /\ k'.mem = k.mem \cup {e}
        /\ UNCHANGED <<pc, hw, hit>>
    BY <1>8 DEF probe_for_engine, engine_init, Numbered
  <2>3. CASE pc = "probe_h2c"
    <3>1. e = <<"h2c", i>> /\ i < hw.h2c
      BY <2>1, <2>3 DEF EngineAt, Identified
    <3>2. Chans(i, 0) \cup {e} = Chans(i + 1, 0)
      BY <2>3, <3>1 DEF Chans, Engines, H2C, C2H
    <3>3. HwBit(e) = x.num
      BY <2>3, <3>1 DEF HwBit
    <3>4. \A f \in Engines \ {e} : x'.bit[f] = x.bit[f]
      BY <2>1, <2>2
    <3>5. x'.bit[e] = x.num
      BY <2>1, <2>2
    <3>6. \A f \in x'.built : x'.bit[f] = HwBit(f)'
      BY <2>2, <2>3, <3>3, <3>4, <3>5 DEF HwBit, Chans
    <3> HIDE DEF e
    <3> QED
      BY <2>1, <2>2, <2>3, <3>1, <3>2, <3>6
  <2>4. CASE pc = "probe_c2h"
    <3>1. e = <<"c2h", i>> /\ i < hw.c2h /\ i = 0
      BY <2>1, <2>4 DEF EngineAt, Identified
    <3>2. Chans(x.h2c, i) \cup {e} = Chans(x.h2c, i + 1)
      BY <2>4, <3>1 DEF Chans, Engines, H2C, C2H
    <3>3. "engine" \notin hit => HwBit(e) = x.num
      BY <2>4, <3>1 DEF HwBit
    <3>4. \A f \in Engines \ {e} : x'.bit[f] = x.bit[f]
      BY <2>1, <2>2
    <3>5. x'.bit[e] = x.num
      BY <2>1, <2>2
    <3>6. "engine" \notin hit => \A f \in x'.built : x'.bit[f] = HwBit(f)'
      BY <2>2, <2>4, <3>3, <3>4, <3>5 DEF HwBit, Chans
    <3> HIDE DEF e
    <3> QED
      BY <2>1, <2>2, <2>4, <3>1, <3>2, <3>6
  <2> QED
    BY <2>1, <2>3, <2>4
<1>9. CASE probe_engines
  <2>1. i' = 0 /\ k' = k /\ UNCHANGED <<hw, hit>>
    BY <1>9 DEF probe_engines
  <2>2. CASE pc = "probe_h2c"
    <3>1. /\ pc' = "probe_c2h" /\ x'.h2c = i /\ x'.c2h = x.c2h /\ x'.num = x.num
          /\ x'.bit = x.bit /\ x'.built = x.built
      BY <1>9, <2>2 DEF probe_engines, NextProbe
    <3>2. i = hw.h2c
      BY <1>9, <2>2 DEF probe_engines, Identified, EngineAt
    <3> QED
      BY <2>1, <2>2, <3>1, <3>2 DEF HwBit
  <2>3. CASE pc = "probe_c2h"
    <3>1. /\ pc' = "msix" /\ x'.c2h = i /\ x'.h2c = x.h2c /\ x'.num = x.num
          /\ x'.bit = x.bit /\ x'.built = x.built
      BY <1>9, <2>3 DEF probe_engines, NextProbe
    <3> QED
      BY <2>1, <2>3, <3>1 DEF HwBit
  <2> QED
    BY <1>9, <2>2, <2>3 DEF probe_engines
<1>10. CASE EngineNoMemory
  <2>1. /\ i' = 0 /\ k' = k /\ hw' = hw /\ "engine" \in hit'
    BY <1>10 DEF EngineNoMemory, Hit
  <2>2. EngineAt \in Engines
    BY <1>10, Probed DEF EngineNoMemory
  <2>3. /\ x'.num = x.num + 1 /\ x'.bit = [x.bit EXCEPT ![EngineAt] = x.num]
        /\ x'.built = x.built
        /\ \/ pc = "probe_h2c" /\ pc' = "probe_c2h" /\ x'.h2c = i /\ x'.c2h = x.c2h /\ i < x.h2c
           \/ pc = "probe_c2h" /\ pc' = "msix" /\ x'.c2h = i /\ x'.h2c = x.h2c /\ i < x.c2h
    BY <1>10 DEF EngineNoMemory, NextProbe, Numbered
  <2>4. x'.bit \in [Engines -> Int]
    BY <2>2, <2>3
  <2> QED
    BY <2>1, <2>3, <2>4
<1>11. CASE enable_msi_msix
  BY <1>11, <1>0 DEF enable_msi_msix
<1>12. CASE Ready
  BY <1>12, <1>0 DEF Ready
<1>13. CASE IrqSetup
  BY <1>13, <1>0 DEF IrqSetup
<1>14. CASE irq_msix_channel_setup
  BY <1>14, <1>0 DEF irq_msix_channel_setup, RequestIrq, Hit, IrqSetupFailed
<1>15. CASE ChannelIrqsDone
  BY <1>15, <1>0 DEF ChannelIrqsDone
<1>16. CASE irq_msix_user_setup
  BY <1>16, <1>0 DEF irq_msix_user_setup, RequestIrq, Hit, FreeIrqs, IrqSetupFailed
<1>17. CASE ProgVectors
  BY <1>17, <1>0 DEF ProgVectors
<1>18. CASE irq_legacy_setup
  BY <1>18, <1>0 DEF irq_legacy_setup, RequestIrq, Hit, IrqSetupFailed
<1>19. CASE xdma_device_close
  BY <1>19, <1>0 DEF xdma_device_close
<1>20. CASE TeardownIrqs
  BY <1>20, <1>0 DEF TeardownIrqs, irq_teardown, FreeIrqs
<1>21. CASE disable_msi_msix
  BY <1>21, <1>0 DEF disable_msi_msix
<1>22. CASE remove_engines
  <2>1. /\ pc = "remove" /\ pc' = "unmap" /\ UNCHANGED <<i, hw, hit>>
        /\ x'.built = {} /\ k'.mem = k.mem \ x.built /\ x'.num = x.num - Cardinality(x.built)
        /\ x'.h2c = x.h2c /\ x'.c2h = x.c2h /\ x'.bit = x.bit
    BY <1>22 DEF remove_engines, engine_destroy
  <2>2. Cardinality(x.built) = x.h2c + x.c2h
    BY <2>1, ChanCard
  <2> QED
    BY <2>1, <2>2
<1>23. CASE UnmapBars
  BY <1>23 DEF UnmapBars, unmap_bars
<1>24. CASE ReleaseRegions
  BY <1>24 DEF ReleaseRegions
<1>25. CASE DisableDevice
  BY <1>25 DEF DisableDevice
<1>26. CASE ListRemove
  BY <1>26 DEF ListRemove, alloc_dev_instance
<1>27. CASE UserStep
  BY <1>27, <1>0 DEF UserStep, xdma_user_isr_enable, xdma_user_isr_disable
<1>28. CASE axpci_error_detected
  BY <1>28, <1>0 DEF axpci_error_detected, xdma_device_offline
<1>29. CASE axpci_reset_prepare
  BY <1>29, <1>0 DEF axpci_reset_prepare, xdma_device_offline
<1>30. CASE OfflineDone
  BY <1>30, <1>0 DEF OfflineDone, irq_teardown, FreeIrqs
<1>31. CASE FrozenDisable
  BY <1>31, <1>0 DEF FrozenDisable
<1>32. CASE Reset
  BY <1>32, <1>0 DEF Reset
<1>33. CASE axpci_slot_reset
  BY <1>33, <1>0 DEF axpci_slot_reset, Hit
<1>34. CASE xdma_device_online
  BY <1>34, <1>0 DEF xdma_device_online
<1> QED
BY <1>1, <1>2, <1>3, <1>4, <1>5, <1>6, <1>7, <1>8, <1>9, <1>10, <1>11, <1>12, <1>13, <1>14,
     <1>15, <1>16, <1>17, <1>18, <1>19, <1>20, <1>21, <1>22, <1>23, <1>24, <1>25, <1>26, <1>27,
     <1>28, <1>29, <1>30, <1>31, <1>32, <1>33, <1>34 DEF Next, OpenStep, IrqStep, CloseStep,
     ResetStep

(* irq_msix_channel_setup visits the engines in the order of their vectors. *)
LEMMA Listed ==
  ASSUME EngineShape, pc \in Vectored, NEW n \in 0 .. x.h2c + x.c2h - 1
  PROVE  /\ EngineList[n] \in x.built /\ EngineList[n] \in Engines /\ Vec(EngineList[n]) = n
         /\ \A e \in x.built : Vec(e) = n => e = EngineList[n]
<1>1. x.built = Chans(x.h2c, x.c2h) /\ x.h2c \in 0 .. 2 /\ x.c2h \in 0 .. 1
  BY DEF EngineShape, Unbuilt, Unmapped, Vectored
<1>2. EngineList[n] = IF n < x.h2c THEN <<"h2c", n>> ELSE <<"c2h", n - x.h2c>>
  BY DEF EngineList
<1> QED
  BY <1>1, <1>2 DEF Chans, Engines, H2C, C2H, Vec

(* An engine that is set up has a vector below the number of channels. *)
LEMMA VecRange ==
  ASSUME EngineShape, pc \in Vectored, NEW e \in x.built
  PROVE  e \in Engines /\ Vec(e) \in 0 .. x.h2c + x.c2h - 1
<1>1. x.built = Chans(x.h2c, x.c2h) /\ x.h2c \in 0 .. 2 /\ x.c2h \in 0 .. 1
  BY DEF EngineShape, Unbuilt, Unmapped, Vectored
<1> QED
  BY <1>1 DEF Chans, Engines, H2C, C2H, Vec

(* The line of an engine is recorded when its interrupt is requested. *)
LEMMA LineStep ==
  ASSUME Shape, HwShape, CtlShape, EngineShape, LineShape, IrqShape, Next
  PROVE  LineShape'
<1> USE DEF Shape, HwShape, CtlShape, LineShape, Vectored, Early, Fresh, Steps, XShape, KShape,
        RShape, quiet, calm
<1>0. ASSUME /\ pc \in Vectored /\ pc' \in Vectored /\ x'.line = x.line /\ x'.built = x.built
             /\ x'.h2c = x.h2c /\ x'.irqLine \in {-1, 0}
      PROVE  LineShape'
  BY <1>0 DEF Vec
<1>1. CASE Open
  BY <1>1 DEF Open, alloc_dev_instance
<1>2. CASE EnableDevice
  BY <1>2 DEF EnableDevice
<1>3. CASE request_regions
  BY <1>3 DEF request_regions
<1>4. CASE map_bars
  <2>1. x'.line = x.line /\ x'.irqLine = x.irqLine
    BY <1>4 DEF map_bars, unmap_bars
  <2> QED
    BY <1>4, <2>1 DEF map_bars
<1>5. CASE MapBarsDone
  <2>1. x'.line = x.line /\ x'.irqLine = x.irqLine
    BY <1>5 DEF MapBarsDone, unmap_bars, identify_bars
  <2> QED
    BY <1>5, <2>1 DEF MapBarsDone
<1>6. CASE set_dma_mask
  BY <1>6 DEF set_dma_mask
<1>7. CASE ZeroInterrupts
  BY <1>7 DEF ZeroInterrupts, InterruptsOff
<1>8. CASE probe_for_engine
  BY <1>8 DEF probe_for_engine, engine_init, Numbered, engine_init_regs
<1>9. CASE probe_engines
  BY <1>9 DEF probe_engines, NextProbe
<1>10. CASE EngineNoMemory
  BY <1>10 DEF EngineNoMemory, NextProbe, Numbered, Hit
<1>11. CASE enable_msi_msix
  <2>1. x.built \subseteq Engines
    BY <1>11 DEF enable_msi_msix, EngineShape, Unbuilt, Unmapped, Chans
  <2> QED
    BY <1>11, <2>1 DEF enable_msi_msix
<1>12. CASE Ready
  BY <1>12, <1>0 DEF Ready
<1>13. CASE IrqSetup
  BY <1>13, <1>0 DEF IrqSetup
<1>14. CASE irq_msix_channel_setup
  <2>1. CASE x' = x
    BY <1>14, <1>0, <2>1 DEF irq_msix_channel_setup, IrqSetupFailed
  <2>2. CASE x' = [x EXCEPT !.line[EngineList[i]] = i] /\ pc' = pc
    <3> DEFINE f == EngineList[i]
    <3>1. pc = "chan_irq" /\ i \in 0 .. x.h2c + x.c2h - 1
      BY <1>14 DEF irq_msix_channel_setup, IrqShape, EngineShape
    <3>2. /\ f \in x.built /\ f \in Engines /\ Vec(f) = i
          /\ \A e \in x.built : Vec(e) = i => e = f
      BY <3>1, Listed
    <3>3. \A e \in x.built : e \in Engines /\ Vec(e) \in Int
      BY <3>1, VecRange
    <3>4. \A e \in x.built : Vec(e) < i => x.line[e] # -1
      BY <3>1 DEF IrqShape
    <3> HIDE DEF f
    <3>5. x' = [x EXCEPT !.line[f] = i]
      BY <2>2 DEF f
    <3>6. /\ x'.line = [x.line EXCEPT ![f] = i] /\ x'.built = x.built /\ x'.h2c = x.h2c
          /\ x'.irqLine = x.irqLine
      BY <3>5
    <3>7. \A e : Vec(e)' = Vec(e)
      BY <3>6 DEF Vec
    <3>8. x'.line \in [Engines -> Int]
      BY <3>1, <3>2, <3>6
    <3>9. \A e \in x.built : x'.line[e] = IF e = f THEN i ELSE x.line[e]
      BY <3>2, <3>3, <3>6
    <3> HIDE DEF Shape
    <3>10. \A e \in x'.built : x'.line[e] \in {-1, Vec(e)'}
      BY <2>2, <3>1, <3>2, <3>6, <3>7, <3>9
    <3>11. \A e, g \in x'.built : Vec(g)' <= Vec(e)' /\ x'.line[e] # -1 => x'.line[g] # -1
      BY <2>2, <3>1, <3>2, <3>3, <3>4, <3>6, <3>7, <3>9
    <3> QED
      BY <2>2, <3>1, <3>6, <3>8, <3>10, <3>11
  <2> QED
    BY <1>14, <2>1, <2>2 DEF irq_msix_channel_setup
<1>15. CASE ChannelIrqsDone
  BY <1>15, <1>0 DEF ChannelIrqsDone
<1>16. CASE irq_msix_user_setup
  BY <1>16, <1>0 DEF irq_msix_user_setup, RequestIrq, Hit, FreeIrqs, IrqSetupFailed
<1>17. CASE ProgVectors
  BY <1>17, <1>0 DEF ProgVectors
<1>18. CASE irq_legacy_setup
  BY <1>18, <1>0 DEF irq_legacy_setup, Hit, IrqSetupFailed
<1>19. CASE xdma_device_close
  BY <1>19, <1>0 DEF xdma_device_close
<1>20. CASE TeardownIrqs
  BY <1>20, <1>0 DEF TeardownIrqs, irq_teardown
<1>21. CASE disable_msi_msix
  BY <1>21 DEF disable_msi_msix
<1>22. CASE remove_engines
  BY <1>22 DEF remove_engines, engine_destroy
<1>23. CASE UnmapBars
  BY <1>23 DEF UnmapBars, unmap_bars
<1>24. CASE ReleaseRegions
  BY <1>24 DEF ReleaseRegions
<1>25. CASE DisableDevice
  BY <1>25 DEF DisableDevice
<1>26. CASE ListRemove
  BY <1>26 DEF ListRemove, alloc_dev_instance
<1>27. CASE UserStep
  BY <1>27, <1>0 DEF UserStep, xdma_user_isr_enable, xdma_user_isr_disable
<1>28. CASE axpci_error_detected
  BY <1>28, <1>0 DEF axpci_error_detected, xdma_device_offline
<1>29. CASE axpci_reset_prepare
  BY <1>29, <1>0 DEF axpci_reset_prepare, xdma_device_offline
<1>30. CASE OfflineDone
  BY <1>30, <1>0 DEF OfflineDone
<1>31. CASE FrozenDisable
  BY <1>31, <1>0 DEF FrozenDisable
<1>32. CASE Reset
  BY <1>32, <1>0 DEF Reset
<1>33. CASE axpci_slot_reset
  BY <1>33, <1>0 DEF axpci_slot_reset
<1>34. CASE xdma_device_online
  BY <1>34, <1>0 DEF xdma_device_online
<1> QED
BY <1>1, <1>2, <1>3, <1>4, <1>5, <1>6, <1>7, <1>8, <1>9, <1>10, <1>11, <1>12, <1>13, <1>14,
     <1>15, <1>16, <1>17, <1>18, <1>19, <1>20, <1>21, <1>22, <1>23, <1>24, <1>25, <1>26, <1>27,
     <1>28, <1>29, <1>30, <1>31, <1>32, <1>33, <1>34 DEF Next, OpenStep, IrqStep, CloseStep,
     ResetStep

(* The engines whose interrupts irq_msix_channel_teardown frees are all     *)
(* those that have one: since lines are recorded in the order of the        *)
(* vectors, the first engine without a line hides none that has one.        *)
LEMMA FreesEveryLine ==
  ASSUME EngineShape, LineShape, pc \in Vectored
  PROVE  ChannelIrqs = IrqsOf(WithLine)
<1>1. x.built = Chans(x.h2c, x.c2h) /\ x.h2c \in 0 .. 2 /\ x.c2h \in 0 .. 1
  BY DEF EngineShape, Unbuilt, Unmapped, Vectored
<1>2. /\ \A e \in x.built : x.line[e] \in {-1, Vec(e)}
      /\ \A e, f \in x.built : Vec(f) <= Vec(e) /\ x.line[e] # -1 => x.line[f] # -1
  BY DEF LineShape
<1>3. Lined(H2C, x.h2c) \cup Lined(C2H, x.c2h) = WithLine
  <2>1. ASSUME NEW e \in Lined(H2C, x.h2c) \cup Lined(C2H, x.c2h)
        PROVE  e \in WithLine
    <3>1. e \in x.built /\ e = <<e[1], e[2]>> /\ e[2] \in 0 .. e[2]
      BY <1>1, <2>1 DEF Lined, Chans, Engines, H2C, C2H
    <3>2. \A m \in 0 .. e[2] : x.line[<<e[1], m>>] # -1
      BY <2>1 DEF Lined
    <3> QED
      BY <3>1, <3>2 DEF WithLine
  <2>2. ASSUME NEW e \in WithLine
        PROVE  e \in Lined(H2C, x.h2c) \cup Lined(C2H, x.c2h)
    <3>1. e \in x.built /\ x.line[e] # -1
      BY <2>2 DEF WithLine
    <3>2. \A m \in 0 .. e[2] : <<e[1], m>> \in x.built /\ Vec(<<e[1], m>>) <= Vec(e)
      BY <1>1, <3>1 DEF Chans, Engines, H2C, C2H, Vec
    <3>3. \A m \in 0 .. e[2] : x.line[<<e[1], m>>] # -1
      BY <1>2, <3>1, <3>2
    <3> QED
      BY <1>1, <3>1, <3>3 DEF Lined, Chans, Engines, H2C, C2H
  <2> QED
    BY <2>1, <2>2
<1>4. \A e \in WithLine : x.line[e] = Vec(e)
  BY <1>2 DEF WithLine
<1> QED
  BY <1>3, <1>4 DEF ChannelIrqs, IrqsOf

(* What irq_teardown leaves, and when it frees too much. *)
LEMMA TornDown ==
  ASSUME Shape, CtlShape, LoanShape, EngineShape, LineShape, IrqShape, FreesOnlyRequested,
         pc \in {"teardown", "off_teardown"}, irq_teardown, hit' = hit
  PROVE  /\ k'.irqs \subseteq k.irqs /\ (oops' = TRUE \/ k'.irqs = {})
         /\ FreesOnlyRequested' /\ stray' \in BOOLEAN /\ oops' \in BOOLEAN
<1>1. ChannelIrqs = IrqsOf(WithLine)
  BY FreesEveryLine DEF Vectored
<1>2. /\ k.irqs \subseteq IF x.msix THEN IrqsOf(WithLine) \cup UserIrqs(UserMax) ELSE {<<0, Isr>>}
      /\ ~x.msix => x.irqLine = 0
      /\ hit \cap {"request_irq", "slot_reset"} = {} =>
           k.irqs = IF x.msix THEN IrqsOf(WithLine) \cup UserIrqs(UserMax) ELSE {<<0, Isr>>}
  BY DEF IrqShape, Manned
<1>3. /\ \A S : FreeIrqs(S) => k'.irqs = k.irqs \ S
      /\ \A S : FreeIrqs(S) /\ S \subseteq k.irqs => (stray' <=> stray)
      /\ \A S : FreeIrqs(S) => stray' \in BOOLEAN
  BY DEF FreeIrqs, Shape, KShape, CtlShape
<1>4. CASE x.msix /\ tsk
  BY <1>1, <1>2, <1>3, <1>4 DEF irq_teardown, FreesOnlyRequested, CtlShape
<1>5. CASE x.msix /\ ~tsk
  BY <1>1, <1>2, <1>3, <1>5 DEF irq_teardown, FreesOnlyRequested
<1>6. CASE ~x.msix
  BY <1>2, <1>3, <1>6 DEF irq_teardown, FreesOnlyRequested, CtlShape
<1> QED
  BY <1>4, <1>5, <1>6 DEF LoanShape, CtlShape

(* Where neither the channels nor their lines change, the sets of           *)
(* interrupts they name do not either.                                      *)
LEMMA SameSets ==
  ASSUME x'.h2c = x.h2c, x'.c2h = x.c2h, x'.built = x.built, x'.line = x.line
  PROVE  /\ WithLine' = WithLine /\ IrqsOf(WithLine)' = IrqsOf(WithLine)
         /\ IrqsOf(x.built)' = IrqsOf(x.built)
         /\ UserIrqs(UserMax)' = UserIrqs(UserMax)
         /\ UserIrqs(i)' = {<<UserVector(u), UserIrq(u)>> : u \in {m \in Users : m < i'}}
         /\ \A e : Vec(e)' = Vec(e)
<1>1. \A e : Vec(e)' = Vec(e)
  BY DEF Vec
<1>2. \A u : UserVector(u)' = UserVector(u)
  BY DEF UserVector
<1> QED
  BY <1>1, <1>2 DEF WithLine, IrqsOf, UserIrqs

(* The interrupts that are installed, at every step. *)
LEMMA IrqsStep ==
  ASSUME Shape, HwShape, CtlShape, LoanShape, EnableShape, EngineShape, LineShape, IrqShape,
         FreesOnlyRequested, Next
  PROVE  IrqShape'
<1> USE DEF Shape, CtlShape, IrqShape, Manned, Steps, XShape, KShape, quiet, calm
<1>0. pc = "dead" => "slot_reset" \in hit
  BY DEF EnableShape
<1>1. CASE Open
  BY <1>1 DEF Open, alloc_dev_instance
<1>2. CASE EnableDevice
  BY <1>2 DEF EnableDevice
<1>3. CASE request_regions
  BY <1>3 DEF request_regions
<1>4. CASE map_bars
  <2>1. k'.irqs = k.irqs /\ pc = "map" /\ pc' \in {"map", "release"}
    BY <1>4 DEF map_bars, unmap_bars, map_single_bar
  <2> QED
    BY <2>1
<1>5. CASE MapBarsDone
  <2>1. k'.irqs = k.irqs /\ pc = "map" /\ pc' \in {"dma", "release"}
    BY <1>5 DEF MapBarsDone, unmap_bars, identify_bars
  <2> QED
    BY <2>1
<1>6. CASE set_dma_mask
  BY <1>6 DEF set_dma_mask
<1>7. CASE ZeroInterrupts
  BY <1>7 DEF ZeroInterrupts
<1>8. CASE probe_for_engine
  BY <1>8 DEF probe_for_engine, engine_init, Numbered
<1>9. CASE probe_engines
  BY <1>9 DEF probe_engines, NextProbe
<1>10. CASE EngineNoMemory
  BY <1>10 DEF EngineNoMemory, NextProbe, Numbered, Hit
<1>11. CASE enable_msi_msix
  BY <1>11 DEF enable_msi_msix
<1>12. CASE Ready
  <2>1. /\ x'.h2c = x.h2c /\ x'.c2h = x.c2h /\ x'.built = x.built /\ x'.line = x.line
        /\ x'.msix = x.msix /\ x'.irqLine = x.irqLine /\ k'.irqs = k.irqs /\ hit' = hit
    BY <1>12 DEF Ready
  <2> QED
    BY <1>12, <2>1, SameSets DEF Ready
<1>13. CASE IrqSetup
  <2>1. x' = x /\ k' = k /\ i' = 0 /\ pc = "irq" /\ pc' = IF x.msix THEN "chan_irq" ELSE "legacy_irq"
    BY <1>13 DEF IrqSetup
  <2>2. \A e \in x.built : Vec(e) \in Nat
    BY <2>1, VecRange DEF EngineShape, Vectored
  <2>3. IrqsOf({e \in x.built : Vec(e) < 0}) = {}
    BY <2>2 DEF IrqsOf
  <2>4. IrqsOf({e \in x.built : Vec(e) < i})' = {}
    BY <2>1, <2>2 DEF IrqsOf, Vec
  <2>5. \A e \in x'.built : ~(Vec(e)' < i')
    BY <2>1, <2>2 DEF Vec
  <2>6. 0 \in 0 .. x.h2c + x.c2h
    BY DEF EngineShape
  <2> QED
    BY <2>1, <2>4, <2>5, <2>6
<1>14. CASE irq_msix_channel_setup
  <2>1. pc = "chan_irq" /\ i \in 0 .. x.h2c + x.c2h - 1 /\ x.h2c + x.c2h \in Nat
    BY <1>14 DEF irq_msix_channel_setup, EngineShape
  <2> DEFINE f == EngineList[i]
  <2>2. /\ f \in x.built /\ f \in Engines /\ Vec(f) = i
        /\ \A e \in x.built : Vec(e) = i => e = f
    BY <2>1, Listed DEF Vectored
  <2>3. \A e \in x.built : e \in Engines /\ Vec(e) \in Int
    BY <2>1, VecRange DEF Vectored
  <2>4. CASE x' = x /\ k' = k /\ pc' \in {"teardown", "ready"} /\ "request_irq" \in hit'
    <3>1. {e \in x.built : Vec(e) < i} \subseteq WithLine
      BY <2>1 DEF WithLine
    <3>2. k.irqs \subseteq IrqsOf(WithLine)
      BY <2>1, <3>1 DEF IrqsOf
    <3>3. k'.irqs \subseteq IrqsOf(WithLine)' /\ x'.msix
      BY <2>1, <2>4, <3>2 DEF IrqsOf, WithLine, Vec
    <3> QED
      BY <2>4, <3>3
  <2>5. CASE /\ x' = [x EXCEPT !.line[EngineList[i]] = i] /\ RequestIrq(i, EngineList[i])
             /\ i' = i + 1 /\ pc' = pc
    <3> HIDE DEF f
    <3>1. /\ x'.line = [x.line EXCEPT ![f] = i] /\ x'.built = x.built /\ x'.h2c = x.h2c
          /\ x'.c2h = x.c2h /\ x'.msix = x.msix
      BY <2>5 DEF f
    <3>2. k'.irqs = k.irqs \cup {<<i, f>>}
      BY <2>5 DEF RequestIrq, f
    <3>3. \A e : Vec(e)' = Vec(e)
      BY <3>1 DEF Vec
    <3>4. \A e \in x.built : x'.line[e] = IF e = f THEN i ELSE x.line[e]
      BY <2>2, <2>3, <3>1 DEF LineShape
    <3>5. {e \in x.built : Vec(e) < i + 1} = {e \in x.built : Vec(e) < i} \cup {f}
      BY <2>1, <2>2, <2>3
    <3>6. IrqsOf({e \in x.built : Vec(e) < i + 1}) = IrqsOf({e \in x.built : Vec(e) < i}) \cup {<<i, f>>}
      BY <2>2, <3>5 DEF IrqsOf
    <3>7. k'.irqs = IrqsOf({e \in x.built : Vec(e) < i})'
      <4>1. k'.irqs = IrqsOf({e \in x.built : Vec(e) < i + 1})
        BY <2>1, <3>2, <3>6
      <4>2. {e \in x'.built : Vec(e)' < i'} = {e \in x.built : Vec(e) < i + 1}
        BY <2>5, <3>1, <3>3
      <4> QED
        BY <3>3, <4>1, <4>2 DEF IrqsOf
    <3>8. \A e \in x'.built : Vec(e)' < i' => x'.line[e] # -1
      BY <2>1, <2>2, <2>3, <2>5, <3>1, <3>3, <3>4
    <3>9. x'.msix /\ i' \in 0 .. x'.h2c + x'.c2h
      <4>1. x.msix
        BY <2>1
      <4>2. x'.msix
        BY <3>1, <4>1
      <4>3. x.h2c \in 0 .. 2 /\ x.c2h \in 0 .. 1
        BY DEF EngineShape
      <4>4. i + 1 \in 0 .. x.h2c + x.c2h
        BY <2>1, <4>3
      <4> QED
        BY <2>5, <3>1, <4>2, <4>4
    <3>10. pc' = "chan_irq"
      BY <2>1, <2>5
    <3> QED
      BY <3>7, <3>8, <3>9, <3>10
  <2> QED
    BY <1>14, <2>4, <2>5 DEF irq_msix_channel_setup, IrqSetupFailed, Hit
<1>15. CASE ChannelIrqsDone
  <2>1. pc = "chan_irq" /\ pc' = "user_irq" /\ i = x.h2c + x.c2h /\ i' = 0 /\ x' = x /\ k' = k
    BY <1>15 DEF ChannelIrqsDone
  <2>2. \A e \in x.built : Vec(e) < i
    BY <2>1, VecRange DEF Vectored, EngineShape
  <2>3. {e \in x.built : Vec(e) < i} = x.built /\ WithLine = x.built
    BY <2>1, <2>2 DEF WithLine
  <2>4. UserIrqs(0) = {}
    BY XdmaDevAssumption DEF UserIrqs, Users
  <2>5. k.irqs = IrqsOf(x.built) \cup UserIrqs(0)
    BY <2>1, <2>3, <2>4
  <2>6. k'.irqs = IrqsOf(x.built)' \cup UserIrqs(i)' /\ WithLine' = x'.built
    BY <2>1, <2>3, <2>5, SameSets DEF UserIrqs
  <2> QED
    BY <2>1, <2>6, XdmaDevAssumption
<1>16. CASE irq_msix_user_setup
  <2>1. pc = "user_irq" /\ i \in 0 .. UserMax - 1 /\ x' = x /\ UserMax \in Nat
    BY <1>16, XdmaDevAssumption DEF irq_msix_user_setup
  <2>2. CASE RequestIrq(UserVector(i), UserIrq(i)) /\ i' = i + 1 /\ pc' = pc
    <3>1. {m \in Users : m < i + 1} = {m \in Users : m < i} \cup {i}
      BY <2>1 DEF Users
    <3>2. UserIrqs(i + 1) = UserIrqs(i) \cup {<<UserVector(i), UserIrq(i)>>}
      BY <3>1 DEF UserIrqs
    <3>3. k'.irqs = IrqsOf(x.built) \cup UserIrqs(i + 1)
      BY <2>1, <2>2, <3>2 DEF RequestIrq
    <3>4. k'.irqs = IrqsOf(x.built)' \cup UserIrqs(i)' /\ WithLine' = x'.built
      BY <2>1, <2>2, <3>3, SameSets DEF UserIrqs
    <3> QED
      BY <2>1, <2>2, <3>4
  <2>3. CASE FreeIrqs(UserIrqs(i)) /\ pc' \in {"teardown", "ready"} /\ "request_irq" \in hit'
    <3>1. k'.irqs \subseteq IrqsOf(WithLine)
      BY <2>1, <2>3 DEF FreeIrqs
    <3>2. k'.irqs \subseteq IrqsOf(WithLine)' /\ x'.msix
      BY <2>1, <3>1, SameSets
    <3> QED
      BY <2>3, <3>2
  <2> QED
    BY <1>16, <2>2, <2>3 DEF irq_msix_user_setup, IrqSetupFailed, Hit
<1>17. CASE ProgVectors
  <2>1. pc = "user_irq" /\ i = UserMax /\ x' = x /\ k' = k /\ pc' = "ready" /\ hit' = hit
    BY <1>17 DEF ProgVectors
  <2>2. x.msix /\ WithLine = x.built /\ k.irqs = IrqsOf(x.built) \cup UserIrqs(UserMax)
    BY <2>1
  <2>3. /\ x'.msix /\ WithLine' = x'.built /\ k'.irqs = IrqsOf(x.built)' \cup UserIrqs(UserMax)'
        /\ IrqsOf(x.built)' = IrqsOf(WithLine)'
    BY <2>1, <2>2, SameSets
  <2> QED
    BY <2>1, <2>3
<1>18. CASE irq_legacy_setup
  BY <1>18 DEF irq_legacy_setup, RequestIrq, Hit, IrqSetupFailed
<1>19. CASE xdma_device_close
  <2>1. /\ x'.h2c = x.h2c /\ x'.c2h = x.c2h /\ x'.built = x.built /\ x'.line = x.line
        /\ x'.msix = x.msix /\ x'.irqLine = x.irqLine /\ k'.irqs = k.irqs /\ hit' = hit
    BY <1>19 DEF xdma_device_close
  <2> QED
    BY <1>19, <2>1, SameSets, <1>0 DEF xdma_device_close
<1>20. CASE TeardownIrqs
  <2>1. /\ pc \in {"teardown", "off_teardown"} /\ irq_teardown /\ x' = x /\ hit' = hit
        /\ pc' \in {"oops", "nomsix"} /\ (oops' <=> pc' = "oops")
    BY <1>20 DEF TeardownIrqs
  <2>2. /\ k'.irqs \subseteq k.irqs /\ (oops' = TRUE \/ k'.irqs = {})
    BY <2>1, TornDown
  <2> QED
    BY <2>1, <2>2, SameSets
<1>21. CASE disable_msi_msix
  BY <1>21 DEF disable_msi_msix
<1>22. CASE remove_engines
  BY <1>22 DEF remove_engines, engine_destroy
<1>23. CASE UnmapBars
  BY <1>23 DEF UnmapBars, unmap_bars
<1>24. CASE ReleaseRegions
  BY <1>24 DEF ReleaseRegions
<1>25. CASE DisableDevice
  BY <1>25 DEF DisableDevice
<1>26. CASE ListRemove
  BY <1>26 DEF ListRemove, alloc_dev_instance
<1>27. CASE UserStep
  <2>1. /\ x'.h2c = x.h2c /\ x'.c2h = x.c2h /\ x'.built = x.built /\ x'.line = x.line
        /\ x'.msix = x.msix /\ x'.irqLine = x.irqLine /\ k'.irqs = k.irqs /\ hit' = hit
    BY <1>27 DEF UserStep, xdma_user_isr_enable, xdma_user_isr_disable
  <2> QED
    BY <1>27, <2>1, SameSets DEF UserStep, xdma_user_isr_enable,
       xdma_user_isr_disable
<1>28. CASE axpci_error_detected
  <2>1. /\ x'.h2c = x.h2c /\ x'.c2h = x.c2h /\ x'.built = x.built /\ x'.line = x.line
        /\ x'.msix = x.msix /\ x'.irqLine = x.irqLine /\ k'.irqs = k.irqs /\ hit' = hit
    BY <1>28 DEF axpci_error_detected, xdma_device_offline
  <2> QED
    BY <1>28, <2>1, SameSets DEF axpci_error_detected, xdma_device_offline
<1>29. CASE axpci_reset_prepare
  <2>1. /\ x'.h2c = x.h2c /\ x'.c2h = x.c2h /\ x'.built = x.built /\ x'.line = x.line
        /\ x'.msix = x.msix /\ x'.irqLine = x.irqLine /\ k'.irqs = k.irqs /\ hit' = hit
    BY <1>29 DEF axpci_reset_prepare, xdma_device_offline
  <2> QED
    BY <1>29, <2>1, SameSets DEF axpci_reset_prepare, xdma_device_offline
<1>30. CASE OfflineDone
  <2>1. /\ pc \in {"teardown", "off_teardown"} /\ irq_teardown /\ x' = x /\ hit' = hit
        /\ pc' \in {"oops", "frozen", "reset"} /\ (oops' <=> pc' = "oops")
    BY <1>30 DEF OfflineDone
  <2>2. /\ k'.irqs \subseteq k.irqs /\ (oops' = TRUE \/ k'.irqs = {})
    BY <2>1, TornDown
  <2> QED
    BY <2>1, <2>2, SameSets
<1>31. CASE FrozenDisable
  BY <1>31 DEF FrozenDisable
<1>32. CASE Reset
  BY <1>32 DEF Reset
<1>33. CASE axpci_slot_reset
  BY <1>33 DEF axpci_slot_reset, Hit
<1>34. CASE xdma_device_online
  BY <1>34 DEF xdma_device_online
<1> QED
BY <1>1, <1>2, <1>3, <1>4, <1>5, <1>6, <1>7, <1>8, <1>9, <1>10, <1>11, <1>12, <1>13, <1>14,
     <1>15, <1>16, <1>17, <1>18, <1>19, <1>20, <1>21, <1>22, <1>23, <1>24, <1>25, <1>26, <1>27,
     <1>28, <1>29, <1>30, <1>31, <1>32, <1>33, <1>34 DEF Next, OpenStep, IrqStep, CloseStep,
     ResetStep

(* The tasklet is there whenever it is killed, but for an open whose        *)
(* channel request failed.                                                  *)
LEMMA TaskStep ==
  ASSUME Shape, CtlShape, LoanShape, EnableShape, EngineShape, LineShape, IrqShape, RegShape,
         TaskShape, Next
  PROVE  TaskShape'
<1> USE DEF TaskShape, Tasked, CtlShape, Steps, quiet, calm
<1>1. CASE OpenStep
  <2>1. CASE Ready
    BY <2>1 DEF Ready, Shape, XShape
  <2>2. CASE enable_msi_msix
    BY <2>2 DEF enable_msi_msix, RegShape, Early
  <2> QED
    BY <1>1, <2>1, <2>2
    DEF OpenStep, Open, EnableDevice, request_regions, map_bars, MapBarsDone, set_dma_mask,
        ZeroInterrupts, probe_for_engine, probe_engines, NextProbe, EngineNoMemory
<1>2. CASE IrqSetup \/ ChannelIrqsDone \/ ProgVectors
  BY <1>2 DEF IrqSetup, ChannelIrqsDone, ProgVectors
<1>3. CASE irq_msix_channel_setup
  <2>1. CASE pc' = "chan_irq"
    BY <1>3, <2>1 DEF irq_msix_channel_setup, Shape, XShape
  <2>2. CASE pc' # "chan_irq"
    <3>1. x' = x /\ k' = k /\ pc' \in {"teardown", "ready"} /\ hit' = hit \cup {"request_irq"}
      BY <1>3, <2>2 DEF irq_msix_channel_setup, Hit, IrqSetupFailed
    <3>2. k.irqs = IrqsOf({e \in x.built : Vec(e) < i})
      BY <1>3 DEF irq_msix_channel_setup, IrqShape
    <3>3. {e \in x.built : Vec(e) < i} \subseteq WithLine
      BY <1>3 DEF irq_msix_channel_setup, IrqShape, WithLine
    <3>4. k.irqs \subseteq IrqsOf(WithLine)
      BY <3>2, <3>3 DEF IrqsOf
    <3>5. k'.irqs \subseteq IrqsOf(WithLine)'
      BY <3>1, <3>4, SameSets
    <3> QED
      BY <1>3, <2>2, <3>1, <3>5 DEF irq_msix_channel_setup, IrqSetupFailed
  <2> QED
    BY <2>1, <2>2
<1>4. CASE irq_msix_user_setup
  BY <1>4 DEF irq_msix_user_setup, IrqSetupFailed
<1>5. CASE irq_legacy_setup
  BY <1>5 DEF irq_legacy_setup, IrqSetupFailed, IrqShape, Shape, XShape
<1>6. CASE TeardownIrqs \/ OfflineDone
  <2>1. /\ pc \in {"teardown", "off_teardown"} /\ irq_teardown /\ x' = x /\ hit' = hit
        /\ tsk' = tsk /\ ret' = ret /\ (oops' <=> pc' = "oops") /\ pc' # "teardown"
        /\ pc' \notin {"user_irq", "ready", "open", "off_teardown", "online", "irq", "chan_irq"}
        /\ pc = "off_teardown" \/ pc' \in {"oops", "nomsix"}
    BY <1>6 DEF TeardownIrqs, OfflineDone
  <2>2. oops = FALSE
    BY <2>1
  <2>3. CASE x.msix /\ ~tsk
    <3>1. pc = "teardown" /\ k.irqs \subseteq IrqsOf(WithLine)
      BY <2>1, <2>3
    <3>2. ChannelIrqs = IrqsOf(WithLine)
      BY <2>1, FreesEveryLine DEF Vectored
    <3>3. k'.irqs = k.irqs \ ChannelIrqs
      BY <2>1, <2>3 DEF irq_teardown, FreeIrqs, Shape, KShape
    <3>4. k'.irqs = {}
      BY <3>1, <3>2, <3>3
    <3> QED
      BY <2>1, <2>3, <3>1, <3>4
  <2>4. CASE ~(x.msix /\ ~tsk)
    <3>1. ~oops'
      BY <2>1, <2>2, <2>4 DEF irq_teardown, LoanShape
    <3> QED
      BY <2>1, <2>4, <3>1 DEF LoanShape
  <2> QED
    BY <2>3, <2>4
<1>7. CASE xdma_device_close
  BY <1>7 DEF xdma_device_close
<1>8. CASE disable_msi_msix \/ remove_engines \/ UnmapBars \/ ReleaseRegions \/ DisableDevice
           \/ ListRemove
  <2>1. pc' \in {"remove", "unmap", "release", "disable", "unlist", "closed"} /\ pc # "oops"
    BY <1>8 DEF disable_msi_msix, remove_engines, UnmapBars, ReleaseRegions, DisableDevice,
                ListRemove
  <2>2. oops' = oops
    BY <1>8 DEF disable_msi_msix, remove_engines, UnmapBars, ReleaseRegions, DisableDevice,
                ListRemove
  <2> QED
    BY <2>1, <2>2
<1>9. CASE UserStep
  BY <1>9 DEF UserStep, xdma_user_isr_enable, xdma_user_isr_disable, Shape, XShape
<1>10. CASE axpci_error_detected \/ axpci_reset_prepare
  BY <1>10 DEF axpci_error_detected, axpci_reset_prepare, xdma_device_offline, Shape, XShape
<1>11. CASE FrozenDisable \/ Reset \/ axpci_slot_reset \/ xdma_device_online
  BY <1>11 DEF FrozenDisable, Reset, axpci_slot_reset, xdma_device_online
<1> QED
  BY <1>1, <1>2, <1>3, <1>4, <1>5, <1>6, <1>7, <1>8, <1>9, <1>10, <1>11
  DEF Next, IrqStep, CloseStep, ResetStep

(* The loop counter stays in the loops' bounds, and no step but a teardown, *)
(* or one after a failed request, frees what is not installed.              *)
LEMMA CounterStep ==
  ASSUME DevInv, Next
  PROVE  i' \in 0 .. 4 + UserMax /\ FreesOnlyRequested'
<1> USE DEF DevInv
<1>1. \/ i' \in {0, i}
      \/ i' = i + 1 /\ (\/ pc = "map" /\ i < 3
                        \/ pc = "probe_h2c" /\ i < x.h2c
                        \/ pc = "probe_c2h" /\ i < x.c2h
                        \/ pc = "chan_irq" /\ i < x.h2c + x.c2h
                        \/ pc = "user_irq" /\ i < UserMax)
  BY DEF Next, OpenStep, IrqStep, CloseStep, UserStep, ResetStep, Open, EnableDevice,
     request_regions, map_bars, MapBarsDone, set_dma_mask, ZeroInterrupts, probe_for_engine,
     probe_engines, EngineNoMemory, enable_msi_msix, Ready, IrqSetup, irq_msix_channel_setup,
     ChannelIrqsDone, irq_msix_user_setup, ProgVectors, irq_legacy_setup, xdma_device_close,
     TeardownIrqs, disable_msi_msix, remove_engines, UnmapBars, ReleaseRegions, DisableDevice,
     ListRemove, xdma_user_isr_enable, xdma_user_isr_disable, axpci_error_detected,
     axpci_reset_prepare, xdma_device_offline, OfflineDone, FrozenDisable, Reset, axpci_slot_reset,
     xdma_device_online, XDMA_BAR_NUM
<1>2. x.h2c \in 0 .. 2 /\ x.c2h \in 0 .. 1 /\ UserMax \in Nat /\ i \in 0 .. 4 + UserMax
  BY XdmaDevAssumption DEF EngineShape
<1>3. i' \in 0 .. 4 + UserMax
  BY <1>1, <1>2
<1>4. CASE TeardownIrqs \/ OfflineDone
  BY <1>4, TornDown, <1>3 DEF TeardownIrqs, OfflineDone
<1>5. CASE irq_msix_user_setup
  BY <1>3, <1>5 DEF irq_msix_user_setup, FreesOnlyRequested, Hit
<1>6. CASE ~(TeardownIrqs \/ OfflineDone \/ irq_msix_user_setup)
  <2>1. stray' = stray /\ hit \subseteq hit'
    BY <1>6 DEF Next, OpenStep, IrqStep, CloseStep, UserStep, ResetStep, Open, EnableDevice,
     request_regions, map_bars, MapBarsDone, set_dma_mask, ZeroInterrupts, probe_for_engine,
     probe_engines, EngineNoMemory, enable_msi_msix, Ready, IrqSetup, irq_msix_channel_setup,
     ChannelIrqsDone, ProgVectors, irq_legacy_setup, xdma_device_close,
     disable_msi_msix, remove_engines, UnmapBars, ReleaseRegions, DisableDevice,
     ListRemove, xdma_user_isr_enable, xdma_user_isr_disable, axpci_error_detected,
     axpci_reset_prepare, xdma_device_offline, FrozenDisable, Reset, axpci_slot_reset,
     xdma_device_online, quiet, calm, Hit
  <2> QED
    BY <1>3, <2>1 DEF FreesOnlyRequested
<1> QED
  BY <1>4, <1>5, <1>6

(* The invariant holds before the first open, whatever the card's registers *)
(* hold then.                                                               *)
LEMMA InitInv == Init => DevInv
<1> SUFFICES ASSUME Init PROVE DevInv
  OBVIOUS
<1> USE XdmaDevAssumption DEF Init
<1>1. Shape
  BY DEF Shape, XShape, KShape, RShape, alloc_dev_instance, Returned
<1>2. HwShape /\ CtlShape
  BY DEF HwShape, CtlShape, Steps
<1>3. BarShape /\ LoanShape /\ EnableShape
  BY DEF BarShape, LoanShape, EnableShape, HoldsEnable, Closing, alloc_dev_instance, Returned,
     Unmapped, XDMA_BAR_NUM
<1>4. EngineShape
  BY DEF EngineShape, Fresh, Unbuilt, Unmapped, alloc_dev_instance, Returned
<1>5. LineShape /\ IrqShape
  BY DEF LineShape, IrqShape, Manned, Vectored, Early, Fresh, alloc_dev_instance, Returned
<1>6. RegShape
  BY DEF RegShape, Early, Fresh, Wired, alloc_dev_instance
<1>7. TaskShape
  BY DEF TaskShape, Tasked
<1> QED
  BY <1>1, <1>2, <1>3, <1>4, <1>5, <1>6, <1>7 DEF DevInv, FreesOnlyRequested

(* Every step preserves it. *)
LEMMA StepInv == DevInv /\ [Next]_vars => DevInv'
<1> SUFFICES ASSUME DevInv, [Next]_vars PROVE DevInv'
  OBVIOUS
<1>1. CASE Next
  <2>1. Shape' /\ HwShape' /\ CtlShape' /\ BarShape' /\ LoanShape'
    BY <1>1, ShapeStep, CtlStep, BarStep, LoanStep DEF DevInv
  <2>2. EnableShape' /\ EngineShape' /\ RegShape'
    BY <1>1, EnableStep, EngineStep, RegStep DEF DevInv
  <2>3. LineShape' /\ IrqShape' /\ TaskShape'
    BY <1>1, LineStep, IrqsStep, TaskStep DEF DevInv
  <2> QED
    BY <1>1, <2>1, <2>2, <2>3, CounterStep DEF DevInv
<1>2. CASE UNCHANGED vars
  <2> USE <1>2 DEF vars, DevInv
  <2>1. Shape' /\ HwShape' /\ CtlShape' /\ BarShape' /\ LoanShape'
    BY DEF Shape, XShape, KShape, RShape, HwShape, CtlShape, BarShape, LoanShape
  <2>2. EnableShape' /\ EngineShape'
    BY DEF EnableShape, HoldsEnable, EngineShape, HwBit
  <2>3. RegShape'
    BY DEF RegShape, prog_irq_msix_channel
  <2>4. LineShape' /\ IrqShape'
    BY DEF LineShape, IrqShape, WithLine, IrqsOf, Vec, UserIrqs, UserVector
  <2>5. TaskShape'
    BY DEF TaskShape, WithLine, IrqsOf, Vec
  <2> QED
    BY <2>1, <2>2, <2>3, <2>4, <2>5 DEF FreesOnlyRequested
<1> QED
  BY <1>1, <1>2

(* It holds in every reachable state. *)
LEMMA Invariance == Spec => []DevInv
BY InitInv, StepInv, PTL DEF Spec

(* No path of open, close or reset frees an interrupt that is not installed *)
(* at that moment, as long as no request_irq failed and no slot reset did.  *)
THEOREM FreesWhatItRequested == Spec => []FreesOnlyRequested
<1>1. DevInv => FreesOnlyRequested
  BY DEF DevInv
<1> QED
  BY <1>1, Invariance, PTL

(* An installed interrupt is an engine's, a user line's or the legacy one,  *)
(* and is installed only between irq_setup and irq_teardown.                *)
LEMMA Installed ==
  ASSUME DevInv, NEW p \in k.irqs
  PROVE  /\ pc \in Manned \cup {"chan_irq", "user_irq"}
         /\ p \in IrqsOf(x.built) \/ p \in UserIrqs(UserMax) \/ p = <<0, Isr>>
<1> USE DEF DevInv
<1>1. pc \in Manned \cup {"chan_irq", "user_irq"}
  BY DEF IrqShape
<1>2. CASE pc = "chan_irq"
  BY <1>2 DEF IrqShape, IrqsOf
<1>3. CASE pc = "user_irq"
  BY <1>3, XdmaDevAssumption DEF IrqShape, UserIrqs, Users
<1>4. CASE pc \in Manned
  BY <1>4 DEF IrqShape, IrqsOf, WithLine
<1> QED
  BY <1>1, <1>2, <1>3, <1>4

(* Wherever an interrupt is installed, the BARs are mapped and the engine   *)
(* it is for is set up: no handler finds its device half torn down.         *)
THEOREM HandlersAreSafe == Spec => []HandlerSafe
<1>1. ASSUME DevInv PROVE HandlerSafe
  <2> USE <1>1 DEF DevInv
  <2>1. SUFFICES ASSUME NEW p \in k.irqs
                 PROVE  /\ x.config \in k.mapped /\ x.bars \subseteq k.mapped
                        /\ p[2] \in Engines => p[2] \in x.built \cap k.mem
    BY DEF HandlerSafe
  <2>2. pc \in Manned \cup {"chan_irq", "user_irq"}
    BY Installed
  <2>3. x.config \in k.mapped /\ x.bars \subseteq k.mapped
    BY <2>2 DEF BarShape, Unmapped, Manned
  <2>4. p \in IrqsOf(x.built) \/ p \in UserIrqs(UserMax) \/ p = <<0, Isr>>
    BY Installed
  <2>5. p[2] \in Engines => p[2] \in x.built
    BY <2>4 DEF IrqsOf, UserIrqs, UserIrq, Isr, Engines, H2C, C2H
  <2> QED
    BY <2>3, <2>5 DEF EngineShape
<1> QED
  BY <1>1, Invariance, PTL

(* A device that is closed, after an open that failed or after a close, has *)
(* given everything back; the one failure that does not get there is a      *)
(* channel's request_irq in an open before the tasklet was ever made.       *)
THEOREM NothingIsLeft == Spec => []NothingLeft
<1>1. ASSUME DevInv PROVE NothingLeft
  <2> USE <1>1 DEF DevInv
  <2>1. \A p \in k.irqs : p[1] \in 0 .. 2 + UserMax
    <3>1. SUFFICES ASSUME NEW p \in k.irqs PROVE p[1] \in 0 .. 2 + UserMax
      OBVIOUS
    <3>2. pc \in Manned \cup {"chan_irq", "user_irq"}
      BY Installed
    <3>3. p \in IrqsOf(x.built) \/ p \in UserIrqs(UserMax) \/ p = <<0, Isr>>
      BY Installed
    <3>4. x.h2c \in 0 .. 2 /\ x.c2h \in 0 .. 1 /\ UserMax \in Nat
      BY XdmaDevAssumption DEF EngineShape
    <3>5. CASE p \in IrqsOf(x.built)
      <4>1. PICK e \in x.built : p = <<Vec(e), e>>
        BY <3>5 DEF IrqsOf
      <4>2. Vec(e) \in 0 .. x.h2c + x.c2h - 1
        BY <3>2, VecRange DEF Vectored, Manned
      <4> QED
        BY <3>4, <4>1, <4>2
    <3>6. CASE p \in UserIrqs(UserMax)
      BY <3>4, <3>6 DEF UserIrqs, UserVector, Users
    <3>7. CASE p = <<0, Isr>>
      BY <3>4, <3>7
    <3> QED
      BY <3>3, <3>5, <3>6, <3>7
  <2>2. k.enabled \in -MaxOpens .. MaxOpens /\ declined \in 0 .. opens
    BY XdmaDevAssumption DEF EnableShape, HoldsEnable
  <2>3. x.built \subseteq Engines
    BY DEF EngineShape, Chans
  <2>4. TypeOK
    BY <2>1, <2>2, <2>3 DEF TypeOK, CtlShape, BarShape, EngineShape, RegShape, XDMA_BAR_NUM
  <2>5. ASSUME pc = "closed"
        PROVE  /\ k = [Returned EXCEPT !.enabled = k.enabled]
               /\ "slot_reset" \notin hit => k.enabled = declined
    <3>1. k.irqs = {}
      BY <2>5 DEF IrqShape, Manned
    <3>2. k.mapped = {} /\ k.mem = {}
      BY <2>5 DEF BarShape, EngineShape, Unbuilt, Unmapped
    <3>3. k.regions = FALSE /\ k.vectors = FALSE /\ k.listed = FALSE
      BY <2>5 DEF LoanShape, Regioned, Vectored
    <3>4. "slot_reset" \notin hit => k.enabled = declined
      BY <2>5 DEF EnableShape, HoldsEnable
    <3>5. k = [enabled |-> k.enabled, regions |-> FALSE, mapped |-> {}, mem |-> {},
               vectors |-> FALSE, irqs |-> {}, listed |-> FALSE]
      BY <3>1, <3>2, <3>3 DEF Shape, KShape
    <3>6. ASSUME NEW n, NEW z, z = [Returned EXCEPT !.enabled = n]
          PROVE  z = [enabled |-> n, regions |-> FALSE, mapped |-> {}, mem |-> {},
                      vectors |-> FALSE, irqs |-> {}, listed |-> FALSE]
      BY <3>6 DEF Returned
    <3>7. PICK z : z = [Returned EXCEPT !.enabled = k.enabled]
      OBVIOUS
    <3>8. z = k
      BY <3>5, <3>6, <3>7
    <3> QED
      BY <3>4, <3>7, <3>8
  <2>6. ASSUME pc = "oops"
        PROVE  /\ "request_irq" \in hit /\ ret = "open" /\ x.msix /\ ~tsk
               /\ k.irqs = {}
    BY <2>6 DEF TaskShape
  <2> QED
    BY <2>4, <2>5, <2>6 DEF NothingLeft
<1> QED
  BY <1>1, Invariance, PTL

(* An open device hears its card: the registers are set, the handlers are   *)
(* installed and every engine's interrupt reaches its own, after any number *)
(* of resets, unless a request_irq failed or an engine ran out of memory.   *)
THEOREM OpenDeviceListens == Spec => []Listening
<1>1. ASSUME DevInv PROVE Listening
  <2> USE <1>1 DEF DevInv
  <2>1. SUFFICES ASSUME pc = "open" PROVE Listening
    BY DEF Listening
  <2>2. r.chan /\ x.built \subseteq r.eng /\ r.user = x.mask /\ ~x.offline
    BY <2>1 DEF RegShape
  <2>3. ASSUME "request_irq" \notin hit
        PROVE  IF x.msix THEN k.irqs = IrqsOf(x.built) \cup UserIrqs(UserMax)
               ELSE k.irqs = {<<0, Isr>>}
    BY <2>1, <2>3 DEF IrqShape
  <2>4. ASSUME "request_irq" \notin hit, "engine" \notin hit, x.msix, NEW e \in x.built
        PROVE  Routed(e)
    <3>1. <<Vec(e), e>> \in k.irqs
      BY <2>3, <2>4 DEF IrqsOf
    <3>2. x.h2c = hw.h2c /\ x.bit[e] = HwBit(e)
      BY <2>1, <2>4 DEF EngineShape, Unbuilt, Unmapped
    <3>3. Vec(e) = HwBit(e)
      BY <3>2 DEF Vec, HwBit
    <3>4. Vec(e) \in 0 .. x.h2c + x.c2h - 1 /\ x.h2c \in 0 .. 2 /\ x.c2h \in 0 .. 1
      BY <2>1, VecRange DEF Vectored, EngineShape
    <3>5. r.table = prog_irq_msix_channel
      BY <2>1, <2>4 DEF RegShape
    <3>6. r.table[Vec(e)] = Vec(e)
      BY <3>4, <3>5 DEF prog_irq_msix_channel, Bits
    <3> QED
      BY <3>1, <3>2, <3>3, <3>6 DEF Routed
  <2> QED
    BY <2>2, <2>3, <2>4 DEF Listening
<1> QED
  BY <1>1, Invariance, PTL
=============================================================================
