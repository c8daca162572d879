----------------------------- MODULE Lifecycle -----------------------------
(***************************************************************************)
(* A card from probe to remove (xdma_mod.c, axm57104_probe and             *)
(* axm57104_remove): the network interface, the MDIO bus and its switch    *)
(* device, the PTP clocks, the PHY timer, the proc files and the user      *)
(* interrupts, in the order in which they appear and go.                   *)
(*                                                                         *)
(* The PCI core probes and removes one card at a time: "cur" is the card   *)
(* and "step" what comes next.  Interfaces are opened and closed by the    *)
(* user between any two steps.  xdma_device_open and xdma_device_close are *)
(* one step here; XdmaDev takes them apart.                                *)
(***************************************************************************)
EXTENDS Naturals

CONSTANTS
    Cards,      \* the cards of the machine
    ProbeFaults \* the calls of probe and open that may fail

VARIABLES
    step,       \* the next step of the probe or remove in progress
    cur,        \* the card it is about
    rv,         \* the value probe is about to return
    d,          \* what each card has, one record per card
    descFlag,   \* xdma_desc_flag, shared by all cards
    mdioDrv,    \* ax_dsa_drv is registered
    crash       \* "none", or how the kernel stopped

lifeVars == <<step, cur, rv, d, descFlag, mdioDrv, crash>>

(* User lines 1 to 7, and 8 to 15, which have the MSI-X handlers of the    *)
(* switch: configuration change, timer change and timer value change.      *)
Low  == "low"
High == "high"

(* held: references of the DSA driver on the interface; leaked: a history  *)
(* of whether one of them was taken by a probe of the switch that failed.  *)
Absent == [bound |-> FALSE, xdev |-> FALSE, user |-> {}, handlers |-> FALSE,
           drvdata |-> "null", net |-> "none", priv |-> FALSE, up |-> FALSE,
           transfer |-> FALSE, napi |-> FALSE, mdio |-> FALSE,
           mdiodev |-> FALSE, dsa |-> FALSE, held |-> 0, leaked |-> FALSE, ptp |-> FALSE, timer |-> FALSE,
           proc |-> FALSE]

LifeInit ==
    /\ step = "idle" /\ cur \in Cards /\ rv = 0
    /\ d = [c \in Cards |-> Absent]
    /\ descFlag = 0 /\ mdioDrv = FALSE /\ crash = "none"

me == d[cur]
others == {d[c] : c \in Cards \ {cur}}

(* A step of the probe or remove at point "at" that goes on to "to". *)
Step(at, to) == step = at /\ crash = "none" /\ step' = to /\ UNCHANGED <<cur, crash>>
Fault(f) == f \in ProbeFaults
Oops(at, how) == step = at /\ crash = "none" /\ crash' = how
                 /\ UNCHANGED <<step, cur, rv, d, descFlag, mdioDrv>>

-----------------------------------------------------------------------------
(* axm57104_probe                                                          *)

ProbeBegin(c) ==
    /\ step = "idle" /\ crash = "none" /\ ~d[c].bound
    /\ step' = "pcidev" /\ cur' = c /\ rv' = 0
    /\ d' = [d EXCEPT ![c] = [Absent EXCEPT !.xdev = d[c].xdev]]
    /\ UNCHANGED <<descFlag, mdioDrv, crash>>

pcidev_alloc ==
    /\ UNCHANGED <<d, descFlag, mdioDrv>>
    /\ \/ Step("pcidev", "device") /\ UNCHANGED rv
       \/ Fault("pcidev") /\ Step("pcidev", "return") /\ rv' = 1

(* xdma_device_open; a card without engines is left open, and its regions  *)
(* are in use when it is probed again.                                     *)
OpenDevice ==
    /\ UNCHANGED <<descFlag, mdioDrv>>
    /\ \/ /\ ~me.xdev /\ Step("device", "user_isr")
          /\ d' = [d EXCEPT ![cur].xdev = TRUE] /\ UNCHANGED rv
       \/ /\ Fault("open") \/ me.xdev
          /\ Step("device", "return") /\ rv' = 1 /\ d' = d
       \/ /\ Fault("engines") /\ ~me.xdev /\ Step("device", "return")
          /\ rv' = 1 /\ d' = [d EXCEPT ![cur].xdev = TRUE]

(* xdma_user_isr_enable with mask 0xFFFE: before any handler is known. *)
EnableUserIrqs ==
    /\ Step("user_isr", "etherdev")
    /\ d' = [d EXCEPT ![cur].user = {Low, High}]
    /\ UNCHANGED <<rv, descFlag, mdioDrv>>

(* Mutant: the flag keeps what the last card left. *)
AllocKeepsFlag ==
    /\ Step("etherdev", "switch") /\ d' = [d EXCEPT ![cur].net = "alloc"]
    /\ UNCHANGED <<rv, descFlag, mdioDrv>>

(* rv is 0 on every path to err_out but those of the proc files. *)
AllocNetdev ==
    /\ descFlag' = 0
    /\ UNCHANGED <<rv, mdioDrv>>
    /\ \/ Step("etherdev", "switch") /\ d' = [d EXCEPT ![cur].net = "alloc"]
       \/ Fault("etherdev") /\ Step("etherdev", "err_out") /\ d' = d

(* ax_tsn_init_switch, between dev_set_drvdata and ax_local->dev = netdev *)
InitSwitch ==
    /\ UNCHANGED <<rv, descFlag, mdioDrv>>
    /\ \/ /\ Step("switch", "mac")
          /\ d' = [d EXCEPT ![cur].drvdata = "live", ![cur].priv = TRUE,
                            ![cur].napi = TRUE]
       \/ /\ Fault("switch") /\ Step("switch", "err_out")
          /\ d' = [d EXCEPT ![cur].drvdata = "live"]

CheckMac ==
    /\ UNCHANGED <<rv, d, descFlag, mdioDrv>>
    /\ \/ Step("mac", "netdev")
       \/ Fault("mac") /\ Step("mac", "err_out")

RegisterNetdev ==
    /\ UNCHANGED <<rv, descFlag, mdioDrv>>
    /\ \/ Step("netdev", "mdio") /\ d' = [d EXCEPT ![cur].net = "registered"]
       \/ Fault("netdev") /\ Step("netdev", "err_out1") /\ d' = d

(* The bus has the same name on every card; probe ignores the result. *)
ax_init_mdio ==
    /\ UNCHANGED <<rv, descFlag, mdioDrv>>
    /\ \/ /\ \A o \in others : ~o.mdio
          /\ Step("mdio", "mdiodev") /\ d' = [d EXCEPT ![cur].mdio = TRUE]
       \/ /\ Fault("mdio") \/ \E o \in others : o.mdio
          /\ Step("mdio", "mdiodev") /\ d' = d

(* asix_dsa_loop_drv_probe of a card's switch device: it looks the         *)
(* interface up, with a reference that it keeps when dsa_register_switch   *)
(* fails, or returns -EPROBE_DEFER.                                        *)
ProbeSwitch(r, ok) ==
    IF r.net = "registered"
    THEN [r EXCEPT !.mdiodev = TRUE, !.dsa = ok, !.held = @ + 1, !.leaked = @ \/ ~ok]
    ELSE [r EXCEPT !.mdiodev = TRUE]

(* The switch device is probed by the DSA driver as soon as both exist. *)
ax_create_mdio_dev ==
    \/ /\ UNCHANGED <<rv, descFlag, mdioDrv>>
       /\ me.mdio /\ Step("mdiodev", "ptp")
       /\ \/ \E ok \in BOOLEAN :
               /\ ok \/ Fault("dsa")
               /\ d' = [d EXCEPT ![cur] = IF mdioDrv THEN ProbeSwitch(@, ok)
                                          ELSE [@ EXCEPT !.mdiodev = TRUE]]
          \/ Fault("mdiodev") /\ d' = d
    \/ ~me.mdio /\ Oops("mdiodev", "mdio_device_create of no bus")

ax_ptp_init ==
    \/ /\ Step("ptp", "isr")
       /\ d' = [d EXCEPT ![cur].ptp = TRUE]
       /\ UNCHANGED <<rv, descFlag, mdioDrv>>
    \/ Fault("ptp") /\ Oops("ptp", "ptp_clock_index of no clock")

xdma_user_isr_register ==
    /\ Step("isr", "timer")
    /\ d' = [d EXCEPT ![cur].handlers = TRUE, ![cur].user = @ \cup {Low}]
    /\ UNCHANGED <<rv, descFlag, mdioDrv>>

(* ax_init_rgmii, the PHY registers and ax_phy_timer_init. *)
ax_phy_timer_init ==
    /\ Step("timer", "driver")
    /\ d' = [d EXCEPT ![cur].timer = TRUE]
    /\ UNCHANGED <<rv, descFlag, mdioDrv>>

MdioDriverRegister ==
    /\ Step("driver", "proc")
    /\ mdioDrv' = TRUE
    /\ \E ok \in [Cards -> BOOLEAN] :
         /\ \A c \in Cards : ok[c] \/ Fault("dsa")
         /\ d' = [c \in Cards |-> IF d[c].mdiodev /\ ~d[c].dsa
                                  THEN ProbeSwitch(d[c], ok[c]) ELSE d[c]]
    /\ UNCHANGED <<rv, descFlag>>

(* proc_mkdir fails when the directory of another card is there. *)
ProcFiles ==
    /\ UNCHANGED <<descFlag, mdioDrv>>
    /\ \/ /\ \A o \in others : ~o.proc
          /\ Step("proc", "return")
          /\ d' = [d EXCEPT ![cur].proc = TRUE] /\ UNCHANGED rv
       \/ /\ Fault("proc") \/ \E o \in others : o.proc
          /\ Step("proc", "err_out1") /\ rv' = 1 /\ d' = d

ErrOut1 ==
    /\ Step("err_out1", "err_out")
    /\ d' = [d EXCEPT ![cur].napi = FALSE]
    /\ UNCHANGED <<rv, descFlag, mdioDrv>>

(* Mutant: the device is left open, its user interrupts enabled. *)
ErrOutKeepsDevice ==
    /\ Step("err_out", "err_free")
    /\ d' = [d EXCEPT ![cur].drvdata = IF @ = "live" THEN "freed" ELSE @]
    /\ UNCHANGED <<rv, descFlag, mdioDrv>>

(* pci_release_regions, pci_disable_device and xpdev_free. *)
ErrOut ==
    /\ Step("err_out", "err_free")
    /\ d' = [d EXCEPT ![cur].xdev = FALSE, ![cur].user = {},
                      ![cur].drvdata = IF @ = "live" THEN "freed" ELSE @]
    /\ UNCHANGED <<rv, descFlag, mdioDrv>>

(* free_netdev, then the proc files through the private data it freed:     *)
(* what is read there is whatever the memory holds by then.                *)
ErrFree ==
    \/ me.net = "none" /\ Oops("err_free", "ax_local is NULL")
    \/ me.net = "registered" /\ Oops("err_free", "free_netdev of a registered device")
    \/ me.net = "alloc" /\ me.priv /\ Oops("err_free", "proc_remove of freed data")
    \/ /\ me.net = "alloc" /\ Step("err_free", "return")
       /\ d' = [d EXCEPT ![cur].net = IF me.priv THEN "freed" ELSE @]
       /\ UNCHANGED <<rv, descFlag, mdioDrv>>

(* The driver core binds the card when probe returned 0, and forgets the   *)
(* driver data when it did not.                                            *)
ProbeReturn ==
    /\ Step("return", "idle")
    /\ d' = [d EXCEPT ![cur].bound = (rv = 0),
                      ![cur].drvdata = IF rv = 0 THEN @ ELSE "null"]
    /\ UNCHANGED <<rv, descFlag, mdioDrv>>

-----------------------------------------------------------------------------
(* axm57104_remove                                                         *)

RemoveBegin(c) ==
    /\ step = "idle" /\ crash = "none" /\ d[c].bound
    /\ cur' = c
    /\ UNCHANGED <<rv, d, descFlag, mdioDrv>>
    /\ \/ d[c].drvdata = "live" /\ step' = "del_timer" /\ UNCHANGED crash
       \/ d[c].drvdata = "freed" /\ crash' = "remove of freed data" /\ step' = step

(* Mutant: the timer is left to run. *)
RemoveLeavesTimer ==
    /\ Step("del_timer", "del_irq")
    /\ d' = [d EXCEPT ![cur].proc = FALSE, ![cur].napi = FALSE]
    /\ UNCHANGED <<rv, descFlag, mdioDrv>>

(* del_timer_sync waits for a running timer; then the proc files go. *)
DelTimer ==
    /\ Step("del_timer", "del_irq")
    /\ d' = [d EXCEPT ![cur].timer = FALSE, ![cur].proc = FALSE,
                      ![cur].napi = FALSE]
    /\ UNCHANGED <<rv, descFlag, mdioDrv>>

(* Mutant: the device is closed with its user interrupts, too early. *)
DeviceGoesFirst ==
    /\ Step("del_irq", "del_ptp")
    /\ d' = [d EXCEPT ![cur].user = {}, ![cur].xdev = FALSE]
    /\ UNCHANGED <<rv, descFlag, mdioDrv>>

(* xdma_user_isr_disable with mask 0xFE. *)
DisableUserIrqs ==
    /\ Step("del_irq", "del_ptp")
    /\ d' = [d EXCEPT ![cur].user = @ \ {Low}]
    /\ UNCHANGED <<rv, descFlag, mdioDrv>>

(* Mutant: the clocks are forgotten. *)
PtpStays ==
    /\ Step("del_ptp", "del_driver")
    /\ UNCHANGED <<rv, d, descFlag, mdioDrv>>

ax_ptp_remove ==
    /\ Step("del_ptp", "del_driver")
    /\ d' = [d EXCEPT ![cur].ptp = FALSE]
    /\ UNCHANGED <<rv, descFlag, mdioDrv>>

(* asix_dsa_loop_drv_remove, of a switch that was registered. *)
RemoveSwitch(r) ==
    IF r.dsa THEN [r EXCEPT !.dsa = FALSE, !.held = @ - 1] ELSE r

(* The one driver serves every card: all switches are removed. *)
MdioDriverUnregister ==
    /\ Step("del_driver", "del_mdio")
    /\ mdioDrv' = FALSE
    /\ d' = [c \in Cards |-> RemoveSwitch(d[c])]
    /\ UNCHANGED <<rv, descFlag>>

(* mdiobus_unregister removes the devices of the bus with it. *)
ax_remove_mdio ==
    /\ Step("del_mdio", "del_netdev")
    /\ d' = [d EXCEPT ![cur] = [RemoveSwitch(@) EXCEPT !.mdio = FALSE, !.mdiodev = FALSE]]
    /\ UNCHANGED <<rv, descFlag, mdioDrv>>

(* unregister_netdev closes the interface when it is up, and waits until   *)
(* nobody holds a reference on it.                                         *)
UnregisterNetdev ==
    /\ me.held = 0
    /\ Step("del_netdev", "free_netdev")
    /\ d' = [d EXCEPT ![cur].net = "alloc", ![cur].up = FALSE]
    /\ UNCHANGED <<rv, descFlag, mdioDrv>>

FreeNetdev ==
    /\ Step("free_netdev", "xpdev_free")
    /\ d' = [d EXCEPT ![cur].net = "freed", ![cur].priv = FALSE]
    /\ UNCHANGED <<rv, descFlag, mdioDrv>>

(* xdma_device_close turns every interrupt off; engine_destroy clears the  *)
(* engines, their transfers included.                                      *)
xpdev_free ==
    /\ Step("xpdev_free", "idle")
    /\ d' = [d EXCEPT ![cur].xdev = FALSE, ![cur].user = {},
                      ![cur].handlers = FALSE, ![cur].transfer = FALSE,
                      ![cur].drvdata = "null", ![cur].bound = FALSE]
    /\ UNCHANGED <<rv, descFlag, mdioDrv>>

-----------------------------------------------------------------------------
(* The user opens and closes the interface.                                *)

CanOpen(c) == crash = "none" /\ d[c].net = "registered" /\ d[c].xdev /\ ~d[c].up

(* ax_net_open with xdma_desc_setup: the transfers are allocated only when *)
(* the flag is clear; ax_net_init_ring, which copies into buffers of the   *)
(* engine (RX_SKB_COPY), allocates nothing and cannot fail.                *)
ax_net_open(c) ==
    /\ CanOpen(c)
    /\ UNCHANGED <<step, cur, rv, mdioDrv>>
    /\ \/ /\ descFlag = 0 \/ d[c].transfer
          /\ descFlag' = 1
          /\ d' = [d EXCEPT ![c].transfer = TRUE, ![c].up = TRUE]
          /\ UNCHANGED crash
       \/ /\ descFlag # 0 /\ ~d[c].transfer
          /\ crash' = "BUG_ON(!transfer)"
          /\ UNCHANGED <<d, descFlag>>

ax_net_close(c) ==
    /\ crash = "none" /\ d[c].up
    /\ d' = [d EXCEPT ![c].up = FALSE]
    /\ UNCHANGED <<step, cur, rv, descFlag, mdioDrv, crash>>

-----------------------------------------------------------------------------
ProbeStep == pcidev_alloc \/ OpenDevice \/ EnableUserIrqs \/ AllocNetdev
             \/ InitSwitch \/ CheckMac \/ RegisterNetdev \/ ax_init_mdio
             \/ ax_create_mdio_dev \/ ax_ptp_init \/ xdma_user_isr_register
             \/ ax_phy_timer_init \/ MdioDriverRegister \/ ProcFiles
             \/ ErrOut1 \/ ErrOut \/ ErrFree \/ ProbeReturn
RemoveStep == DelTimer \/ DisableUserIrqs \/ ax_ptp_remove
             \/ MdioDriverUnregister \/ ax_remove_mdio \/ UnregisterNetdev
             \/ FreeNetdev \/ xpdev_free
IfaceStep == \E c \in Cards : ax_net_open(c) \/ ax_net_close(c)

LifeNext == ProbeStep \/ RemoveStep \/ IfaceStep
        \/ \E c \in Cards : ProbeBegin(c) \/ RemoveBegin(c)

LifeSpec == LifeInit /\ [][LifeNext]_lifeVars

-----------------------------------------------------------------------------
(* Types of what a card has. *)
LifeTypeOK ==
    /\ d \in [Cards -> [bound : BOOLEAN, xdev : BOOLEAN, user : SUBSET {Low, High},
                 handlers : BOOLEAN, drvdata : {"null", "live", "freed"},
                 net : {"none", "alloc", "registered", "freed"},
                 priv : BOOLEAN, up : BOOLEAN, transfer : BOOLEAN,
                 napi : BOOLEAN, mdio : BOOLEAN, mdiodev : BOOLEAN,
                 dsa : BOOLEAN, held : 0 .. 2, leaked : BOOLEAN, ptp : BOOLEAN, timer : BOOLEAN, proc : BOOLEAN]]
    /\ cur \in Cards /\ rv \in {0, 1} /\ descFlag \in {0, 1} /\ mdioDrv \in BOOLEAN

(* The error path of probe has begun for card c.  A card that had its      *)
(* interface registered then ends it in a crash, in free_netdev.           *)
Failing(c) == c = cur /\ step \in {"err_out1", "err_out", "err_free"}

(* The PHY timer can fire in any state in which it is armed, and reads the *)
(* PHYs through the MDIO bus and BAR 2 (__ax_phy_timer, ax_mdio_read): the *)
(* bus, the device and the private data are there then.                    *)
TimerSafe ==
    \A c \in Cards : d[c].timer /\ ~Failing(c) => d[c].mdio /\ d[c].xdev /\ d[c].priv

(* The switch below the DSA core lives on a card that is all there: its    *)
(* bus, its registered conduit interface and its BARs (dsa_loop's probe    *)
(* looks the conduit up by name; its operations write the BARs).           *)
SwitchOnLiveCard ==
    \A c \in Cards : d[c].dsa /\ ~Failing(c) =>
        d[c].mdiodev /\ d[c].mdio /\ d[c].xdev /\ d[c].net = "registered"

(* A card that is not bound, and is not being probed, has nothing left: no *)
(* open device or enabled interrupt, no interface, bus, clock, timer, proc *)
(* file or driver data (axm57104_remove, and the early returns of probe).  *)
(* The exception is a card without engines, which probe leaves open.  And  *)
(* a removal gets there: it never waits in unregister_netdev for a         *)
(* reference nobody will drop, unless a registration of the switch failed  *)
(* and kept its own (dsa_loop.c:503).                                      *)
RemovedIsClean ==
    /\ LifeTypeOK
    /\ step = "del_netdev" => me.held = 0 \/ me.leaked
    /\ (step = "idle" => \A c \in Cards : ~d[c].bound =>
        d[c] \in {Absent, [Absent EXCEPT !.net = "freed"], [Absent EXCEPT !.xdev = TRUE]})

(* xdma_desc_setup asserts BUG_ON(!transfer).  xdma_desc_flag is one       *)
(* variable for all cards, but a card that is alone never meets it: an     *)
(* engine of an interface that is opened has its transfer, or gets it now, *)
(* through any sequence of probes, failing opens and removals.             *)
NoBugOn ==
    crash = "BUG_ON(!transfer)" => \E c, o \in Cards :
        c # o /\ d[c].net # "none" /\ d[o].net # "none"

(* Everything probe brings up before it returns, but for the switch device *)
(* and its driver, which other calls and cards decide about.               *)
Whole(r) ==
    /\ r.xdev /\ r.handlers /\ r.drvdata = "live" /\ r.net = "registered"
    /\ r.priv /\ r.napi /\ r.mdio /\ r.ptp /\ r.timer /\ r.proc

(* The error paths of probe leave rv at 0 (xdma_mod.c:2236), so the driver *)
(* core keeps a card whose driver data was freed.  A card that is kept and *)
(* left alone is either whole or dead: no interrupt, timer, clock, bus,    *)
(* proc file or interface is left that could reach the freed data before   *)
(* axm57104_remove is called for it.                                       *)
KeptIsWholeOrDead ==
    step = "idle" => \A c \in Cards : d[c].bound =>
        \/ Whole(d[c])
        \/ /\ d[c].drvdata = "freed"
           /\ ~d[c].xdev /\ d[c].user = {} /\ ~d[c].handlers
           /\ d[c].net # "registered" /\ ~d[c].up
           /\ ~d[c].timer /\ ~d[c].ptp /\ ~d[c].mdio /\ ~d[c].proc
=============================================================================
