# TLA+ verification of the AXM57104A Linux driver

This directory holds TLA+ models of the driver for the ASIX AXM57104A, a PCIe
card with a TSN switch: the transmit and receive rings over the Xilinx XDMA
core, hardware time stamps, the 802.1Qbv and PTP interrupt code, the DSA stack
shipped with the driver, the MDIO/PHY code, and the life of a card from probe
to remove. TLC checks the models on small instances; TLAPS proves the safety
properties of the rings, the time stamps, Qbv, the DSA tree, the XDMA device and
the life of a card for every size.

Paths below are relative to the repository. The compiled configuration is the
Makefile's: `CONFIG_NAPI`, `RX_SKB_COPY`, `TX_SKB_COPY` and `ENABLE_TASKLET` are
on; `AX_MQ`, `ASIX_GPTP_DEBUG`, `AX_CONFIG_PM` and
`ENABLE_AX_REMOVE_MDIO_DEV_FUN` are off.

## 1. Inventory

| Component | State | Operations | Interacts with |
|---|---|---|---|
| Transmit path (`xdma_mod.c`, `libxdma.c`) | per channel: `tx_list` (cur, idle, cur_pkt_count), `transfer->current_list`, `engine->running`, descriptors and buffers; one netdev queue with `stop_queue_channel`; `tx_timestamp` | `ax_net_start_xmit`, `xdma_channel_H2C_irq`, `xdma_channel_H2C_PTP_irq`, the H2C branch of `xdma_isr`, `tasklet_ptp` | two H2C DMA engines (registers, descriptors, interrupts), network stack |
| Receive path | ring, `current_list`, `running`, `cyclic_result`, `cur_rx`, NAPI state, the mask of the shared interrupt | `xdma_channel_C2H_irq` or the C2H branch of `xdma_isr`, `ax_net_poll`, `ax_net_rx`, `ax_net_open`, `ax_net_close` | C2H engine, NAPI |
| Hardware time stamps (`switch/ax_switch.c`, `libxdma.c`) | capture FIFOs of the switch, `rx_queue`, `tx_queue` (TS_QUEUE), `txrx_timestamp_lock`, `tx_timestamp`, `ptp_mode` | drains, look-ups, the retry loop, `ax_tsn_irq_ptp`, two ioctls | poll and tasklet on two processors |
| 802.1Qbv (`switch/ax_switch.c`) | registers behind a port selector and a timer selector | three interrupt handlers, 64-bit time arithmetic | PTP clock operations (same timer selector) |
| PTP clocks (`switch/ax_ptp.c`) | registers of the selected timer | gettime, settime, adjtime, adjfine with their arithmetic, registration | Qbv handlers |
| libxdma device (`libxdma.c`) | `struct xdma_dev`: BARs, engines, interrupt bits and lines, vectors | open with unwinding, close, offline, online, user interrupt masks | PCI core, card registers |
| Card life (`xdma_mod.c`) | netdev, MDIO bus and device, clocks, timer, proc files, interrupts, `xdma_desc_flag` | `axm57104_probe`, `axm57104_remove`, open, close | driver core, network core |
| MDIO and PHYs (`xdma_mod.c`) | `phy_status`, local counters | `ax_init_rgmii`, `ax_restart_autoneg`, `__ax_phy_timer` | PHYs |
| DSA core (`DSA/dsa2.c`, `conduit.c`, `user.c`) | tree, switches, ports, `dsa_ptr`, user interfaces, reference counts | register, roll back, unregister, netdevice notifiers, open, close | rtnl, administrator |
| DSA VLANs (`DSA/user.c`, `port.c`, `switch.c`, `dsa_loop.c`) | driver's VLAN table, reference counts of the CPU port, conduit filter, port awareness | 802.1Q uppers, bridge join and leave, VLANs, VLAN filtering | VLAN core, bridge |
| User interfaces (`DSA/user.c`, `conduit.c`) | addresses, address lists and receive flags of the users; lists, counts and filter of the conduit | open, close, set address, list and flag changes, `ax_net_set_multicast` | network core, tree set-up and teardown |
| Bridging (`DSA/port.c`, `user.c`, `switch.c`) | spanning tree state, `dp->bridge`, reference counts of bridges | enable, disable, join, leave, deferred attributes | bridge |
| Tagging (`DSA/tag_asix.c`, `tag.c`) | a frame's bytes | `sdsa_xmit`, `sdsa_rcv`, `dsa_switch_rcv` | switch, user devices |

Not modelled at all: `DSA/tag_8021q.c` (nothing registers it), devlink, netlink
and tracing, EEPROM and MAC address I/O, suspend and resume (compiled out),
build files. `PROJECT.json` lists every component with its status and reason.

What is hard about this code:

* **Two processors and an engine.** xmit, the H2C handlers and the engine share
  two descriptor lists; the C2H handler takes no lock and reads two registers
  while the engine goes on; close does not wait for that handler. Without MSI-X
  the one handler masks what it serves and the poll unmasks it.
* **Selector registers.** Qbv and PTP code writes a selector and then reads or
  writes what it selects, from several contexts and with no lock.
* **Read-to-pop FIFOs.** A time-stamp capture is several reads, the last of
  which pops it.
* **Long unwinding sequences.** `xdma_device_open`, `axm57104_probe` and
  `dsa_register_switch` each can fail at a dozen steps, with interrupts, timers,
  notifiers and user calls in between.
* **Counts and shared objects.** VLAN references, address references on the
  conduit, tree and tagger references, PCI enable counts, one netdev queue for two channels, one `xdma_desc_flag`
  for all cards.
* **Arithmetic at widths.** 64-bit times, 32-bit products, differences that wrap.

The `hazards` of `PROJECT.json` name the places, each with the properties aimed
at it, or with the reason why none is.

## 2. Modules

| Module | Models | Shape |
|---|---|---|
| `TxRing` | the transmit path, two channels, with MSI-X and without | state machine, inductive invariant, refinement of `TxFifo` |
| `TxFifo` | what a channel promises the stack | abstract specification |
| `RxRing` | the receive path with open, close and reopen, with MSI-X and without | state machine |
| `Timestamps` | capture FIFOs, TS_QUEUEs, both readers | state machine |
| `Qbv` | the three Qbv handlers and the clock operations | state machine |
| `QbvTime` | the time arithmetic of the handlers and of the clocks | operators with widths as parameters; `call`, the arguments of the one call that is looked at (`TimeSpec`) |
| `DsaTree` | registration of switches, notifiers, user interfaces | state machine |
| `DsaVlan` | VLANs under rtnl | state machine over operators that return a result and a state |
| `DsaUser` | receive filters of the users and of the conduit | state machine over operators on the conduit's record |
| `DsaBridge` | spanning tree states, bridge join and leave | state machine |
| `SdsaTag` | the tag in the bytes of a frame | state machine over byte operators |
| `XdmaDev` | open, unwinding, close, reset of the XDMA device | state machine |
| `Lifecycle` | probe, remove, interface open and close | state machine |
| `Phy` | MDIO, autonegotiation, PHY timer | state machine |
| `TxRingProofs`, `RxRingProofs`, `TimestampsProofs`, `DsaTreeProofs`, `XdmaDevProofs`, `LifecycleProofs` | proofs about the module each is named after | TLAPS |
| `QbvProofs` | proofs about `Qbv` and `QbvTime` | TLAPS |
| `PortProofs` | proofs about `Phy`, `SdsaTag`, `DsaUser`, `DsaBridge` and `DsaVlan` | TLAPS |
| `MC*` | the instances for TLC | constants and symmetry only, except `MCQbv`, `MCDsaPorts` and `MCCard` |

`MCQbv`, `MCDsaPorts` and `MCCard` check several modules in one run: a behaviour belongs to
one of them and the variables of the others stand still, so that the state space
is the sum of theirs. `MCQbv` makes one call of the arithmetic of `QbvTime` or
runs the handlers of `Qbv`; `MCDsaPorts` looks at the user ports under traffic
(`SdsaTag`), under their administrator (`DsaUser`), under bridges (`DsaBridge`) or
with VLANs (`DsaVlan`); `MCCard` at the card's device (`XdmaDev`), its life
(`Lifecycle`) or its links (`Phy`).

`Lifecycle` uses `xdma_device_open` as one step, which `XdmaDev` takes apart;
`TxRing` starts where `ax_net_open` leaves the rings, `RxRing` before the first
`ax_net_open`;
`TxRing.tasklet_ptp` dequeues what `Timestamps` looks up; `Qbv` follows for which
port and from which timer a time was computed, `QbvTime` what is computed;
`DsaUser` takes from `DsaTree` only the phases in which a tree comes and goes.

### How state and actions correspond to the code

Variables carry the names of the fields they stand for and each declaration says
which; actions carry the names of the functions, or of the part of a function
between two points at which others can run. The `map` of `PROJECT.json` gives the
lines of every definition. Where an action is split:

* `ax_net_start_xmit` is one step under `ax_local->lock`, preceded by `XmitTail`
  for a frame that asks for a time stamp, because `skb_queue_tail` comes before
  the lock. The H2C handlers hold the lock throughout: one step each. Without
  MSI-X `xdma_isr_H2C` takes the place of both, and `ax_tsn_irq_ptp` that of the
  tasklet.
* `xdma_isr` is, for reception, `xdma_isr_mask` and `xdma_isr_C2H`: the interrupt is
  masked before the engine is served. `enable_polling` is the unmasking at the end
  of `ax_net_poll`, after `napi_complete`. `ax_net_close` ends with `napi_disable`;
  `close_stop` is the rest of the function. `ax_net_open` likewise ends with
  `engine_start`, and `open_enable`, with `napi_enable`, is the rest: interrupts are
  delivered in between.
* `xdma_channel_C2H_irq` is `C2H_irq_status` and `C2H_irq_serve`, between its two
  register reads. `ax_net_poll` is one step per packet, one for the end of
  `ax_net_rx`, one for `napi_complete`.
* The readers in `Timestamps` are split at every read that matters (`RxHead`,
  `RxInfo`), and at taking and releasing the lock.
* The Qbv handlers and the clock operations are split where they write a selector,
  and between that and what they do with the selection. Accesses in a row through
  one selection are one step, such as the two halves of a time and the base and
  cycle times of a port; another handler between those is not seen.
* `XdmaDev`, `Lifecycle`, `DsaTree`: one step per call that can fail or that an
  interrupt, a notifier or the user can see.
* `DsaUser`, `DsaBridge`: one step per operation under rtnl. In `DsaBridge` the news
  of the bridge is a step of its own (`Deferred`), because the bridge queues it
  from its timers without the lock.
* `DsaVlan`: rtnl makes each operation one step; inside, calls are made in the
  code's order and stop where the code stops.

### What is assumed of code and hardware outside the repository

* XDMA engine: setting RUN resets the status and the completed count; a run ends
  at a STOPPED descriptor or where the chain of its list ends; a DMA error ends it
  with the same interrupt; every C2H descriptor raises an interrupt. A masked
  interrupt stays requested.
* Two unmaskings that are pending at once count as one.
* NAPI: a schedule while polling is remembered; `napi_disable` waits for the poll.
* Capture FIFOs: MsgInfo of an empty FIFO may read as anything. Sequence ids do
  not recur within a queue, the receive ring or the waiting skbs.
* Qbv: when a configuration takes effect the gates leave the safe state. A clock
  write makes the switch raise the timer value interrupt. A timer's nanoseconds
  belong to the seconds read before them.
* XDMA device: the card numbers channel bits H2C first, then C2H; a reset clears
  its registers; PCI callbacks of one card exclude each other; MSI is never
  chosen (`interrupt_mode` is 0).
* DSA: platform data, one switch and one CPU port per tree, no LAGs; a walk of the
  port list is atomic. VLANs: no foreign ports in the bridge, allocation succeeds,
  the VLAN core adds the filter entry before it links the upper.
* Receive filters: `dev_uc_add` and `dev_mc_add` succeed where the code ignores
  their result; nothing but its users puts entries on the conduit's lists; groups
  with one hash are left out. The filter is a hash and has no capacity, so that the
  fall-back beyond `AX_MAX_MCAST` groups (`xdma_mod.c:1655`) lets more through and
  nothing less: `HearsItsUsers` does not depend on it. A failing `dsa_conduit_setup` is in `DsaTree`.
* Bridge: it disables its side of a port that goes down or leaves, and works off
  its queue before it lets the port go.
* PHY: the link is up exactly when both BMSR bits are set; the latching of the
  link bit is left out. So is the read of BMCR in `__ax_restart_autoneg`
  (`xdma_mod.c:771`): when it is not answered the write also clears ANENABLE, and
  whether such a PHY finds a link is its own affair, as it is for every PHY here.
* Card life: on probe's error path `pci_release_regions` and `pci_disable_device` of
  probe itself (`xdma_mod.c:2330`) are one step with those that `xdma_device_close`
  makes before them (`libxdma.c:3389`); that both happen is not seen.
* VLANs: `untagged` of a VLAN and the `pvid` of a port (`DSA/dsa_loop.c:315`), which
  nothing reads back, are left out.
* Tag: `sdsa_xmit` tells a VLAN frame by its bytes where the code looks at
  `skb->protocol`, which is the same for frames from the stack; the switch's side is written from the format the driver writes and reads;
  the switch index is 0.

## 3. Runs

Twelve runs: seven in which every property holds, five in which TLC shows that
the code breaks a statement made in the repository.

| Run | Bounds | Distinct states | Shows |
|---|---|---|---|
| `tx_ring` | 2 descriptors per list, 4 packets and 1 DMA error per channel; MSI-X or not | 183,032 | `EngineIdleAtStart`, `StoppedQueueHasWaker`, `RingInv`, `SkbOutlivesCopy`, `HwOwnsItsList`, `ImplementsTxFifo`, `EveryPacketLeaves`, `TimestampQueueDrains` |
| `rx_ring` | 2 descriptors per list, budget 2, 6 packets, 2 opens; MSI-X or not | 62,949 | `EngineRunsOrWillRestart`, `DeliveredInOrder`, `NoLostWakeup`, `EveryPacketDelivered` |
| `rx_reopen` | the same with MSI-X, 3 packets | violation | `NoBugOn` |
| `rx_masked` | the same without MSI-X | violation | `MaskedIsServed` |
| `timestamps` | 1 port, 3 sequence ids, queues of 2, 4 frames, 2 retries, 1 ioctl; MSI-X or legacy | 1,313,849 | `RxStampExact`, `TxStampExact` |
| `timestamps_torn` | 2 sequence ids, 4 frames | violation | `CaptureIntact` |
| `qbv` | 2 ports, 2 domains, 2 requests, 1 clock operation; times to 120, cycles to 7, widths 1024 and 64, 8 ns to a second | 904,048 | `SafeStateEnds`, `WritesReachTheirPort`, `CyclesOnOwnTimer`, `TimesExact` |
| `dsa_tree` | 2 cards, 2 user ports each | 61,737 | `NotifierSafe`, `ConduitTracked`, `Balanced`, `UserUpHasConduit` |
| `dsa_ports` | see below | 1,152,303 | `FramesIntact`, `FiltersBalanced`, `HearsItsUsers`, `PortFollowsBridge`, `HostRefsBalanced`, `TableMatches`, `NoSharedVid` |
| `qbv_lead` | the bounds of `qbv` | violation | `ChangeTenAhead` |
| `card` | see below | 982,413 | `HandlerSafe`, `NothingLeft`, `Listening`, `FreesOnlyRequested`; `TimerSafe`, `SwitchOnLiveCard`, `RemovedIsClean`, `NoBugOn`, `KeptIsWholeOrDead`; `RecordsBest`, `LinkConverges` |
| `open_crash` | the bounds of `card` | violation | `FailedOpenReturns` |

`dsa_ports` has the bounds of its four modules: for frames, 3 user ports, 4 other
port numbers and 5 payloads; for filters, 2 users, 2 addresses, 2 groups of which
the filter takes 1, 2 list entries or flags at a time, 1 tree; for bridges, 2
ports, 3 bridges of which one is not offloaded, 3 queued changes; for VLANs, 2
ports, a VLAN of the table and one outside, 2 uppers, 2 renotifications.
`card` has those of its three: for the device, 4 BAR layouts, 0-2 H2C and 0-1 C2H
engines, 2 user lines, 2 opens and 8 faults; for the life, 2 cards and 12 faults;
for the links, 2 PHYs, 4 partner advertisements, 1 change, 1 unanswered access.

Every property has a mutant in `PROJECT.json`: a plausible mistake in one
definition that makes TLC report the property violated under the same bounds.

### Why the bounds are enough to meet the interesting cases

* Rings: with two descriptors per list a list can be empty, partly filled and
  full, both lists are reused, and `list->cur` wraps to 0. Six received packets
  lap a ring of four.
* Queues of two time stamps wrap and evict within four frames, and a third
  sequence id lets a frame be older than the queue without recurring.
* Two ports and two domains are what it takes for a selector to be wrong. Times
  to 120 with cycles to 7 cover base times far behind, within ten cycles and
  beyond them; the shrunk widths make `10 * cycle` and `current - base` wrap, and
  every move of a clock carries nanoseconds both ways.
* Two cards are the least for shared objects (tree 0, `xdma_desc_flag`,
  `ax_dsa_drv`); two ports for the bridge operations that stop half-way, and for
  two users that ask the conduit for the same address.
* Where section 5 proves a property, the proof removes the bounds.
* `CHECK_DEADLOCK FALSE` is given where the system may stop: the traffic, requests
  or opens that the bounds allow are used up, or the kernel has stopped at an
  oops that the model records.

### Fairness

`TxRing`: a running engine fetches, a requested interrupt is delivered (by the
vector's handler or by `xdma_isr`), a scheduled tasklet runs, and an xmit past `skb_queue_tail` reaches the lock. These
are what the hardware and the kernel guarantee while interrupts are enabled, which
the handlers restore on every path. Nothing makes the stack send or an engine
fail or, without MSI-X, the switch raise an interrupt. `RxRing`: interrupts that
are not masked are delivered, handlers finish, a scheduled poll runs to
`napi_complete` and to the unmasking after it, an open that has started the engine
reaches `napi_enable`; memory allocation may fail for ever, and the property excuses
that by name (`starved`). `Phy`: the driver's own loop and its self-arming timer
go on; nothing makes a PHY negotiate. All are weak fairness. The other modules
have no liveness property and no fairness.

### What the properties leave out, and why

Some properties name the case in which the code does otherwise; the definition
says so and the case is reached in the run:

* `SkbOutlivesCopy`: with MSI-X and unless the tasklet of an earlier frame is still
  to run when the skb is put on `tx_timestamp`. `TimestampQueueDrains`: with MSI-X;
  without, the interrupts of the switch decide when skbs leave the queue.
* `EngineRunsOrWillRestart`, `DeliveredInOrder`, `NoLostWakeup`: not after a reopen
  that found write-backs, a handler or a masked interrupt of the session before;
  the last two not after an overrun of the ring. `NoLostWakeup`,
  `EveryPacketDelivered` and, without MSI-X, `EngineRunsOrWillRestart`: not while
  `unheard`, that is when the session's last `napi_schedule` found NAPI off, before
  `napi_enable` or after `napi_disable`. With MSI-X the next interrupt ends it;
  without, there is none.
* `RxStampExact`: with MSI-X and without `ioctl_clean_FIFO`, which pops captures
  that belong to frames.
* `SafeStateEnds`, `WritesReachTheirPort`: with MSI-X as long as no two handlers
  have been under way at once.
* `CyclesOnOwnTimer`: not for a port in `crossed`, whose handler was crossed by a
  clock operation, another request or a pending list change, nor after two
  handlers met.
* `TimesExact`: where the base time is not ten cycles ahead it says what the code
  does, a change in the tenth cycle from now (`qbv_lead` shows the disagreement),
  and claims the grid of the new schedule only for a base time that has passed; a
  rate whose addend exceeds its register is cut.
* `NotifierSafe`, `ConduitTracked`: not after `dsa_conduit_setup` failed half-way.
  `UserUpHasConduit`: not for ports whose conduit was closed while it had no
  `dsa_ptr`.
* `FiltersBalanced`, `HearsItsUsers`: not after the conduit's address changed below
  an open user; what a destroyed user leaves on the conduit is counted as left.
* `PortFollowsBridge`: a port whose join was refused late may be disabled until it
  is closed.
* `TableMatches`: not after a change of VLAN awareness that reached only some
  ports, nor for the VLAN of a refused upper; and one way to delete a VLAN outside
  the table is let through.
* `Listening`, `FreesOnlyRequested`: by the faults listed there. `NothingLeft`: an
  open that ends in `tasklet_kill(NULL)` keeps what it holds; the property says
  that only a channel's `request_irq` in an open before the tasklet was made leads
  there, and that its interrupts are freed.
* `LinkConverges`: the link flag only; a speed or duplex from torn or unanswered
  reads stays while the link is up.
* `RemovedIsClean`: a card without engines stays open; a failed registration of the
  switch keeps a reference on the conduit.
* `NoBugOn` of `Lifecycle`: not with two cards present. `TimerSafe` and
  `SwitchOnLiveCard`: not within probe's error path.

## 4. Disagreements found

Shown by a run:

* `rx_reopen`: `ax_net_close` neither masks the C2H interrupt nor waits for its
  handler. A handler that has read its status starts the engine again after the
  close; the next open meets `BUG_ON(engine->running)` (`libxdma.c:618`), against
  "The engine must be idle" (`libxdma.c:600`).
* `rx_masked`: without MSI-X a packet that completes while NAPI is off, between
  `engine_start` (`xdma_mod.c:1443`) and `napi_enable` (`xdma_mod.c:1455`) of any
  open, the first included, or after the `napi_disable` of a close, makes
  `xdma_isr` mask the C2H interrupt and schedule a poll that cannot run. Neither
  close nor open unmasks it, so the interface receives nothing, against
  "disable all interrupts that fired; these are re-enabled individually after the
  causing module has been fully serviced" (`libxdma.c:1113`).
* `timestamps_torn`: with legacy interrupts `ax_tsn_irq_ptp` drains the receive
  FIFO without the lock, so that a capture of one frame gets the sequence id of
  another, against "MsgInfo must be read only once and needs to be the last
  register to read" (`switch/ax_switch.c:567`).

* `qbv_lead`: `ax_irq_config_change` counts its ten cycles from the start of the
  running cycle (`switch/ax_switch.c:319`), so the change lies more than nine and
  at most ten cycles ahead, against "Config Change Time must be set al least 6+n
  cycles ahead" (`switch/ax_switch.c:308`), with n at its maximum of 4.
* `open_crash`: with MSI-X a channel's `request_irq` that fails in the first
  `xdma_device_open` unwinds into `tasklet_kill(tsk_ptp)` (`libxdma.c:2121`) while
  `tsk_ptp` is NULL; the kernel stops with the regions, BARs, vectors and engines
  held, against "NULL, in case of error" (`libxdma_api.h:61`).

Reached in the models, and excluded by name from the properties:

* With MSI-X too an interrupt between `engine_start` and `napi_enable` schedules no
  poll, and its packet waits on the ring until the next one comes
  (`xdma_mod.c:1443`).
* The change time of a schedule whose base time is ahead by less than ten cycles is
  off its grid: the difference wraps (`switch/ax_switch.c:319`).
* `dsa_loop_port_vlan_del` does not check the VID (`DSA/dsa_loop.c:348`): undoing
  uppers that `dsa_user_manage_vlan_filtering` could not restore, it writes past
  the five entries of `vlans[]`.
* A conduit closed while it has no `dsa_ptr` leaves its user ports open
  (`DSA/user.c:3427`).
* Speed and duplex that the PHY timer recorded from torn or unanswered reads stay
  as long as the link (`xdma_mod.c:610`).

* A clock operation between a Qbv handler's write of `AS_T_SELECTOR` and its read
  makes the handler use another timer's time; two clock operations reach each
  other's timer (`switch/ax_switch.c:396`, `switch/ax_ptp.c:248`).
* `ax_irq_timer_change` serves one port and clears the requests of all
  (`switch/ax_switch.c:451`).
* The tasklet of an earlier frame frees a time-stamped skb that
  `ax_net_start_xmit` has queued and not yet copied (`xdma_mod.c:1510`).
* A failed `dsa_register_switch` keeps the reference that `dsa_loop_drv_probe` took
  on the conduit (`DSA/dsa_loop.c:503`), and the removal of the card waits for it.
* The list entries and flags of a user that is destroyed stay on the conduit.
* A join that fails over VLAN filtering leaves the port disabled (`DSA/port.c:528`).
* VLAN awareness that fails on a later port stays on for the earlier ones
  (`DSA/port.c:798`); a renotified VLAN is counted again on the conduit
  (`DSA/port.c:1336`); an upper refused for its VID takes the bridge's VLAN out
  of the switch (`DSA/switch.c:693`).
* After a failed `request_irq` the unwinding frees interrupts that are not
  installed (`libxdma.c:3336`); an engine that cannot be set up keeps its
  interrupt bit (`libxdma.c:2840`).
* Probe returns 0 from its error paths (`xdma_mod.c:2236`); with two cards
  `xdma_desc_flag` lets the second one open without transfers.
* `match_num` is not reset between ports in `ax_init_rgmii` (`xdma_mod.c:1328`), so
  that a port without a link may not be reported; only a message depends on it.

## 5. Proofs

The theorems are in modules of their own. Every theorem holds
for every value of the constants that the named ASSUME of its module admits; TLC
evaluates these ASSUMEs in the runs. Each proof finds an inductive invariant,
shows that `Init` implies it and that every action keeps it, mostly in one lemma
per action or per conjunct, and reads the properties off it. TLC checked the larger
invariants on small instances before they were proved.

### TxRingProofs (`Half > 0`, any packet and error bounds)

* `RingInvariant`: `RingInv`; `EngineIdle`: `EngineIdleAtStart`; `QueueHasWaker`:
  `StoppedQueueHasWaker`; `ListOwnership`: `HwOwnsItsList`, an action property;
* `SkbSurvives`: `SkbOutlivesCopy`;
* `ChannelIsFifo`: `Spec => ImplementsTxFifo`, the refinement of `TxFifo`.

That the engine is idle when xmit starts it depends on the handler having seen the
end of the last run; that depends on where the STOPPED bits are; those depend on
how far the list was filled. `RingInv` is `TypeOK /\ RingShape`, and `RingShape`
says all of it:

* `FlagsAgree`: `idle`, `running`, RUN and the pending interrupt tell one story,
  and an idle channel has nothing waiting;
* `FillingList`: `list->cur` is the start of the current list plus
  `cur_pkt_count`, wrapped; the entries before it hold the last packets accepted,
  none marked STOPPED;
* `InFlight`: while the engine runs, its position is in the other list, the
  descriptors from there to some `e` hold consecutive packets ending just before
  those of the filling list, and `e` is the first one marked STOPPED;
* `QueueMatchesLists`: the queue is stopped exactly while a list is full, and
  `stop_queue_channel` is that list's channel.

Both interrupt modes are covered: `xdma_isr_H2C` is another caller of `Service`,
and `ax_tsn_irq_ptp` of what the tasklet does. `SlotsInFlight` shows that what the
engine has still to fetch lies in the list in flight, from which `ListOwnership`
follows. `SkbSurvives` adds `QuietUntilCopied`: between `skb_queue_tail` and the
copy the channel is at rest and no tasklet is scheduled, so the skb stays the last
of `tx_timestamp`. For the refinement, the packets that have
left are told from the lists (`DepartedInRun`, `DepartedAtRest`); xmit is an
accept of the FIFO, a fetch a send, an error a loss, and everything else a stutter.

### RxRingProofs (`Half > 0`, `Budget > 0`, any number of packets and sessions)

* `EngineNeverStalls`: `EngineRunsOrWillRestart`; `NoWakeupLost`: `NoLostWakeup`;
  `DeliveryOrder`: `DeliveredInOrder`.

`RxInductive` is `TypeOK`, `RxShape` and `RingHolds`. `RxShape` follows a wake-up from
the engine to the poll: the engine's position is the completed count within the
current list (`EngineShape`), a masked interrupt has a handler or a poll that
unmasks it (`MaskServed`), a stopped engine has its restart on the way
(`RestartComing`), and a poll about to complete knows of the packet that came
after its last look (`LateNoticed`). `RingHolds` counts from `cur_rx`: the ring holds exactly the
received packets not yet delivered, in order, and the engine writes behind them.
The two are separate inductions except that the second needs the engine's
position from the first.

### TimestampsProofs (`TimestampsAssumption`: queues and rings no longer than one round of sequence ids)

* `RxStampsAreExact`: `RxStampExact`; `TxStampsAreExact`: `TxStampExact`.

The assumption is the one of section 2, that an id does not recur within a queue,
the receive ring or the waiting skbs; in the code ids have 16 bits and a
queue has one entry per port and domain and eight more. `StampInv` numbers frames, captures and skbs in the
order of their arrival (`RxNumbers`, `TxNumbers`, `SkbNumbers`), says who holds
`txrx_timestamp_lock` (`LockShape`), and that a TS_QUEUE holds the last captures
drained, as many as fit, each whole (`RxQueueShape`, `TxQueueShape`, over `Holds`).
`InsertHolds` proves that of the insertion with its two wrapping indices;
`IdsApart` shows that equal ids are a whole round apart; `FindHolds` that the
search from the newest entry returns the capture asked for or none.

### QbvProofs (any ports, domains, gates, requests and clock operations)

* `SafeStateIsPassed`: `SafeStateEnds`; `WritesReachPorts`: `WritesReachTheirPort`;
  `CyclesFollowTimers`: `CyclesOnOwnTimer`.

`QbvInv` says that requests name ports and, as long as no two handlers have met,
that one handler is under way (`OneHandler`), the port selector stays where it put
it (`SelectorHeld`), programmed times belong to their port (`TimesNamed`), a port in
the safe state has a configuration pending or its handler about to write
(`SafePassed`), and a port's
times belong to its timer or a change of the timer is still to be seen
(`OwnTimers`). The last one is the long part: every step of three
handlers against every clock operation.

* `TimesAreExact`: `TimeSpec => []TimesExact`, under `QbvTimeAssumption`.

Here no state is involved: the theorem is arithmetic over `TimeSpec`, one call with any
arguments. The assumption bounds times by what the registers of a timer can show
(`T32 * NS_PER_SEC`), cycles by their 32 bits, and asks that a time plus the ten
cycles of lead fit the 64 bits; it admits the real widths (2^64, 2^32, 10^9). The
run uses shrunk ones, so here the proof is what covers the code's own numbers.

### DsaTreeProofs (any set of cards, any user ports)

* `NotifiersAreSafe`: `NotifierSafe`; `ConduitsAreTracked`: `ConduitTracked`;
  `UsersHaveConduits`: `UserUpHasConduit`; `RegistrationBalances`: `Balanced`.

`TreeInv` describes the call under way at every step (`Busy`) and the cards beside
it, which are registered (`Complete`) or not (`Gone`); `MutexShape` and `RefShape`
account for the mutex and every reference on tree and tagger, `PortShape` for the
user ports, `ConduitShape` for the conduits in use. A step is one of a
registration or removal (`Call`) or one of the administrator (`Admin`); what each
leaves alone is proved once (`CallFrame`, `AdminFrame`).

### XdmaDevProofs (any BAR layouts, user lines and opens, any set of faults)

* `FreesWhatItRequested`: `FreesOnlyRequested`; `HandlersAreSafe`: `HandlerSafe`;
  `NothingIsLeft`: `NothingLeft`; `OpenDeviceListens`: `Listening`.

`DevInv` says for every step of open, unwinding, close, offline and online what is
held: BARs (`BarShape`), regions and vectors (`LoanShape`), the enabled device
(`EnableShape`), the engines built so far (`EngineShape`), their vectors
(`LineShape`), the installed interrupts (`IrqShape`), the card's registers
(`RegShape`), and when the tasklet exists and what led to a crash (`TaskShape`). Installed interrupts are tied to the engines that record a line,
which is what the unwinding of a half-finished loop of `request_irq` relies on.

### LifecycleProofs (any number of cards, any set of calls that fail)

* `TimerNeverDangles`: `TimerSafe`; `SwitchLives`: `SwitchOnLiveCard`;
  `AloneMeetsNoBug`: `NoBugOn`; `KeptCards`: `KeptIsWholeOrDead`;
  `RemovalIsComplete`: `RemovedIsClean`.

`LifeInv` gives the shape of the card that is being probed or removed at each step
(`Probing`, `FailingShape`, `ReturnShape`, `RemovingShape`) and of those at rest
(`Clean`, `Whole`, `Dead`); `HeldShape` counts the references of the DSA driver;
`OneBus` says that one card has the MDIO bus, `FlagShape` what `xdma_desc_flag`
says of the transfers: a card that meets the flag set before it has its transfers
is not alone. `LocalStep` carries what every step has in common: it
changes one card and leaves the others as they are.

### PortProofs

Five parts, one per module; they share no state and no invariant.

**`Phy`** (any number of ports, changes and unanswered accesses)

* `TimerRecordsBest`: `PhySpec => RecordsBest`, an action property.

`PhyInv` says at each step of `__ax_phy_timer` what the registers read so far hold of
a PHY that was still and answered since the port's first read (`Reading`). The
driver's tests of bits, in its order, are shown to pick the first common mode of
the priority table (`ResolvesFirst`, `BestIsFirst`).

**`SdsaTag`** (`TagAssumption`: any payloads of bytes, of six bytes or more)

* `FramesPass`: `TagSpec => []FramesIntact`.

`TagInv` says of the frame at each station which bytes are where. The lemmas below
it compute byte by byte: what `skb_push`, `memmove` and the stores of `sdsa_xmit`
leave in the buffer (`Written`, `Moved`, `WithTag`), with 0, 1 or 2 VLAN tags in the
frame; which port, type and VLAN bits the switch reads from there (`Sent`); and the
same backwards for `sdsa_rcv` (`Handed`, `Header`, `Delivered`). Six bytes from the
Ethernet type on are what the length check of `sdsa_rcv` asks of a frame that came
with a VLAN tag; Ethernet pads every frame to more.

**`DsaUser`** (a finite set of user interfaces, any addresses, groups and filter size)

* `ConduitBalanced`: `FiltersBalanced`; `ConduitHears`: `HearsItsUsers`.

`UserInv` keeps a ledger (`Ledger`): references, promiscuity and allmulticast counts
of the conduit are the totals over the users of what each has asked, plus the
tree's and what destroyed users left. The totals are cardinalities, so one lemma
says how a total changes when one user's share does; every operation is then
a change of one share and of one count. What the hardware filter holds is a function of the
counts (`Tuned`): `ax_net_set_multicast` has run since they last changed.

**`DsaBridge`** (a finite set of ports, any bridges and queue bound)

* `PortsFollow`: `PortFollowsBridge`.

The queue of deferred news is read in closed form: `Latest` picks the newest entry
of a port, or what the port has, and working off the queue (`AttrSetAll`) gives each
port its `Latest`. `BridgeInv` says for each port that this is what its bridge has
for it (`Follows`), and that a `dsa_bridge` has as many references as ports.

**`DsaVlan`** (finite sets of ports and VLANs, any number of uppers and notifications)

* `VlanRefsBalanced`: `HostRefsBalanced`; `VlanTableMatches`: `TableMatches`;
  `VlanNoSharedVid`: `NoSharedVid`; all three from `VlansInvariant`.

`VlanInv` strengthens the three: a reference count is the number of filtering ports
that want the VLAN plus, for a VLAN of the bridge, its ports (`Good`); only VLANs of
the table are counted; `vlan_filtering` and the filtering feature of an interface
agree; bridge VLANs are in the table and belong to ports of the bridge; and as long
as no change was split, the filtering ports are those of an aware bridge.

The operations call the driver for one upper, VLAN or port after another and stop
at the first failure (`Each`). `EachRuns` shows that such a run exists, as a function
from the number of calls made to the result, by taking the least number for which
it would not; `UpTo` is the corresponding induction over the calls. With them each
loop gets its result in closed form: `RestoreIs` (all uppers added, or those before
the refused one), `ClearIs`, `ReplayIs`, `UnreplayIs`, `FlushIs`, `HostAddAllIs`,
`HostDelAllIs`. `FilteringIs` combines the first two into what
`dsa_port_vlan_filtering` leaves behind, failed or not, and `ToggleIs` that over
the ports of the bridge, in whatever order it asks them.

### Only model-checked

* Liveness (`EveryPacketLeaves`, `TimestampQueueDrains`, `EveryPacketDelivered`,
  `LinkConverges`): fairness and ENABLED are out of the prover's reach.
* The five violations, which are counterexamples.

Every other property of a run is stated by a theorem. No module uses a recursive
operator; `Each` is a recursive function on the positions of its sequence.

## 6. Plan

Done, in this order: `TxRing` with `TxFifo` and its first proofs, `RxRing`,
`Timestamps`, `Qbv` and `QbvTime`, `DsaTree`, `DsaVlan`, `XdmaDev`, `Lifecycle`,
`Phy`, `SdsaTag`; then the interrupts without MSI-X in `TxRing` and `RxRing`, the
reference on the conduit in `Lifecycle`, `DsaUser`, `DsaBridge`, and the arithmetic
of the clocks in `QbvTime`; then the refinement of `TxFifo` and the proofs about
`RxRing`, `Timestamps`, `Qbv`, `QbvTime`, `DsaTree`, `XdmaDev` and `Lifecycle`; then
those about the ports: `Phy`, `SdsaTag`, `DsaUser`, `DsaBridge` and `DsaVlan`.

Next, in the model:

1. The transmit side of close and reopen in `TxRing`.
2. FDB and MDB paths up to the driver's `-EOPNOTSUPP`.
3. The paged vendor registers of the PHYs.

In the proofs every safety and action property of the runs is covered; what the
list above adds to the model is next.

## 7. Not modelled

* Contents of frames, except in `SdsaTag`; statistics; ethtool, proc and register
  ioctls; the MTU, which `ax_net_change_mtu` checks and does not store; the formatting of names; plain memory leaks.
* Memory below the level of a queue operation: the unlocked `__skb_dequeue` of
  `tasklet_ptp`.
* LAG, HSR, MRP, tc and devlink operations of the DSA core, for which `dsa_loop` has
  no callbacks; FDB and MDB operations, which it refuses.
* The transmit side of close and reopen: `TxRing` starts at an open and does not end.
  A late H2C handler meets the same race as the C2H handler in `rx_reopen`.
* The paged PHY settings of probe (LED, green Ethernet, EEE, PTP, serdes): one
  fixed sequence of writes before the timer starts, without a condition.
* Real time: the delays in the retry loops and in `ax_tsn_irq_ptp`.
* The flags `running` and `shutdown` of the engines in `XdmaDev`; the untagging of
  a bridge PVID and hardware port multiplexing in `dsa_switch_rcv`, which this
  driver does not use.
