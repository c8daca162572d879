------------------------------- MODULE TxRing -------------------------------
(***************************************************************************)
(* The transmit path of the AXM57104A driver while the interface is up:    *)
(* ax_net_start_xmit (xdma_mod.c); with MSI-X the two H2C interrupt        *)
(* handlers and tasklet_ptp, without it the H2C branch of xdma_isr and     *)
(* ax_tsn_irq_ptp (libxdma.c); and the two H2C DMA engines they drive.     *)
(*                                                                         *)
(* Every channel owns one ring of 2 * Half descriptors, cut into two lists *)
(* of Half.  The engine runs one list while the driver fills the other;    *)
(* transfer->current_list names the list being filled.  A run ends at the  *)
(* first descriptor whose STOPPED bit is set.  Channel 1 carries the       *)
(* frames that ask for a hardware timestamp, channel 0 all the others;     *)
(* both share one netdev queue, which stop_queue_channel ties to the       *)
(* channel whose list filled up.                                           *)
(*                                                                         *)
(* A packet is the number of its acceptance on its channel.  The netdev    *)
(* layer serialises ax_net_start_xmit (HARD_TX_LOCK), and the body of each *)
(* handler runs under ax_local->lock, so a handler is one step; xmit takes *)
(* the lock only after it has put a timestamped skb on tx_timestamp, so    *)
(* for channel 1 it is two.                                                *)
(***************************************************************************)
EXTENDS Integers, Sequences

CONSTANTS
  Half,       \* TX_DESC_NUM / DESC_LIST_NUM, descriptors per list (512)
  MaxPkts,    \* bound: packets accepted per channel
  MaxErrors   \* bound: DMA errors per channel

ASSUME TxRingAssumption ==
  /\ Half \in Nat \ {0}
  /\ MaxPkts \in Nat
  /\ MaxErrors \in Nat

Channels  == {0, 1}              \* XDMA_CHANNEL_NUM_MAX
PtpChan   == 1
Desc      == 0 .. 2 * Half - 1   \* TX_DESC_NUM
NoChannel == 255                 \* stop_queue_channel = 0xFF

VARIABLES
  cur, idle, cur_pkt_count,  \* ax_local->tx_list[c]
  current_list,              \* engine->transfer->current_list
  running,                   \* engine->running
  tx_buff,                   \* engine->tx_buff[i], the packet copied there
  stop_bit,                  \* XDMA_DESC_STOPPED of descriptor i
  hw_run, hw_pos,            \* hardware: RUN, and the descriptor to fetch
  irq_req,                   \* the channel's bit of channel_int_request
  queue_stopped,             \* netif_queue_stopped(dev)
  stop_queue_channel,        \* ax_local->stop_queue_channel
  tailed,                    \* xmit is past skb_queue_tail, before the lock
  exposed,                   \* history: other frames were under way by then
  tx_timestamp,              \* skbs waiting for their hardware timestamp
  tsk,                       \* tsk_ptp is scheduled
  msix,                      \* the device signals through MSI-X
  accepted,                  \* history: packets handed to the ring
  wire,                      \* history: packets fetched by the engine
  lost,                      \* history: packets dropped by a DMA error
  errors                     \* history: DMA errors

tx_list == <<cur, idle, cur_pkt_count>>
hw      == <<hw_run, hw_pos, irq_req>>
netq    == <<queue_stopped, stop_queue_channel>>
ptp     == <<tailed, exposed, tx_timestamp, tsk>>
hist    == <<accepted, wire, lost, errors>>
vars    == <<tx_list, current_list, running, tx_buff, stop_bit, hw, netq, ptp,
             msix, hist>>

-----------------------------------------------------------------------------
(* transfer->list_desc[l]: where list l starts. *)
ListStart(l) == l * Half

(* The list after l: (current_list + 1) % DESC_LIST_NUM. *)
NextList(l) == 1 - l

(* Mutant: no wrap, the last descriptor of the ring is never marked. *)
StopDescNoWrap(k) == k - 1

(* The descriptor the H2C handlers mark as the end of a list filled up to k. *)
StopDesc(k) == IF k = 0 THEN 2 * Half - 1 ELSE k - 1

(***************************************************************************)
(* The state ax_net_open leaves on its first call: rings reset, engines    *)
(* stopped, the queue started.  tx_buff holds no packet yet (0);           *)
(* transfer_desc_init sets STOPPED on the last descriptor of each list;    *)
(* stop_queue_channel is still the 0 of the zeroed ax_private.             *)
(***************************************************************************)
Init ==
  /\ cur = [c \in Channels |-> 0]
  /\ idle = [c \in Channels |-> TRUE]
  /\ cur_pkt_count = [c \in Channels |-> 0]
  /\ current_list = [c \in Channels |-> 0]
  /\ running = [c \in Channels |-> FALSE]
  /\ tx_buff = [c \in Channels |-> [i \in Desc |-> 0]]
  /\ stop_bit = [c \in Channels |-> [i \in Desc |-> i \in {Half - 1, 2 * Half - 1}]]
  /\ hw_run = [c \in Channels |-> FALSE]
  /\ hw_pos = [c \in Channels |-> 0]
  /\ irq_req = [c \in Channels |-> FALSE]
  /\ queue_stopped = FALSE
  /\ stop_queue_channel = 0
  /\ tailed = FALSE /\ exposed = FALSE
  /\ tx_timestamp = <<>>
  /\ tsk = FALSE
  /\ msix \in BOOLEAN
  /\ accepted = [c \in Channels |-> 0]
  /\ wire = [c \in Channels |-> <<>>]
  /\ lost = [c \in Channels |-> {}]
  /\ errors = [c \in Channels |-> 0]

-----------------------------------------------------------------------------
(* engine_start: the engine fetches from the start of the current list. *)
engine_start(c) ==
  /\ running' = [running EXCEPT ![c] = TRUE]
  /\ hw_run' = [hw_run EXCEPT ![c] = TRUE]
  /\ hw_pos' = [hw_pos EXCEPT ![c] = ListStart(current_list[c])]

(* Mutant: the driver goes on filling the list it has just started. *)
SwitchListStays(c) ==
  /\ UNCHANGED current_list
  /\ cur' = [cur EXCEPT ![c] = ListStart(current_list[c])]
  /\ cur_pkt_count' = [cur_pkt_count EXCEPT ![c] = 0]

(* After a start the driver moves to the other, now free, list. *)
SwitchList(c) ==
  /\ current_list' = [current_list EXCEPT ![c] = NextList(current_list[c])]
  /\ cur' = [cur EXCEPT ![c] = ListStart(NextList(current_list[c]))]
  /\ cur_pkt_count' = [cur_pkt_count EXCEPT ![c] = 0]

(* ax_net_start_xmit, a frame that wants a timestamp: skb_queue_tail. *)
XmitTail ==
  /\ ~queue_stopped
  /\ ~tailed
  /\ accepted[PtpChan] < MaxPkts
  /\ tx_timestamp' = Append(tx_timestamp, accepted[PtpChan] + 1)
  /\ tailed' = TRUE
  /\ exposed' = (tsk \/ ~idle[PtpChan])
  /\ UNCHANGED <<tx_list, current_list, running, tx_buff, stop_bit, hw, netq,
                 tsk, msix, hist>>

(* The packet is copied into the entry that list->cur names. *)
FillEntry(c) ==
  /\ IF c = PtpChan THEN tailed
                    ELSE ~tailed /\ ~queue_stopped /\ accepted[c] < MaxPkts
  /\ tailed' = FALSE /\ exposed' = FALSE
  /\ accepted' = [accepted EXCEPT ![c] = @ + 1]
  /\ tx_buff' = [tx_buff EXCEPT ![c][cur[c]] = accepted[c] + 1]

(* ax_net_start_xmit under the lock, engine idle: a run of one packet. *)
XmitStart(c) ==
  /\ idle[c]
  /\ FillEntry(c)
  /\ stop_bit' = [stop_bit EXCEPT ![c][cur[c]] = TRUE]
  /\ engine_start(c)
  /\ idle' = [idle EXCEPT ![c] = FALSE]
  /\ SwitchList(c)
  /\ UNCHANGED <<irq_req, netq, tx_timestamp, tsk, msix, wire, lost, errors>>

(* Mutant: a STOPPED bit left by an earlier run is not cleared. *)
XmitQueueKeepsStop(c) ==
  LET next == (cur[c] + 1) % (2 * Half)
      full == next \in {0, Half}
  IN /\ ~idle[c]
     /\ FillEntry(c)
     /\ cur' = [cur EXCEPT ![c] = next]
     /\ cur_pkt_count' = [cur_pkt_count EXCEPT ![c] = @ + 1]
     /\ IF full THEN queue_stopped' = TRUE /\ stop_queue_channel' = c
                ELSE UNCHANGED netq
     /\ UNCHANGED <<idle, current_list, running, stop_bit, hw, tx_timestamp, tsk,
                    msix, wire, lost, errors>>

(* ... engine busy: the packet waits in the list; a full list stops the queue. *)
XmitQueue(c) ==
  LET next == (cur[c] + 1) % (2 * Half)
      full == next \in {0, Half}
  IN /\ ~idle[c]
     /\ FillEntry(c)
     /\ stop_bit' = [stop_bit EXCEPT ![c][cur[c]] = FALSE]
     /\ cur' = [cur EXCEPT ![c] = next]
     /\ cur_pkt_count' = [cur_pkt_count EXCEPT ![c] = @ + 1]
     /\ IF full THEN queue_stopped' = TRUE /\ stop_queue_channel' = c
                ELSE UNCHANGED netq
     /\ UNCHANGED <<idle, current_list, running, hw, tx_timestamp, tsk, msix,
                    wire, lost, errors>>

(* Mutant: any serviced channel wakes the queue. *)
WakeQueueAny(c) ==
  /\ queue_stopped' = FALSE
  /\ stop_queue_channel' = NoChannel

(* netif_wake_queue when the channel that stopped the queue is serviced. *)
WakeQueue(c) ==
  IF stop_queue_channel = c
  THEN queue_stopped' = FALSE /\ stop_queue_channel' = NoChannel
  ELSE UNCHANGED netq

(* Mutant: a list holding a single packet is not restarted. *)
ServiceOffByOne(c) ==
  /\ irq_req[c]
  /\ irq_req' = [irq_req EXCEPT ![c] = FALSE]
  /\ IF cur_pkt_count[c] > 1
     THEN /\ stop_bit' = [stop_bit EXCEPT ![c][StopDesc(cur[c])] = TRUE]
          /\ engine_start(c)
          /\ SwitchList(c)
          /\ idle' = [idle EXCEPT ![c] = FALSE]
     ELSE /\ running' = [running EXCEPT ![c] = FALSE]
          /\ hw_run' = [hw_run EXCEPT ![c] = FALSE]
          /\ idle' = [idle EXCEPT ![c] = TRUE]
          /\ UNCHANGED <<cur, cur_pkt_count, current_list, stop_bit, hw_pos>>
  /\ WakeQueue(c)
  /\ UNCHANGED <<tx_buff, tailed, exposed, tx_timestamp, msix, hist>>

(* Mutant: list->idle is set before the restart and never cleared again. *)
ServiceStaysIdle(c) ==
  /\ irq_req[c]
  /\ irq_req' = [irq_req EXCEPT ![c] = FALSE]
  /\ idle' = [idle EXCEPT ![c] = TRUE]
  /\ IF cur_pkt_count[c] # 0
     THEN /\ stop_bit' = [stop_bit EXCEPT ![c][StopDesc(cur[c])] = TRUE]
          /\ engine_start(c)
          /\ SwitchList(c)
     ELSE /\ running' = [running EXCEPT ![c] = FALSE]
          /\ hw_run' = [hw_run EXCEPT ![c] = FALSE]
          /\ UNCHANGED <<cur, cur_pkt_count, current_list, stop_bit, hw_pos>>
  /\ WakeQueue(c)
  /\ UNCHANGED <<tx_buff, tailed, exposed, tx_timestamp, msix, hist>>

(***************************************************************************)
(* The body the two H2C handlers share: acknowledge the status, stop the   *)
(* engine, restart it on the list filled meanwhile or go idle, wake the    *)
(* queue.                                                                  *)
(***************************************************************************)
Service(c) ==
  /\ irq_req[c]
  /\ irq_req' = [irq_req EXCEPT ![c] = FALSE]
  /\ IF cur_pkt_count[c] # 0
     THEN /\ stop_bit' = [stop_bit EXCEPT ![c][StopDesc(cur[c])] = TRUE]
          /\ engine_start(c)
          /\ SwitchList(c)
          /\ idle' = [idle EXCEPT ![c] = FALSE]
     ELSE /\ running' = [running EXCEPT ![c] = FALSE]   \* xdma_engine_stop
          /\ hw_run' = [hw_run EXCEPT ![c] = FALSE]
          /\ idle' = [idle EXCEPT ![c] = TRUE]
          /\ UNCHANGED <<cur, cur_pkt_count, current_list, stop_bit, hw_pos>>
  /\ WakeQueue(c)
  /\ UNCHANGED <<tx_buff, tailed, exposed, tx_timestamp, msix, hist>>

(* Mutant: the tasklet is scheduled for either channel. *)
H2C_irq_Tasklet ==
  /\ msix
  /\ Service(0)
  /\ tsk' = TRUE

xdma_channel_H2C_irq ==
  /\ msix
  /\ Service(0)
  /\ UNCHANGED tsk

(* Mutant: tasklet_schedule is forgotten. *)
H2C_PTP_irq_NoTasklet ==
  /\ msix
  /\ Service(PtpChan)
  /\ UNCHANGED tsk

xdma_channel_H2C_PTP_irq ==
  /\ msix
  /\ Service(PtpChan)
  /\ tsk' = TRUE

(* xdma_isr, one turn of its loop over the H2C channels that fired. *)
xdma_isr_H2C(c) ==
  /\ ~msix
  /\ Service(c)
  /\ UNCHANGED tsk

(***************************************************************************)
(* tasklet_ptp, one turn of its loop: take the oldest skb, look up its     *)
(* timestamp (module Timestamps), free it; at the end of the queue the     *)
(* tasklet is done.                                                        *)
(***************************************************************************)
tasklet_ptp ==
  /\ tsk
  /\ IF tx_timestamp = <<>>
     THEN tsk' = FALSE /\ UNCHANGED tx_timestamp
     ELSE tx_timestamp' = Tail(tx_timestamp) /\ UNCHANGED tsk
  /\ UNCHANGED <<tx_list, current_list, running, tx_buff, stop_bit, hw, netq,
                 tailed, exposed, msix, hist>>

(* ax_tsn_irq_ptp, one turn of its last loop: without MSI-X the switch's    *)
(* interrupt for a capture, of whichever frame, takes the skbs.             *)
ax_tsn_irq_ptp ==
  /\ ~msix
  /\ tx_timestamp # <<>>
  /\ tx_timestamp' = Tail(tx_timestamp)
  /\ UNCHANGED <<tx_list, current_list, running, tx_buff, stop_bit, hw, netq,
                 tailed, exposed, tsk, msix, hist>>

-----------------------------------------------------------------------------
(* The hardware (external): how the engine treats a descriptor list. *)

(* A run ends at a STOPPED descriptor, or where the list's chain ends. *)
EndsRun(c, i) == stop_bit[c][i] \/ i \in {Half - 1, 2 * Half - 1}

(* The descriptors the engine still has to fetch in this run. *)
HwSlots(c) ==
  {i \in Desc : /\ hw_run[c]
                /\ hw_pos[c] <= i
                /\ \A j \in Desc : (hw_pos[c] <= j /\ j < i) => ~EndsRun(c, j)}

(* The engine sends one packet; the last one of a run raises the interrupt. *)
HwFetch(c) ==
  /\ hw_run[c]
  /\ wire' = [wire EXCEPT ![c] = Append(@, tx_buff[c][hw_pos[c]])]
  /\ IF EndsRun(c, hw_pos[c])
     THEN /\ hw_run' = [hw_run EXCEPT ![c] = FALSE]
          /\ irq_req' = [irq_req EXCEPT ![c] = TRUE]
          /\ UNCHANGED hw_pos
     ELSE /\ hw_pos' = [hw_pos EXCEPT ![c] = @ + 1]
          /\ UNCHANGED <<hw_run, irq_req>>
  /\ UNCHANGED <<tx_list, current_list, running, tx_buff, stop_bit, netq, ptp,
                 msix, accepted, lost, errors>>

(* A read or descriptor error ends the run early, with the same interrupt. *)
HwError(c) ==
  /\ hw_run[c]
  /\ errors[c] < MaxErrors
  /\ errors' = [errors EXCEPT ![c] = @ + 1]
  /\ lost' = [lost EXCEPT ![c] = @ \cup {tx_buff[c][i] : i \in HwSlots(c)}]
  /\ hw_run' = [hw_run EXCEPT ![c] = FALSE]
  /\ irq_req' = [irq_req EXCEPT ![c] = TRUE]
  /\ UNCHANGED <<tx_list, current_list, running, tx_buff, stop_bit, hw_pos,
                 netq, ptp, msix, accepted, wire>>

-----------------------------------------------------------------------------
Next ==
  \/ XmitTail
  \/ \E c \in Channels : XmitStart(c) \/ XmitQueue(c)
  \/ xdma_channel_H2C_irq
  \/ xdma_channel_H2C_PTP_irq
  \/ \E c \in Channels : xdma_isr_H2C(c)
  \/ tasklet_ptp
  \/ ax_tsn_irq_ptp
  \/ \E c \in Channels : HwFetch(c) \/ HwError(c)

(***************************************************************************)
(* The engine keeps fetching, requested interrupts are delivered, a        *)
(* scheduled tasklet runs, and an xmit past skb_queue_tail goes on to the  *)
(* ring.  Nothing makes the stack send, or the engine fail.                *)
(***************************************************************************)
Fairness ==
  /\ \A c \in Channels : WF_vars(HwFetch(c))
  /\ WF_vars(xdma_channel_H2C_irq \/ xdma_isr_H2C(0))
  /\ WF_vars(xdma_channel_H2C_PTP_irq \/ xdma_isr_H2C(PtpChan))
  /\ WF_vars(tasklet_ptp)
  /\ WF_vars(tailed /\ (XmitStart(PtpChan) \/ XmitQueue(PtpChan)))

Spec     == Init /\ [][Next]_vars
FairSpec == Spec /\ Fairness

-----------------------------------------------------------------------------
(***************************************************************************)
(* Why the ring works, as an inductive invariant of one channel c: the     *)
(* flags agree, list->cur counts the packets of the list being filled, and *)
(* those packets are the last ones accepted, none of them marked STOPPED.  *)
(***************************************************************************)
FlagsAgree(c) ==
  /\ idle[c] <=> ~running[c]
  /\ running[c] <=> hw_run[c] \/ irq_req[c]
  /\ ~(hw_run[c] /\ irq_req[c])
  /\ idle[c] => cur_pkt_count[c] = 0

FillingList(c) ==
  LET start == ListStart(current_list[c])
      n     == cur_pkt_count[c]
  IN /\ cur[c] = IF start + n = 2 * Half THEN 0 ELSE start + n
     /\ n <= accepted[c]
     /\ \A k \in 0 .. n - 1 : /\ ~stop_bit[c][start + k]
                              /\ tx_buff[c][start + k] = accepted[c] - n + 1 + k

(* The list in flight ends at e with the packet accepted before those. *)
InFlight(c, e) ==
  LET start == ListStart(NextList(current_list[c]))
  IN /\ start <= hw_pos[c] /\ hw_pos[c] <= e /\ e < start + Half
     /\ stop_bit[c][e]
     /\ \A j \in hw_pos[c] .. e : 
          /\ j < e => ~stop_bit[c][j]
          /\ tx_buff[c][j] = accepted[c] - cur_pkt_count[c] - (e - j)
     /\ tx_buff[c][hw_pos[c]] >= 1

(* The queue is stopped exactly while some list is full, by that channel. *)
QueueMatchesLists ==
  /\ \A c \in Channels :
       cur_pkt_count[c] = Half => queue_stopped /\ stop_queue_channel = c
  /\ queue_stopped =>
       \E c \in Channels : stop_queue_channel = c /\ cur_pkt_count[c] = Half
  /\ tailed => ~queue_stopped /\ accepted[PtpChan] < MaxPkts

RingShape ==
  /\ \A c \in Channels :
       /\ FlagsAgree(c)
       /\ FillingList(c)
       /\ hw_run[c] => \E e \in Desc : InFlight(c, e)
  /\ QueueMatchesLists

-----------------------------------------------------------------------------
(* Packet numbers are 1 .. MaxPkts; 0 is a buffer never written. *)
TypeOK ==
  /\ cur \in [Channels -> Desc]
  /\ idle \in [Channels -> BOOLEAN]
  /\ cur_pkt_count \in [Channels -> 0 .. Half]
  /\ current_list \in [Channels -> {0, 1}]
  /\ running \in [Channels -> BOOLEAN]
  /\ tx_buff \in [Channels -> [Desc -> 0 .. MaxPkts]]
  /\ stop_bit \in [Channels -> [Desc -> BOOLEAN]]
  /\ hw_run \in [Channels -> BOOLEAN]
  /\ hw_pos \in [Channels -> Desc]
  /\ irq_req \in [Channels -> BOOLEAN]
  /\ queue_stopped \in BOOLEAN
  /\ stop_queue_channel \in Channels \cup {NoChannel}
  /\ tailed \in BOOLEAN /\ exposed \in BOOLEAN
  /\ tx_timestamp \in Seq(1 .. MaxPkts)
  /\ tsk \in BOOLEAN
  /\ msix \in BOOLEAN
  /\ accepted \in [Channels -> 0 .. MaxPkts]
  /\ wire \in [Channels -> Seq(0 .. MaxPkts)]
  /\ lost \in [Channels -> SUBSET (0 .. MaxPkts)]
  /\ errors \in [Channels -> 0 .. MaxErrors]

(* The ring's inductive invariant: what the handlers of ax_net_start_xmit   *)
(* and the two H2C interrupts rely on, and keep, at every step.             *)
RingInv == TypeOK /\ RingShape

(***************************************************************************)
(* engine_start never meets BUG_ON(engine->running): whenever              *)
(* ax_net_start_xmit would start the engine (list->idle), it is stopped,   *)
(* with nothing left to fetch and no interrupt outstanding.                *)
(***************************************************************************)
EngineIdleAtStart ==
  \A c \in Channels : idle[c] => ~running[c] /\ ~hw_run[c] /\ ~irq_req[c]

(***************************************************************************)
(* tasklet_ptp frees the skbs of tx_timestamp, and ax_net_start_xmit puts  *)
(* a frame there before it copies it (xdma_mod.c:1510, :1534): the frame   *)
(* is still there when it is copied if the channel had come to rest and    *)
(* the tasklet was done when it was put there, whatever channel 0 does     *)
(* meanwhile.  Behind a frame that is still under way it need not be, nor  *)
(* without MSI-X, where the switch's interrupt takes whatever is there.    *)
(***************************************************************************)
SkbOutlivesCopy ==
  msix /\ tailed /\ ~exposed =>
    /\ tx_timestamp # <<>>
    /\ tx_timestamp[Len(tx_timestamp)] = accepted[PtpChan] + 1

(***************************************************************************)
(* A stopped queue always has a wake-up on its way: the channel recorded   *)
(* in stop_queue_channel is still sending or has its interrupt pending.    *)
(* While the queue runs, no list is full: the next packet has an entry.    *)
(***************************************************************************)
StoppedQueueHasWaker ==
  IF queue_stopped
  THEN /\ stop_queue_channel \in Channels
       /\ hw_run[stop_queue_channel] \/ irq_req[stop_queue_channel]
  ELSE \A c \in Channels : cur_pkt_count[c] < Half

(***************************************************************************)
(* The driver never touches a descriptor or a buffer the engine has still  *)
(* to fetch: neither ax_net_start_xmit filling its list nor the STOPPED    *)
(* bit set by the interrupt handlers reaches into the list in flight.      *)
(***************************************************************************)
HwOwnsItsList ==
  [][\A c \in Channels : \A i \in HwSlots(c) :
       /\ tx_buff'[c][i] = tx_buff[c][i]
       /\ stop_bit'[c][i] = stop_bit[c][i]]_vars

(***************************************************************************)
(* The channel seen from outside: a FIFO of bounded capacity.  The packets *)
(* that left are those before the one the engine fetches next.             *)
(***************************************************************************)
Departed ==
  [c \in Channels |-> IF hw_run[c] THEN tx_buff[c][hw_pos[c]] - 1
                                  ELSE accepted[c] - cur_pkt_count[c]]

Fifo == INSTANCE TxFifo WITH Capacity <- 2 * Half, departed <- Departed

(* Every packet leaves once, in order; only a DMA error drops packets. *)
ImplementsTxFifo == Fifo!Spec

(* No packet stays on the ring for ever: it is sent, or lost to an error. *)
EveryPacketLeaves ==
  \A c \in Channels : \A p \in 1 .. MaxPkts :
    accepted[c] >= p ~> Departed[c] >= p

(***************************************************************************)
(* With MSI-X no skb waits for ever on tx_timestamp: each gets its turn in *)
(* tasklet_ptp.  Without, the switch's interrupts decide.                  *)
(***************************************************************************)
TimestampQueueDrains == msix /\ tx_timestamp # <<>> ~> tx_timestamp = <<>>
=============================================================================
