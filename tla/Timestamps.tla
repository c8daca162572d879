----------------------------- MODULE Timestamps -----------------------------
(***************************************************************************)
(* Hardware time stamps of PTP event frames: the capture FIFOs of the      *)
(* switch, the two TS_QUEUE rings of ax_switch.c, the receive side         *)
(* (ax_rx_check_timestamp, in the NAPI poll) and the transmit side         *)
(* (ax_tx_check_timestamp, in tasklet_ptp or, with legacy interrupts, in   *)
(* ax_tsn_irq_ptp), which run on two processors.                           *)
(*                                                                         *)
(* A frame is the number of its capture.  The port and the time stamps of  *)
(* a capture are read first; reading MsgInfo gives type, sequence and      *)
(* domain and pops the FIFO.  A queue item therefore records which capture *)
(* each of the two halves came from.                                       *)
(***************************************************************************)
EXTENDS Integers, Sequences, FiniteSets

CONSTANTS
  Ports,        \* NUM_SWITCH_PORTS
  NumSeqs,      \* values of the PTP sequence id (2^16 in the protocol)
  QSize,        \* max_num_items: ports * domains + 8
  RxSlots,      \* received frames waiting for the poll (RX_DESC_NUM)
  TxSlots,      \* bound: skbs waiting for their stamp (the socket's quota)
  Retries,      \* TX_TIMESTAMP_RETRIES
  MaxFrames,    \* bound: PTP frames received and sent
  MaxIoctls     \* bound: turns of ioctl_clean_FIFO, ax_gptp_set_ptp_mode calls

(* A sequence id does not recur within a queue, the receive ring or the   *)
(* skbs waiting for a stamp.                                               *)
ASSUME TimestampsAssumption ==
  /\ {Ports, NumSeqs, QSize, RxSlots, TxSlots, Retries} \subseteq Nat \ {0}
  /\ QSize <= Ports * NumSeqs
  /\ RxSlots <= Ports * NumSeqs
  /\ TxSlots <= Ports * NumSeqs
  /\ {MaxFrames, MaxIoctls} \subseteq Nat

None == 0                          \* no capture
Port(n) == n % Ports
SeqId(n) == (n \div Ports) % NumSeqs \* sequence_id (with type and domain)

VARIABLES
  rx_fifo, tx_fifo,   \* hardware: captures not yet popped
  received,           \* hardware: PTP frames received and captured
  tx_wire,            \* frames handed to the switch, not yet on the wire
  tx_captured,        \* history: frames captured on transmission, in order
  tx_lost,            \* history: frames the switch dropped
  rx_queue, tx_queue, \* TS_QUEUE: [items, write_ptr, num_items]
  lock,               \* holder of txrx_timestamp_lock, or "free"
  pc,                 \* where the poll and the transmit side are
  ts,                 \* local ts of either: the capture whose head was read
  rx_pending,         \* received frames the poll has still to look up
  tx_timestamp,       \* ax_local->tx_timestamp
  tx_skb,             \* the skb the transmit side has dequeued
  tries,              \* local i of ax_tsn_tx_hwtstamp
  tx_count,           \* result of ax_retrieve_hw_timestamps in the handler
  irq_ptp,            \* the PTP interrupt is requested (legacy)
  ptp_mode,           \* pSwitch->ptp_mode
  cleans, modes,      \* calls of the two ioctls
  legacy,             \* no MSI-X: ax_tsn_irq_ptp is the transmit side
  seen,               \* history: captures made when a FIFO was found empty
  rx_stamps, tx_stamps \* history: the lookups and what they gave

hw     == <<rx_fifo, tx_fifo, received, tx_wire, tx_captured, tx_lost>>
queues == <<rx_queue, tx_queue>>
ioctls == <<ptp_mode, cleans, modes, legacy>>
txside == <<tx_timestamp, tx_skb, tries, tx_count, irq_ptp>>
hist   == <<seen, rx_stamps, tx_stamps>>
vars   == <<hw, queues, lock, pc, ts, rx_pending, txside, ioctls, hist>>

Readers == {"poll", "tx"}

(* _tsn_tsq_flush: the items are whatever kmalloc returned. *)
EmptyQueue ==
  [items |-> [i \in 0 .. QSize - 1 |-> [ts |-> None, info |-> None]],
   write_ptr |-> 0, num_items |-> 0]

(* ax_tsn_init_switch, with the interface up; enable_msi_msix has decided *)
(* on the interrupt mode.                                                 *)
Init ==
  /\ rx_fifo = <<>> /\ tx_fifo = <<>>
  /\ received = 0
  /\ tx_wire = <<>> /\ tx_captured = <<>> /\ tx_lost = {}
  /\ rx_queue = EmptyQueue /\ tx_queue = EmptyQueue
  /\ lock = "free"
  /\ pc = [r \in Readers |-> "idle"]
  /\ ts = [r \in Readers |-> None]
  /\ rx_pending = <<>> /\ tx_timestamp = <<>>
  /\ tx_skb = None /\ tries = 0 /\ tx_count = 0 /\ irq_ptp = FALSE
  /\ ptp_mode = 0 /\ cleans = 0 /\ modes = 0 /\ legacy \in BOOLEAN
  /\ seen = [rx |-> 0, tx |-> 0]
  /\ rx_stamps = {} /\ tx_stamps = {}

-----------------------------------------------------------------------------
(* Operations on a TS_QUEUE, each under queue->lock. *)

(* _tsn_tsq_insert_item and _ax_insert_items: the oldest item gives way. *)
Insert(q, item) ==
  [q EXCEPT !.items[q.write_ptr] = item,
            !.write_ptr = IF @ + 1 = QSize THEN 0 ELSE @ + 1,
            !.num_items = IF @ < QSize THEN @ + 1 ELSE @]

(* _ax_tsq_check_item_1: the port was read with the time stamps, the rest  *)
(* with MsgInfo.                                                           *)
Matches(item, n) ==
  /\ item.ts # None
  /\ item.info # None
  /\ Port(item.ts) = Port(n)
  /\ SeqId(item.info) = SeqId(n)

Newest(q, i) == q.items[(q.write_ptr - 1 - i + QSize) % QSize]

(* ax_tsq_find_item_1: newest first; the item stays in the queue. *)
Find(q, n) ==
  LET hits == {i \in 0 .. q.num_items - 1 : Matches(Newest(q, i), n)}
  IN IF hits = {} THEN None
     ELSE Newest(q, CHOOSE i \in hits : \A j \in hits : i <= j).ts

(* The ioctls by which user space looks a frame up, at any moment and with  *)
(* queue->lock only, in a domain of its table.                              *)
ax_get_sync_rx_timestamp(n) == Find(rx_queue, n)
ax_get_sync_tx_timestamp(n) == Find(tx_queue, n)

ValidMode == ptp_mode \in {0, 1}

Goto(r, l) == pc' = [pc EXCEPT ![r] = l]

-----------------------------------------------------------------------------
(* The environment: the switch, the stack and user space. *)

Sent == Len(tx_captured) + Cardinality(tx_lost) + Len(tx_wire)

(* A PTP event frame arrives: it is captured, then handed to the host. *)
HwReceive ==
  /\ received + Sent < MaxFrames
  /\ Len(rx_pending) < RxSlots
  /\ received' = received + 1
  /\ rx_fifo' = Append(rx_fifo, received + 1)
  /\ rx_pending' = Append(rx_pending, received + 1)
  /\ UNCHANGED <<tx_fifo, tx_wire, tx_captured, tx_lost, queues, lock, pc,
                 ts, txside, ioctls, hist>>

(* ax_net_start_xmit queues a SKBTX_HW_TSTAMP skb and transmits it. *)
Transmit ==
  /\ received + Sent < MaxFrames
  /\ Len(tx_timestamp) + (IF tx_skb = None THEN 0 ELSE 1) < TxSlots
  /\ tx_wire' = Append(tx_wire, Sent + 1)
  /\ tx_timestamp' = Append(tx_timestamp, Sent + 1)
  /\ UNCHANGED <<rx_fifo, tx_fifo, received, tx_captured, tx_lost, queues,
                 lock, pc, ts, rx_pending, tx_skb, tries, tx_count, irq_ptp,
                 ioctls, hist>>

(* The frame leaves and is captured, and the switch asks for interrupt 0. *)
HwCapture ==
  /\ tx_wire # <<>>
  /\ tx_wire' = Tail(tx_wire)
  /\ tx_fifo' = Append(tx_fifo, Head(tx_wire))
  /\ tx_captured' = Append(tx_captured, Head(tx_wire))
  /\ irq_ptp' = legacy
  /\ UNCHANGED <<rx_fifo, received, tx_lost, queues, lock, pc, ts,
                 rx_pending, tx_timestamp, tx_skb, tries, tx_count, ioctls,
                 hist>>

(* The switch drops the frame. *)
HwDrop ==
  /\ tx_wire # <<>>
  /\ tx_wire' = Tail(tx_wire)
  /\ tx_lost' = tx_lost \cup {Head(tx_wire)}
  /\ UNCHANGED <<rx_fifo, tx_fifo, received, tx_captured, queues, lock, pc,
                 ts, rx_pending, txside, ioctls, hist>>

(* One turn of the loop of ioctl_clean_FIFO: no lock, MsgInfo alone. *)
ioctl_clean_FIFO ==
  /\ cleans + modes < MaxIoctls
  /\ rx_fifo # <<>>
  /\ cleans' = cleans + 1
  /\ rx_fifo' = Tail(rx_fifo)
  /\ UNCHANGED <<tx_fifo, received, tx_wire, tx_captured, tx_lost, queues,
                 lock, pc, ts, rx_pending, txside, ptp_mode, modes,
                 legacy, hist>>

ax_gptp_set_ptp_mode(m) ==
  /\ cleans + modes < MaxIoctls
  /\ modes' = modes + 1
  /\ ptp_mode' = m
  /\ UNCHANGED <<hw, queues, lock, pc, ts, rx_pending, txside, cleans, legacy,
                 hist>>

-----------------------------------------------------------------------------
(* Draining the FIFOs: ax_retrieve_rx_hw_timestamps in the poll,           *)
(* ax_retrieve_hw_timestamps on the transmit side.                         *)

(* The port and the time stamps of the oldest receive capture. *)
RxHead(r) ==
  /\ pc[r] = "rx"
  /\ rx_fifo # <<>>
  /\ ts' = [ts EXCEPT ![r] = Head(rx_fifo)]
  /\ Goto(r, "rxinfo")
  /\ UNCHANGED <<hw, queues, lock, rx_pending, txside, ioctls, hist>>

(* MsgInfo pops the FIFO; of an empty one it may read anything. *)
RxInfo(r) ==
  /\ pc[r] = "rxinfo"
  /\ \E info \in IF rx_fifo # <<>> THEN {Head(rx_fifo)} ELSE 0 .. received :
       rx_queue' = Insert(rx_queue, [ts |-> ts[r], info |-> info])
  /\ rx_fifo' = IF rx_fifo # <<>> THEN Tail(rx_fifo) ELSE rx_fifo
  /\ Goto(r, "rx")
  /\ UNCHANGED <<tx_fifo, received, tx_wire, tx_captured, tx_lost, tx_queue,
                 lock, ts, rx_pending, txside, ioctls, hist>>

RxEmpty(r) ==
  /\ pc[r] = "rx"
  /\ rx_fifo = <<>>
  /\ seen' = [seen EXCEPT !.rx = received]
  /\ Goto(r, IF r = "poll" THEN "find" ELSE "tx")
  /\ UNCHANGED <<hw, queues, lock, ts, rx_pending, txside, ioctls, rx_stamps,
                 tx_stamps>>

(* Mutant: MsgInfo is read before the time stamps. *)
TxPopInfoFirst ==
  /\ pc["tx"] = "tx"
  /\ tx_fifo # <<>>
  /\ tx_queue' = Insert(tx_queue,
       [ts |-> IF Len(tx_fifo) > 1 THEN tx_fifo[2] ELSE None,
        info |-> Head(tx_fifo)])
  /\ tx_fifo' = Tail(tx_fifo)
  /\ tx_count' = tx_count + 1
  /\ UNCHANGED <<rx_fifo, received, tx_wire, tx_captured, tx_lost, rx_queue,
                 lock, pc, ts, rx_pending, tx_timestamp, tx_skb, tries,
                 irq_ptp, ioctls, hist>>

(* One transmit capture; no one else reads this FIFO. *)
TxPop ==
  /\ pc["tx"] = "tx"
  /\ tx_fifo # <<>>
  /\ tx_queue' = Insert(tx_queue,
                        [ts |-> Head(tx_fifo), info |-> Head(tx_fifo)])
  /\ tx_fifo' = Tail(tx_fifo)
  /\ tx_count' = tx_count + 1
  /\ UNCHANGED <<rx_fifo, received, tx_wire, tx_captured, tx_lost, rx_queue,
                 lock, pc, ts, rx_pending, tx_timestamp, tx_skb, tries,
                 irq_ptp, ioctls, hist>>

(* The end of the drain: the retry loop unlocks and searches; the handler  *)
(* returns when it has popped nothing.                                     *)
TxEmpty ==
  /\ pc["tx"] = "tx"
  /\ tx_fifo = <<>>
  /\ seen' = [seen EXCEPT !.tx = Len(tx_captured)]
  /\ \/ /\ lock = "tx"
        /\ lock' = "free"
        /\ Goto("tx", "find")
     \/ /\ lock # "tx"
        /\ Goto("tx", IF tx_count = 0 THEN "idle" ELSE "wait")
        /\ UNCHANGED lock
  /\ UNCHANGED <<hw, queues, ts, rx_pending, txside, ioctls, rx_stamps,
                 tx_stamps>>

-----------------------------------------------------------------------------
(* The receive side: ax_rx_check_timestamp for the next frame. *)

PollLock ==
  /\ pc["poll"] = "idle"
  /\ rx_pending # <<>>
  /\ lock = "free"
  /\ lock' = "poll"
  /\ Goto("poll", "rx")
  /\ UNCHANGED <<hw, queues, ts, rx_pending, txside, ioctls, hist>>

(* ax_tsn_rx_hwtstamp: one search, then unlock; the frame goes up anyway. *)
PollFind ==
  LET n == Head(rx_pending)
      c == Find(rx_queue, n)
  IN /\ pc["poll"] = "find"
     /\ rx_stamps' = rx_stamps \cup
          {[frame |-> n, stamp |-> IF ValidMode THEN c ELSE None,
            seen |-> seen.rx, valid |-> ValidMode]}
     /\ rx_pending' = Tail(rx_pending)
     /\ lock' = "free"
     /\ Goto("poll", "idle")
     /\ UNCHANGED <<hw, queues, ts, txside, ioctls, seen, tx_stamps>>

-----------------------------------------------------------------------------
(* The transmit side: ax_tx_check_timestamp for the next queued skb. *)

(* ax_tsn_irq_ptp drains both FIFOs, with no lock. *)
IrqStart ==
  /\ legacy
  /\ pc["tx"] = "idle"
  /\ irq_ptp
  /\ irq_ptp' = FALSE
  /\ tx_count' = 0
  /\ Goto("tx", "rx")
  /\ UNCHANGED <<hw, queues, lock, ts, rx_pending, tx_timestamp, tx_skb,
                 tries, ioctls, hist>>

(* It gives up when no skb comes within 3 * 200 ms, or none is left. *)
IrqReturn ==
  /\ pc["tx"] = "wait"
  /\ tx_timestamp = <<>>
  /\ Goto("tx", "idle")
  /\ UNCHANGED <<hw, queues, lock, ts, rx_pending, txside, ioctls, hist>>

(* Either loop takes the next skb off tx_timestamp. *)
Dequeue ==
  /\ pc["tx"] = IF legacy THEN "wait" ELSE "idle"
  /\ tx_timestamp # <<>>
  /\ tx_skb' = Head(tx_timestamp)
  /\ tx_timestamp' = Tail(tx_timestamp)
  /\ tries' = 0
  /\ Goto("tx", "lock")
  /\ UNCHANGED <<hw, queues, lock, ts, rx_pending, tx_count, irq_ptp, ioctls,
                 hist>>

(* Mutant: the retry loop drains the FIFOs without the lock. *)
TxLockSkipped ==
  /\ pc["tx"] = "lock"
  /\ Goto("tx", "rx")
  /\ UNCHANGED <<hw, queues, lock, ts, rx_pending, txside, ioctls, hist>>

TxLock ==
  /\ pc["tx"] = "lock"
  /\ lock = "free"
  /\ lock' = "tx"
  /\ Goto("tx", "rx")
  /\ UNCHANGED <<hw, queues, ts, rx_pending, txside, ioctls, hist>>

(* ax_tsn_tx_hwtstamp after the drain: the stamp goes to the socket, or    *)
(* the loop waits 500 us and tries again; the skb is freed at the end.     *)
TxFind ==
  LET c    == Find(tx_queue, tx_skb)
      done == c # None \/ tries + 1 = Retries
  IN /\ pc["tx"] = "find"
     /\ \/ /\ ~done
           /\ tries' = tries + 1
           /\ Goto("tx", "lock")
           /\ UNCHANGED <<tx_skb, tx_stamps>>
        \/ /\ done
           /\ tx_stamps' = tx_stamps \cup
                {[frame |-> tx_skb, stamp |-> IF ValidMode THEN c ELSE None,
                  seen |-> seen.tx, valid |-> ValidMode]}
           /\ tx_skb' = None
           /\ Goto("tx", IF legacy THEN "wait" ELSE "idle")
           /\ UNCHANGED tries
     /\ UNCHANGED <<hw, queues, lock, ts, rx_pending, tx_timestamp, tx_count,
                    irq_ptp, ioctls, seen, rx_stamps>>

Next ==
  \/ HwReceive \/ Transmit \/ HwCapture \/ HwDrop
  \/ ioctl_clean_FIFO
  \/ \E m \in 0 .. 2 : ax_gptp_set_ptp_mode(m)
  \/ \E r \in Readers : RxHead(r) \/ RxInfo(r) \/ RxEmpty(r)
  \/ TxPop \/ TxEmpty
  \/ PollLock \/ PollFind
  \/ IrqStart \/ IrqReturn \/ Dequeue \/ TxLock \/ TxFind

Spec == Init /\ [][Next]_vars

-----------------------------------------------------------------------------
Captures == 0 .. MaxFrames
Items == [ts : Captures, info : Captures]
Queues == [items : [0 .. QSize - 1 -> Items], write_ptr : 0 .. QSize - 1,
           num_items : 0 .. QSize]
Stamps == [frame : Captures, stamp : Captures, seen : Nat, valid : BOOLEAN]

(* The rings of ax_switch.c stay within the memory _tsn_tsq_init allocated *)
(* and every local variable within its type.                               *)
TypeOK ==
  /\ rx_fifo \in Seq(Captures) /\ tx_fifo \in Seq(Captures)
  /\ received \in Nat
  /\ tx_wire \in Seq(Captures) /\ tx_captured \in Seq(Captures)
  /\ tx_lost \subseteq Captures
  /\ rx_queue \in Queues /\ tx_queue \in Queues
  /\ lock \in {"free", "poll", "tx"}
  /\ pc \in [Readers -> {"idle", "rx", "rxinfo", "tx", "find", "lock", "wait"}]
  /\ ts \in [Readers -> Captures]
  /\ rx_pending \in Seq(Captures) /\ tx_timestamp \in Seq(Captures)
  /\ tx_skb \in Captures
  /\ tries \in 0 .. Retries - 1 /\ tx_count \in Nat
  /\ irq_ptp \in BOOLEAN /\ ptp_mode \in 0 .. 2
  /\ cleans \in 0 .. MaxIoctls /\ modes \in 0 .. MaxIoctls
  /\ legacy \in BOOLEAN
  /\ seen \in [rx : Nat, tx : Nat]
  /\ rx_stamps \subseteq Stamps /\ tx_stamps \subseteq Stamps

(***************************************************************************)
(* "MsgInfo must be read only once and needs to be the last register to    *)
(* read" (ax_switch.c:567, 618, 648): no queue item joins the time stamps  *)
(* of one capture to the sequence id of another.                           *)
(***************************************************************************)
CaptureIntact ==
  \A q \in {rx_queue, tx_queue} : \A i \in 0 .. q.num_items - 1 :
    Newest(q, i).ts = Newest(q, i).info

(***************************************************************************)
(* A received frame gets the stamp of its own capture, never another's; it *)
(* goes up without one only in an invalid mode, or when QSize younger      *)
(* frames were captured before it was looked up.  User space, which does   *)
(* not take the lock of the drains, finds every one of the last QSize      *)
(* frames drained at any moment.                                           *)
(***************************************************************************)
RxStampExact ==
  ~legacy /\ cleans = 0 =>
    /\ \A s \in rx_stamps :
         s.stamp = IF s.valid /\ s.seen - s.frame < QSize THEN s.frame ELSE None
    /\ LET drained == received - Len(rx_fifo)
       IN \A n \in 1 .. drained :
            drained - n < QSize => ax_get_sync_rx_timestamp(n) = n

(* The frames captured last when the loop saw the transmit FIFO empty. *)
LastCaptured(n) ==
  {tx_captured[i] : i \in {j \in 1 .. n : n - j < QSize}}

(***************************************************************************)
(* A sent frame gets its own stamp whenever it was captured before the     *)
(* last retry and no QSize frames were since.  Otherwise it gets none, or, *)
(* as items stay in the queue, that of an older frame whose sequence id    *)
(* has come round again.  User space, asking for one of the last QSize     *)
(* frames drained, finds it, or a younger one of these with its id, which  *)
(* can be when frames between them were dropped.                           *)
(***************************************************************************)
TxStampExact ==
  /\ TypeOK
  /\ \A s \in tx_stamps :
    LET last == LastCaptured(s.seen)
    IN IF s.valid /\ s.frame \in last
       THEN s.stamp = s.frame
       ELSE \/ s.stamp = None
            \/ s.stamp \in last /\ s.stamp < s.frame
  /\ LET last == LastCaptured(Len(tx_captured) - Len(tx_fifo))
     IN \A n \in last : LET c == ax_get_sync_tx_timestamp(n)
                        IN c \in last /\ c >= n /\ SeqId(c) = SeqId(n)
=============================================================================
