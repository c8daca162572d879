-------------------------- MODULE TimestampsProofs --------------------------
(***************************************************************************)
(* Proofs about Timestamps for every number of ports, every queue size,    *)
(* ring size and number of retries, with MSI-X and without.                *)
(***************************************************************************)
EXTENDS Timestamps, TLAPS, FiniteSetTheorems, WellFoundedInduction

(* A TS_QUEUE that has been given the captures f[1], ..., f[d] holds the    *)
(* last of them, as many as fit, each whole.                                *)
Item(n)  == [ts |-> n, info |-> n]
Count(d) == IF d < QSize THEN d ELSE QSize
Holds(q, f, d) ==
  /\ q.num_items = Count(d)
  /\ \A i \in 0 .. Count(d) - 1 : Newest(q, i) = Item(f[d - i])

SameId(m, n) == Port(m) = Port(n) /\ SeqId(m) = SeqId(n)

-----------------------------------------------------------------------------
(* Two captures with one port and one sequence id are a whole round of the  *)
(* sequence ids apart.                                                      *)
LEMMA IdsApart ==
  ASSUME NEW a \in Nat, NEW b \in Nat, a < b, SameId(a, b)
  PROVE  b - a >= Ports * NumSeqs
<1> DEFINE qa == a \div Ports
           qb == b \div Ports
           r  == a % Ports
           ra == qa \div NumSeqs
           rb == qb \div NumSeqs
           s  == qa % NumSeqs
<1>0. Ports \in Nat \ {0} /\ NumSeqs \in Nat \ {0}
  BY TimestampsAssumption
<1>1. /\ qa \in Nat /\ qb \in Nat /\ r \in Nat
      /\ a = qa * Ports + r /\ b = qb * Ports + r
  <2>1. b % Ports = r
    BY DEF SameId, Port
  <2> QED
    BY <1>0, <2>1
<1>2. qa % NumSeqs = qb % NumSeqs
  BY DEF SameId, SeqId
<1> HIDE DEF qa, qb, r
<1>3. /\ ra \in Nat /\ rb \in Nat /\ s \in Nat
      /\ qa = ra * NumSeqs + s /\ qb = rb * NumSeqs + s
  BY <1>0, <1>1, <1>2
<1> HIDE DEF ra, rb, s
<1>4. qa < qb
  <2>1. ASSUME qb <= qa PROVE FALSE
    <3>1. qb * Ports <= qa * Ports
      BY <1>0, <1>1, <2>1
    <3> QED
      BY <1>0, <1>1, <3>1
  <2> QED
    BY <1>1, <2>1
<1>5. rb >= ra + 1
  <2>1. ASSUME rb <= ra PROVE FALSE
    <3>1. rb * NumSeqs <= ra * NumSeqs
      BY <1>0, <1>3, <2>1
    <3> QED
      BY <1>0, <1>3, <1>4, <3>1
  <2> QED
    BY <1>3, <2>1
<1>6. rb * NumSeqs >= (ra + 1) * NumSeqs /\ (ra + 1) * NumSeqs = ra * NumSeqs + NumSeqs
  BY <1>0, <1>3, <1>5
<1>7. qb >= qa + NumSeqs
  BY <1>0, <1>1, <1>3, <1>6
<1>8. qb * Ports >= (qa + NumSeqs) * Ports /\ (qa + NumSeqs) * Ports = qa * Ports + Ports * NumSeqs
  BY <1>0, <1>1, <1>7
<1> QED
  BY <1>0, <1>1, <1>8

(* Where the i-th newest item of a queue is. *)
LEMMA Slot ==
  ASSUME NEW w \in 0 .. QSize - 1, NEW i \in 0 .. QSize - 1
  PROVE  (w - 1 - i + QSize) % QSize = IF i < w THEN w - 1 - i ELSE w - 1 - i + QSize
<1>0. QSize \in Nat \ {0}
  BY TimestampsAssumption
<1>1. CASE i < w
  <2> DEFINE m == w - 1 - i
  <2>1. m \in 0 .. QSize - 1 /\ w - 1 - i + QSize = m + QSize
    BY <1>0, <1>1
  <2> HIDE DEF m
  <2>2. (m + QSize) % QSize = m
    BY <1>0, <2>1
  <2> QED
    BY <1>1, <2>1, <2>2 DEF m
<1>2. CASE ~(i < w)
  <2> DEFINE m == w - 1 - i + QSize
  <2>1. m \in 0 .. QSize - 1
    BY <1>0, <1>2
  <2> HIDE DEF m
  <2>2. m % QSize = m
    BY <1>0, <2>1
  <2> QED
    BY <1>2, <2>2 DEF m
<1> QED
  BY <1>1, <1>2

(* Insert makes the item the newest one and every other one older by one. *)
LEMMA InsertItem ==
  ASSUME NEW q \in Queues, NEW item \in Items
  PROVE  /\ Insert(q, item) \in Queues
         /\ Insert(q, item).num_items = IF q.num_items < QSize THEN q.num_items + 1 ELSE q.num_items
         /\ Newest(Insert(q, item), 0) = item
         /\ \A i \in 0 .. QSize - 2 : Newest(Insert(q, item), i + 1) = Newest(q, i)
<1> DEFINE w  == q.write_ptr
           nw == IF w + 1 = QSize THEN 0 ELSE w + 1
           t  == Insert(q, item)
<1>0. QSize \in Nat \ {0}
  BY TimestampsAssumption
<1>1. /\ w \in 0 .. QSize - 1 /\ q.num_items \in 0 .. QSize
      /\ q.items \in [0 .. QSize - 1 -> Items]
  BY DEF Queues
<1>2. /\ t.items = [q.items EXCEPT ![w] = item] /\ t.write_ptr = nw
      /\ t.num_items = IF q.num_items < QSize THEN q.num_items + 1 ELSE q.num_items
  BY DEF Insert, Queues
<1>3. t \in Queues
  <2>1. nw \in 0 .. QSize - 1 /\ t.num_items \in 0 .. QSize
    BY <1>0, <1>1, <1>2
  <2>2. t.items \in [0 .. QSize - 1 -> Items]
    BY <1>1, <1>2
  <2>3. DOMAIN q = {"items", "write_ptr", "num_items"}
    BY DEF Queues
  <2>4. ASSUME NEW z, z = Insert(q, item)
        PROVE  z = [items |-> z.items, write_ptr |-> z.write_ptr, num_items |-> z.num_items]
    BY <2>3, <2>4 DEF Insert
  <2>5. t = [items |-> t.items, write_ptr |-> t.write_ptr, num_items |-> t.num_items]
    BY <2>4, Zenon
  <2> QED
    BY <1>2, <2>1, <2>2, <2>5 DEF Queues
<1>4. nw \in 0 .. QSize - 1
  BY <1>0, <1>1
<1>5. Newest(t, 0) = item
  <2>1. (nw - 1 - 0 + QSize) % QSize = IF 0 < nw THEN nw - 1 - 0 ELSE nw - 1 - 0 + QSize
    BY <1>0, <1>4, Slot
  <2>2. (nw - 1 - 0 + QSize) % QSize = w
    BY <1>0, <1>1, <2>1
  <2> QED
    BY <1>1, <1>2, <2>2 DEF Newest
<1>6. ASSUME NEW i \in 0 .. QSize - 2 PROVE Newest(t, i + 1) = Newest(q, i)
  <2> DEFINE s == IF i < w THEN w - 1 - i ELSE w - 1 - i + QSize
             j == i + 1
  <2>1. i \in 0 .. QSize - 1 /\ j \in 0 .. QSize - 1
    BY <1>0
  <2>2. (w - 1 - i + QSize) % QSize = s
    BY <1>1, <2>1, Slot, Zenon
  <2>3. (nw - 1 - j + QSize) % QSize = IF j < nw THEN nw - 1 - j ELSE nw - 1 - j + QSize
    BY <1>4, <2>1, Slot, Zenon
  <2>4. (IF j < nw THEN nw - 1 - j ELSE nw - 1 - j + QSize) = s
    BY <1>0, <1>1
  <2>5. s \in 0 .. QSize - 1 /\ s # w
    BY <1>0, <1>1
  <2>6. Newest(q, i) = q.items[s]
    BY <2>2, Zenon DEF Newest
  <2>7. Newest(t, j) = t.items[s]
    BY <1>2, <2>3, <2>4, Zenon DEF Newest
  <2> HIDE DEF s
  <2> QED
    BY <1>1, <1>2, <2>5, <2>6, <2>7
<1> QED
  BY <1>2, <1>3, <1>5, <1>6

(* A queue that is given the next capture holds it too. *)
LEMMA InsertHolds ==
  ASSUME NEW q \in Queues, NEW f, NEW d \in Nat, Holds(q, f, d), f[d + 1] \in Captures
  PROVE  /\ Insert(q, Item(f[d + 1])) \in Queues
         /\ Holds(Insert(q, Item(f[d + 1])), f, d + 1)
<1> DEFINE item == Item(f[d + 1])
           t    == Insert(q, item)
<1>0. QSize \in Nat \ {0}
  BY TimestampsAssumption
<1>1. item \in Items
  BY DEF Item, Items
<1> HIDE DEF item
<1>2. /\ t \in Queues
      /\ t.num_items = IF q.num_items < QSize THEN q.num_items + 1 ELSE q.num_items
      /\ Newest(t, 0) = item
      /\ \A i \in 0 .. QSize - 2 : Newest(t, i + 1) = Newest(q, i)
  BY <1>1, InsertItem
<1> HIDE DEF t
<1>3. q.num_items = Count(d) /\ \A i \in 0 .. Count(d) - 1 : Newest(q, i) = Item(f[d - i])
  BY DEF Holds
<1>4. t.num_items = Count(d + 1)
  BY <1>0, <1>2, <1>3 DEF Count
<1>5. ASSUME NEW i \in 0 .. Count(d + 1) - 1 PROVE Newest(t, i) = Item(f[d + 1 - i])
  <2>1. CASE i = 0
    <3>1. d + 1 - 0 = d + 1
      OBVIOUS
    <3> QED
      BY <1>2, <2>1, <3>1 DEF item
  <2>2. CASE i # 0
    <3> DEFINE j == i - 1
    <3>1. /\ j \in 0 .. QSize - 2 /\ j \in 0 .. Count(d) - 1
          /\ i = j + 1 /\ d + 1 - i = d - j
      BY <1>0, <2>2 DEF Count
    <3> HIDE DEF j
    <3>2. Newest(t, j + 1) = Newest(q, j) /\ Newest(q, j) = Item(f[d - j])
      BY <1>2, <1>3, <3>1
    <3> QED
      BY <3>1, <3>2
  <2> QED
    BY <2>1, <2>2
<1> QED
  BY <1>2, <1>4, <1>5 DEF Holds, t, item

(* Only the captures that were given count. *)
LEMMA HoldsSame ==
  ASSUME NEW q, NEW f, NEW g, NEW d \in Nat, Holds(q, f, d), \A k \in 1 .. d : f[k] = g[k]
  PROVE  Holds(q, g, d)
<1>1. ASSUME NEW i \in 0 .. Count(d) - 1 PROVE d - i \in 1 .. d
  BY TimestampsAssumption DEF Count
<1> QED
  BY <1>1 DEF Holds

(* A set of natural numbers that is not empty has a least element. *)
LEMMA LeastNat ==
  ASSUME NEW S \in SUBSET Nat, S # {}
  PROVE  \E i \in S : \A j \in S : i <= j
<1> DEFINE R == OpToRel(<, Nat)
<1>1. IsWellFoundedOn(R, Nat)
  BY NatLessThanWellFounded
<1>2. \A x, y \in Nat : y < x => <<y, x>> \in R
  BY DEF OpToRel
<1> HIDE DEF R
<1>3. PICK x \in S : \A y \in S : ~(<<y, x>> \in R)
  BY <1>1, WFMin
<1>4. ASSUME NEW y \in S PROVE x <= y
  <2>1. x \in Nat /\ y \in Nat /\ ~(y < x)
    BY <1>2, <1>3
  <2> QED
    BY <2>1
<1> QED
  BY <1>4

(* Find gives the newest capture in the queue with the port and sequence id *)
(* asked for, if there is one.                                              *)
LEMMA FindHolds ==
  ASSUME NEW q, NEW f, NEW d \in Nat, Holds(q, f, d), NEW n,
         \A k \in 1 .. d : f[k] \in Nat \ {0}
  PROVE  \/ /\ Find(q, n) = None
            /\ \A k \in 1 .. d : d - k < QSize => ~SameId(f[k], n)
         \/ \E k \in 1 .. d :
              /\ d - k < QSize /\ Find(q, n) = f[k] /\ SameId(f[k], n)
              /\ \A j \in k + 1 .. d : ~SameId(f[j], n)
<1> DEFINE hits == {i \in 0 .. q.num_items - 1 : Matches(Newest(q, i), n)}
<1>0. QSize \in Nat \ {0}
  BY TimestampsAssumption
<1>1. q.num_items = Count(d) /\ Count(d) \in Nat /\ Count(d) <= d /\ Count(d) <= QSize
  BY <1>0 DEF Holds, Count
<1>2. ASSUME NEW i \in 0 .. Count(d) - 1
      PROVE  /\ d - i \in 1 .. d /\ Newest(q, i).ts = f[d - i]
             /\ Matches(Newest(q, i), n) <=> SameId(f[d - i], n)
  <2>1. d - i \in 1 .. d
    BY <1>1
  <2>2. Newest(q, i) = Item(f[d - i])
    BY DEF Holds
  <2>3. Newest(q, i).ts = f[d - i] /\ Newest(q, i).info = f[d - i]
    BY <2>2 DEF Item
  <2>4. f[d - i] # None
    BY <2>1 DEF None
  <2> QED
    BY <2>1, <2>3, <2>4 DEF Matches, SameId
<1>3. ASSUME NEW k \in 1 .. d, d - k < QSize, SameId(f[k], n) PROVE d - k \in hits
  <2> DEFINE i == d - k
  <2>1. i \in 0 .. Count(d) - 1 /\ d - i = k
    BY <1>0, <1>3 DEF Count
  <2> HIDE DEF i
  <2>2. Matches(Newest(q, i), n)
    BY <1>2, <1>3, <2>1
  <2> QED
    BY <1>1, <2>1, <2>2 DEF i
<1>4. CASE hits = {}
  <2>1. Find(q, n) = None
    BY <1>4 DEF Find
  <2> QED
    BY <1>3, <1>4, <2>1
<1>5. CASE hits # {}
  <2> DEFINE i == CHOOSE i \in hits : \A j \in hits : i <= j
  <2>1. hits \in SUBSET Nat
    BY <1>1
  <2>2. i \in hits /\ \A j \in hits : i <= j
    <3> HIDE DEF hits
    <3>1. \E h \in hits : \A j \in hits : h <= j
      BY <1>5, <2>1, LeastNat
    <3> QED
      BY <3>1
  <2>3. Find(q, n) = Newest(q, i).ts
    BY <1>5 DEF Find
  <2> HIDE DEF i
  <2>4. i \in 0 .. Count(d) - 1 /\ Matches(Newest(q, i), n)
    BY <1>1, <2>2
  <2>5. d - i \in 1 .. d /\ Find(q, n) = f[d - i] /\ SameId(f[d - i], n) /\ d - (d - i) < QSize
    <3>1. d - i \in 1 .. d /\ Newest(q, i).ts = f[d - i] /\ SameId(f[d - i], n)
      BY <1>2, <2>4
    <3>2. d - (d - i) < QSize
      BY <1>0, <1>1, <2>4
    <3> QED
      BY <2>3, <3>1, <3>2
  <2>6. ASSUME NEW j \in d - i + 1 .. d, SameId(f[j], n) PROVE FALSE
    <3>1. j \in 1 .. d /\ d - j < QSize /\ d - j < i
      BY <1>0, <1>1, <2>4
    <3>2. d - j \in hits
      BY <1>3, <2>6, <3>1
    <3> HIDE DEF hits
    <3> QED
      BY <2>1, <2>2, <3>1, <3>2
  <2> QED
    BY <2>5, <2>6
<1> QED
  BY <1>4, <1>5

-----------------------------------------------------------------------------
(* Frames are numbered in the order they come, whatever the readers do: the *)
(* FIFO and the ring hold the last ones received, and what is on its way to *)
(* the wire or waits for a stamp the last ones sent.                        *)
RxNumbers ==
  /\ received + Sent <= MaxFrames
  /\ Len(rx_fifo) <= received
  /\ \A i \in 1 .. Len(rx_fifo) : rx_fifo[i] = received - Len(rx_fifo) + i
  /\ Len(rx_pending) <= received /\ Len(rx_pending) <= RxSlots
  /\ \A i \in 1 .. Len(rx_pending) : rx_pending[i] = received - Len(rx_pending) + i

TxNumbers ==
  /\ tx_lost \subseteq 1 .. Sent - Len(tx_wire)
  /\ \A i \in 1 .. Len(tx_wire) : tx_wire[i] = Sent - Len(tx_wire) + i
  /\ \A i \in 1 .. Len(tx_captured) : tx_captured[i] \in 1 .. Sent - Len(tx_wire)
  /\ \A i, j \in 1 .. Len(tx_captured) : i < j => tx_captured[i] < tx_captured[j]
  /\ Len(tx_fifo) <= Len(tx_captured)
  /\ \A i \in 1 .. Len(tx_fifo) :
       tx_fifo[i] = tx_captured[Len(tx_captured) - Len(tx_fifo) + i]

SkbNumbers ==
  /\ Len(tx_timestamp) + (IF tx_skb = None THEN 0 ELSE 1) <= TxSlots
  /\ Len(tx_timestamp) + (IF tx_skb = None THEN 0 ELSE 1) <= Sent
  /\ \A i \in 1 .. Len(tx_timestamp) : tx_timestamp[i] = Sent - Len(tx_timestamp) + i
  /\ tx_skb # None => tx_skb = Sent - Len(tx_timestamp)

(* Who holds txrx_timestamp_lock: the poll, and with MSI-X the transmit     *)
(* side, wherever they read a FIFO.                                         *)
Draining == {"rx", "rxinfo", "tx"}
LockShape ==
  /\ pc["poll"] \in {"idle", "rx", "rxinfo", "find"}
  /\ pc["poll"] # "idle" <=> lock = "poll"
  /\ lock = "tx" => pc["tx"] \in Draining
  /\ ~legacy => pc["tx"] # "wait" /\ (pc["tx"] \in Draining => lock = "tx")
  /\ tx_skb # None <=> pc["tx"] \in {"lock", "find"} \/ lock = "tx"
  /\ pc["poll"] # "idle" => rx_pending # <<>>

(* What was popped off either FIFO is in its queue, and a reader about to   *)
(* read MsgInfo has the head of the capture it will pop.                    *)
Whole == [n \in Nat |-> n]
RxDrained == received - Len(rx_fifo)
TxDrained == Len(tx_captured) - Len(tx_fifo)

RxQueueShape ==
  ~legacy /\ cleans = 0 =>
    /\ Holds(rx_queue, Whole, RxDrained)
    /\ \A r \in Readers : pc[r] = "rxinfo" => rx_fifo # <<>> /\ ts[r] = Head(rx_fifo)
    /\ pc["poll"] = "find" => seen.rx = RxDrained /\ Head(rx_pending) <= seen.rx

TxQueueShape ==
  /\ Holds(tx_queue, tx_captured, TxDrained)
  /\ pc["tx"] = "find" => seen.tx = TxDrained

(* The stamps that were given out. *)
RxStamped ==
  ~legacy /\ cleans = 0 => \A s \in rx_stamps :
    s.stamp = IF s.valid /\ s.seen - s.frame < QSize THEN s.frame ELSE None

TxStamp(s) ==
  LET last == LastCaptured(s.seen)
  IN IF s.valid /\ s.frame \in last THEN s.stamp = s.frame
     ELSE s.stamp = None \/ (s.stamp \in last /\ s.stamp < s.frame)
TxStamped == \A s \in tx_stamps : s.seen <= Len(tx_captured) /\ TxStamp(s)

StampInv ==
  /\ TypeOK /\ RxNumbers /\ TxNumbers /\ SkbNumbers /\ LockShape
  /\ RxQueueShape /\ TxQueueShape /\ RxStamped /\ TxStamped

-----------------------------------------------------------------------------
(* What a lookup gives is a capture or none. *)
LEMMA FindType ==
  ASSUME NEW q \in Queues, NEW n
  PROVE  Find(q, n) \in Captures
<1> DEFINE hits == {i \in 0 .. q.num_items - 1 : Matches(Newest(q, i), n)}
           i    == CHOOSE i \in hits : \A j \in hits : i <= j
<1>0. QSize \in Nat \ {0} /\ MaxFrames \in Nat
  BY TimestampsAssumption
<1>1. /\ q.num_items \in 0 .. QSize /\ q.write_ptr \in 0 .. QSize - 1
      /\ q.items \in [0 .. QSize - 1 -> Items]
  BY DEF Queues
<1>2. CASE hits = {}
  BY <1>0, <1>2 DEF Find, Captures, None
<1>3. CASE hits # {}
  <2>1. hits \in SUBSET Nat
    BY <1>0, <1>1
  <2>2. i \in hits
    <3> HIDE DEF hits
    <3>1. \E h \in hits : \A j \in hits : h <= j
      BY <1>3, <2>1, LeastNat
    <3> QED
      BY <3>1
  <2>3. Find(q, n) = Newest(q, i).ts
    BY <1>3 DEF Find
  <2> HIDE DEF i
  <2>4. (q.write_ptr - 1 - i + QSize) % QSize \in 0 .. QSize - 1
    BY <1>0, <1>1, <2>1, <2>2
  <2>5. Newest(q, i) \in Items
    BY <1>1, <2>4 DEF Newest
  <2> QED
    BY <2>3, <2>5 DEF Items
<1> QED
  BY <1>2, <1>3

(* The number of frames sent is a number. *)
LEMMA SentType ==
  ASSUME TypeOK
  PROVE  /\ Sent \in Nat /\ IsFiniteSet(tx_lost) /\ Cardinality(tx_lost) \in Nat
         /\ Len(tx_wire) \in Nat /\ Len(tx_captured) \in Nat
         /\ Sent = Len(tx_captured) + Cardinality(tx_lost) + Len(tx_wire)
<1>1. MaxFrames \in Nat /\ IsFiniteSet(0 .. MaxFrames)
  BY FS_Interval, TimestampsAssumption
<1>2. IsFiniteSet(tx_lost)
  BY <1>1, FS_Subset DEF TypeOK, Captures
<1>3. Cardinality(tx_lost) \in Nat
  BY <1>2, FS_CardinalityType
<1>4. Len(tx_wire) \in Nat /\ Len(tx_captured) \in Nat
  BY DEF TypeOK
<1> QED
  BY <1>2, <1>3, <1>4 DEF Sent

(* Every step keeps the types; the frames there are have numbers. *)
LEMMA TypeStep ==
  ASSUME TypeOK, RxNumbers, LockShape, [Next]_vars
  PROVE  TypeOK'
<1> USE DEF TypeOK
<1> DEFINE PCs == [Readers -> {"idle", "rx", "rxinfo", "tx", "find", "lock", "wait"}]
<1>0. /\ MaxFrames \in Nat /\ MaxIoctls \in Nat /\ Retries \in Nat \ {0} /\ None \in Captures
      /\ Sent \in Nat
  <2>1. MaxFrames \in Nat /\ MaxIoctls \in Nat /\ Retries \in Nat \ {0}
    BY TimestampsAssumption
  <2>2. None \in Captures
    BY <2>1 DEF Captures, None
  <2> QED
    BY <2>1, <2>2, SentType
<1>1. received \in Captures
  BY <1>0 DEF RxNumbers, Captures
<1>2. CASE UNCHANGED vars
  BY <1>2 DEF vars, hw, queues, ioctls, txside, hist
<1>3. CASE HwReceive
  <2>1. received + 1 \in Captures
    BY <1>0, <1>3 DEF HwReceive, Captures
  <2> QED
    BY <1>3, <2>1 DEF HwReceive, queues, ioctls, txside, hist
<1>4. CASE Transmit
  <2>1. Sent + 1 \in Captures
    BY <1>0, <1>4 DEF Transmit, Captures
  <2> HIDE DEF Sent
  <2> QED
    BY <1>4, <2>1 DEF Transmit, queues, ioctls, hist
<1>5. CASE HwCapture
  BY <1>5 DEF HwCapture, queues, ioctls, hist
<1>6. CASE HwDrop
  BY <1>6 DEF HwDrop, queues, ioctls, txside, hist
<1>7. CASE ioctl_clean_FIFO
  BY <1>0, <1>7 DEF ioctl_clean_FIFO, queues, txside, hist
<1>8. ASSUME NEW m \in 0 .. 2, ax_gptp_set_ptp_mode(m) PROVE TypeOK'
  BY <1>0, <1>8 DEF ax_gptp_set_ptp_mode, hw, queues, txside, hist
<1>9. ASSUME NEW r \in Readers, RxHead(r) PROVE TypeOK'
  BY <1>9 DEF RxHead, Goto, hw, queues, txside, ioctls, hist
<1>10. ASSUME NEW r \in Readers, RxInfo(r) PROVE TypeOK'
  <2>1. PICK info \in IF rx_fifo # <<>> THEN {Head(rx_fifo)} ELSE 0 .. received :
          rx_queue' = Insert(rx_queue, [ts |-> ts[r], info |-> info])
    BY <1>10 DEF RxInfo
  <2>2. info \in Captures
    BY <1>0, <1>1, <2>1 DEF Captures
  <2>3. [ts |-> ts[r], info |-> info] \in Items
    BY <2>2 DEF Items
  <2>4. rx_queue' \in Queues
    BY <2>1, <2>3, InsertItem
  <2> QED
    BY <1>10, <2>4 DEF RxInfo, Goto, txside, ioctls, hist
<1>11. ASSUME NEW r \in Readers, RxEmpty(r) PROVE TypeOK'
  BY <1>11 DEF RxEmpty, Goto, hw, queues, txside, ioctls
<1>12. CASE TxPop
  <2>1. Head(tx_fifo) \in Captures
    BY <1>12 DEF TxPop
  <2>2. [ts |-> Head(tx_fifo), info |-> Head(tx_fifo)] \in Items
    BY <2>1 DEF Items
  <2>3. tx_queue' \in Queues
    BY <1>12, <2>2, InsertItem DEF TxPop
  <2> QED
    BY <1>12, <2>3 DEF TxPop, ioctls, hist
<1>13. CASE TxEmpty
  <2>1. lock' \in {"free", lock} /\ pc' \in PCs
    BY <1>13 DEF TxEmpty, Goto
  <2>2. seen' \in [rx : Nat, tx : Nat]
    <3>1. Len(tx_captured) \in Nat /\ seen \in [rx : Nat, tx : Nat]
      OBVIOUS
    <3>2. seen' = [seen EXCEPT !.tx = Len(tx_captured)]
      BY <1>13 DEF TxEmpty
    <3> HIDE DEF TypeOK
    <3> QED
      BY <3>1, <3>2
  <2> QED
    BY <1>13, <2>1, <2>2 DEF TxEmpty, hw, queues, txside, ioctls
<1>14. CASE PollLock
  BY <1>14 DEF PollLock, Goto, hw, queues, txside, ioctls, hist
<1>15. CASE PollFind
  <2> DEFINE c == IF ValidMode THEN Find(rx_queue, Head(rx_pending)) ELSE None
  <2>1. c \in Captures /\ ValidMode \in BOOLEAN
    BY <1>0, FindType DEF ValidMode
  <2>2. rx_pending' \in Seq(Captures)
    BY <1>15 DEF PollFind, LockShape
  <2>3. Head(rx_pending) \in Captures /\ seen.rx \in Nat
    BY <1>15 DEF PollFind, LockShape
  <2> DEFINE s == [frame |-> Head(rx_pending), stamp |-> c, seen |-> seen.rx, valid |-> ValidMode]
  <2>4. s \in Stamps
    BY <2>1, <2>3 DEF Stamps
  <2>5. rx_stamps' = rx_stamps \cup {s}
    BY <1>15 DEF PollFind
  <2> HIDE DEF s
  <2> QED
    BY <1>15, <2>2, <2>4, <2>5 DEF PollFind, Goto, hw, queues, txside, ioctls
<1>16. CASE IrqStart
  BY <1>16 DEF IrqStart, Goto, hw, queues, ioctls, hist
<1>17. CASE IrqReturn
  BY <1>17 DEF IrqReturn, Goto, hw, queues, txside, ioctls, hist
<1>18. CASE Dequeue
  <2>1. tx_skb' \in Captures /\ tx_timestamp' \in Seq(Captures)
    BY <1>18 DEF Dequeue
  <2>2. tries' \in 0 .. Retries - 1
    BY <1>0, <1>18 DEF Dequeue
  <2>3. pc' \in PCs
    BY <1>18 DEF Dequeue, Goto
  <2> QED
    BY <1>18, <2>1, <2>2, <2>3 DEF Dequeue, hw, queues, ioctls, hist
<1>19. CASE TxLock
  BY <1>19 DEF TxLock, Goto, hw, queues, txside, ioctls, hist
<1>20. CASE TxFind
  <2> DEFINE c == IF ValidMode THEN Find(tx_queue, tx_skb) ELSE None
             s == [frame |-> tx_skb, stamp |-> c, seen |-> seen.tx, valid |-> ValidMode]
  <2>1. s \in Stamps
    <3>1. c \in Captures /\ ValidMode \in BOOLEAN
      BY <1>0, FindType DEF ValidMode
    <3> QED
      BY <3>1 DEF Stamps
  <2>2. tx_stamps' \in {tx_stamps, tx_stamps \cup {s}}
    BY <1>20 DEF TxFind
  <2>3. tx_skb' \in Captures
    BY <1>0, <1>20 DEF TxFind
  <2>4. pc' \in PCs
    <3>1. \E l \in {"lock", "wait", "idle"} : pc' = [pc EXCEPT !["tx"] = l]
      BY <1>20 DEF TxFind, Goto
    <3> QED
      BY <3>1
  <2>5. tries' \in 0 .. Retries - 1
    BY <1>0, <1>20 DEF TxFind
  <2> HIDE DEF s
  <2> QED
    BY <1>20, <2>1, <2>2, <2>3, <2>4, <2>5 DEF TxFind, hw, queues, ioctls
<1> QED
  BY <1>2, <1>3, <1>4, <1>5, <1>6, <1>7, <1>8, <1>9, <1>10, <1>11, <1>12, <1>13, <1>14,
     <1>15, <1>16, <1>17, <1>18, <1>19, <1>20 DEF Next

-----------------------------------------------------------------------------
(* The steps that move no frame, no skb and no stamp. *)
Still == UNCHANGED <<hw, queues, rx_pending, tx_timestamp, tx_skb, cleans, legacy,
                     rx_stamps, tx_stamps>>

(* A step is one of the others or moves nothing. *)
LEMMA NextCases ==
  ASSUME [Next]_vars
  PROVE  \/ HwReceive \/ Transmit \/ HwCapture \/ HwDrop \/ ioctl_clean_FIFO
         \/ (\E r \in Readers : RxInfo(r)) \/ TxPop \/ PollFind \/ Dequeue \/ TxFind
         \/ Still
<1> USE DEF Still
<1>1. UNCHANGED vars => Still
  BY DEF vars, ioctls, txside, hist
<1>2. ASSUME NEW m \in 0 .. 2, ax_gptp_set_ptp_mode(m) PROVE Still
  BY <1>2 DEF ax_gptp_set_ptp_mode, txside, hist
<1>3. ASSUME NEW r \in Readers, RxHead(r) PROVE Still
  BY <1>3 DEF RxHead, txside, ioctls, hist
<1>4. ASSUME NEW r \in Readers, RxEmpty(r) PROVE Still
  BY <1>4 DEF RxEmpty, txside, ioctls
<1>5. TxEmpty => Still
  BY DEF TxEmpty, txside, ioctls
<1>6. PollLock => Still
  BY DEF PollLock, txside, ioctls, hist
<1>7. IrqStart => Still
  BY DEF IrqStart, ioctls, hist
<1>8. IrqReturn => Still
  BY DEF IrqReturn, txside, ioctls, hist
<1>9. TxLock => Still
  BY DEF TxLock, txside, ioctls, hist
<1> QED
  BY <1>1, <1>2, <1>3, <1>4, <1>5, <1>6, <1>7, <1>8, <1>9 DEF Next

(* Only Transmit sends: a frame that leaves or is dropped was counted. *)
LEMMA SentStep ==
  ASSUME TypeOK, TxNumbers, TypeOK'
  PROVE  /\ Transmit => Sent' = Sent + 1
         /\ HwCapture \/ HwDrop => Sent' = Sent
         /\ UNCHANGED <<tx_captured, tx_lost, tx_wire>> => Sent' = Sent
<1> DEFINE lost == Cardinality(tx_lost)
<1>0. /\ Sent \in Nat /\ Len(tx_captured) \in Nat /\ lost \in Nat /\ Len(tx_wire) \in Nat
      /\ Sent = Len(tx_captured) + lost + Len(tx_wire) /\ IsFiniteSet(tx_lost)
      /\ tx_wire \in Seq(Captures) /\ tx_captured \in Seq(Captures)
  BY SentType DEF TypeOK
<1>1. Sent' = Len(tx_captured') + Cardinality(tx_lost') + Len(tx_wire')
  BY DEF Sent
<1>2. CASE Transmit
  <2>1. Len(tx_wire') = Len(tx_wire) + 1 /\ tx_captured' = tx_captured /\ tx_lost' = tx_lost
    BY <1>0, <1>2 DEF Transmit
  <2> QED
    BY <1>0, <1>1, <1>2, <2>1 DEF Transmit, HwCapture, HwDrop
<1>3. CASE HwCapture
  <2>1. /\ Len(tx_wire') = Len(tx_wire) - 1 /\ Len(tx_captured') = Len(tx_captured) + 1
        /\ tx_lost' = tx_lost
    BY <1>0, <1>3 DEF HwCapture
  <2>2. Sent' = Sent
    BY <1>0, <1>1, <2>1
  <2>3. ~Transmit
    BY <1>0, <1>3, <2>1 DEF Transmit
  <2> QED
    BY <2>2, <2>3
<1>4. CASE HwDrop
  <2>1. /\ Len(tx_wire') = Len(tx_wire) - 1 /\ tx_captured' = tx_captured
        /\ tx_lost' = tx_lost \cup {Head(tx_wire)} /\ Len(tx_wire) > 0
        /\ Head(tx_wire) = tx_wire[1]
    BY <1>0, <1>4 DEF HwDrop
  <2>2. Head(tx_wire) \notin tx_lost
    <3> HIDE DEF lost
    <3>1. tx_wire[1] = Sent - Len(tx_wire) + 1
      BY <1>0, <2>1 DEF TxNumbers
    <3>2. tx_lost \subseteq 1 .. Sent - Len(tx_wire)
      BY DEF TxNumbers
    <3> HIDE DEF Sent
    <3> QED
      BY <1>0, <2>1, <3>1, <3>2
  <2>3. Cardinality(tx_lost') = lost + 1
    BY <1>0, <2>1, <2>2, FS_AddElement
  <2>4. Sent' = Sent
    BY <1>0, <1>1, <2>1, <2>3
  <2>5. ~Transmit
    BY <1>0, <1>4, <2>1 DEF Transmit
  <2> QED
    BY <2>4, <2>5
<1>5. UNCHANGED <<tx_captured, tx_lost, tx_wire>> => Sent' = Sent
  BY DEF Sent
<1> QED
  BY <1>2, <1>3, <1>4, <1>5

(* Received frames keep their order on the FIFO and on the ring. *)
LEMMA RxNumbersStep ==
  ASSUME TypeOK, TxNumbers, RxNumbers, LockShape, TypeOK', [Next]_vars
  PROVE  RxNumbers'
<1> DEFINE Fifo == /\ Len(rx_fifo) <= received
                   /\ \A i \in 1 .. Len(rx_fifo) : rx_fifo[i] = received - Len(rx_fifo) + i
           Ring == /\ Len(rx_pending) <= received /\ Len(rx_pending) <= RxSlots
                   /\ \A i \in 1 .. Len(rx_pending) :
                        rx_pending[i] = received - Len(rx_pending) + i
<1>0. /\ Sent \in Nat /\ received \in Nat /\ MaxFrames \in Nat /\ RxSlots \in Nat
      /\ rx_fifo \in Seq(Captures) /\ rx_pending \in Seq(Captures)
      /\ Len(rx_fifo) \in Nat /\ Len(rx_pending) \in Nat
  <2>1. MaxFrames \in Nat /\ RxSlots \in Nat
    BY TimestampsAssumption
  <2>2. received \in Nat /\ rx_fifo \in Seq(Captures) /\ rx_pending \in Seq(Captures)
    BY DEF TypeOK
  <2>3. Sent \in Nat
    BY SentType
  <2> QED
    BY <2>1, <2>2, <2>3
<1>1. Fifo /\ Ring /\ received + Sent <= MaxFrames
  BY DEF RxNumbers
<1>2. ASSUME rx_fifo # <<>>, rx_fifo' = Tail(rx_fifo), received' = received PROVE Fifo'
  <2>1. /\ Len(rx_fifo') = Len(rx_fifo) - 1
        /\ \A i \in 1 .. Len(rx_fifo) - 1 : rx_fifo'[i] = rx_fifo[i + 1]
    BY <1>0, <1>2
  <2> QED
    BY <1>0, <1>1, <1>2, <2>1
<1>3. CASE HwReceive
  <2>1. received' = received + 1 /\ received + Sent < MaxFrames /\ Len(rx_pending) < RxSlots
    BY <1>3 DEF HwReceive
  <2>2. Sent' = Sent
    BY <1>3, SentStep DEF HwReceive
  <2>3. /\ Len(rx_fifo') = Len(rx_fifo) + 1 /\ rx_fifo'[Len(rx_fifo) + 1] = received + 1
        /\ \A i \in 1 .. Len(rx_fifo) : rx_fifo'[i] = rx_fifo[i]
    BY <1>0, <1>3 DEF HwReceive
  <2>4. /\ Len(rx_pending') = Len(rx_pending) + 1 /\ rx_pending'[Len(rx_pending) + 1] = received + 1
        /\ \A i \in 1 .. Len(rx_pending) : rx_pending'[i] = rx_pending[i]
    BY <1>0, <1>3 DEF HwReceive
  <2>5. Fifo'
    <3>1. ASSUME NEW i \in 1 .. Len(rx_fifo) + 1
          PROVE  rx_fifo'[i] = received + 1 - (Len(rx_fifo) + 1) + i
      <4>1. CASE i \in 1 .. Len(rx_fifo)
        BY <1>0, <1>1, <2>3, <4>1
      <4>2. CASE i = Len(rx_fifo) + 1
        BY <1>0, <2>3, <4>2
      <4> QED
        BY <1>0, <4>1, <4>2
    <3> QED
      BY <1>0, <1>1, <2>1, <2>3, <3>1
  <2>6. Ring'
    <3>1. ASSUME NEW i \in 1 .. Len(rx_pending) + 1
          PROVE  rx_pending'[i] = received + 1 - (Len(rx_pending) + 1) + i
      <4>1. CASE i \in 1 .. Len(rx_pending)
        BY <1>0, <1>1, <2>4, <4>1
      <4>2. CASE i = Len(rx_pending) + 1
        BY <1>0, <2>4, <4>2
      <4> QED
        BY <1>0, <4>1, <4>2
    <3> QED
      BY <1>0, <1>1, <2>1, <2>4, <3>1
  <2> QED
    BY <1>0, <2>1, <2>2, <2>5, <2>6 DEF RxNumbers
<1>4. CASE Transmit \/ HwCapture \/ HwDrop
  <2>1. UNCHANGED <<rx_fifo, rx_pending, received>>
    BY <1>4 DEF Transmit, HwCapture, HwDrop
  <2>2. received' + Sent' <= MaxFrames
    <3>1. CASE Transmit
      BY <1>0, <2>1, <3>1, SentStep DEF Transmit
    <3>2. CASE HwCapture \/ HwDrop
      BY <1>1, <2>1, <3>2, SentStep
    <3> QED
      BY <1>4, <3>1, <3>2
  <2> QED
    BY <1>1, <2>1, <2>2 DEF RxNumbers
<1>5. CASE ioctl_clean_FIFO
  <2>1. Fifo'
    BY <1>2, <1>5 DEF ioctl_clean_FIFO
  <2>2. Sent' = Sent
    BY <1>5, SentStep DEF ioctl_clean_FIFO
  <2> QED
    BY <1>1, <1>5, <2>1, <2>2 DEF ioctl_clean_FIFO, RxNumbers
<1>6. ASSUME NEW r \in Readers, RxInfo(r) PROVE RxNumbers'
  <2>1. Fifo'
    <3>1. CASE rx_fifo = <<>>
      BY <1>1, <1>6, <3>1 DEF RxInfo
    <3>2. CASE rx_fifo # <<>>
      BY <1>2, <1>6, <3>2 DEF RxInfo
    <3> QED
      BY <3>1, <3>2
  <2>2. Sent' = Sent
    BY <1>6, SentStep DEF RxInfo
  <2> QED
    BY <1>1, <1>6, <2>1, <2>2 DEF RxInfo, RxNumbers
<1>7. CASE PollFind
  <2>1. rx_pending # <<>> /\ rx_pending' = Tail(rx_pending)
        /\ UNCHANGED <<rx_fifo, received, tx_captured, tx_lost, tx_wire>>
    BY <1>7 DEF PollFind, LockShape, hw
  <2>2. /\ Len(rx_pending') = Len(rx_pending) - 1
        /\ \A i \in 1 .. Len(rx_pending) - 1 : rx_pending'[i] = rx_pending[i + 1]
    BY <1>0, <2>1
  <2>3. Ring'
    BY <1>0, <1>1, <2>1, <2>2
  <2>4. Sent' = Sent
    BY <2>1, SentStep
  <2> QED
    BY <1>1, <2>1, <2>3, <2>4 DEF RxNumbers
<1>8. CASE TxPop \/ Dequeue \/ TxFind \/ Still
  <2>1. UNCHANGED <<rx_fifo, rx_pending, received, tx_captured, tx_lost, tx_wire>>
    BY <1>8 DEF TxPop, Dequeue, TxFind, Still, hw
  <2>2. Sent' = Sent
    BY <2>1, SentStep
  <2> QED
    BY <1>1, <2>1, <2>2 DEF RxNumbers
<1> QED
  BY <1>3, <1>4, <1>5, <1>6, <1>7, <1>8, NextCases

(* Sent frames keep their order on the way to the wire, among the captures  *)
(* and on the FIFO.                                                         *)
LEMMA TxNumbersStep ==
  ASSUME TypeOK, TxNumbers, TypeOK', [Next]_vars
  PROVE  TxNumbers'
<1> DEFINE left == Sent - Len(tx_wire)
           n    == Len(tx_captured)
           Lost == tx_lost \subseteq 1 .. left
           Wire == \A i \in 1 .. Len(tx_wire) : tx_wire[i] = left + i
           Capt == /\ \A i \in 1 .. n : tx_captured[i] \in 1 .. left
                   /\ \A i, j \in 1 .. n : i < j => tx_captured[i] < tx_captured[j]
           Fifo == /\ Len(tx_fifo) <= n
                   /\ \A i \in 1 .. Len(tx_fifo) : tx_fifo[i] = tx_captured[n - Len(tx_fifo) + i]
<1>0. /\ Sent \in Nat /\ tx_wire \in Seq(Captures) /\ tx_captured \in Seq(Captures)
      /\ tx_fifo \in Seq(Captures) /\ Len(tx_wire) \in Nat /\ n \in Nat /\ Len(tx_fifo) \in Nat
      /\ left \in Nat
  <2>1. tx_wire \in Seq(Captures) /\ tx_captured \in Seq(Captures) /\ tx_fifo \in Seq(Captures)
    BY DEF TypeOK
  <2>2. Sent \in Nat /\ left \in Nat
    BY SentType
  <2> QED
    BY <2>1, <2>2
<1>1. Lost /\ Wire /\ Capt /\ Fifo
  BY DEF TxNumbers
<1>2. (Lost /\ Wire /\ Capt /\ Fifo)' => TxNumbers'
  BY DEF TxNumbers
<1>3. CASE Transmit
  <2>1. Sent' = Sent + 1
    BY <1>3, SentStep
  <2>2. /\ Len(tx_wire') = Len(tx_wire) + 1 /\ tx_wire'[Len(tx_wire) + 1] = Sent + 1
        /\ \A i \in 1 .. Len(tx_wire) : tx_wire'[i] = tx_wire[i]
    BY <1>0, <1>3 DEF Transmit
  <2>3. left' = left
    BY <1>0, <2>1, <2>2
  <2>4. ASSUME NEW i \in 1 .. Len(tx_wire) + 1 PROVE tx_wire'[i] = left + i
    <3>1. CASE i \in 1 .. Len(tx_wire)
      BY <1>1, <2>2, <3>1
    <3>2. CASE i = Len(tx_wire) + 1
      BY <1>0, <2>2, <3>2
    <3> QED
      BY <1>0, <3>1, <3>2
  <2>5. Wire'
    BY <2>2, <2>3, <2>4
  <2>6. UNCHANGED <<tx_lost, tx_captured, tx_fifo>>
    BY <1>3 DEF Transmit
  <2> HIDE DEF left
  <2> QED
    BY <1>1, <1>2, <2>3, <2>5, <2>6
<1>4. CASE HwCapture \/ HwDrop
  <2>1. Sent' = Sent
    BY <1>4, SentStep
  <2>2. Len(tx_wire) > 0 /\ tx_wire' = Tail(tx_wire) /\ Head(tx_wire) = tx_wire[1]
    BY <1>0, <1>4 DEF HwCapture, HwDrop
  <2>3. /\ Len(tx_wire') = Len(tx_wire) - 1
        /\ \A i \in 1 .. Len(tx_wire) - 1 : tx_wire'[i] = tx_wire[i + 1]
    BY <1>0, <2>2
  <2>4. left' = left + 1 /\ Head(tx_wire) = left + 1
    <3>1. left' = left + 1
      BY <1>0, <2>1, <2>3
    <3>2. 1 \in 1 .. Len(tx_wire)
      BY <1>0, <2>2
    <3> HIDE DEF left
    <3> QED
      BY <1>1, <2>2, <3>1, <3>2
  <2>5. Wire'
    <3> HIDE DEF left
    <3> QED
      BY <1>0, <1>1, <2>3, <2>4
  <2>6. CASE HwDrop
    <3>1. tx_lost' = tx_lost \cup {left + 1} /\ UNCHANGED <<tx_captured, tx_fifo>>
      BY <2>4, <2>6 DEF HwDrop
    <3> HIDE DEF left
    <3>2. Lost' /\ Capt' /\ Fifo'
      BY <1>0, <1>1, <2>4, <3>1
    <3> QED
      BY <1>2, <2>5, <3>2
  <2>7. CASE HwCapture
    <3>1. /\ tx_lost' = tx_lost /\ tx_captured' = Append(tx_captured, left + 1)
          /\ tx_fifo' = Append(tx_fifo, left + 1)
      BY <2>4, <2>7 DEF HwCapture
    <3> HIDE DEF left
    <3>2. /\ Len(tx_captured') = n + 1 /\ tx_captured'[n + 1] = left + 1
          /\ \A i \in 1 .. n : tx_captured'[i] = tx_captured[i]
      BY <1>0, <3>1
    <3>3. /\ Len(tx_fifo') = Len(tx_fifo) + 1 /\ tx_fifo'[Len(tx_fifo) + 1] = left + 1
          /\ \A i \in 1 .. Len(tx_fifo) : tx_fifo'[i] = tx_fifo[i]
      BY <1>0, <3>1
    <3>4. Lost'
      BY <1>0, <1>1, <2>4, <3>1
    <3>5. Capt'
      <4>1. ASSUME NEW i \in 1 .. n + 1 PROVE tx_captured'[i] \in 1 .. left + 1
        <5>1. CASE i = n + 1
          BY <1>0, <3>2, <5>1
        <5>2. CASE i # n + 1
          <6>1. i \in 1 .. n
            BY <1>0, <5>2
          <6>2. tx_captured'[i] \in 1 .. left
            BY <1>1, <3>2, <6>1
          <6> QED
            BY <1>0, <6>2
        <5> QED
          BY <5>1, <5>2
      <4>2. ASSUME NEW i \in 1 .. n + 1, NEW j \in 1 .. n + 1, i < j
            PROVE  tx_captured'[i] < tx_captured'[j]
        <5>1. i \in 1 .. n /\ tx_captured'[i] = tx_captured[i] /\ tx_captured[i] \in 1 .. left
          BY <1>0, <1>1, <3>2, <4>2
        <5>2. CASE j = n + 1
          BY <1>0, <3>2, <5>1, <5>2
        <5>3. CASE j # n + 1
          <6>1. j \in 1 .. n
            BY <1>0, <5>3
          <6> QED
            BY <1>1, <3>2, <4>2, <5>1, <6>1
        <5> QED
          BY <5>2, <5>3
      <4> QED
        BY <2>4, <3>2, <4>1, <4>2
    <3>6. Fifo'
      <4>1. ASSUME NEW i \in 1 .. Len(tx_fifo) + 1
            PROVE  tx_fifo'[i] = tx_captured'[n + 1 - (Len(tx_fifo) + 1) + i]
        <5>1. n + 1 - (Len(tx_fifo) + 1) + i = n - Len(tx_fifo) + i
          BY <1>0
        <5>2. CASE i = Len(tx_fifo) + 1
          <6>1. n - Len(tx_fifo) + i = n + 1
            BY <1>0, <5>2
          <6> QED
            BY <3>2, <3>3, <5>1, <5>2, <6>1
        <5>3. CASE i # Len(tx_fifo) + 1
          <6>1. i \in 1 .. Len(tx_fifo) /\ n - Len(tx_fifo) + i \in 1 .. n
            BY <1>0, <1>1, <5>3
          <6> QED
            BY <1>1, <3>2, <3>3, <5>1, <6>1
        <5> QED
          BY <5>2, <5>3
      <4> QED
        <5>1. Len(tx_fifo) + 1 <= n + 1
          BY <1>0, <1>1
        <5> QED
          BY <3>2, <3>3, <4>1, <5>1
    <3> QED
      BY <1>2, <2>5, <3>4, <3>5, <3>6
  <2> QED
    BY <1>4, <2>6, <2>7
<1>5. CASE TxPop
  <2>1. /\ tx_fifo # <<>> /\ tx_fifo' = Tail(tx_fifo)
        /\ UNCHANGED <<tx_wire, tx_captured, tx_lost>>
    BY <1>5 DEF TxPop
  <2>2. Sent' = Sent
    BY <2>1, SentStep
  <2>3. /\ Len(tx_fifo') = Len(tx_fifo) - 1
        /\ \A i \in 1 .. Len(tx_fifo) - 1 : tx_fifo'[i] = tx_fifo[i + 1]
    BY <1>0, <2>1
  <2>4. ASSUME NEW i \in 1 .. Len(tx_fifo) - 1
        PROVE  tx_fifo'[i] = tx_captured[n - (Len(tx_fifo) - 1) + i]
    <3>1. i + 1 \in 1 .. Len(tx_fifo) /\ n - (Len(tx_fifo) - 1) + i = n - Len(tx_fifo) + (i + 1)
      BY <1>0
    <3> QED
      BY <1>1, <2>3, <3>1
  <2>5. Fifo'
    BY <1>0, <1>1, <2>1, <2>3, <2>4
  <2>6. Lost' /\ Wire' /\ Capt'
    BY <1>1, <2>1, <2>2
  <2> QED
    BY <1>2, <2>5, <2>6
<1>6. CASE HwReceive \/ ioctl_clean_FIFO \/ (\E r \in Readers : RxInfo(r)) \/ PollFind \/ Dequeue
           \/ TxFind \/ Still
  <2>1. UNCHANGED <<tx_fifo, tx_captured, tx_lost, tx_wire>>
    BY <1>6 DEF HwReceive, ioctl_clean_FIFO, RxInfo, PollFind, Dequeue, TxFind, Still, hw
  <2>2. Sent' = Sent
    BY <2>1, SentStep
  <2> QED
    BY <1>1, <1>2, <2>1, <2>2
<1> QED
  BY <1>3, <1>4, <1>5, <1>6, NextCases

(* The skbs that wait for their stamp are the last ones sent. *)
LEMMA SkbNumbersStep ==
  ASSUME TypeOK, TxNumbers, SkbNumbers, LockShape, TypeOK', [Next]_vars
  PROVE  SkbNumbers'
<1> DEFINE w == Len(tx_timestamp)
           h == IF tx_skb = None THEN 0 ELSE 1
<1>0. /\ Sent \in Nat /\ tx_timestamp \in Seq(Captures) /\ w \in Nat /\ TxSlots \in Nat
      /\ tx_skb \in Nat
  <2>1. tx_timestamp \in Seq(Captures) /\ tx_skb \in Nat
    BY TimestampsAssumption DEF TypeOK, Captures
  <2>2. TxSlots \in Nat
    BY TimestampsAssumption
  <2> QED
    BY <2>1, <2>2, SentType
<1>1. /\ w + h <= TxSlots /\ w + h <= Sent
      /\ \A i \in 1 .. w : tx_timestamp[i] = Sent - w + i
      /\ tx_skb # None => tx_skb = Sent - w
  BY DEF SkbNumbers
<1>2. CASE Transmit
  <2>1. Sent' = Sent + 1
    BY <1>2, SentStep
  <2>2. tx_skb' = tx_skb /\ w + h < TxSlots
    BY <1>2 DEF Transmit
  <2>3. /\ Len(tx_timestamp') = w + 1 /\ tx_timestamp'[w + 1] = Sent + 1
        /\ \A i \in 1 .. w : tx_timestamp'[i] = tx_timestamp[i]
    BY <1>0, <1>2 DEF Transmit
  <2>4. ASSUME NEW i \in 1 .. w + 1 PROVE tx_timestamp'[i] = Sent + 1 - (w + 1) + i
    <3>1. CASE i = w + 1
      BY <1>0, <2>3, <3>1
    <3>2. CASE i # w + 1
      <4>1. i \in 1 .. w /\ Sent + 1 - (w + 1) + i = Sent - w + i
        BY <1>0, <3>2
      <4> QED
        BY <1>1, <2>3, <4>1
    <3> QED
      BY <3>1, <3>2
  <2>5. Sent + 1 - (w + 1) = Sent - w
    BY <1>0
  <2> QED
    BY <1>0, <1>1, <2>1, <2>2, <2>3, <2>4, <2>5 DEF SkbNumbers
<1>3. CASE Dequeue
  <2>1. UNCHANGED <<tx_captured, tx_lost, tx_wire>>
    BY <1>3 DEF Dequeue, hw
  <2>2. Sent' = Sent
    BY <2>1, SentStep
  <2>3. /\ w > 0 /\ tx_skb' = tx_timestamp[1] /\ Len(tx_timestamp') = w - 1
        /\ \A i \in 1 .. w - 1 : tx_timestamp'[i] = tx_timestamp[i + 1]
    BY <1>0, <1>3 DEF Dequeue
  <2>4. tx_skb = None
    BY <1>3 DEF Dequeue, LockShape, Draining
  <2>5. tx_skb' = Sent - (w - 1) /\ tx_skb' # None
    BY <1>0, <1>1, <2>3 DEF None
  <2> QED
    BY <1>0, <1>1, <2>2, <2>3, <2>4, <2>5 DEF SkbNumbers
<1>4. CASE TxFind
  <2>1. UNCHANGED <<tx_captured, tx_lost, tx_wire, tx_timestamp>> /\ tx_skb' \in {tx_skb, None}
    BY <1>4 DEF TxFind, hw
  <2>2. Sent' = Sent
    BY <2>1, SentStep
  <2> QED
    BY <1>0, <1>1, <2>1, <2>2 DEF SkbNumbers
<1>5. CASE \/ HwReceive \/ HwCapture \/ HwDrop \/ ioctl_clean_FIFO
           \/ (\E r \in Readers : RxInfo(r)) \/ TxPop \/ PollFind \/ Still
  <2>1. UNCHANGED <<tx_timestamp, tx_skb>>
    BY <1>5 DEF HwReceive, HwCapture, HwDrop, ioctl_clean_FIFO, RxInfo, TxPop, PollFind, Still,
                txside
  <2>2. HwCapture \/ HwDrop \/ UNCHANGED <<tx_captured, tx_lost, tx_wire>>
    BY <1>5 DEF HwReceive, ioctl_clean_FIFO, RxInfo, TxPop, PollFind, Still, hw
  <2>3. Sent' = Sent
    BY <2>2, SentStep
  <2> QED
    BY <1>1, <2>1, <2>3 DEF SkbNumbers
<1> QED
  BY <1>2, <1>3, <1>4, <1>5, NextCases

(* The lock is taken and given back by its holder. *)
LEMMA LockStep ==
  ASSUME TypeOK, RxNumbers, SkbNumbers, LockShape, [Next]_vars
  PROVE  LockShape'
<1> USE DEF LockShape, Draining, Readers
<1>0. /\ pc \in [Readers -> {"idle", "rx", "rxinfo", "tx", "find", "lock", "wait"}]
      /\ lock \in {"free", "poll", "tx"} /\ legacy \in BOOLEAN
  BY DEF TypeOK
<1>1. CASE UNCHANGED vars
  BY <1>1 DEF vars, txside, ioctls
<1>2. CASE HwReceive
  <2>1. rx_pending' # <<>>
    BY <1>2 DEF HwReceive, TypeOK
  <2> QED
    BY <1>2, <2>1 DEF HwReceive, txside, ioctls
<1>3. CASE Transmit \/ HwCapture \/ HwDrop
  BY <1>3 DEF Transmit, HwCapture, HwDrop, txside, ioctls
<1>4. CASE ioctl_clean_FIFO \/ (\E m \in 0 .. 2 : ax_gptp_set_ptp_mode(m)) \/ TxPop
  BY <1>4 DEF ioctl_clean_FIFO, ax_gptp_set_ptp_mode, TxPop, txside, ioctls
<1>5. ASSUME NEW r \in Readers, RxHead(r) \/ RxInfo(r) \/ RxEmpty(r) PROVE LockShape'
  <2>1. UNCHANGED <<lock, rx_pending, tx_skb, legacy>>
    BY <1>5 DEF RxHead, RxInfo, RxEmpty, txside, ioctls
  <2>2. /\ pc[r] \in {"rx", "rxinfo"}
        /\ \/ pc' = [pc EXCEPT ![r] = "rxinfo"] \/ pc' = [pc EXCEPT ![r] = "rx"]
           \/ pc' = [pc EXCEPT ![r] = IF r = "poll" THEN "find" ELSE "tx"]
    BY <1>5 DEF RxHead, RxInfo, RxEmpty, Goto
  <2>3. CASE r = "poll"
    BY <1>0, <2>1, <2>2, <2>3
  <2>4. CASE r = "tx"
    BY <1>0, <2>1, <2>2, <2>4
  <2> QED
    BY <2>3, <2>4
<1>6. CASE TxEmpty
  <2>1. UNCHANGED <<rx_pending, tx_skb, legacy>> /\ pc["tx"] = "tx"
    BY <1>6 DEF TxEmpty, txside, ioctls
  <2>2. CASE lock = "tx"
    <3>1. lock' = "free" /\ pc' = [pc EXCEPT !["tx"] = "find"]
      BY <1>6, <2>2 DEF TxEmpty, Goto
    <3> QED
      BY <1>0, <2>1, <2>2, <3>1
  <2>3. CASE lock # "tx"
    <3>1. lock' = lock /\ pc' = [pc EXCEPT !["tx"] = IF tx_count = 0 THEN "idle" ELSE "wait"]
      BY <1>6, <2>3 DEF TxEmpty, Goto
    <3> QED
      BY <1>0, <2>1, <2>3, <3>1
  <2> QED
    BY <2>2, <2>3
<1>7. CASE PollLock
  BY <1>0, <1>7 DEF PollLock, Goto, txside, ioctls
<1>8. CASE PollFind
  <2>1. /\ pc["poll"] = "find" /\ lock' = "free" /\ pc' = [pc EXCEPT !["poll"] = "idle"]
        /\ UNCHANGED <<tx_skb, legacy>>
    BY <1>8 DEF PollFind, Goto, txside, ioctls
  <2> QED
    BY <1>0, <2>1
<1>9. CASE IrqStart
  <2>1. /\ pc["tx"] = "idle" /\ legacy /\ pc' = [pc EXCEPT !["tx"] = "rx"]
        /\ UNCHANGED <<tx_skb, legacy, lock, rx_pending>>
    BY <1>9 DEF IrqStart, Goto, ioctls
  <2> QED
    BY <1>0, <2>1
<1>10. CASE IrqReturn
  <2>1. /\ pc["tx"] = "wait" /\ pc' = [pc EXCEPT !["tx"] = "idle"]
        /\ UNCHANGED <<tx_skb, legacy, lock, rx_pending>>
    BY <1>10 DEF IrqReturn, Goto, txside, ioctls
  <2> QED
    BY <1>0, <2>1
<1>11. CASE Dequeue
  <2>1. /\ pc["tx"] \in {"wait", "idle"} /\ pc' = [pc EXCEPT !["tx"] = "lock"]
        /\ UNCHANGED <<legacy, lock, rx_pending>>
    BY <1>11 DEF Dequeue, Goto, ioctls
  <2>2. tx_skb' # None
    <3>1. tx_timestamp \in Seq(Captures) /\ tx_timestamp # <<>> /\ tx_skb' = tx_timestamp[1]
      BY <1>11 DEF Dequeue, TypeOK
    <3>2. Len(tx_timestamp) \in Nat /\ Len(tx_timestamp) > 0 /\ Sent \in Nat
      BY <3>1, SentType
    <3>3. tx_timestamp[1] = Sent - Len(tx_timestamp) + 1 /\ Len(tx_timestamp) <= Sent
      BY <3>2 DEF SkbNumbers
    <3> QED
      BY <3>1, <3>2, <3>3 DEF None
  <2> QED
    BY <1>0, <2>1, <2>2
<1>12. CASE TxLock
  <2>1. /\ pc["tx"] = "lock" /\ pc' = [pc EXCEPT !["tx"] = "rx"] /\ lock = "free" /\ lock' = "tx"
        /\ UNCHANGED <<tx_skb, legacy, rx_pending>>
    BY <1>12 DEF TxLock, Goto, txside, ioctls
  <2> QED
    BY <1>0, <2>1
<1>13. CASE TxFind
  <2>1. /\ pc["tx"] = "find" /\ UNCHANGED <<legacy, lock, rx_pending>>
        /\ \/ tx_skb' = tx_skb /\ pc' = [pc EXCEPT !["tx"] = "lock"]
           \/ tx_skb' = None /\ pc' = [pc EXCEPT !["tx"] = IF legacy THEN "wait" ELSE "idle"]
    BY <1>13 DEF TxFind, Goto, ioctls
  <2> QED
    BY <1>0, <2>1
<1> QED
  BY <1>1, <1>2, <1>3, <1>4, <1>5, <1>6, <1>7, <1>8, <1>9, <1>10, <1>11, <1>12, <1>13 DEF Next

(* With MSI-X, as long as nobody cleans the FIFO, the receive queue holds   *)
(* what was popped, whichever of the two readers popped it.                 *)
LEMMA RxQueueStep ==
  ASSUME TypeOK, RxNumbers, LockShape, RxQueueShape, TypeOK', [Next]_vars
  PROVE  RxQueueShape'
<1> DEFINE Heads == \A r \in Readers : pc[r] = "rxinfo" => rx_fifo # <<>> /\ ts[r] = Head(rx_fifo)
           Seen  == pc["poll"] = "find" => seen.rx = RxDrained /\ Head(rx_pending) <= seen.rx
<1>1. SUFFICES ASSUME ~legacy', cleans' = 0
               PROVE  Holds(rx_queue, Whole, RxDrained)' /\ Heads' /\ Seen'
  BY DEF RxQueueShape
<1>2. ~legacy /\ (cleans = 0 \/ ioctl_clean_FIFO)
  BY <1>1 DEF Next, vars, hw, queues, txside, ioctls, hist, HwReceive, Transmit, HwCapture, HwDrop,
       ioctl_clean_FIFO, ax_gptp_set_ptp_mode, RxHead, RxInfo, RxEmpty, TxPop, TxEmpty, PollLock,
       PollFind, IrqStart, IrqReturn, Dequeue, TxLock, TxFind
<1>3. ~ioctl_clean_FIFO
  BY <1>1 DEF ioctl_clean_FIFO, TypeOK
<1>4. Holds(rx_queue, Whole, RxDrained) /\ Heads /\ Seen
  BY <1>2, <1>3 DEF RxQueueShape
<1>5. /\ pc \in [Readers -> {"idle", "rx", "rxinfo", "tx", "find", "lock", "wait"}]
      /\ received \in Nat /\ rx_fifo \in Seq(Captures) /\ rx_pending \in Seq(Captures)
      /\ Len(rx_fifo) \in Nat /\ Len(rx_fifo) <= received /\ RxDrained \in Nat
      /\ seen \in [rx : Nat, tx : Nat] /\ ts \in [Readers -> Captures] /\ rx_queue \in Queues
  <2>1. received \in Nat /\ rx_fifo \in Seq(Captures) /\ rx_pending \in Seq(Captures)
    BY DEF TypeOK
  <2>2. Len(rx_fifo) \in Nat /\ Len(rx_fifo) <= received
    BY <2>1 DEF RxNumbers
  <2>3. RxDrained \in Nat
    BY <2>1, <2>2 DEF RxDrained
  <2> QED
    BY <2>1, <2>2, <2>3 DEF TypeOK
<1>6. /\ pc["poll"] # "idle" <=> lock = "poll"
      /\ pc["tx"] \in {"rx", "rxinfo"} => lock = "tx"
      /\ pc["poll"] # "idle" => rx_pending # <<>>
  BY <1>2 DEF LockShape, Draining
<1>7. ASSUME UNCHANGED <<rx_queue, rx_fifo, received, ts, rx_pending, seen>>,
             \A r \in Readers : pc'[r] \in {"rxinfo", "find"} => pc'[r] = pc[r]
      PROVE  Holds(rx_queue, Whole, RxDrained)' /\ Heads' /\ Seen'
  BY <1>4, <1>7 DEF RxDrained, Readers
<1>8. CASE UNCHANGED vars
  BY <1>7, <1>8 DEF vars, hw, queues, hist
<1>9. CASE HwReceive
  <2>1. /\ received' = received + 1 /\ UNCHANGED <<rx_queue, pc, ts, seen>>
        /\ rx_fifo' = Append(rx_fifo, received + 1) /\ rx_pending' = Append(rx_pending, received + 1)
    BY <1>9 DEF HwReceive, queues, hist
  <2>2. RxDrained' = RxDrained
    BY <1>5, <2>1 DEF RxDrained
  <2>3. Heads'
    <3>1. rx_fifo # <<>> => rx_fifo' # <<>> /\ Head(rx_fifo') = Head(rx_fifo)
      BY <1>5, <2>1
    <3> QED
      BY <1>4, <2>1, <3>1
  <2>4. rx_pending # <<>> => Head(rx_pending') = Head(rx_pending)
    BY <1>5, <2>1
  <2>5. Seen'
    BY <1>4, <1>6, <2>1, <2>2, <2>4
  <2>6. Holds(rx_queue, Whole, RxDrained)'
    BY <1>4, <2>1, <2>2
  <2> QED
    BY <2>3, <2>5, <2>6
<1>10. CASE Transmit \/ HwCapture \/ HwDrop \/ (\E m \in 0 .. 2 : ax_gptp_set_ptp_mode(m)) \/ TxPop
  BY <1>7, <1>10 DEF Transmit, HwCapture, HwDrop, ax_gptp_set_ptp_mode, TxPop, hw, queues, hist
<1>11. ASSUME NEW r \in Readers, RxHead(r)
       PROVE  Holds(rx_queue, Whole, RxDrained)' /\ Heads' /\ Seen'
  <2>1. /\ rx_fifo # <<>> /\ ts' = [ts EXCEPT ![r] = Head(rx_fifo)]
        /\ pc' = [pc EXCEPT ![r] = "rxinfo"]
        /\ UNCHANGED <<rx_queue, rx_fifo, received, rx_pending, seen>>
    BY <1>11 DEF RxHead, Goto, hw, queues, hist
  <2>2. Heads'
    BY <1>4, <1>5, <2>1
  <2>3. Seen'
    BY <1>4, <1>5, <2>1 DEF RxDrained, Readers
  <2> QED
    BY <1>4, <2>1, <2>2, <2>3 DEF RxDrained
<1>12. ASSUME NEW r \in Readers, RxInfo(r)
       PROVE  Holds(rx_queue, Whole, RxDrained)' /\ Heads' /\ Seen'
  <2>1. rx_fifo # <<>> /\ ts[r] = Head(rx_fifo)
    BY <1>4, <1>12 DEF RxInfo
  <2>2. /\ pc[r] = "rxinfo" /\ pc' = [pc EXCEPT ![r] = "rx"] /\ rx_fifo' = Tail(rx_fifo)
        /\ rx_queue' = Insert(rx_queue, Item(Head(rx_fifo)))
        /\ UNCHANGED <<received, ts, rx_pending, seen>>
    BY <1>12, <2>1 DEF RxInfo, Goto, hist, Item
  <2>3. Len(rx_fifo) > 0 /\ Head(rx_fifo) = rx_fifo[1] /\ Len(rx_fifo') = Len(rx_fifo) - 1
    BY <1>5, <2>1, <2>2
  <2>4. Head(rx_fifo) = RxDrained + 1 /\ RxDrained' = RxDrained + 1 /\ Head(rx_fifo) \in Captures
    <3>1. 1 \in 1 .. Len(rx_fifo)
      BY <1>5, <2>3
    <3>2. rx_fifo[1] = received - Len(rx_fifo) + 1
      BY <3>1 DEF RxNumbers
    <3>3. RxDrained' = received - (Len(rx_fifo) - 1)
      BY <2>2, <2>3 DEF RxDrained
    <3>4. rx_fifo[1] \in Captures
      BY <1>5, <3>1
    <3> QED
      BY <1>5, <2>3, <3>2, <3>3, <3>4 DEF RxDrained
  <2>5. Whole[RxDrained + 1] = Head(rx_fifo)
    BY <1>5, <2>4 DEF Whole
  <2>6. Holds(rx_queue', Whole, RxDrained + 1)
    BY <1>4, <1>5, <2>2, <2>4, <2>5, InsertHolds
  <2>7. Holds(rx_queue, Whole, RxDrained)'
    BY <2>4, <2>6 DEF Whole
  <2>8. \A q \in Readers : q # r => pc[q] # "rxinfo"
    BY <1>6, <2>2 DEF Readers
  <2>9. Heads'
    BY <1>5, <2>2, <2>8
  <2>10. Seen'
    <3>1. pc'["poll"] # "find"
      BY <1>5, <1>6, <2>2 DEF Readers
    <3> QED
      BY <3>1
  <2> QED
    BY <2>7, <2>9, <2>10
<1>13. ASSUME NEW r \in Readers, RxEmpty(r)
       PROVE  Holds(rx_queue, Whole, RxDrained)' /\ Heads' /\ Seen'
  <2>1. /\ pc[r] = "rx" /\ rx_fifo = <<>> /\ pc' = [pc EXCEPT ![r] = IF r = "poll" THEN "find" ELSE "tx"]
        /\ seen' = [seen EXCEPT !.rx = received]
        /\ UNCHANGED <<rx_queue, rx_fifo, received, rx_pending, ts>>
    BY <1>13 DEF RxEmpty, Goto, hw, queues
  <2>2. RxDrained' = received /\ seen'.rx = received
    BY <1>5, <2>1 DEF RxDrained
  <2>3. Heads'
    BY <1>4, <1>5, <2>1
  <2>4. Seen'
    <3>1. CASE r = "poll"
      <4>1. rx_pending # <<>> /\ Len(rx_pending) \in Nat /\ Len(rx_pending) > 0
        BY <1>5, <1>6, <2>1, <3>1
      <4>2. Head(rx_pending) = received - Len(rx_pending) + 1
        BY <1>5, <4>1 DEF RxNumbers
      <4>3. Head(rx_pending) <= received
        BY <1>5, <4>1, <4>2
      <4> QED
        BY <2>1, <2>2, <4>3
    <3>2. CASE r = "tx"
      <4>1. pc'["poll"] # "find"
        BY <1>5, <1>6, <2>1, <3>2 DEF Readers
      <4> QED
        BY <4>1
    <3> QED
      BY <3>1, <3>2 DEF Readers
  <2> QED
    BY <1>4, <2>1, <2>3, <2>4 DEF RxDrained
<1>14. CASE TxEmpty
  <2>1. /\ UNCHANGED <<rx_queue, rx_fifo, received, rx_pending, ts>>
        /\ seen' = [seen EXCEPT !.tx = Len(tx_captured)]
        /\ \E l \in {"find", "idle", "wait"} : pc' = [pc EXCEPT !["tx"] = l]
    BY <1>14 DEF TxEmpty, Goto, hw, queues
  <2>2. seen'.rx = seen.rx /\ pc'["poll"] = pc["poll"] /\ (pc'["tx"] # "rxinfo")
    BY <1>5, <2>1 DEF Readers
  <2> QED
    BY <1>4, <2>1, <2>2 DEF RxDrained, Readers
<1>15. CASE PollFind
  <2>1. /\ UNCHANGED <<rx_queue, rx_fifo, received, seen, ts>>
        /\ pc' = [pc EXCEPT !["poll"] = "idle"]
    BY <1>15 DEF PollFind, Goto, hw, queues
  <2> QED
    BY <1>4, <1>5, <2>1 DEF RxDrained, Readers
<1>16. CASE PollLock \/ IrqStart \/ IrqReturn \/ Dequeue \/ TxLock \/ TxFind
  <2>1. UNCHANGED <<rx_queue, rx_fifo, received, ts, rx_pending>> /\ seen' = seen
    BY <1>16 DEF PollLock, IrqStart, IrqReturn, Dequeue, TxLock, TxFind, hw, queues, hist
  <2>2. \E r \in Readers, l \in {"rx", "idle", "lock", "wait"} : pc' = [pc EXCEPT ![r] = l]
    BY <1>16 DEF PollLock, IrqStart, IrqReturn, Dequeue, TxLock, TxFind, Goto, Readers
  <2>3. \A r \in Readers : pc'[r] \in {"rxinfo", "find"} => pc'[r] = pc[r]
    BY <1>5, <2>2
  <2> QED
    BY <1>7, <2>1, <2>3
<1> QED
  BY <1>3, <1>8, <1>9, <1>10, <1>11, <1>12, <1>13, <1>14, <1>15, <1>16 DEF Next

(* The transmit queue holds what was popped: only the transmit side reads   *)
(* that FIFO.                                                               *)
LEMMA TxQueueStep ==
  ASSUME TypeOK, TxNumbers, LockShape, TxQueueShape, [Next]_vars
  PROVE  TxQueueShape'
<1> DEFINE n    == Len(tx_captured)
           Seen == pc["tx"] = "find" => seen.tx = TxDrained
<1>0. /\ tx_captured \in Seq(Captures) /\ tx_fifo \in Seq(Captures) /\ n \in Nat
      /\ Len(tx_fifo) \in Nat /\ TxDrained \in Nat /\ TxDrained <= n /\ Len(tx_fifo) <= n
      /\ pc \in [Readers -> {"idle", "rx", "rxinfo", "tx", "find", "lock", "wait"}]
      /\ seen \in [rx : Nat, tx : Nat] /\ tx_queue \in Queues
  <2>1. tx_captured \in Seq(Captures) /\ tx_fifo \in Seq(Captures)
    BY DEF TypeOK
  <2>2. n \in Nat /\ Len(tx_fifo) \in Nat /\ Len(tx_fifo) <= n
    BY <2>1 DEF TxNumbers
  <2>3. TxDrained \in Nat /\ TxDrained <= n
    BY <2>2 DEF TxDrained
  <2> QED
    BY <2>1, <2>2, <2>3 DEF TypeOK
<1>1. Holds(tx_queue, tx_captured, TxDrained) /\ Seen
  BY DEF TxQueueShape
<1>2. ASSUME UNCHANGED <<tx_queue, tx_captured, tx_fifo>>, seen'.tx = seen.tx,
             pc'["tx"] = "find" => pc["tx"] = "find"
      PROVE  TxQueueShape'
  BY <1>1, <1>2 DEF TxQueueShape, TxDrained
<1>3. CASE HwCapture
  <2>1. /\ tx_captured' = Append(tx_captured, Head(tx_wire)) /\ tx_fifo' = Append(tx_fifo, Head(tx_wire))
        /\ UNCHANGED <<tx_queue, pc, seen>>
    BY <1>3 DEF HwCapture, queues, hist
  <2>2. TxDrained' = TxDrained
    <3>1. Len(tx_captured') = n + 1 /\ Len(tx_fifo') = Len(tx_fifo) + 1
      BY <1>0, <2>1
    <3> QED
      BY <1>0, <3>1 DEF TxDrained
  <2>3. \A k \in 1 .. TxDrained : tx_captured[k] = tx_captured'[k]
    BY <1>0, <2>1
  <2>4. Holds(tx_queue, tx_captured', TxDrained)
    BY <1>0, <1>1, <2>3, HoldsSame
  <2> QED
    BY <1>1, <2>1, <2>2, <2>4 DEF TxQueueShape
<1>4. CASE TxPop
  <2>1. /\ tx_fifo # <<>> /\ tx_fifo' = Tail(tx_fifo) /\ pc["tx"] = "tx"
        /\ tx_queue' = Insert(tx_queue, Item(Head(tx_fifo))) /\ UNCHANGED <<tx_captured, pc>>
    BY <1>4 DEF TxPop, Item
  <2>2. /\ Len(tx_fifo) > 0 /\ Len(tx_fifo') = Len(tx_fifo) - 1 /\ Head(tx_fifo) = tx_fifo[1]
        /\ tx_fifo[1] \in Captures
    BY <1>0, <2>1
  <2>3. tx_fifo[1] = tx_captured[TxDrained + 1]
    <3>1. 1 \in 1 .. Len(tx_fifo)
      BY <1>0, <2>2
    <3> QED
      BY <3>1 DEF TxNumbers, TxDrained
  <2>4. TxDrained' = TxDrained + 1
    BY <1>0, <2>1, <2>2 DEF TxDrained
  <2>5. Holds(tx_queue', tx_captured, TxDrained + 1)
    BY <1>0, <1>1, <2>1, <2>2, <2>3, InsertHolds
  <2> QED
    BY <2>1, <2>4, <2>5 DEF TxQueueShape
<1>5. CASE TxEmpty
  <2>1. /\ UNCHANGED <<tx_queue, tx_captured, tx_fifo>> /\ tx_fifo = <<>>
        /\ seen' = [seen EXCEPT !.tx = Len(tx_captured)]
    BY <1>5 DEF TxEmpty, hw, queues
  <2>2. TxDrained' = TxDrained /\ seen'.tx = TxDrained
    BY <1>0, <2>1 DEF TxDrained
  <2> QED
    BY <1>1, <2>1, <2>2 DEF TxQueueShape
<1>6. ASSUME NEW r \in Readers, RxEmpty(r) PROVE TxQueueShape'
  <2>1. /\ UNCHANGED <<tx_queue, tx_captured, tx_fifo>> /\ seen' = [seen EXCEPT !.rx = received]
        /\ pc' = [pc EXCEPT ![r] = IF r = "poll" THEN "find" ELSE "tx"]
    BY <1>6 DEF RxEmpty, Goto, hw, queues
  <2>2. seen'.tx = seen.tx /\ (pc'["tx"] = "find" => pc["tx"] = "find")
    BY <1>0, <2>1 DEF Readers
  <2> QED
    BY <1>2, <2>1, <2>2
<1>7. CASE UNCHANGED vars \/ HwReceive \/ Transmit \/ HwDrop \/ ioctl_clean_FIFO
           \/ (\E m \in 0 .. 2 : ax_gptp_set_ptp_mode(m))
  BY <1>2, <1>7 DEF vars, HwReceive, Transmit, HwDrop, ioctl_clean_FIFO, ax_gptp_set_ptp_mode,
                    hw, queues, hist
<1>8. CASE \/ \E r \in Readers : RxHead(r) \/ RxInfo(r)
           \/ PollLock \/ PollFind \/ IrqStart \/ IrqReturn \/ Dequeue \/ TxLock \/ TxFind
  <2>1. UNCHANGED <<tx_queue, tx_captured, tx_fifo>> /\ seen' = seen
    BY <1>8 DEF RxHead, RxInfo, PollLock, PollFind, IrqStart, IrqReturn, Dequeue, TxLock, TxFind,
                hw, queues, hist
  <2>2. \E r \in Readers, l \in {"rxinfo", "rx", "idle", "lock", "wait"} : pc' = [pc EXCEPT ![r] = l]
    BY <1>8 DEF RxHead, RxInfo, PollLock, PollFind, IrqStart, IrqReturn, Dequeue, TxLock, TxFind,
                Goto, Readers
  <2>3. pc'["tx"] = "find" => pc["tx"] = "find"
    BY <1>0, <2>2 DEF Readers
  <2> QED
    BY <1>2, <2>1, <2>3
<1> QED
  BY <1>3, <1>4, <1>5, <1>6, <1>7, <1>8 DEF Next

-----------------------------------------------------------------------------
(* A received frame of less than a round of sequence ids ago is found as    *)
(* itself, while it is in the queue, and no other one is taken for it.      *)
LEMMA RxFinds ==
  ASSUME NEW q, NEW d \in Nat, Holds(q, Whole, d), NEW n \in 1 .. d, d - n < Ports * NumSeqs
  PROVE  Find(q, n) = IF d - n < QSize THEN n ELSE None
<1>0. Ports * NumSeqs \in Nat /\ QSize \in Nat
  BY TimestampsAssumption
<1>1. \A k \in 1 .. d : Whole[k] = k /\ Whole[k] \in Nat \ {0}
  BY DEF Whole
<1>2. CASE Find(q, n) = None /\ \A k \in 1 .. d : d - k < QSize => ~SameId(Whole[k], n)
  <2>1. SameId(Whole[n], n)
    BY <1>1 DEF SameId
  <2> QED
    BY <1>2, <2>1
<1>3. ASSUME NEW k \in 1 .. d, d - k < QSize, Find(q, n) = Whole[k], SameId(Whole[k], n),
             \A j \in k + 1 .. d : ~SameId(Whole[j], n)
      PROVE  Find(q, n) = IF d - n < QSize THEN n ELSE None
  <2>1. ~(k < n)
    <3>1. SUFFICES ASSUME k < n PROVE FALSE
      OBVIOUS
    <3>2. n \in k + 1 .. d
      BY <3>1
    <3>3. SameId(Whole[n], n)
      BY <1>1 DEF SameId
    <3> QED
      BY <1>3, <3>2, <3>3
  <2>2. ~(n < k)
    <3>1. SUFFICES ASSUME n < k PROVE FALSE
      OBVIOUS
    <3>2. SameId(n, k)
      BY <1>1, <1>3 DEF SameId
    <3>3. k - n >= Ports * NumSeqs
      BY <3>1, <3>2, IdsApart
    <3> QED
      BY <1>0, <3>3
  <2>3. k = n
    BY <2>1, <2>2
  <2> QED
    BY <1>1, <1>3, <2>3
<1> QED
  BY <1>1, <1>2, <1>3, FindHolds

(* The receive stamps. *)
LEMMA RxStampedStep ==
  ASSUME TypeOK, RxNumbers, LockShape, RxQueueShape, RxStamped, TypeOK', [Next]_vars
  PROVE  RxStamped'
<1>1. SUFFICES ASSUME ~legacy', cleans' = 0, NEW s \in rx_stamps'
               PROVE  s.stamp = IF s.valid /\ s.seen - s.frame < QSize THEN s.frame ELSE None
  BY DEF RxStamped
<1>2. ~legacy /\ cleans = 0
  <2>1. ~ioctl_clean_FIFO
    BY <1>1 DEF ioctl_clean_FIFO, TypeOK
  <2> QED
    BY <1>1, <2>1, NextCases DEF HwReceive, Transmit, HwCapture, HwDrop, RxInfo, TxPop, PollFind, Dequeue,
         TxFind, Still, ioctls
<1>3. CASE s \in rx_stamps
  BY <1>2, <1>3 DEF RxStamped
<1>4. CASE s \notin rx_stamps
  <2>1. PollFind
    BY <1>4, <1>1, NextCases DEF HwReceive, Transmit, HwCapture, HwDrop, ioctl_clean_FIFO, RxInfo, TxPop,
         Dequeue, TxFind, Still, hist
  <2> DEFINE n == Head(rx_pending)
             c == IF ValidMode THEN Find(rx_queue, n) ELSE None
  <2>2. s = [frame |-> n, stamp |-> c, seen |-> seen.rx, valid |-> ValidMode]
    BY <1>1, <1>4, <2>1 DEF PollFind
  <2>3. rx_pending # <<>> /\ pc["poll"] = "find"
    BY <2>1 DEF PollFind, LockShape
  <2>4. Holds(rx_queue, Whole, RxDrained) /\ seen.rx = RxDrained /\ n <= seen.rx
    BY <1>2, <2>3 DEF RxQueueShape
  <2>5. n \in 1 .. RxDrained /\ RxDrained \in Nat /\ RxDrained - n < Ports * NumSeqs
    <3>1. /\ received \in Nat /\ rx_pending \in Seq(Captures) /\ rx_fifo \in Seq(Captures)
      BY DEF TypeOK
    <3>2. /\ Len(rx_pending) \in Nat /\ Len(rx_pending) > 0 /\ Len(rx_fifo) \in Nat /\ n = rx_pending[1]
      BY <2>3, <3>1
    <3>3. RxSlots \in Nat /\ Ports * NumSeqs \in Nat /\ RxSlots <= Ports * NumSeqs
      BY TimestampsAssumption
    <3>4. /\ n = received - Len(rx_pending) + 1 /\ Len(rx_pending) <= RxSlots
          /\ Len(rx_pending) <= received /\ Len(rx_fifo) <= received
      BY <3>2 DEF RxNumbers
    <3> QED
      BY <2>4, <3>1, <3>2, <3>3, <3>4 DEF RxDrained
  <2>6. Find(rx_queue, n) = IF RxDrained - n < QSize THEN n ELSE None
    BY <2>4, <2>5, RxFinds
  <2> QED
    BY <2>2, <2>4, <2>6
<1> QED
  BY <1>3, <1>4

(* The stamp a sent frame is given. *)
LEMMA TxFinds ==
  ASSUME TypeOK, TxNumbers, SkbNumbers, LockShape, TxQueueShape, pc["tx"] = "find"
  PROVE  LET c    == Find(tx_queue, tx_skb)
             last == LastCaptured(seen.tx)
         IN /\ seen.tx <= Len(tx_captured)
            /\ IF tx_skb \in last THEN c = tx_skb ELSE c = None \/ (c \in last /\ c < tx_skb)
<1> DEFINE d == TxDrained
           n == tx_skb
           c == Find(tx_queue, n)
           last == LastCaptured(d)
<1>0. /\ Ports * NumSeqs \in Nat /\ QSize \in Nat /\ TxSlots \in Nat /\ TxSlots <= Ports * NumSeqs
  BY TimestampsAssumption
<1>1. /\ tx_captured \in Seq(Captures) /\ tx_fifo \in Seq(Captures) /\ tx_timestamp \in Seq(Captures)
      /\ n \in Captures /\ Sent \in Nat /\ Len(tx_wire) \in Nat
  BY SentType DEF TypeOK
<1>2. /\ Len(tx_captured) \in Nat /\ d \in Nat /\ d <= Len(tx_captured) /\ Len(tx_timestamp) \in Nat
  BY <1>1 DEF TxNumbers, TxDrained
<1>3. Holds(tx_queue, tx_captured, d) /\ seen.tx = d
  BY DEF TxQueueShape
<1>4. n = Sent - Len(tx_timestamp) /\ Len(tx_timestamp) + 1 <= TxSlots /\ n \in Nat
  <2>1. n # None
    BY DEF LockShape
  <2>2. n = Sent - Len(tx_timestamp) /\ Len(tx_timestamp) + 1 <= TxSlots
    BY <2>1 DEF SkbNumbers
  <2>3. n \in Nat
    BY <1>1, TimestampsAssumption DEF Captures
  <2> QED
    BY <2>2, <2>3
<1>5. \A k \in 1 .. d : tx_captured[k] \in Nat \ {0} /\ tx_captured[k] <= Sent
  BY <1>1, <1>2 DEF TxNumbers
<1>6. \A j, k \in 1 .. d : j < k => tx_captured[j] < tx_captured[k]
  BY <1>2 DEF TxNumbers
<1>7. \A m : m \in last <=> \E k \in 1 .. d : d - k < QSize /\ m = tx_captured[k]
  BY DEF LastCaptured
<1> HIDE DEF d, n, last
<1>8. ASSUME NEW k \in 1 .. d, d - k < QSize, c = tx_captured[k], SameId(tx_captured[k], n),
             \A j \in k + 1 .. d : ~SameId(tx_captured[j], n)
      PROVE  c \in last /\ c <= n /\ (n \in last => c = n)
  <2>1. c \in last
    BY <1>7, <1>8
  <2>2. c \in Nat /\ c <= Sent
    BY <1>5, <1>8
  <2>3. c <= n
    <3>1. SUFFICES ASSUME n < c PROVE FALSE
      BY <1>4, <2>2
    <3>2. SameId(n, c)
      BY <1>8 DEF SameId
    <3> HIDE DEF c
    <3>3. c - n >= Ports * NumSeqs
      BY <1>4, <2>2, <3>1, <3>2, IdsApart
    <3> QED
      BY <1>0, <1>1, <1>2, <1>4, <2>2, <3>3
  <2>4. ASSUME n \in last PROVE c = n
    <3>1. PICK m \in 1 .. d : n = tx_captured[m]
      BY <1>7, <2>4
    <3>2. SameId(tx_captured[m], n)
      BY <3>1 DEF SameId
    <3>3. ~(m \in k + 1 .. d)
      BY <1>8, <3>2
    <3>4. m <= k
      BY <1>2, <3>3
    <3>5. n <= c
      <4>1. CASE m = k
        BY <1>4, <1>8, <3>1, <4>1
      <4>2. CASE m < k
        BY <1>4, <1>6, <1>8, <2>2, <3>1, <4>2
      <4> QED
        BY <1>2, <3>4, <4>1, <4>2
    <3> QED
      BY <1>4, <2>2, <2>3, <3>5
  <2> QED
    BY <2>1, <2>3, <2>4
<1>9. ASSUME c \in last, c <= n, n \in last => c = n, c \in Nat
       PROVE  IF n \in last THEN c = n ELSE c = None \/ (c \in last /\ c < n)
  <2> HIDE DEF c
  <2> QED
    BY <1>4, <1>9
<1>10. \/ c = None /\ \A k \in 1 .. d : d - k < QSize => ~SameId(tx_captured[k], n)
       \/ \E k \in 1 .. d :
            /\ d - k < QSize /\ c = tx_captured[k] /\ SameId(tx_captured[k], n)
            /\ \A j \in k + 1 .. d : ~SameId(tx_captured[j], n)
  <2>1. d \in Nat /\ Holds(tx_queue, tx_captured, d) /\ \A k \in 1 .. d : tx_captured[k] \in Nat \ {0}
    BY <1>2, <1>3, <1>5
  <2> QED
    BY <2>1, FindHolds
<1>11. IF n \in last THEN c = n ELSE c = None \/ (c \in last /\ c < n)
  <2>1. CASE c = None /\ \A k \in 1 .. d : d - k < QSize => ~SameId(tx_captured[k], n)
    <3>1. SameId(n, n)
      BY DEF SameId
    <3>2. n \notin last
      BY <1>7, <2>1, <3>1
    <3> QED
      BY <2>1, <3>2
  <2>2. CASE ~(c = None /\ \A k \in 1 .. d : d - k < QSize => ~SameId(tx_captured[k], n))
    <3>1. PICK k \in 1 .. d :
            /\ d - k < QSize /\ c = tx_captured[k] /\ SameId(tx_captured[k], n)
            /\ \A j \in k + 1 .. d : ~SameId(tx_captured[j], n)
      BY <1>10, <2>2
    <3>2. c \in last /\ c <= n /\ (n \in last => c = n) /\ c \in Nat
      BY <1>5, <1>8, <3>1
    <3> QED
      BY <1>9, <3>2
  <2> QED
    BY <2>1, <2>2
<1> QED
  BY <1>2, <1>3, <1>11 DEF n, last

(* The transmit stamps; later captures do not change what was given out. *)
LEMMA TxStampedStep ==
  ASSUME TypeOK, TxNumbers, SkbNumbers, LockShape, TxQueueShape, TxStamped, [Next]_vars
  PROVE  TxStamped'
<1>0. tx_captured \in Seq(Captures) /\ Len(tx_captured) \in Nat /\ seen.tx \in Nat
  BY DEF TypeOK
<1>1. \/ tx_captured' = tx_captured
      \/ tx_captured' = Append(tx_captured, Head(tx_wire))
  BY NextCases DEF HwReceive, Transmit, HwCapture, HwDrop, ioctl_clean_FIFO, RxInfo, TxPop, PollFind, Dequeue,
       TxFind, Still, hw
<1>2. /\ Len(tx_captured') >= Len(tx_captured)
      /\ \A i \in 1 .. Len(tx_captured) : tx_captured'[i] = tx_captured[i]
  BY <1>0, <1>1
<1>3. Len(tx_captured') \in Nat
  BY <1>0, <1>1
<1>4. ASSUME NEW n \in Nat, n <= Len(tx_captured) PROVE LastCaptured(n)' = LastCaptured(n)
  <2>1. \A j \in 1 .. n : tx_captured'[j] = tx_captured[j]
    BY <1>0, <1>2, <1>4
  <2> QED
    BY <2>1 DEF LastCaptured
<1>5. ASSUME NEW s, s.seen \in Nat, s.seen <= Len(tx_captured), TxStamp(s)
      PROVE  s.seen <= Len(tx_captured') /\ TxStamp(s)'
  <2>1. s.seen <= Len(tx_captured')
    BY <1>0, <1>2, <1>3, <1>5
  <2>2. LastCaptured(s.seen)' = LastCaptured(s.seen)
    BY <1>4, <1>5
  <2> QED
    BY <1>5, <2>1, <2>2 DEF TxStamp
<1>6. SUFFICES ASSUME NEW s \in tx_stamps' PROVE s.seen <= Len(tx_captured') /\ TxStamp(s)'
  BY DEF TxStamped
<1>7. CASE s \in tx_stamps
  <2>1. s.seen \in Nat
    BY <1>7 DEF TypeOK, Stamps
  <2> QED
    BY <1>5, <1>7, <2>1 DEF TxStamped
<1>8. CASE s \notin tx_stamps
  <2>1. TxFind
    BY <1>6, <1>8, NextCases DEF HwReceive, Transmit, HwCapture, HwDrop, ioctl_clean_FIFO, RxInfo, TxPop,
         PollFind, Dequeue, Still, hist
  <2> DEFINE c == Find(tx_queue, tx_skb)
  <2>2. s = [frame |-> tx_skb, stamp |-> IF ValidMode THEN c ELSE None, seen |-> seen.tx,
             valid |-> ValidMode]
    BY <1>6, <1>8, <2>1 DEF TxFind
  <2>3. /\ seen.tx <= Len(tx_captured)
        /\ IF tx_skb \in LastCaptured(seen.tx) THEN c = tx_skb
           ELSE c = None \/ (c \in LastCaptured(seen.tx) /\ c < tx_skb)
    <3>1. pc["tx"] = "find"
      BY <2>1 DEF TxFind
    <3> QED
      BY <3>1, TxFinds
  <2> HIDE DEF c
  <2>4. /\ s.frame = tx_skb /\ s.stamp = (IF ValidMode THEN c ELSE None) /\ s.seen = seen.tx
        /\ s.valid = ValidMode
    BY <2>2
  <2>5. TxStamp(s)
    BY <2>3, <2>4 DEF TxStamp
  <2> QED
    BY <1>0, <1>5, <2>3, <2>4, <2>5
<1> QED
  BY <1>7, <1>8

-----------------------------------------------------------------------------
(* It holds at first, *)
LEMMA InitStampInv ==
  ASSUME Init
  PROVE  StampInv
<1> USE DEF Init
<1>0. /\ QSize \in Nat \ {0} /\ Retries \in Nat \ {0} /\ MaxFrames \in Nat /\ MaxIoctls \in Nat
      /\ RxSlots \in Nat /\ TxSlots \in Nat
  BY TimestampsAssumption
<1>1. None \in Captures
  BY <1>0 DEF None, Captures
<1>2. EmptyQueue \in Queues
  <2>1. [ts |-> None, info |-> None] \in Items
    BY <1>1 DEF Items
  <2> QED
    BY <1>0, <2>1 DEF EmptyQueue, Queues
<1>3. TypeOK
  <2>1. /\ rx_fifo \in Seq(Captures) /\ tx_fifo \in Seq(Captures) /\ received \in Nat
        /\ tx_wire \in Seq(Captures) /\ tx_captured \in Seq(Captures) /\ tx_lost \subseteq Captures
        /\ rx_pending \in Seq(Captures) /\ tx_timestamp \in Seq(Captures)
    OBVIOUS
  <2>2. /\ pc \in [Readers -> {"idle", "rx", "rxinfo", "tx", "find", "lock", "wait"}]
        /\ ts \in [Readers -> Captures] /\ lock \in {"free", "poll", "tx"}
    BY <1>1
  <2>3. /\ tx_skb \in Captures /\ tries \in 0 .. Retries - 1 /\ tx_count \in Nat
        /\ ptp_mode \in 0 .. 2 /\ cleans \in 0 .. MaxIoctls /\ modes \in 0 .. MaxIoctls
    BY <1>0, <1>1
  <2>4. seen \in [rx : Nat, tx : Nat] /\ rx_stamps \subseteq Stamps /\ tx_stamps \subseteq Stamps
    OBVIOUS
  <2>5. rx_queue \in Queues /\ tx_queue \in Queues /\ irq_ptp \in BOOLEAN /\ legacy \in BOOLEAN
    BY <1>2
  <2> QED
    BY <2>1, <2>2, <2>3, <2>4, <2>5 DEF TypeOK
<1>4. Cardinality(tx_lost) = 0 /\ Sent = 0
  <2>1. Cardinality(tx_lost) = 0
    BY FS_EmptySet
  <2> QED
    BY <2>1 DEF Sent
<1>5. RxNumbers /\ TxNumbers /\ SkbNumbers
  BY <1>0, <1>4 DEF RxNumbers, TxNumbers, SkbNumbers, None
<1>6. LockShape
  BY DEF LockShape, Draining, Readers
<1>7. ASSUME NEW f PROVE Holds(EmptyQueue, f, 0)
  BY <1>0 DEF Holds, EmptyQueue, Count
<1>8. RxQueueShape
  <2>1. RxDrained = 0
    <3>1. received = 0 /\ Len(rx_fifo) = 0
      OBVIOUS
    <3>2. received - Len(rx_fifo) = 0 - 0
      BY <3>1, Zenon
    <3> QED
      BY <3>2 DEF RxDrained
  <2>2. \A r \in Readers : pc[r] = "idle"
    OBVIOUS
  <2> QED
    BY <1>7, <2>1, <2>2 DEF RxQueueShape, Readers
<1>9. TxQueueShape
  <2>1. TxDrained = 0
    BY DEF TxDrained
  <2> QED
    BY <1>7, <2>1 DEF TxQueueShape, Readers
<1>10. RxStamped /\ TxStamped
  BY DEF RxStamped, TxStamped
<1> QED
  BY <1>3, <1>5, <1>6, <1>8, <1>9, <1>10 DEF StampInv

(* every step keeps it, *)
LEMMA StampStep ==
  ASSUME StampInv, [Next]_vars
  PROVE  StampInv'
<1> USE DEF StampInv
<1>1. TypeOK'
  BY TypeStep
<1>2. RxNumbers' /\ TxNumbers' /\ SkbNumbers'
  BY <1>1, RxNumbersStep, TxNumbersStep, SkbNumbersStep
<1>3. LockShape'
  BY LockStep
<1>4. RxQueueShape' /\ TxQueueShape'
  BY <1>1, RxQueueStep, TxQueueStep
<1>5. RxStamped' /\ TxStamped'
  BY <1>1, RxStampedStep, TxStampedStep
<1> QED
  BY <1>1, <1>2, <1>3, <1>4, <1>5

(* and so it holds in every reachable state. *)
LEMMA StampInvariant == Spec => []StampInv
BY InitStampInv, StampStep, PTL DEF Spec

(* With MSI-X no received frame is given the stamp of another: neither the  *)
(* two drains under txrx_timestamp_lock nor sequence ids that come round    *)
(* again mix captures, for every queue and ring size and number of ports.   *)
THEOREM RxStampsAreExact == Spec => []RxStampExact
<1>1. ASSUME StampInv PROVE RxStampExact
  <2> USE <1>1 DEF StampInv
  <2>1. SUFFICES ASSUME ~legacy, cleans = 0 PROVE RxStampExact
    BY DEF RxStampExact
  <2>2. ASSUME NEW n \in 1 .. RxDrained, RxDrained - n < QSize
        PROVE  ax_get_sync_rx_timestamp(n) = n
    <3>1. Holds(rx_queue, Whole, RxDrained)
      BY <2>1 DEF RxQueueShape
    <3>2. RxDrained \in Nat
      BY DEF RxDrained, RxNumbers, TypeOK
    <3>3. QSize \in Nat /\ Ports * NumSeqs \in Nat /\ QSize <= Ports * NumSeqs
      BY TimestampsAssumption
    <3>4. RxDrained - n < Ports * NumSeqs
      BY <2>2, <3>2, <3>3
    <3>5. Find(rx_queue, n) = n
      BY <2>2, <3>1, <3>2, <3>4, RxFinds
    <3> QED
      BY <3>5 DEF ax_get_sync_rx_timestamp
  <2> QED
    BY <2>1, <2>2 DEF RxStampExact, RxStamped, RxDrained
<1> QED
  BY <1>1, StampInvariant, PTL

(* Every sent frame that was captured in time is given its own stamp, and   *)
(* never that of a younger one, whatever was dropped, delayed or retried,   *)
(* with MSI-X and in ax_tsn_irq_ptp.                                        *)
THEOREM TxStampsAreExact == Spec => []TxStampExact
<1>1. ASSUME StampInv PROVE TxStampExact
  <2> USE <1>1 DEF StampInv
  <2> DEFINE d == Len(tx_captured) - Len(tx_fifo)
  <2>1. d \in Nat /\ d <= Len(tx_captured) /\ Len(tx_captured) \in Nat
    <3>1. tx_captured \in Seq(Captures) /\ tx_fifo \in Seq(Captures)
      BY DEF TypeOK
    <3> QED
      BY <3>1 DEF TxNumbers
  <2>2. Holds(tx_queue, tx_captured, d)
    BY DEF TxQueueShape, TxDrained
  <2>3. \A k \in 1 .. d : tx_captured[k] \in Nat \ {0}
    BY <2>1, SentType DEF TxNumbers
  <2>4. \A j, k \in 1 .. d : j < k => tx_captured[j] < tx_captured[k]
    BY <2>1 DEF TxNumbers
  <2>5. \A m : m \in LastCaptured(d) <=> \E k \in 1 .. d : d - k < QSize /\ m = tx_captured[k]
    BY DEF LastCaptured
  <2> HIDE DEF d
  <2>6. ASSUME NEW n \in LastCaptured(d)
        PROVE  LET c == ax_get_sync_tx_timestamp(n)
               IN c \in LastCaptured(d) /\ c >= n /\ SeqId(c) = SeqId(n)
    <3> DEFINE c == Find(tx_queue, n)
    <3>1. PICK m \in 1 .. d : d - m < QSize /\ n = tx_captured[m]
      BY <2>5
    <3>2. SameId(tx_captured[m], n)
      BY <3>1 DEF SameId
    <3>3. PICK k \in 1 .. d :
            /\ d - k < QSize /\ c = tx_captured[k] /\ SameId(tx_captured[k], n)
            /\ \A j \in k + 1 .. d : ~SameId(tx_captured[j], n)
      BY <2>1, <2>2, <2>3, <3>1, <3>2, FindHolds
    <3> HIDE DEF c
    <3>4. c \in LastCaptured(d)
      BY <2>5, <3>3
    <3>5. ~(m \in k + 1 .. d)
      BY <3>2, <3>3
    <3>6. c >= n
      <4>1. CASE m = k
        BY <2>3, <3>1, <3>3, <4>1
      <4>2. CASE m < k
        BY <2>3, <2>4, <3>1, <3>3, <4>2
      <4> QED
        BY <2>1, <3>5, <4>1, <4>2
    <3>7. SeqId(c) = SeqId(n)
      BY <3>3 DEF SameId
    <3> QED
      BY <3>4, <3>6, <3>7 DEF c, ax_get_sync_tx_timestamp
  <2>7. \A s \in tx_stamps : TxStamp(s)
    BY DEF TxStamped
  <2> QED
    BY <2>6, <2>7 DEF TxStampExact, TxStamp, d
<1> QED
  BY <1>1, StampInvariant, PTL
=============================================================================
