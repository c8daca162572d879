---------------------------- MODULE TxRingProofs ----------------------------
(***************************************************************************)
(* Proofs about TxRing for every list length, packet bound and error       *)
(* bound.                                                                  *)
(***************************************************************************)
EXTENDS TxRing, TLAPS

(* The two lists start at descriptors 0 and Half. *)
LEMMA ListStarts == ListStart(0) = 0 /\ ListStart(1) = Half
BY TxRingAssumption DEF ListStart

(* Advancing list->cur modulo TX_DESC_NUM wraps at the last descriptor only. *)
LEMMA WrapNext ==
  \A k \in Desc : (k + 1) % (2 * Half) = IF k = 2 * Half - 1 THEN 0 ELSE k + 1
<1> SUFFICES ASSUME NEW k \in Desc
             PROVE  (k + 1) % (2 * Half) = IF k = 2 * Half - 1 THEN 0 ELSE k + 1
  OBVIOUS
<1> DEFINE m == 2 * Half
<1>1. m \in Nat /\ m > 0 /\ k \in Nat /\ k < m
  BY TxRingAssumption DEF Desc
<1> HIDE DEF m
<1>2. (k + 1) % m = IF k = m - 1 THEN 0 ELSE k + 1
  BY <1>1
<1> QED
  BY <1>2 DEF m

(* TypeOK, read for one channel. *)
LEMMA ChannelTypes ==
  ASSUME TypeOK, NEW c \in Channels
  PROVE  /\ cur[c] \in Desc
         /\ idle[c] \in BOOLEAN
         /\ cur_pkt_count[c] \in 0 .. Half
         /\ current_list[c] \in {0, 1}
         /\ running[c] \in BOOLEAN
         /\ tx_buff[c] \in [Desc -> 0 .. MaxPkts]
         /\ stop_bit[c] \in [Desc -> BOOLEAN]
         /\ hw_run[c] \in BOOLEAN
         /\ hw_pos[c] \in Desc
         /\ irq_req[c] \in BOOLEAN
         /\ accepted[c] \in 0 .. MaxPkts
         /\ wire[c] \in Seq(0 .. MaxPkts)
         /\ lost[c] \in SUBSET (0 .. MaxPkts)
         /\ errors[c] \in 0 .. MaxErrors
BY DEF TypeOK

(* Writing one descriptor of one channel keeps a table of them well typed,
   and every other channel's row. *)
LEMMA WriteEntry ==
  ASSUME NEW S, NEW f \in [Channels -> [Desc -> S]],
         NEW c \in Channels, NEW k \in Desc, NEW v \in S
  PROVE  /\ [f EXCEPT ![c][k] = v] \in [Channels -> [Desc -> S]]
         /\ \A d \in Channels : d # c => [f EXCEPT ![c][k] = v][d] = f[d]
<1>1. [f[c] EXCEPT ![k] = v] \in [Desc -> S]
  OBVIOUS
<1> QED
  BY <1>1

(* The state ax_net_open leaves satisfies the invariant. *)
LEMMA InitInv == Init => TypeOK /\ RingShape
<1> SUFFICES ASSUME Init PROVE TypeOK /\ RingShape
  OBVIOUS
<1> USE TxRingAssumption, ListStarts
<1>1. TypeOK
  <2>1. /\ tx_timestamp \in Seq(1 .. MaxPkts)
        /\ wire \in [Channels -> Seq(0 .. MaxPkts)]
    BY DEF Init
  <2>2. stop_bit \in [Channels -> [Desc -> BOOLEAN]]
    BY DEF Init
  <2>3. /\ cur \in [Channels -> Desc]
        /\ hw_pos \in [Channels -> Desc]
        /\ tx_buff \in [Channels -> [Desc -> 0 .. MaxPkts]]
    BY DEF Init, Desc
  <2>4. /\ idle \in [Channels -> BOOLEAN]
        /\ running \in [Channels -> BOOLEAN]
        /\ hw_run \in [Channels -> BOOLEAN]
        /\ irq_req \in [Channels -> BOOLEAN]
    BY DEF Init
  <2>5. /\ cur_pkt_count \in [Channels -> 0 .. Half]
        /\ current_list \in [Channels -> {0, 1}]
        /\ accepted \in [Channels -> 0 .. MaxPkts]
        /\ lost \in [Channels -> SUBSET (0 .. MaxPkts)]
        /\ errors \in [Channels -> 0 .. MaxErrors]
    BY DEF Init
  <2> QED
    BY <2>1, <2>2, <2>3, <2>4, <2>5 DEF Init, TypeOK, Channels
<1>2. ASSUME NEW c \in Channels
      PROVE  FlagsAgree(c) /\ FillingList(c) /\ ~hw_run[c]
  BY DEF Init, FlagsAgree, FillingList, Channels
<1>3. QueueMatchesLists
  BY DEF Init, QueueMatchesLists, Channels
<1> QED
  BY <1>1, <1>2, <1>3 DEF RingShape

(* skb_queue_tail touches neither ring. *)
LEMMA XmitTailInv ==
  ASSUME TypeOK, RingShape, XmitTail
  PROVE  TypeOK' /\ RingShape'
<1> USE TxRingAssumption
<1>1. TypeOK'
  <2>1. accepted[PtpChan] + 1 \in 1 .. MaxPkts
    <3>1. accepted[PtpChan] \in 0 .. MaxPkts /\ accepted[PtpChan] < MaxPkts
      BY ChannelTypes DEF XmitTail, Channels, PtpChan
    <3> QED
      BY <3>1
  <2>2. tx_timestamp \in Seq(1 .. MaxPkts)
    BY DEF TypeOK
  <2>3. tx_timestamp' = Append(tx_timestamp, accepted[PtpChan] + 1)
    BY DEF XmitTail
  <2>4. tx_timestamp' \in Seq(1 .. MaxPkts) /\ tailed' \in BOOLEAN /\ exposed' \in BOOLEAN
    BY <2>1, <2>2, <2>3 DEF XmitTail
  <2> QED
    BY <2>4 DEF XmitTail, TypeOK, tx_list, hw, netq, hist
<1>2. QueueMatchesLists'
  BY DEF XmitTail, RingShape, QueueMatchesLists, tx_list, netq, hist
<1>3. ASSUME NEW c \in Channels
      PROVE  /\ FlagsAgree(c)' /\ FillingList(c)'
             /\ (hw_run[c] => \E e \in Desc : InFlight(c, e))'
  BY DEF XmitTail, RingShape, FlagsAgree, FillingList, InFlight, tx_list, hw, hist
<1> QED
  BY <1>1, <1>2, <1>3 DEF RingShape

(* Nor does the tasklet, or the interrupt that does its work without MSI-X. *)
LEMMA TaskletInv ==
  ASSUME TypeOK, RingShape, tasklet_ptp \/ ax_tsn_irq_ptp
  PROVE  TypeOK' /\ RingShape'
<1>1. TypeOK'
  <2>1. tx_timestamp \in Seq(1 .. MaxPkts) /\ tsk \in BOOLEAN
    BY DEF TypeOK
  <2>2. tx_timestamp' \in Seq(1 .. MaxPkts) /\ tsk' \in BOOLEAN
    <3>1. CASE tx_timestamp = <<>>
      BY <2>1, <3>1 DEF tasklet_ptp, ax_tsn_irq_ptp
    <3>2. CASE tx_timestamp # <<>>
      BY <2>1, <3>2 DEF tasklet_ptp, ax_tsn_irq_ptp
    <3> QED
      BY <3>1, <3>2
  <2> QED
    BY <2>2 DEF tasklet_ptp, ax_tsn_irq_ptp, TypeOK, tx_list, hw, netq, hist
<1>2. QueueMatchesLists'
  BY DEF tasklet_ptp, ax_tsn_irq_ptp, RingShape, QueueMatchesLists, tx_list, netq, hist
<1>3. ASSUME NEW c \in Channels
      PROVE  /\ FlagsAgree(c)' /\ FillingList(c)'
             /\ (hw_run[c] => \E e \in Desc : InFlight(c, e))'
  BY DEF tasklet_ptp, ax_tsn_irq_ptp, RingShape, FlagsAgree, FillingList, InFlight,
         tx_list, hw, hist
<1> QED
  BY <1>1, <1>2, <1>3 DEF RingShape

(* A packet may be accepted only while its channel is below the bound. *)
LEMMA FillEntryRoom ==
  ASSUME TypeOK, RingShape, NEW c \in Channels, FillEntry(c)
  PROVE  /\ accepted[c] + 1 \in 1 .. MaxPkts
         /\ cur_pkt_count[c] < Half
         /\ ~queue_stopped
<1> USE TxRingAssumption
<1>1. accepted[c] \in 0 .. MaxPkts /\ cur_pkt_count[c] \in 0 .. Half
  BY ChannelTypes
<1>2. accepted[c] < MaxPkts /\ ~queue_stopped
  BY DEF FillEntry, RingShape, QueueMatchesLists
<1>3. cur_pkt_count[c] # Half
  BY <1>2 DEF RingShape, QueueMatchesLists
<1> QED
  BY <1>1, <1>2, <1>3

(* Starting an idle engine on a run of one packet keeps the invariant. *)
LEMMA XmitStartInv ==
  ASSUME TypeOK, RingShape, NEW c \in Channels, XmitStart(c)
  PROVE  TypeOK' /\ RingShape'
<1> USE TxRingAssumption, ListStarts
<1> DEFINE l == current_list[c]
<1>1. /\ l \in {0, 1} /\ 1 - l \in {0, 1} /\ 1 - (1 - l) = l
      /\ cur[c] \in Desc /\ cur_pkt_count[c] = 0 /\ accepted[c] \in Nat
      /\ cur[c] = ListStart(l)
      /\ ListStart(l) \in Desc /\ ListStart(1 - l) \in Desc
      /\ ListStart(1 - l) # 2 * Half
  <2>1. l \in {0, 1} /\ cur[c] \in Desc /\ accepted[c] \in 0 .. MaxPkts
    BY ChannelTypes
  <2>2. ListStart(l) \in Desc /\ ListStart(1 - l) \in Desc
    BY <2>1 DEF Desc
  <2>3. cur_pkt_count[c] = 0
    BY DEF XmitStart, RingShape, FlagsAgree
  <2>4. cur[c] = ListStart(l)
    BY <2>1, <2>2, <2>3 DEF RingShape, FillingList, Desc
  <2> QED
    BY <2>1, <2>2, <2>3, <2>4 DEF Desc
<1>2. accepted[c] + 1 \in 1 .. MaxPkts /\ ~queue_stopped
  BY FillEntryRoom DEF XmitStart
<1>3. TypeOK'
  <2>1. cur' \in [Channels -> Desc] /\ hw_pos' \in [Channels -> Desc]
    BY <1>1 DEF XmitStart, SwitchList, engine_start, TypeOK, NextList
  <2>2. tx_buff' \in [Channels -> [Desc -> 0 .. MaxPkts]]
    <3>1. /\ tx_buff \in [Channels -> [Desc -> 0 .. MaxPkts]]
          /\ tx_buff' = [tx_buff EXCEPT ![c][cur[c]] = accepted[c] + 1]
      BY DEF XmitStart, FillEntry, TypeOK
    <3>2. accepted[c] + 1 \in 0 .. MaxPkts /\ cur[c] \in Desc
      BY <1>1, <1>2
    <3> QED
      BY <3>1, <3>2, WriteEntry
  <2>3. stop_bit' \in [Channels -> [Desc -> BOOLEAN]]
    BY <1>1, ChannelTypes DEF XmitStart, TypeOK
  <2>4. /\ idle' \in [Channels -> BOOLEAN]
        /\ running' \in [Channels -> BOOLEAN]
        /\ hw_run' \in [Channels -> BOOLEAN]
        /\ tailed' \in BOOLEAN /\ exposed' \in BOOLEAN
    BY DEF XmitStart, engine_start, FillEntry, TypeOK
  <2>5. /\ cur_pkt_count' \in [Channels -> 0 .. Half]
        /\ current_list' \in [Channels -> {0, 1}]
        /\ accepted' \in [Channels -> 0 .. MaxPkts]
    <3>1. cur_pkt_count' \in [Channels -> 0 .. Half]
      BY DEF XmitStart, SwitchList, TypeOK
    <3>2. current_list' \in [Channels -> {0, 1}]
      BY <1>1, <1>2 DEF XmitStart, SwitchList, TypeOK, NextList
    <3>3. accepted' \in [Channels -> 0 .. MaxPkts]
      BY <1>1, <1>2 DEF XmitStart, FillEntry, TypeOK
    <3> QED
      BY <3>1, <3>2, <3>3
  <2> QED
    BY <2>1, <2>2, <2>3, <2>4, <2>5 DEF XmitStart, TypeOK, netq
<1>4. QueueMatchesLists'
  BY <1>1, <1>2
  DEF XmitStart, SwitchList, FillEntry, RingShape, QueueMatchesLists, TypeOK, netq
<1>5. ASSUME NEW d \in Channels, d # c
      PROVE  /\ FlagsAgree(d)' /\ FillingList(d)'
             /\ (hw_run[d] => \E e \in Desc : InFlight(d, e))'
  <2>1. /\ cur'[d] = cur[d] /\ idle'[d] = idle[d] /\ running'[d] = running[d]
        /\ cur_pkt_count'[d] = cur_pkt_count[d]
        /\ current_list'[d] = current_list[d] /\ tx_buff'[d] = tx_buff[d]
        /\ stop_bit'[d] = stop_bit[d] /\ hw_run'[d] = hw_run[d]
        /\ hw_pos'[d] = hw_pos[d] /\ irq_req'[d] = irq_req[d]
        /\ accepted'[d] = accepted[d]
    BY <1>5 DEF XmitStart, SwitchList, FillEntry, engine_start, TypeOK
  <2> QED
    BY <2>1 DEF RingShape, FlagsAgree, FillingList, InFlight
<1>6. FlagsAgree(c)'
  BY DEF XmitStart, SwitchList, engine_start, RingShape, FlagsAgree, TypeOK
<1>7. FillingList(c)'
  BY <1>1 DEF XmitStart, SwitchList, FillEntry, FillingList, TypeOK, NextList
<1>8. PICK e \in Desc : e = cur[c]
  BY <1>1
<1>9. InFlight(c, e)'
  <2>1. /\ hw_pos'[c] = e /\ current_list'[c] = 1 - l
        /\ cur_pkt_count'[c] = 0 /\ accepted'[c] = accepted[c] + 1
    BY <1>1, <1>8
    DEF XmitStart, SwitchList, FillEntry, engine_start, TypeOK, NextList
  <2>2. stop_bit'[c][e] /\ tx_buff'[c][e] = accepted[c] + 1
    BY <1>1, <1>8, ChannelTypes DEF XmitStart, FillEntry, TypeOK
  <2> QED
    BY <1>1, <1>8, <2>1, <2>2 DEF InFlight, NextList, Desc
<1>10. ASSUME NEW d \in Channels
       PROVE  /\ FlagsAgree(d)' /\ FillingList(d)'
              /\ (hw_run[d] => \E k \in Desc : InFlight(d, k))'
  BY <1>5, <1>6, <1>7, <1>9
<1> QED
  BY <1>3, <1>4, <1>10 DEF RingShape

(* Adding a packet to the list being filled leaves the list in flight alone. *)
LEMMA XmitQueueInv ==
  ASSUME TypeOK, RingShape, NEW c \in Channels, XmitQueue(c)
  PROVE  TypeOK' /\ RingShape'
<1> USE TxRingAssumption, ListStarts
<1> DEFINE l    == current_list[c]
           n    == cur_pkt_count[c]
           a    == accepted[c]
           next == (cur[c] + 1) % (2 * Half)
<1>1. /\ l \in {0, 1} /\ n \in Nat /\ n < Half /\ a \in Nat
      /\ a + 1 \in 1 .. MaxPkts /\ ~queue_stopped
      /\ n <= a
  BY ChannelTypes, FillEntryRoom DEF XmitQueue, RingShape, FillingList
<1>2. cur[c] \in Desc /\ cur[c] = ListStart(l) + n
  BY <1>1, ChannelTypes DEF RingShape, FillingList
<1>3. next = IF cur[c] = 2 * Half - 1 THEN 0 ELSE cur[c] + 1
  BY <1>2, WrapNext
<1>4. next \in Desc /\ (next \in {0, Half} <=> n + 1 = Half)
  BY <1>1, <1>2, <1>3 DEF Desc
<1>5. /\ cur'[c] = next /\ cur_pkt_count'[c] = n + 1 /\ accepted'[c] = a + 1
      /\ current_list'[c] = l /\ hw_pos'[c] = hw_pos[c]
      /\ hw_run'[c] = hw_run[c] /\ irq_req'[c] = irq_req[c]
      /\ idle'[c] = idle[c] /\ running'[c] = running[c] /\ ~idle[c]
  BY DEF XmitQueue, FillEntry, TypeOK, hw
<1>6. /\ tx_buff'[c] = [tx_buff[c] EXCEPT ![cur[c]] = a + 1]
      /\ stop_bit'[c] = [stop_bit[c] EXCEPT ![cur[c]] = FALSE]
  BY DEF XmitQueue, FillEntry, TypeOK
<1>7. TypeOK'
  <2>1. cur' \in [Channels -> Desc]
    BY <1>4 DEF XmitQueue, TypeOK
  <2>2. tx_buff' \in [Channels -> [Desc -> 0 .. MaxPkts]]
    <3>1. /\ tx_buff \in [Channels -> [Desc -> 0 .. MaxPkts]]
          /\ tx_buff' = [tx_buff EXCEPT ![c][cur[c]] = accepted[c] + 1]
      BY DEF XmitQueue, FillEntry, TypeOK
    <3>2. accepted[c] + 1 \in 0 .. MaxPkts /\ cur[c] \in Desc
      BY <1>1, <1>2
    <3> QED
      BY <3>1, <3>2, WriteEntry
  <2>3. stop_bit' \in [Channels -> [Desc -> BOOLEAN]]
    BY <1>2, ChannelTypes DEF XmitQueue, TypeOK
  <2>4. queue_stopped' \in BOOLEAN /\ tailed' \in BOOLEAN /\ exposed' \in BOOLEAN
    BY DEF XmitQueue, FillEntry, TypeOK, netq
  <2>5. /\ cur_pkt_count' \in [Channels -> 0 .. Half]
        /\ accepted' \in [Channels -> 0 .. MaxPkts]
        /\ stop_queue_channel' \in Channels \cup {NoChannel}
    <3>1. n + 1 \in 0 .. Half /\ a + 1 \in 0 .. MaxPkts
      BY <1>1
    <3>2. /\ cur_pkt_count' = [cur_pkt_count EXCEPT ![c] = n + 1]
          /\ accepted' = [accepted EXCEPT ![c] = a + 1]
      BY DEF XmitQueue, FillEntry, TypeOK
    <3>3. stop_queue_channel' \in Channels \cup {NoChannel}
      BY DEF XmitQueue, TypeOK, netq
    <3> HIDE DEF n, a
    <3> QED
      BY <3>1, <3>2, <3>3 DEF TypeOK
  <2> QED
    BY <2>1, <2>2, <2>3, <2>4, <2>5 DEF XmitQueue, TypeOK, hw
<1>8. QueueMatchesLists'
  <2>1. ~tailed'
    BY DEF XmitQueue, FillEntry
  <2>2. \A d \in Channels : d # c => cur_pkt_count'[d] # Half
    BY <1>1 DEF XmitQueue, RingShape, QueueMatchesLists, TypeOK
  <2>3. CASE n + 1 = Half
    <3>1. queue_stopped' /\ stop_queue_channel' = c
      BY <1>4, <2>3 DEF XmitQueue
    <3> QED
      BY <1>5, <2>1, <2>2, <2>3, <3>1 DEF QueueMatchesLists
  <2>4. CASE n + 1 # Half
    <3>1. ~queue_stopped'
      BY <1>1, <1>4, <2>4 DEF XmitQueue, netq
    <3> QED
      BY <1>5, <2>1, <2>2, <2>4, <3>1 DEF QueueMatchesLists
  <2> QED
    BY <2>3, <2>4
<1>9. ASSUME NEW d \in Channels, d # c
      PROVE  /\ FlagsAgree(d)' /\ FillingList(d)'
             /\ (hw_run[d] => \E e \in Desc : InFlight(d, e))'
  <2>1. /\ cur'[d] = cur[d] /\ idle'[d] = idle[d] /\ running'[d] = running[d]
        /\ cur_pkt_count'[d] = cur_pkt_count[d]
        /\ current_list'[d] = current_list[d] /\ tx_buff'[d] = tx_buff[d]
        /\ stop_bit'[d] = stop_bit[d] /\ hw_run'[d] = hw_run[d]
        /\ hw_pos'[d] = hw_pos[d] /\ irq_req'[d] = irq_req[d]
        /\ accepted'[d] = accepted[d]
    BY <1>9 DEF XmitQueue, FillEntry, TypeOK, hw
  <2> QED
    BY <2>1 DEF RingShape, FlagsAgree, FillingList, InFlight
<1>10. FlagsAgree(c)'
  BY <1>5 DEF RingShape, FlagsAgree
<1>11. FillingList(c)'
  <2>1. cur'[c] = IF ListStart(l) + (n + 1) = 2 * Half
                  THEN 0 ELSE ListStart(l) + (n + 1)
    BY <1>1, <1>2, <1>3, <1>5
  <2>2. ASSUME NEW k \in 0 .. n
        PROVE  /\ ~stop_bit'[c][ListStart(l) + k]
               /\ tx_buff'[c][ListStart(l) + k] = (a + 1) - (n + 1) + 1 + k
    <3> DEFINE i == ListStart(l) + k
    <3>1. i \in Desc
      BY <1>1 DEF Desc
    <3>t. tx_buff[c] \in [Desc -> 0 .. MaxPkts] /\ stop_bit[c] \in [Desc -> BOOLEAN]
      BY ChannelTypes
    <3>2. CASE k = n
      <4>1. i = cur[c]
        BY <1>2, <3>2
      <4>2. ~stop_bit'[c][i] /\ tx_buff'[c][i] = a + 1
        BY <1>6, <3>1, <3>t, <4>1
      <4>3. a + 1 = (a + 1) - (n + 1) + 1 + k
        BY <1>1, <3>2
      <4> QED
        BY <4>2, <4>3
    <3>3. CASE k # n
      <4>1. k \in 0 .. n - 1 /\ ListStart(l) + k # cur[c]
        BY <1>1, <1>2, <3>3
      <4>2. /\ ~stop_bit[c][ListStart(l) + k]
            /\ tx_buff[c][ListStart(l) + k] = a - n + 1 + k
        BY <4>1 DEF RingShape, FillingList
      <4>3. stop_bit'[c][i] = stop_bit[c][i] /\ tx_buff'[c][i] = tx_buff[c][i]
        BY <1>6, <3>1, <3>t, <4>1
      <4>4. a - n + 1 + k = (a + 1) - (n + 1) + 1 + k
        BY <1>1
      <4> QED
        BY <4>2, <4>3, <4>4
    <3> QED
      BY <3>2, <3>3
  <2> QED
    BY <1>1, <1>5, <2>1, <2>2 DEF FillingList
<1>12. ASSUME hw_run[c] PROVE \E e \in Desc : InFlight(c, e)'
  <2>1. PICK e \in Desc : InFlight(c, e)
    BY <1>12 DEF RingShape
  <2> DEFINE start == ListStart(1 - l)
  <2>2. hw_pos[c] \in Desc /\ start <= hw_pos[c] /\ hw_pos[c] <= e /\ e < start + Half
    BY <2>1, ChannelTypes DEF InFlight, NextList
  <2>3. ASSUME NEW j \in hw_pos[c] .. e
        PROVE  /\ j \in Desc /\ stop_bit'[c][j] = stop_bit[c][j]
               /\ tx_buff'[c][j] = tx_buff[c][j]
    <3>1. j \in Desc /\ j # cur[c]
      BY <1>1, <1>2, <2>2 DEF Desc
    <3> QED
      BY <1>2, <1>6, <3>1, ChannelTypes
  <2>4. e \in hw_pos[c] .. e /\ hw_pos[c] \in hw_pos[c] .. e
    BY <2>2 DEF Desc
  <2>5. stop_bit'[c][e] /\ tx_buff'[c][hw_pos[c]] >= 1
    BY <2>1, <2>3, <2>4 DEF InFlight
  <2>6. ASSUME NEW j \in hw_pos[c] .. e
        PROVE  /\ j < e => ~stop_bit'[c][j]
               /\ tx_buff'[c][j] = (a + 1) - (n + 1) - (e - j)
    <3>1. /\ j < e => ~stop_bit[c][j]
          /\ tx_buff[c][j] = a - n - (e - j)
      BY <2>1 DEF InFlight
    <3> QED
      BY <1>1, <2>2, <2>3, <3>1 DEF Desc
  <2> QED
    BY <1>5, <2>2, <2>5, <2>6 DEF InFlight, NextList
<1>13. ASSUME NEW d \in Channels
       PROVE  /\ FlagsAgree(d)' /\ FillingList(d)'
              /\ (hw_run[d] => \E e \in Desc : InFlight(d, e))'
  BY <1>5, <1>9, <1>10, <1>11, <1>12
<1> QED
  BY <1>7, <1>8, <1>13 DEF RingShape

(* Servicing the H2C interrupt of a channel: restart on the filled list, or idle. *)
LEMMA ServiceInv ==
  ASSUME TypeOK, RingShape, NEW c \in Channels, Service(c), tsk' \in BOOLEAN
  PROVE  TypeOK' /\ RingShape'
<1> USE TxRingAssumption, ListStarts
<1> DEFINE l == current_list[c]
           n == cur_pkt_count[c]
           a == accepted[c]
<1>1. /\ l \in {0, 1} /\ 1 - l \in {0, 1} /\ 1 - (1 - l) = l
      /\ n \in Nat /\ n <= Half /\ a \in Nat /\ n <= a
      /\ ListStart(l) \in Desc /\ ListStart(1 - l) \in Desc
      /\ ListStart(1 - l) # 2 * Half
  <2>1. l \in {0, 1} /\ n \in 0 .. Half /\ a \in 0 .. MaxPkts
    BY ChannelTypes
  <2>2. n <= a
    BY DEF RingShape, FillingList
  <2> QED
    BY <2>1, <2>2 DEF Desc
<1>2. irq_req[c] /\ ~hw_run[c] /\ running[c]
  BY DEF Service, RingShape, FlagsAgree
<1>3. cur[c] \in Desc /\ cur[c] = IF ListStart(l) + n = 2 * Half
                                  THEN 0 ELSE ListStart(l) + n
  BY ChannelTypes DEF RingShape, FillingList
<1>4. n # 0 => StopDesc(cur[c]) = ListStart(l) + n - 1 /\ StopDesc(cur[c]) \in Desc
  <2>1. CASE ListStart(l) + n = 2 * Half
    <3>1. 2 * Half - 1 \in Desc /\ 2 * Half - 1 = ListStart(l) + n - 1
      <4>1. 2 * Half - 1 \in Desc
        BY DEF Desc
      <4>2. ListStart(l) \in Int /\ n \in Int
        BY <1>1 DEF Desc
      <4>3. \A s, m \in Int : s + m = 2 * Half => 2 * Half - 1 = s + m - 1
        OBVIOUS
      <4>4. 2 * Half - 1 = ListStart(l) + n - 1
        BY <2>1, <4>2, <4>3
      <4> QED
        BY <4>1, <4>4
    <3>2. cur[c] = 0
      BY <1>3, <2>1
    <3> QED
      BY <3>1, <3>2 DEF StopDesc
  <2>2. CASE ListStart(l) + n # 2 * Half
    <3>1. ListStart(l) = 0 \/ ListStart(l) = Half
      BY <1>1
    <3>2. cur[c] = ListStart(l) + n
      BY <1>3, <2>2
    <3>3. n # 0 => cur[c] # 0 /\ cur[c] - 1 \in Desc /\ cur[c] - 1 = ListStart(l) + n - 1
      BY <1>1, <1>3, <3>1, <3>2 DEF Desc
    <3> QED
      BY <3>3 DEF StopDesc
  <2> QED
    BY <2>1, <2>2
<1>5. /\ irq_req' = [irq_req EXCEPT ![c] = FALSE]
      /\ tx_buff' = tx_buff /\ accepted' = accepted
      /\ tailed' = tailed /\ exposed' = exposed /\ tx_timestamp' = tx_timestamp /\ msix' = msix
      /\ wire' = wire /\ lost' = lost /\ errors' = errors
  BY DEF Service, hist
<1>6. n # 0 => /\ stop_bit' = [stop_bit EXCEPT ![c][StopDesc(cur[c])] = TRUE]
               /\ running' = [running EXCEPT ![c] = TRUE]
               /\ hw_run' = [hw_run EXCEPT ![c] = TRUE]
               /\ hw_pos' = [hw_pos EXCEPT ![c] = ListStart(l)]
               /\ current_list' = [current_list EXCEPT ![c] = 1 - l]
               /\ cur' = [cur EXCEPT ![c] = ListStart(1 - l)]
               /\ cur_pkt_count' = [cur_pkt_count EXCEPT ![c] = 0]
               /\ idle' = [idle EXCEPT ![c] = FALSE]
  BY DEF Service, engine_start, SwitchList, NextList
<1>7. n = 0 => /\ running' = [running EXCEPT ![c] = FALSE]
               /\ hw_run' = [hw_run EXCEPT ![c] = FALSE]
               /\ idle' = [idle EXCEPT ![c] = TRUE]
               /\ cur' = cur /\ cur_pkt_count' = cur_pkt_count
               /\ current_list' = current_list
               /\ stop_bit' = stop_bit /\ hw_pos' = hw_pos
  BY DEF Service
<1>8. TypeOK'
  <2>1. cur' \in [Channels -> Desc] /\ hw_pos' \in [Channels -> Desc]
    <3>1. CASE n = 0
      BY <1>7, <3>1 DEF TypeOK
    <3>2. CASE n # 0
      <4>1. /\ cur' = [cur EXCEPT ![c] = ListStart(1 - l)]
            /\ hw_pos' = [hw_pos EXCEPT ![c] = ListStart(l)]
        BY <1>6, <3>2
      <4>2. cur \in [Channels -> Desc] /\ hw_pos \in [Channels -> Desc]
        BY DEF TypeOK
      <4> QED
        BY <1>1, <4>1, <4>2
    <3> QED
      BY <3>1, <3>2
  <2>2. stop_bit' \in [Channels -> [Desc -> BOOLEAN]]
    <3>1. CASE n = 0
      BY <1>7, <3>1 DEF TypeOK
    <3>2. CASE n # 0
      <4>1. /\ stop_bit' = [stop_bit EXCEPT ![c][StopDesc(cur[c])] = TRUE]
            /\ StopDesc(cur[c]) \in Desc
        BY <1>4, <1>6, <3>2
      <4>2. stop_bit \in [Channels -> [Desc -> BOOLEAN]]
        BY DEF TypeOK
      <4> QED
        BY <4>1, <4>2
    <3> QED
      BY <3>1, <3>2
  <2>3. /\ idle' \in [Channels -> BOOLEAN]
        /\ running' \in [Channels -> BOOLEAN]
        /\ hw_run' \in [Channels -> BOOLEAN]
        /\ irq_req' \in [Channels -> BOOLEAN]
    BY <1>5, <1>6, <1>7 DEF TypeOK
  <2>4. /\ cur_pkt_count' \in [Channels -> 0 .. Half]
        /\ current_list' \in [Channels -> {0, 1}]
    <3>1. CASE n = 0
      BY <1>7, <3>1 DEF TypeOK
    <3>2. CASE n # 0
      <4>1. /\ cur_pkt_count' = [cur_pkt_count EXCEPT ![c] = 0]
            /\ current_list' = [current_list EXCEPT ![c] = 1 - l]
        BY <1>6, <3>2
      <4>2. /\ cur_pkt_count \in [Channels -> 0 .. Half]
            /\ current_list \in [Channels -> {0, 1}]
        BY DEF TypeOK
      <4> QED
        BY <1>1, <4>1, <4>2
    <3> QED
      BY <3>1, <3>2
  <2>5. queue_stopped' \in BOOLEAN /\ stop_queue_channel' \in Channels \cup {NoChannel}
    BY DEF Service, WakeQueue, netq, TypeOK
  <2> QED
    BY <1>5, <2>1, <2>2, <2>3, <2>4, <2>5 DEF TypeOK
<1>9. /\ cur_pkt_count'[c] = 0
      /\ \A d \in Channels : d # c => cur_pkt_count'[d] = cur_pkt_count[d]
  BY <1>6, <1>7 DEF TypeOK
<1>10. QueueMatchesLists'
  <2>1. cur_pkt_count'[c] # Half
    BY <1>9
  <2>2. tailed' => ~queue_stopped /\ accepted'[PtpChan] < MaxPkts
    BY <1>5 DEF RingShape, QueueMatchesLists
  <2>3. CASE stop_queue_channel = c
    <3>1. ~queue_stopped'
      BY <2>3 DEF Service, WakeQueue
    <3>2. \A d \in Channels : cur_pkt_count'[d] # Half
      BY <1>9, <2>1, <2>3 DEF RingShape, QueueMatchesLists
    <3> QED
      BY <2>2, <3>1, <3>2 DEF QueueMatchesLists
  <2>4. CASE stop_queue_channel # c
    <3>1. queue_stopped' = queue_stopped /\ stop_queue_channel' = stop_queue_channel
      BY <2>4 DEF Service, WakeQueue, netq
    <3> QED
      BY <1>9, <2>1, <2>2, <2>4, <3>1 DEF RingShape, QueueMatchesLists
  <2> QED
    BY <2>3, <2>4
<1>11. ASSUME NEW d \in Channels, d # c
       PROVE  /\ FlagsAgree(d)' /\ FillingList(d)'
              /\ (hw_run[d] => \E e \in Desc : InFlight(d, e))'
  <2>1. /\ cur'[d] = cur[d] /\ idle'[d] = idle[d] /\ running'[d] = running[d]
        /\ cur_pkt_count'[d] = cur_pkt_count[d]
        /\ current_list'[d] = current_list[d] /\ tx_buff'[d] = tx_buff[d]
        /\ stop_bit'[d] = stop_bit[d] /\ hw_run'[d] = hw_run[d]
        /\ hw_pos'[d] = hw_pos[d] /\ irq_req'[d] = irq_req[d]
        /\ accepted'[d] = accepted[d]
    <3> USE <1>5, <1>11 DEF TypeOK
    <3>1. CASE n = 0
      BY <1>7, <3>1
    <3>2. CASE n # 0
      BY <1>6, <3>2
    <3> QED
      BY <3>1, <3>2
  <2> QED
    BY <2>1 DEF RingShape, FlagsAgree, FillingList, InFlight
<1>12. CASE n = 0
  <2>1. FlagsAgree(c)' /\ ~hw_run'[c]
    BY <1>2, <1>5, <1>7, <1>9, <1>12 DEF FlagsAgree, TypeOK
  <2>2. FillingList(c)'
    BY <1>5, <1>7, <1>12 DEF RingShape, FillingList
  <2> QED
    BY <1>8, <1>10, <1>11, <2>1, <2>2 DEF RingShape
<1>13. CASE n # 0
  <2>1. FlagsAgree(c)'
    BY <1>2, <1>5, <1>6, <1>9, <1>13 DEF FlagsAgree, TypeOK
  <2>2. FillingList(c)'
    BY <1>1, <1>5, <1>6, <1>13 DEF FillingList, TypeOK
  <2>3. PICK e \in Desc : e = ListStart(l) + n - 1
    BY <1>4, <1>13
  <2>4. InFlight(c, e)'
    <3>1. /\ hw_pos'[c] = ListStart(l) /\ current_list'[c] = 1 - l
          /\ cur_pkt_count'[c] = 0 /\ accepted'[c] = a /\ tx_buff'[c] = tx_buff[c]
          /\ stop_bit'[c] = [stop_bit[c] EXCEPT ![e] = TRUE]
      BY <1>4, <1>5, <1>6, <1>13, <2>3 DEF TypeOK
    <3>2. stop_bit[c] \in [Desc -> BOOLEAN]
      BY ChannelTypes
    <3>3. stop_bit'[c][e]
      BY <3>1, <3>2
    <3>4. ASSUME NEW j \in ListStart(l) .. e
          PROVE  /\ j < e => ~stop_bit'[c][j]
                 /\ tx_buff'[c][j] = a - 0 - (e - j)
      <4>1. j - ListStart(l) \in 0 .. n - 1 /\ j \in Desc /\ j \in Int
            /\ ListStart(l) + (j - ListStart(l)) = j
        BY <1>1, <2>3 DEF Desc
      <4>2. /\ ~stop_bit[c][j]
            /\ tx_buff[c][j] = a - n + 1 + (j - ListStart(l))
        BY <4>1 DEF RingShape, FillingList
      <4>3. j < e => stop_bit'[c][j] = stop_bit[c][j]
        <5>1. j < e => j # e
          BY <4>1 DEF Desc
        <5> QED
          BY <3>1, <3>2, <4>1, <5>1
      <4>4. a - n + 1 + (j - ListStart(l)) = a - 0 - (e - j)
        BY <1>1, <2>3, <4>1 DEF Desc
      <4> QED
        BY <3>1, <4>2, <4>3, <4>4
    <3>5. /\ ListStart(l) \in ListStart(l) .. e /\ ListStart(l) <= e
          /\ e < ListStart(l) + Half
      BY <1>1, <1>13, <2>3 DEF Desc
    <3>6. tx_buff'[c][ListStart(l)] >= 1
      <4>1. tx_buff'[c][ListStart(l)] = a - 0 - (e - ListStart(l))
        BY <3>4, <3>5
      <4> QED
        BY <1>1, <1>13, <2>3, <4>1 DEF Desc
    <3> QED
      BY <1>1, <3>1, <3>3, <3>4, <3>5, <3>6 DEF InFlight, NextList
  <2>5. ASSUME NEW d \in Channels
        PROVE  /\ FlagsAgree(d)' /\ FillingList(d)'
               /\ (hw_run[d] => \E k \in Desc : InFlight(d, k))'
    BY <1>11, <2>1, <2>2, <2>4
  <2> QED
    BY <1>8, <1>10, <2>5 DEF RingShape
<1> QED
  BY <1>12, <1>13

(* The engine stops at the descriptor where the run in flight ends, not before. *)
LEMMA RunEnds ==
  ASSUME TypeOK, NEW c \in Channels, NEW e \in Desc, InFlight(c, e),
         NEW j \in hw_pos[c] .. e
  PROVE  /\ j \in Desc
         /\ EndsRun(c, j) <=> j = e
<1> USE TxRingAssumption, ListStarts
<1> DEFINE start == ListStart(1 - current_list[c])
<1>1. start = 0 \/ start = Half
  <2>1. current_list[c] \in {0, 1}
    BY ChannelTypes
  <2>2. 1 - current_list[c] \in {0, 1}
    BY <2>1
  <2> QED
    BY <2>2
<1>2. hw_pos[c] \in Desc /\ start <= hw_pos[c] /\ e < start + Half
  BY ChannelTypes DEF InFlight, NextList
<1>3. j \in Desc /\ j \in Int /\ j <= e /\ start <= j
  BY <1>1, <1>2 DEF Desc
<1>4. j < e => ~stop_bit[c][j]
  BY DEF InFlight
<1>5. stop_bit[c][e]
  BY DEF InFlight
<1>6. j < e => j \notin {Half - 1, 2 * Half - 1}
  BY <1>1, <1>2, <1>3 DEF Desc
<1>7. j < e \/ j = e
  BY <1>3 DEF Desc
<1>8. CASE j = e
  BY <1>3, <1>5, <1>8 DEF EndsRun
<1>9. CASE j < e
  <2>1. j # e
    BY <1>3, <1>9 DEF Desc
  <2> QED
    BY <1>3, <1>4, <1>6, <1>9, <2>1 DEF EndsRun
<1> QED
  BY <1>7, <1>8, <1>9

(* Fetching a descriptor moves through the run; the last fetch ends it. *)
LEMMA HwFetchInv ==
  ASSUME TypeOK, RingShape, NEW c \in Channels, HwFetch(c)
  PROVE  TypeOK' /\ RingShape'
<1> USE TxRingAssumption
<1> DEFINE p == hw_pos[c]
<1>1. hw_run[c] /\ ~irq_req[c] /\ running[c] /\ ~idle[c]
  BY DEF HwFetch, RingShape, FlagsAgree
<1>2. PICK e \in Desc : InFlight(c, e)
  BY <1>1 DEF RingShape
<1>3. p \in Desc /\ p <= e /\ p \in p .. e
  BY <1>2, ChannelTypes DEF InFlight, Desc
<1>4. EndsRun(c, p) <=> p = e
  BY <1>2, <1>3, RunEnds
<1>5. /\ cur' = cur /\ idle' = idle /\ cur_pkt_count' = cur_pkt_count
      /\ current_list' = current_list /\ running' = running
      /\ tx_buff' = tx_buff /\ stop_bit' = stop_bit
      /\ queue_stopped' = queue_stopped /\ stop_queue_channel' = stop_queue_channel
      /\ tailed' = tailed /\ exposed' = exposed /\ tx_timestamp' = tx_timestamp /\ tsk' = tsk /\ msix' = msix
      /\ accepted' = accepted /\ lost' = lost /\ errors' = errors
  BY DEF HwFetch, tx_list, netq, ptp
<1>6. wire' \in [Channels -> Seq(0 .. MaxPkts)]
  <2>1. tx_buff[c][p] \in 0 .. MaxPkts /\ wire[c] \in Seq(0 .. MaxPkts)
    BY <1>3, ChannelTypes
  <2>2. Append(wire[c], tx_buff[c][p]) \in Seq(0 .. MaxPkts)
    BY <2>1
  <2>3. wire \in [Channels -> Seq(0 .. MaxPkts)]
    BY DEF TypeOK
  <2>4. wire' = [wire EXCEPT ![c] = Append(wire[c], tx_buff[c][p])]
    BY DEF HwFetch
  <2> QED
    BY <2>2, <2>3, <2>4
<1>7. QueueMatchesLists'
  BY <1>5 DEF RingShape, QueueMatchesLists
<1>8. CASE p = e
  <2>1. /\ hw_run' = [hw_run EXCEPT ![c] = FALSE]
        /\ irq_req' = [irq_req EXCEPT ![c] = TRUE]
        /\ hw_pos' = hw_pos
    BY <1>4, <1>8 DEF HwFetch
  <2>2. TypeOK'
    BY <1>5, <1>6, <2>1 DEF TypeOK
  <2>3. ASSUME NEW d \in Channels
        PROVE  /\ FlagsAgree(d)' /\ FillingList(d)'
               /\ (hw_run[d] => \E k \in Desc : InFlight(d, k))'
    <3>1. FillingList(d)'
      BY <1>5 DEF RingShape, FillingList
    <3>2. CASE d = c
      BY <1>1, <1>5, <2>1, <3>1, <3>2 DEF FlagsAgree, TypeOK
    <3>3. CASE d # c
      <4>1. hw_run'[d] = hw_run[d] /\ irq_req'[d] = irq_req[d]
        BY <2>1, <3>3 DEF TypeOK
      <4> QED
        BY <1>5, <2>1, <3>1, <4>1 DEF RingShape, FlagsAgree, InFlight
    <3> QED
      BY <3>2, <3>3
  <2> QED
    BY <1>7, <2>2, <2>3 DEF RingShape
<1>9. CASE p # e
  <2>1. /\ hw_pos' = [hw_pos EXCEPT ![c] = p + 1]
        /\ hw_run' = hw_run /\ irq_req' = irq_req
    BY <1>4, <1>9 DEF HwFetch
  <2>2. p + 1 \in Desc /\ p + 1 <= e /\ p + 1 \in p .. e
    BY <1>3, <1>9 DEF Desc
  <2>3. TypeOK'
    <3>1. hw_pos' \in [Channels -> Desc]
      BY <2>1, <2>2 DEF TypeOK
    <3> QED
      BY <1>5, <1>6, <2>1, <3>1 DEF TypeOK
  <2>4. hw_pos'[c] = p + 1
    BY <2>1 DEF TypeOK
  <2>5. InFlight(c, e)'
    <3> DEFINE start == ListStart(NextList(current_list[c]))
    <3>1. start <= p + 1 /\ e < start + Half
      <4>1. start <= p /\ e < start + Half
        BY <1>2 DEF InFlight
      <4>2. start \in Int
        <5>1. current_list[c] \in {0, 1}
          BY ChannelTypes
        <5>2. 1 - current_list[c] \in {0, 1}
          BY <5>1
        <5> QED
          BY <5>2, ListStarts DEF NextList
      <4>3. p \in Int
        BY <1>3 DEF Desc
      <4> HIDE DEF start, p
      <4> QED
        BY <4>1, <4>2, <4>3
    <3>2. stop_bit[c][e]
      BY <1>2 DEF InFlight
    <3>3. ASSUME NEW j \in (p + 1) .. e
          PROVE  /\ j < e => ~stop_bit[c][j]
                 /\ tx_buff[c][j] = accepted[c] - cur_pkt_count[c] - (e - j)
      <4>1. j \in p .. e
        BY <1>3 DEF Desc
      <4> QED
        BY <1>2, <4>1 DEF InFlight
    <3>4. tx_buff[c][p + 1] >= 1
      <4>1. tx_buff[c][p] >= 1 /\ tx_buff[c][p] \in Nat /\ tx_buff[c][p + 1] \in Nat
        BY <1>2, <1>3, <2>2, ChannelTypes DEF InFlight
      <4>2. /\ tx_buff[c][p] = accepted[c] - cur_pkt_count[c] - (e - p)
            /\ tx_buff[c][p + 1] = accepted[c] - cur_pkt_count[c] - (e - (p + 1))
        BY <1>2, <1>3, <2>2 DEF InFlight
      <4>3. accepted[c] \in Nat /\ cur_pkt_count[c] \in Nat
        BY ChannelTypes
      <4> QED
        BY <1>3, <4>1, <4>2, <4>3 DEF Desc
    <3> QED
      BY <1>5, <2>2, <2>4, <3>1, <3>2, <3>3, <3>4 DEF InFlight
  <2>6. ASSUME NEW d \in Channels
        PROVE  /\ FlagsAgree(d)' /\ FillingList(d)'
               /\ (hw_run[d] => \E k \in Desc : InFlight(d, k))'
    <3>1. FillingList(d)' /\ FlagsAgree(d)'
      BY <1>5, <2>1 DEF RingShape, FillingList, FlagsAgree
    <3>2. CASE d = c
      BY <2>5, <3>1, <3>2
    <3>3. CASE d # c
      <4>1. hw_pos'[d] = hw_pos[d]
        BY <2>1, <3>3 DEF TypeOK
      <4> QED
        BY <1>5, <2>1, <3>1, <4>1 DEF RingShape, InFlight
    <3> QED
      BY <3>2, <3>3
  <2> QED
    BY <1>7, <2>3, <2>6 DEF RingShape
<1> QED
  BY <1>8, <1>9

(* An error ends the run; what the driver keeps is untouched. *)
LEMMA HwErrorInv ==
  ASSUME TypeOK, RingShape, NEW c \in Channels, HwError(c)
  PROVE  TypeOK' /\ RingShape'
<1> USE TxRingAssumption
<1>1. hw_run[c] /\ ~irq_req[c] /\ running[c] /\ ~idle[c]
  BY DEF HwError, RingShape, FlagsAgree
<1>2. /\ cur' = cur /\ idle' = idle /\ cur_pkt_count' = cur_pkt_count
      /\ current_list' = current_list /\ running' = running /\ hw_pos' = hw_pos
      /\ tx_buff' = tx_buff /\ stop_bit' = stop_bit
      /\ queue_stopped' = queue_stopped /\ stop_queue_channel' = stop_queue_channel
      /\ tailed' = tailed /\ exposed' = exposed /\ tx_timestamp' = tx_timestamp /\ tsk' = tsk /\ msix' = msix
      /\ accepted' = accepted /\ wire' = wire
      /\ hw_run' = [hw_run EXCEPT ![c] = FALSE]
      /\ irq_req' = [irq_req EXCEPT ![c] = TRUE]
  BY DEF HwError, tx_list, netq, ptp
<1>3. TypeOK'
  <2>1. lost' \in [Channels -> SUBSET (0 .. MaxPkts)]
    <3> DEFINE dropped == {tx_buff[c][i] : i \in HwSlots(c)}
    <3>1. \A i \in HwSlots(c) : tx_buff[c][i] \in 0 .. MaxPkts
      BY ChannelTypes DEF HwSlots
    <3>2. lost[c] \cup dropped \in SUBSET (0 .. MaxPkts)
      BY <3>1, ChannelTypes
    <3>3. lost \in [Channels -> SUBSET (0 .. MaxPkts)]
      BY DEF TypeOK
    <3>4. lost' = [lost EXCEPT ![c] = lost[c] \cup dropped]
      BY DEF HwError
    <3> HIDE DEF dropped
    <3> QED
      BY <3>2, <3>3, <3>4
  <2>2. errors' \in [Channels -> 0 .. MaxErrors]
    <3>1. errors[c] + 1 \in 0 .. MaxErrors
      <4>1. errors[c] \in 0 .. MaxErrors /\ errors[c] < MaxErrors
        BY ChannelTypes DEF HwError
      <4> QED
        BY <4>1
    <3>2. errors \in [Channels -> 0 .. MaxErrors]
      BY DEF TypeOK
    <3>3. errors' = [errors EXCEPT ![c] = errors[c] + 1]
      BY DEF HwError
    <3> QED
      BY <3>1, <3>2, <3>3
  <2> QED
    BY <1>2, <2>1, <2>2 DEF TypeOK
<1>4. QueueMatchesLists'
  BY <1>2 DEF RingShape, QueueMatchesLists
<1>5. ASSUME NEW d \in Channels
      PROVE  /\ FlagsAgree(d)' /\ FillingList(d)'
             /\ (hw_run[d] => \E k \in Desc : InFlight(d, k))'
  <2>1. FillingList(d)'
    BY <1>2 DEF RingShape, FillingList
  <2>2. CASE d = c
    BY <1>1, <1>2, <2>1, <2>2 DEF FlagsAgree, TypeOK
  <2>3. CASE d # c
    <3>1. hw_run'[d] = hw_run[d] /\ irq_req'[d] = irq_req[d]
      BY <1>2, <2>3 DEF TypeOK
    <3> QED
      BY <1>2, <2>1, <3>1 DEF RingShape, FlagsAgree, InFlight
  <2> QED
    BY <2>2, <2>3
<1> QED
  BY <1>3, <1>4, <1>5 DEF RingShape

(* Every step of the transmit path keeps TypeOK and RingShape. *)
LEMMA StepInv == TypeOK /\ RingShape /\ [Next]_vars => TypeOK' /\ RingShape'
<1> SUFFICES ASSUME TypeOK, RingShape, [Next]_vars
             PROVE  TypeOK' /\ RingShape'
  OBVIOUS
<1>1. CASE XmitTail
  BY <1>1, XmitTailInv
<1>2. ASSUME NEW c \in Channels, XmitStart(c) PROVE TypeOK' /\ RingShape'
  BY <1>2, XmitStartInv
<1>3. ASSUME NEW c \in Channels, XmitQueue(c) PROVE TypeOK' /\ RingShape'
  BY <1>3, XmitQueueInv
<1>4. CASE xdma_channel_H2C_irq
  BY <1>4, ServiceInv DEF xdma_channel_H2C_irq, Channels, TypeOK
<1>5. CASE xdma_channel_H2C_PTP_irq
  BY <1>5, ServiceInv DEF xdma_channel_H2C_PTP_irq, Channels, PtpChan
<1>6. CASE tasklet_ptp \/ ax_tsn_irq_ptp
  BY <1>6, TaskletInv
<1>7. ASSUME NEW c \in Channels, HwFetch(c) PROVE TypeOK' /\ RingShape'
  BY <1>7, HwFetchInv
<1>8. ASSUME NEW c \in Channels, HwError(c) PROVE TypeOK' /\ RingShape'
  BY <1>8, HwErrorInv
<1>9. ASSUME NEW c \in Channels, xdma_isr_H2C(c) PROVE TypeOK' /\ RingShape'
  BY <1>9, ServiceInv DEF xdma_isr_H2C, TypeOK
<1>10. CASE UNCHANGED vars
  <2>1. TypeOK'
    BY <1>10 DEF vars, tx_list, hw, netq, ptp, hist, TypeOK
  <2>2. QueueMatchesLists'
    BY <1>10 DEF vars, tx_list, hw, netq, ptp, hist, RingShape, QueueMatchesLists
  <2>3. ASSUME NEW c \in Channels
        PROVE  /\ FlagsAgree(c)' /\ FillingList(c)'
               /\ (hw_run[c] => \E e \in Desc : InFlight(c, e))'
    BY <1>10 DEF vars, tx_list, hw, netq, ptp, hist, RingShape, FlagsAgree,
                FillingList, InFlight
  <2> QED
    BY <2>1, <2>2, <2>3 DEF RingShape
<1> QED
  BY <1>1, <1>2, <1>3, <1>4, <1>5, <1>6, <1>7, <1>8, <1>9, <1>10 DEF Next

(* Types and shape of the ring hold together in every reachable state. *)
LEMMA RingInductive == Spec => [](TypeOK /\ RingShape)
<1>1. Init => TypeOK /\ RingShape
  BY InitInv
<1>2. (TypeOK /\ RingShape) /\ [Next]_vars => (TypeOK /\ RingShape)'
  BY StepInv
<1> QED
  BY <1>1, <1>2, PTL DEF Spec

(* The ring's invariant, which xmit and the H2C handlers rely on and keep,  *)
(* holds in every reachable state, whatever the ring's size.                *)
THEOREM RingInvariant == Spec => []RingInv
<1>1. TypeOK /\ RingShape => RingInv
  BY DEF RingInv
<1> QED
  BY <1>1, RingInductive, PTL

(* BUG_ON(engine->running) is out of ax_net_start_xmit's reach. *)
THEOREM EngineIdle == Spec => []EngineIdleAtStart
<1>1. RingShape => EngineIdleAtStart
  BY DEF RingShape, FlagsAgree, EngineIdleAtStart
<1> QED
  BY <1>1, RingInductive, PTL

(* A stopped queue is woken by the channel stop_queue_channel names. *)
THEOREM QueueHasWaker == Spec => []StoppedQueueHasWaker
<1>1. ASSUME TypeOK, RingShape PROVE StoppedQueueHasWaker
  <2>1. CASE queue_stopped
    <3>1. PICK c \in Channels : stop_queue_channel = c /\ cur_pkt_count[c] = Half
      BY <1>1, <2>1 DEF RingShape, QueueMatchesLists
    <3>2. ~idle[c]
      BY <1>1, <3>1, TxRingAssumption DEF RingShape, FlagsAgree
    <3>3. hw_run[c] \/ irq_req[c]
      BY <1>1, <3>2 DEF RingShape, FlagsAgree
    <3> QED
      BY <2>1, <3>1, <3>3 DEF StoppedQueueHasWaker
  <2>2. CASE ~queue_stopped
    <3>1. ASSUME NEW c \in Channels PROVE cur_pkt_count[c] < Half
      <4>1. cur_pkt_count[c] # Half
        BY <1>1, <2>2 DEF RingShape, QueueMatchesLists
      <4>2. cur_pkt_count[c] \in 0 .. Half
        BY <1>1, ChannelTypes
      <4> QED
        BY <4>1, <4>2, TxRingAssumption
    <3> QED
      BY <2>2, <3>1 DEF StoppedQueueHasWaker
  <2> QED
    BY <2>1, <2>2
<1> QED
  BY <1>1, RingInductive, PTL

(* What the engine has still to fetch is the run in flight. *)
LEMMA SlotsInFlight ==
  ASSUME TypeOK, NEW c \in Channels, hw_run[c], NEW e \in Desc, InFlight(c, e)
  PROVE  HwSlots(c) = hw_pos[c] .. e
<1> USE TxRingAssumption
<1>1. hw_pos[c] \in Desc /\ hw_pos[c] <= e /\ e \in hw_pos[c] .. e
  BY ChannelTypes DEF InFlight, Desc
<1>2. ASSUME NEW i \in HwSlots(c) PROVE i \in hw_pos[c] .. e
  <2>1. i \in Desc /\ hw_pos[c] <= i
    BY DEF HwSlots
  <2>2. ~(e < i)
    <3>1. EndsRun(c, e)
      BY <1>1, RunEnds
    <3> QED
      BY <1>1, <3>1 DEF HwSlots
  <2> QED
    BY <1>1, <2>1, <2>2 DEF Desc
<1>3. ASSUME NEW i \in hw_pos[c] .. e PROVE i \in HwSlots(c)
  <2>1. i \in Desc /\ hw_pos[c] <= i
    BY <1>1, RunEnds
  <2>2. ASSUME NEW j \in Desc, hw_pos[c] <= j, j < i PROVE ~EndsRun(c, j)
    <3>1. j \in hw_pos[c] .. e /\ j # e
      BY <1>1, <2>1, <2>2 DEF Desc
    <3> QED
      BY <3>1, RunEnds
  <2> QED
    BY <2>1, <2>2 DEF HwSlots
<1> QED
  BY <1>2, <1>3

(* No step of the driver reaches an entry the engine has still to fetch. *)
LEMMA OwnershipStep ==
  ASSUME TypeOK, RingShape, Next, NEW c \in Channels, NEW i \in HwSlots(c)
  PROVE  /\ tx_buff'[c][i] = tx_buff[c][i]
         /\ stop_bit'[c][i] = stop_bit[c][i]
<1> USE TxRingAssumption, ListStarts
<1> DEFINE Kept == /\ tx_buff'[c][i] = tx_buff[c][i]
                   /\ stop_bit'[c][i] = stop_bit[c][i]
<1>1. hw_run[c] /\ i \in Desc
  BY DEF HwSlots
<1>2. PICK e \in Desc : InFlight(c, e)
  BY <1>1 DEF RingShape
<1>3. i \in hw_pos[c] .. e
  BY <1>1, <1>2, SlotsInFlight
<1> DEFINE start == ListStart(1 - current_list[c])
<1>4. /\ current_list[c] \in {0, 1} /\ hw_pos[c] \in Desc /\ cur[c] \in Desc
      /\ tx_buff[c] \in [Desc -> 0 .. MaxPkts]
      /\ stop_bit[c] \in [Desc -> BOOLEAN]
  BY ChannelTypes
<1>5. start <= i /\ i < start + Half
  <2>1. start <= hw_pos[c] /\ e < start + Half
    BY <1>2 DEF InFlight, NextList
  <2>2. 1 - current_list[c] \in {0, 1}
    BY <1>4
  <2>3. start \in Int
    BY <2>2
  <2>4. hw_pos[c] \in Int /\ e \in Int /\ i \in Int
    BY <1>1, <1>4 DEF Desc
  <2>5. hw_pos[c] <= i /\ i <= e
    BY <1>3, <2>4
  <2> HIDE DEF start
  <2> QED
    BY <2>1, <2>3, <2>4, <2>5
<1>6. ~irq_req[c] /\ ~idle[c]
  BY <1>1 DEF RingShape, FlagsAgree
<1>7. CASE tx_buff' = tx_buff /\ stop_bit' = stop_bit
  BY <1>7
<1>8. ASSUME NEW d \in Channels, XmitStart(d) \/ Service(d) PROVE Kept
  <2>1. d # c
    BY <1>6, <1>8 DEF XmitStart, Service
  <2>2. tx_buff'[c] = tx_buff[c] /\ stop_bit'[c] = stop_bit[c]
    <3>1. CASE XmitStart(d)
      BY <2>1, <3>1 DEF XmitStart, FillEntry, TypeOK
    <3>2. CASE Service(d)
      BY <2>1, <3>2 DEF Service, TypeOK
    <3> QED
      BY <1>8, <3>1, <3>2
  <2> QED
    BY <2>2
<1>9. ASSUME NEW d \in Channels, XmitQueue(d) PROVE Kept
  <2>1. CASE d # c
    <3>1. tx_buff'[c] = tx_buff[c] /\ stop_bit'[c] = stop_bit[c]
      <4>1. cur[d] \in Desc /\ accepted[d] + 1 \in 0 .. MaxPkts
        BY <1>9, ChannelTypes, FillEntryRoom DEF XmitQueue
      <4>2. /\ tx_buff' = [tx_buff EXCEPT ![d][cur[d]] = accepted[d] + 1]
            /\ stop_bit' = [stop_bit EXCEPT ![d][cur[d]] = FALSE]
            /\ tx_buff \in [Channels -> [Desc -> 0 .. MaxPkts]]
            /\ stop_bit \in [Channels -> [Desc -> BOOLEAN]]
        BY <1>9 DEF XmitQueue, FillEntry, TypeOK
      <4> QED
        BY <2>1, <4>1, <4>2, WriteEntry
    <3> QED
      BY <3>1
  <2>2. CASE d = c
    <3>1. cur_pkt_count[c] < Half /\ cur_pkt_count[c] \in Nat
      BY <1>9, <2>2, FillEntryRoom, ChannelTypes DEF XmitQueue
    <3>2. cur[c] = ListStart(current_list[c]) + cur_pkt_count[c]
      BY <1>4, <3>1 DEF RingShape, FillingList
    <3>3. cur[c] # i
      BY <1>1, <1>4, <1>5, <3>1, <3>2 DEF Desc
    <3>4. /\ tx_buff'[c] = [tx_buff[c] EXCEPT ![cur[c]] = accepted[c] + 1]
          /\ stop_bit'[c] = [stop_bit[c] EXCEPT ![cur[c]] = FALSE]
      BY <1>9, <2>2 DEF XmitQueue, FillEntry, TypeOK
    <3>5. tx_buff'[c][i] = tx_buff[c][i]
      BY <1>1, <1>4, <3>3, <3>4
    <3>6. stop_bit'[c][i] = stop_bit[c][i]
      BY <1>1, <1>4, <3>3, <3>4
    <3> QED
      BY <3>5, <3>6
  <2> QED
    BY <2>1, <2>2
<1>10. \/ tx_buff' = tx_buff /\ stop_bit' = stop_bit
       \/ \E d \in Channels : XmitStart(d) \/ Service(d) \/ XmitQueue(d)
  BY DEF Next, XmitTail, xdma_channel_H2C_irq, xdma_channel_H2C_PTP_irq,
              xdma_isr_H2C, ax_tsn_irq_ptp, tasklet_ptp, HwFetch, HwError, Channels, PtpChan
<1> QED
  BY <1>7, <1>8, <1>9, <1>10

(* Driver and engine never work on the same list, at any ring size. *)
THEOREM ListOwnership == Spec => HwOwnsItsList
<1> DEFINE Step == \A c \in Channels : \A i \in HwSlots(c) :
                     /\ tx_buff'[c][i] = tx_buff[c][i]
                     /\ stop_bit'[c][i] = stop_bit[c][i]
<1>1. TypeOK /\ RingShape /\ [Next]_vars => [Step]_vars
  BY OwnershipStep
<1> QED
  BY <1>1, RingInductive, PTL DEF Spec, HwOwnsItsList

(***************************************************************************)
(* Why the skb is still there: from skb_queue_tail on a resting channel to *)
(* the copy, channel 1 stays idle and its tasklet unscheduled, and the skb *)
(* is the last one of tx_timestamp.                                        *)
(***************************************************************************)
QuietUntilCopied ==
  msix /\ tailed /\ ~exposed =>
    /\ ~tsk /\ idle[PtpChan]
    /\ tx_timestamp # <<>>
    /\ tx_timestamp[Len(tx_timestamp)] = accepted[PtpChan] + 1

(* A frame put on the timestamp queue of a channel at rest, with MSI-X, is  *)
(* still there when ax_net_start_xmit copies it, whatever runs in between.  *)
THEOREM SkbSurvives == Spec => []SkbOutlivesCopy
<1>1. Init => QuietUntilCopied
  BY DEF Init, QuietUntilCopied
<1>2. ASSUME TypeOK, RingShape, QuietUntilCopied, [Next]_vars
      PROVE  QuietUntilCopied'
  <2> SUFFICES ASSUME msix', tailed', ~exposed'
               PROVE  /\ ~tsk' /\ idle'[PtpChan]
                      /\ tx_timestamp' # <<>>
                      /\ tx_timestamp'[Len(tx_timestamp')] = accepted'[PtpChan] + 1
    BY DEF QuietUntilCopied
  <2>1. CASE XmitTail
    <3>1. /\ tx_timestamp \in Seq(1 .. MaxPkts) /\ accepted[PtpChan] + 1 \in Int
          /\ tsk \in BOOLEAN /\ idle[PtpChan] \in BOOLEAN
      BY <1>2, ChannelTypes DEF TypeOK, Channels, PtpChan
    <3>2. /\ tx_timestamp' = Append(tx_timestamp, accepted[PtpChan] + 1)
          /\ exposed' = (tsk \/ ~idle[PtpChan])
          /\ tsk' = tsk /\ idle' = idle /\ accepted' = accepted
      BY <2>1 DEF XmitTail, tx_list, hist
    <3>3. ~tsk' /\ idle'[PtpChan]
      BY <3>1, <3>2
    <3> QED
      BY <3>1, <3>2, <3>3
  <2>2. CASE \E c \in Channels : XmitStart(c) \/ XmitQueue(c)
    BY <2>2 DEF XmitStart, XmitQueue, FillEntry
  <2>3. CASE tailed' = tailed /\ exposed' = exposed /\ msix' = msix
    <3>1. /\ ~tsk /\ idle[PtpChan] /\ msix
          /\ tx_timestamp # <<>>
          /\ tx_timestamp[Len(tx_timestamp)] = accepted[PtpChan] + 1
      BY <1>2, <2>3 DEF QuietUntilCopied
    <3>2. ~irq_req[PtpChan] /\ ~hw_run[PtpChan]
      BY <1>2, <3>1 DEF RingShape, FlagsAgree, Channels, PtpChan
    <3>3. CASE xdma_channel_H2C_irq
      BY <1>2, <3>1, <3>3
      DEF xdma_channel_H2C_irq, Service, TypeOK, hist, Channels, PtpChan
    <3>4. CASE \E c \in Channels : HwFetch(c) \/ HwError(c)
      <4>1. /\ tsk' = tsk /\ idle' = idle
            /\ tx_timestamp' = tx_timestamp /\ accepted' = accepted
        BY <3>4, Zenon DEF HwFetch, HwError, tx_list, ptp
      <4> QED
        BY <3>1, <4>1, Zenon
    <3>5. CASE UNCHANGED vars
      BY <3>1, <3>5 DEF vars, tx_list, ptp, hist
    <3>6. ~xdma_channel_H2C_PTP_irq /\ ~tasklet_ptp /\ ~ax_tsn_irq_ptp
      BY <3>1, <3>2 DEF xdma_channel_H2C_PTP_irq, Service, tasklet_ptp, ax_tsn_irq_ptp
    <3>7. \A c \in Channels : ~xdma_isr_H2C(c)
      BY <3>1 DEF xdma_isr_H2C
    <3>8. tailed
      BY <2>3
    <3>9. ~XmitTail
      BY <3>8 DEF XmitTail
    <3> QED
      BY <1>2, <2>2, <3>3, <3>4, <3>5, <3>6, <3>7, <3>9 DEF Next
  <2> QED
    BY <1>2, <2>1, <2>2, <2>3
    DEF Next, vars, ptp, xdma_channel_H2C_irq, xdma_channel_H2C_PTP_irq, xdma_isr_H2C,
        Service, tasklet_ptp, ax_tsn_irq_ptp, HwFetch, HwError
<1>3. QuietUntilCopied => SkbOutlivesCopy
  BY DEF QuietUntilCopied, SkbOutlivesCopy
<1> QED
  BY <1>1, <1>2, <1>3, RingInductive, PTL DEF Spec

(***************************************************************************)
(* The refinement of TxFifo.  Departed, read off the ring: the run in      *)
(* flight ends with the packet accepted just before those of the list      *)
(* being filled, so a channel holds at most the packets of its two lists.  *)
(***************************************************************************)
LEMMA DepartedInRun ==
  ASSUME TypeOK, RingShape, NEW c \in Channels, hw_run[c],
         NEW e \in Desc, InFlight(c, e)
  PROVE  /\ Departed[c] = accepted[c] - cur_pkt_count[c] - (e - hw_pos[c]) - 1
         /\ Departed[c] \in Nat
         /\ hw_pos[c] \in Desc /\ hw_pos[c] <= e /\ e - hw_pos[c] < Half
<1> USE TxRingAssumption
<1> DEFINE p == hw_pos[c]
           start == ListStart(NextList(current_list[c]))
<1>1. /\ p \in Desc /\ accepted[c] \in Nat /\ cur_pkt_count[c] \in Nat
      /\ tx_buff[c] \in [Desc -> 0 .. MaxPkts]
  BY ChannelTypes
<1>2. start \in Int
  <2>1. current_list[c] \in {0, 1}
    BY ChannelTypes
  <2>2. 1 - current_list[c] \in {0, 1}
    BY <2>1
  <2> QED
    BY <2>2, ListStarts DEF NextList
<1>3. /\ start <= p /\ p <= e /\ e < start + Half
      /\ tx_buff[c][p] >= 1
  BY DEF InFlight
<1>4. p \in Int /\ e \in Int
  BY <1>1 DEF Desc
<1>5. p \in p .. e
  BY <1>3, <1>4
<1>6. tx_buff[c][p] = accepted[c] - cur_pkt_count[c] - (e - p)
  BY <1>5 DEF InFlight
<1>7. Departed[c] = tx_buff[c][p] - 1
  BY DEF Departed
<1>8. tx_buff[c][p] \in Nat
  BY <1>1
<1>9. e - p < Half
  <2> HIDE DEF start, p
  <2> QED
    BY <1>2, <1>3, <1>4
<1> HIDE DEF start, p
<1>10. /\ Departed[c] = accepted[c] - cur_pkt_count[c] - (e - p) - 1
       /\ Departed[c] \in Nat
       /\ p \in Desc /\ p <= e
  BY <1>1, <1>3, <1>4, <1>6, <1>7, <1>8
<1> QED
  BY <1>9, <1>10 DEF p

(* With the engine at rest, what has departed is all but the list filling. *)
LEMMA DepartedAtRest ==
  ASSUME TypeOK, RingShape, NEW c \in Channels, ~hw_run[c]
  PROVE  /\ Departed[c] = accepted[c] - cur_pkt_count[c]
         /\ Departed[c] \in Nat
<1>1. accepted[c] \in Nat /\ cur_pkt_count[c] \in Nat /\ cur_pkt_count[c] <= accepted[c]
  BY ChannelTypes DEF RingShape, FillingList
<1> QED
  BY <1>1 DEF Departed

(* A channel the step leaves alone keeps what has departed. *)
LEMMA DepartedKept ==
  ASSUME NEW c \in Channels,
         hw_run'[c] = hw_run[c], hw_pos'[c] = hw_pos[c],
         tx_buff'[c] = tx_buff[c], accepted'[c] = accepted[c],
         cur_pkt_count'[c] = cur_pkt_count[c]
  PROVE  Departed'[c] = Departed[c]
BY DEF Departed

(* Accepting a packet on an idle channel: it is the only one on the way. *)
LEMMA XmitStartAccepts ==
  ASSUME TypeOK, RingShape, NEW c \in Channels, XmitStart(c)
  PROVE  Fifo!Accept(c)
<1> USE TxRingAssumption
<1>1. ~hw_run[c] /\ cur_pkt_count[c] = 0
  BY DEF XmitStart, RingShape, FlagsAgree
<1>2. Departed[c] = accepted[c] /\ accepted[c] \in Nat
  BY <1>1, DepartedAtRest, ChannelTypes
<1>3. cur[c] = ListStart(current_list[c]) /\ cur[c] \in Desc
  <2>1. current_list[c] \in {0, 1} /\ cur[c] \in Desc
    BY ChannelTypes
  <2>2. ListStart(current_list[c]) \in Desc
    BY <2>1, ListStarts DEF Desc
  <2> QED
    BY <1>1, <2>1, <2>2 DEF RingShape, FillingList, Desc
<1>4. /\ hw_run'[c] /\ hw_pos'[c] = cur[c]
      /\ tx_buff'[c] = [tx_buff[c] EXCEPT ![cur[c]] = accepted[c] + 1]
  BY <1>3 DEF XmitStart, FillEntry, engine_start, TypeOK
<1>5. tx_buff[c] \in [Desc -> 0 .. MaxPkts]
  BY ChannelTypes
<1>6. tx_buff'[c][hw_pos'[c]] = accepted[c] + 1
  BY <1>3, <1>4, <1>5
<1>7. Departed'[c] = Departed[c]
  <2>1. Departed'[c] = tx_buff'[c][hw_pos'[c]] - 1
    BY <1>4 DEF Departed
  <2> QED
    BY <1>2, <1>6, <2>1
<1>8. ASSUME NEW d \in Channels, d # c PROVE Departed'[d] = Departed[d]
  <2>1. /\ hw_run'[d] = hw_run[d] /\ hw_pos'[d] = hw_pos[d]
        /\ tx_buff'[d] = tx_buff[d] /\ accepted'[d] = accepted[d]
        /\ cur_pkt_count'[d] = cur_pkt_count[d]
    BY <1>8 DEF XmitStart, FillEntry, engine_start, SwitchList, TypeOK
  <2> QED
    BY <2>1, DepartedKept
<1>9. Departed' = Departed
  BY <1>7, <1>8 DEF Departed
<1>10. accepted[c] - Departed[c] < 2 * Half
  BY <1>2
<1> QED
  BY <1>9, <1>10 DEF XmitStart, FillEntry, Fifo!Accept

(* Accepting one behind a run: both lists together are never exceeded. *)
LEMMA XmitQueueAccepts ==
  ASSUME TypeOK, RingShape, Next, NEW c \in Channels, XmitQueue(c)
  PROVE  Fifo!Accept(c)
<1> USE TxRingAssumption
<1>1. /\ cur_pkt_count[c] \in Nat /\ cur_pkt_count[c] < Half
      /\ accepted[c] \in Nat
  BY ChannelTypes, FillEntryRoom DEF XmitQueue
<1>2. /\ hw_run' = hw_run /\ hw_pos' = hw_pos
      /\ accepted'[c] = accepted[c] + 1
      /\ cur_pkt_count'[c] = cur_pkt_count[c] + 1
  BY DEF XmitQueue, FillEntry, TypeOK, hw
<1>3. ASSUME hw_run[c]
      PROVE  Departed'[c] = Departed[c] /\ accepted[c] - Departed[c] < 2 * Half
  <2>1. PICK e \in Desc : InFlight(c, e)
    BY <1>3 DEF RingShape
  <2>2. /\ Departed[c] = accepted[c] - cur_pkt_count[c] - (e - hw_pos[c]) - 1
        /\ hw_pos[c] \in Desc /\ hw_pos[c] <= e /\ e - hw_pos[c] < Half
    BY <1>3, <2>1, DepartedInRun
  <2>3. hw_pos[c] \in HwSlots(c)
    <3>1. hw_pos[c] \in hw_pos[c] .. e
      BY <2>2 DEF Desc
    <3> QED
      BY <1>3, <2>1, <3>1, SlotsInFlight
  <2>4. tx_buff'[c][hw_pos[c]] = tx_buff[c][hw_pos[c]]
    BY <2>3, OwnershipStep
  <2>5. Departed'[c] = Departed[c]
    BY <1>2, <1>3, <2>4 DEF Departed
  <2>6. accepted[c] - Departed[c] < 2 * Half
    BY <1>1, <2>2 DEF Desc
  <2> QED
    BY <2>5, <2>6
<1>4. ASSUME ~hw_run[c]
      PROVE  Departed'[c] = Departed[c] /\ accepted[c] - Departed[c] < 2 * Half
  <2>1. Departed[c] = accepted[c] - cur_pkt_count[c]
    BY <1>4, DepartedAtRest
  <2>2. Departed'[c] = accepted'[c] - cur_pkt_count'[c]
    BY <1>2, <1>4 DEF Departed
  <2> QED
    BY <1>1, <1>2, <2>1, <2>2
<1>5. Departed'[c] = Departed[c] /\ accepted[c] - Departed[c] < 2 * Half
  BY <1>3, <1>4
<1>6. ASSUME NEW d \in Channels, d # c PROVE Departed'[d] = Departed[d]
  <2>1. /\ hw_run'[d] = hw_run[d] /\ hw_pos'[d] = hw_pos[d]
        /\ tx_buff'[d] = tx_buff[d] /\ accepted'[d] = accepted[d]
        /\ cur_pkt_count'[d] = cur_pkt_count[d]
    BY <1>2, <1>6 DEF XmitQueue, FillEntry, TypeOK
  <2> QED
    BY <2>1, DepartedKept
<1>7. Departed' = Departed
  BY <1>5, <1>6 DEF Departed
<1> QED
  BY <1>5, <1>7 DEF XmitQueue, FillEntry, Fifo!Accept

(* An interrupt handler moves no packet: the restarted engine fetches next  *)
(* the first packet of the list it was given.                               *)
LEMMA ServiceMovesNothing ==
  ASSUME TypeOK, RingShape, NEW c \in Channels, Service(c)
  PROVE  UNCHANGED <<accepted, Departed, wire, lost>>
<1> USE TxRingAssumption
<1>1. ~hw_run[c]
  BY DEF Service, RingShape, FlagsAgree
<1>2. /\ cur_pkt_count[c] \in Nat /\ accepted[c] \in Nat
      /\ Departed[c] = accepted[c] - cur_pkt_count[c]
      /\ tx_buff' = tx_buff /\ accepted' = accepted
  BY <1>1, DepartedAtRest, ChannelTypes DEF Service, hist
<1>3. ASSUME cur_pkt_count[c] # 0 PROVE Departed'[c] = Departed[c]
  <2>1. hw_run'[c] /\ hw_pos'[c] = ListStart(current_list[c])
    BY <1>3 DEF Service, engine_start, TypeOK
  <2>2. 0 \in 0 .. cur_pkt_count[c] - 1
    BY <1>2, <1>3
  <2>3. /\ tx_buff[c][ListStart(current_list[c]) + 0]
              = accepted[c] - cur_pkt_count[c] + 1 + 0
        /\ ListStart(current_list[c]) + 0 = ListStart(current_list[c])
    <3>1. current_list[c] \in {0, 1}
      BY ChannelTypes
    <3> QED
      BY <2>2, <3>1, ListStarts DEF RingShape, FillingList
  <2>4. Departed'[c] = tx_buff[c][ListStart(current_list[c])] - 1
    BY <1>2, <2>1 DEF Departed
  <2> QED
    BY <1>2, <2>3, <2>4
<1>4. ASSUME cur_pkt_count[c] = 0 PROVE Departed'[c] = Departed[c]
  <2>1. ~hw_run'[c] /\ cur_pkt_count' = cur_pkt_count
    BY <1>4 DEF Service, TypeOK
  <2> QED
    BY <1>2, <2>1 DEF Departed
<1>5. Departed'[c] = Departed[c]
  BY <1>3, <1>4
<1>6. ASSUME NEW d \in Channels, d # c PROVE Departed'[d] = Departed[d]
  <2>1. /\ hw_run'[d] = hw_run[d] /\ hw_pos'[d] = hw_pos[d]
        /\ cur_pkt_count'[d] = cur_pkt_count[d]
    <3>1. CASE cur_pkt_count[c] # 0
      BY <1>6, <3>1 DEF Service, engine_start, SwitchList, TypeOK
    <3>2. CASE cur_pkt_count[c] = 0
      BY <1>6, <3>2 DEF Service, TypeOK
    <3> QED
      BY <3>1, <3>2
  <2> QED
    BY <1>2, <2>1, DepartedKept
<1>7. Departed' = Departed
  BY <1>5, <1>6 DEF Departed
<1> QED
  BY <1>7 DEF Service, hist

(* Fetching a descriptor sends the oldest packet of the channel. *)
LEMMA HwFetchSends ==
  ASSUME TypeOK, RingShape, NEW c \in Channels, HwFetch(c)
  PROVE  Fifo!Send(c)
<1> USE TxRingAssumption
<1> DEFINE p == hw_pos[c]
<1>1. hw_run[c] /\ accepted[c] \in Nat /\ cur_pkt_count[c] \in Nat
  BY ChannelTypes DEF HwFetch
<1>2. PICK e \in Desc : InFlight(c, e)
  BY <1>1 DEF RingShape
<1>3. /\ Departed[c] = accepted[c] - cur_pkt_count[c] - (e - p) - 1
      /\ Departed[c] \in Nat /\ p \in Desc /\ p <= e
  BY <1>1, <1>2, DepartedInRun
<1>4. /\ p \in Int /\ e \in Int /\ p \in p .. e
      /\ EndsRun(c, p) <=> p = e
  <2>1. p \in Int /\ e \in Int /\ p \in p .. e
    BY <1>3 DEF Desc
  <2> QED
    BY <1>2, <2>1, RunEnds
<1>5. tx_buff[c][p] = Departed[c] + 1
  <2>1. tx_buff[c][p] = accepted[c] - cur_pkt_count[c] - (e - p)
    BY <1>2, <1>4 DEF InFlight
  <2> QED
    BY <1>1, <1>3, <1>4, <2>1
<1>6. /\ tx_buff' = tx_buff /\ accepted' = accepted /\ lost' = lost
      /\ cur_pkt_count' = cur_pkt_count
      /\ wire' = [wire EXCEPT ![c] = Append(@, tx_buff[c][p])]
  BY DEF HwFetch, tx_list
<1>7. ASSUME p = e PROVE Departed'[c] = Departed[c] + 1
  <2>1. ~hw_run'[c]
    BY <1>4, <1>7 DEF HwFetch, TypeOK
  <2>2. Departed'[c] = accepted[c] - cur_pkt_count[c]
    BY <1>6, <2>1 DEF Departed
  <2> QED
    BY <1>1, <1>3, <1>4, <1>7, <2>2
<1>8. ASSUME p # e PROVE Departed'[c] = Departed[c] + 1
  <2>1. hw_run'[c] /\ hw_pos'[c] = p + 1
    BY <1>1, <1>4, <1>8 DEF HwFetch, TypeOK
  <2>2. p + 1 \in p .. e
    BY <1>3, <1>4, <1>8
  <2>3. tx_buff[c][p + 1] = accepted[c] - cur_pkt_count[c] - (e - (p + 1))
    BY <1>2, <2>2 DEF InFlight
  <2>4. Departed'[c] = tx_buff[c][p + 1] - 1
    BY <1>6, <2>1 DEF Departed
  <2> QED
    BY <1>1, <1>3, <1>4, <2>3, <2>4
<1>9. Departed'[c] = Departed[c] + 1
  BY <1>7, <1>8
<1>10. ASSUME NEW d \in Channels, d # c PROVE Departed'[d] = Departed[d]
  <2>1. hw_run'[d] = hw_run[d] /\ hw_pos'[d] = hw_pos[d]
    BY <1>10 DEF HwFetch, TypeOK
  <2> QED
    BY <1>6, <2>1, DepartedKept
<1>11. Departed' = [Departed EXCEPT ![c] = Departed[c] + 1]
  BY <1>9, <1>10 DEF Departed
<1>12. Departed[c] < accepted[c]
  BY <1>1, <1>3, <1>4
<1> QED
  BY <1>5, <1>6, <1>11, <1>12 DEF Fifo!Send

(* A DMA error loses the run in flight: the oldest packets, without a gap. *)
LEMMA HwErrorLoses ==
  ASSUME TypeOK, RingShape, NEW c \in Channels, HwError(c)
  PROVE  Fifo!Lose(c)
<1> USE TxRingAssumption
<1> DEFINE p == hw_pos[c]
           D == Departed[c]
<1>1. hw_run[c] /\ accepted[c] \in Nat /\ cur_pkt_count[c] \in Nat
  BY ChannelTypes DEF HwError
<1>2. PICK e \in Desc : InFlight(c, e)
  BY <1>1 DEF RingShape
<1>3. /\ D = accepted[c] - cur_pkt_count[c] - (e - p) - 1
      /\ D \in Nat /\ p \in Desc /\ p <= e /\ p \in Int /\ e \in Int
  BY <1>1, <1>2, DepartedInRun DEF Desc
<1> DEFINE n == e - p + 1
<1>4. n \in 1 .. accepted[c] - D
  BY <1>1, <1>3
<1>5. \A j \in p .. e : tx_buff[c][j] = D + 1 + (j - p)
  <2> SUFFICES ASSUME NEW j \in p .. e PROVE tx_buff[c][j] = D + 1 + (j - p)
    OBVIOUS
  <2>1. tx_buff[c][j] = accepted[c] - cur_pkt_count[c] - (e - j)
    BY <1>2 DEF InFlight
  <2>2. j \in Int
    OBVIOUS
  <2> HIDE DEF p, D
  <2> QED
    BY <1>1, <1>3, <2>1, <2>2
<1>6. {tx_buff[c][j] : j \in p .. e} = D + 1 .. D + n
  <2>1. ASSUME NEW j \in p .. e PROVE tx_buff[c][j] \in D + 1 .. D + n
    BY <1>3, <1>5
  <2>2. ASSUME NEW k \in D + 1 .. D + n
        PROVE  \E j \in p .. e : tx_buff[c][j] = k
    <3>1. p + (k - D - 1) \in p .. e
      BY <1>3
    <3>2. tx_buff[c][p + (k - D - 1)] = k
      BY <1>3, <1>5, <3>1
    <3> QED
      BY <3>1, <3>2
  <2> HIDE DEF p, D, n
  <2> QED
    BY <2>1, <2>2
<1>7. HwSlots(c) = p .. e
  BY <1>1, <1>2, SlotsInFlight
<1>8. lost' = [lost EXCEPT ![c] = @ \cup D + 1 .. D + n]
  BY <1>6, <1>7 DEF HwError
<1>9. /\ tx_buff' = tx_buff /\ accepted' = accepted /\ wire' = wire
      /\ cur_pkt_count' = cur_pkt_count /\ hw_pos' = hw_pos
      /\ hw_run' = [hw_run EXCEPT ![c] = FALSE]
  BY DEF HwError, tx_list
<1>10. Departed'[c] = D + n
  <2>1. ~hw_run'[c]
    BY <1>9 DEF TypeOK
  <2>2. Departed'[c] = accepted[c] - cur_pkt_count[c]
    BY <1>9, <2>1 DEF Departed
  <2> HIDE DEF D, p
  <2> QED
    BY <1>1, <1>3, <2>2
<1>11. ASSUME NEW d \in Channels, d # c PROVE Departed'[d] = Departed[d]
  <2>1. hw_run'[d] = hw_run[d] /\ hw_pos'[d] = hw_pos[d]
    BY <1>9, <1>11 DEF TypeOK
  <2> QED
    BY <1>9, <2>1, DepartedKept
<1>12. Departed' = [Departed EXCEPT ![c] = @ + n]
  <2> HIDE DEF n
  <2> QED
    BY <1>10, <1>11 DEF Departed
<1> QED
  BY <1>4, <1>8, <1>9, <1>12 DEF Fifo!Lose

(* Each step of the transmit path is a step of the FIFO, or changes none of *)
(* what the network stack can see.                                          *)
LEMMA StepRefines ==
  ASSUME TypeOK, RingShape, [Next]_vars
  PROVE  [Fifo!Next]_(Fifo!vars)
<1> DEFINE Seen == <<accepted, Departed, wire, lost>>
<1>1. ASSUME UNCHANGED <<hw_run, hw_pos, tx_buff, cur_pkt_count, accepted, wire, lost>>
      PROVE  UNCHANGED Seen
  BY <1>1 DEF Departed
<1>2. CASE XmitTail \/ tasklet_ptp \/ ax_tsn_irq_ptp \/ UNCHANGED vars
  <2>1. UNCHANGED <<hw_run, hw_pos, tx_buff, cur_pkt_count, accepted, wire, lost>>
    BY <1>2 DEF XmitTail, tasklet_ptp, ax_tsn_irq_ptp, vars, tx_list, hw, hist
  <2> QED
    BY <1>1, <2>1 DEF Fifo!vars
<1>3. ASSUME NEW c \in Channels, XmitStart(c) \/ XmitQueue(c) PROVE Fifo!Next
  <2>1. Next
    BY <1>3 DEF Next
  <2>2. Fifo!Accept(c)
    BY <1>3, <2>1, XmitStartAccepts, XmitQueueAccepts
  <2> QED
    BY <2>2 DEF Fifo!Next
<1>4. ASSUME NEW c \in Channels, Service(c) PROVE UNCHANGED Seen
  BY <1>4, ServiceMovesNothing
<1>5. CASE \/ xdma_channel_H2C_irq \/ xdma_channel_H2C_PTP_irq
           \/ \E c \in Channels : xdma_isr_H2C(c)
  <2>1. \E c \in Channels : Service(c)
    BY <1>5 DEF xdma_channel_H2C_irq, xdma_channel_H2C_PTP_irq, xdma_isr_H2C,
                Channels, PtpChan
  <2> QED
    BY <1>4, <2>1 DEF Fifo!vars
<1>6. ASSUME NEW c \in Channels, HwFetch(c) \/ HwError(c) PROVE Fifo!Next
  <2>1. Fifo!Send(c) \/ Fifo!Lose(c)
    BY <1>6, HwFetchSends, HwErrorLoses
  <2> QED
    BY <2>1 DEF Fifo!Next
<1> QED
  BY <1>2, <1>3, <1>5, <1>6 DEF Next

(***************************************************************************)
(* Every channel of the driver is a FIFO of 2 * Half packets: each packet  *)
(* ax_net_start_xmit accepts leaves once, in order, and only a DMA error   *)
(* drops any, whatever the ring size and however xmit, the handlers and    *)
(* the engines interleave.                                                 *)
(***************************************************************************)
THEOREM ChannelIsFifo == Spec => ImplementsTxFifo
<1>1. Init => Fifo!Init
  <2> SUFFICES ASSUME Init PROVE Fifo!Init
    OBVIOUS
  <2>1. \A c \in Channels : Departed[c] = 0
    BY DEF Init, Departed
  <2>2. Departed = [c \in Channels |-> 0]
    BY <2>1 DEF Departed
  <2> QED
    BY <2>2 DEF Init, Fifo!Init
<1>2. TypeOK /\ RingShape /\ [Next]_vars => [Fifo!Next]_(Fifo!vars)
  BY StepRefines
<1> QED
  BY <1>1, <1>2, RingInductive, PTL DEF Spec, ImplementsTxFifo, Fifo!Spec

=============================================================================
