---------------------------- MODULE RxRingProofs ----------------------------
(***************************************************************************)
(* Proofs about RxRing for every list length, NAPI weight, packet bound    *)
(* and number of sessions, with MSI-X and without.                         *)
(***************************************************************************)
EXTENDS RxRing, TLAPS

(***************************************************************************)
(* The inductive invariant of the engine and its handlers.  The engine     *)
(* fills the current list from its start; a stopped status means that the  *)
(* list is full, and while no reopen has met a handler of the previous     *)
(* session, so does a handler that has read that status.                   *)
(***************************************************************************)
EngineShape ==
  /\ hw_run => completed < Half /\ hw_pos = current_list * Half + completed
  /\ desc_stopped => completed = Half
  /\ ~stale /\ isr = "stopped" => completed = Half

(* Each handler belongs to one interrupt mode, and only xdma_isr masks. *)
ModeShape ==
  /\ isr \in {"running", "stopped"} => msix
  /\ isr = "entered" => ~msix
  /\ masked => ~msix

(* The poll runs only between open and close. *)
SessionShape ==
  /\ up <=> napi # "off"
  /\ closing => ~up /\ ~opening
  /\ opening => ~up
  /\ rx_returned => Polling

(* A masked interrupt has a handler or a poll that leads to its unmasking, *)
(* unless the handler found NAPI not enabled yet.                          *)
MaskServed ==
  Active /\ masked /\ ~stale /\ ~unheard
    => isr = "entered" \/ Polling \/ unmasking

(* A stopped engine has its restart on the way. *)
RestartComing ==
  Active =>
    \/ hw_run
    \/ isr \in {"running", "stopped"} /\ (isr = "stopped" \/ completed = Half)
    \/ isr = "entered" /\ desc_stopped
    \/ /\ Heard \/ (irq_req /\ ~msix /\ (unheard \/ stale))
       /\ desc_stopped \/ (msix /\ completed = Half)

(* A poll about to complete knows of the packet that came after its last    *)
(* look at the ring.                                                        *)
LateNoticed ==
  rx_returned /\ work_done < Budget /\ result[cur_rx] # 0 /\ ~starved
    => napi = "missed" \/ irq_req \/ isr # "none"

RxShape ==
  /\ EngineShape
  /\ ModeShape
  /\ SessionShape
  /\ MaskServed
  /\ RestartComing
  /\ LateNoticed
  /\ NoLostWakeup

-----------------------------------------------------------------------------
(* How far slot i is ahead of the slot ax_net_rx reads next. *)
Ahead(i) == IF i >= cur_rx THEN i - cur_rx ELSE i - cur_rx + 2 * Half

(* The slot the engine fills next, or will when it is restarted. *)
WriteSlot ==
  IF completed = Half THEN (1 - current_list) * Half
                      ELSE current_list * Half + completed

(* Packets written and not yet delivered. *)
Waiting == received - Len(delivered)

(***************************************************************************)
(* What is on the ring, as long as the engine has not lapped the poll and  *)
(* every session began clean: the packets waiting, in the order of their   *)
(* arrival, from cur_rx up to the slot the engine fills next.              *)
(***************************************************************************)
RingHolds ==
  ~overrun /\ ~stale =>
    /\ Waiting \in 0 .. 2 * Half
    /\ \A i \in Desc :
         result[i] = IF Ahead(i) < Waiting THEN Len(delivered) + 1 + Ahead(i) ELSE 0
    /\ IF Waiting = 2 * Half THEN WriteSlot = cur_rx ELSE Ahead(WriteSlot) = Waiting
    /\ \A k \in 1 .. Len(delivered) : delivered[k] = k

RxInductive == TypeOK /\ RxShape /\ RingHolds

-----------------------------------------------------------------------------
(* Where a list starts, and which one is the other: the products by the     *)
(* list number, spelt out.                                                  *)
LEMMA ListStarts ==
  ASSUME NEW l \in {0, 1}
  PROVE  /\ 1 - l \in {0, 1}
         /\ l * Half \in Desc
         /\ l = 0 => l * Half = 0 /\ (1 - l) * Half = Half
         /\ l = 1 => l * Half = Half /\ (1 - l) * Half = 0
BY RxRingAssumption DEF Desc

(* The modulus with which HwReceive finds the end of a list. *)
LEMMA ModHalf ==
  ASSUME NEW k \in 0 .. Half - 1
  PROVE  /\ (k + 1) % Half = 0 <=> k + 1 = Half
         /\ (Half + k + 1) % Half = 0 <=> k + 1 = Half
<1>1. Half \in Nat /\ Half > 0 /\ k \in Nat /\ k < Half
  BY RxRingAssumption
<1>2. (k + 1) % Half = 0 <=> k + 1 = Half
  BY <1>1
<1>3. (Half + k + 1) % Half = 0 <=> k + 1 = Half
  BY <1>1
<1> QED
  BY <1>2, <1>3

(* The engine stops after the packet that fills the current list. *)
LEMMA LastOfList ==
  ASSUME TypeOK, EngineShape, hw_run
  PROVE  /\ completed \in 0 .. Half - 1
         /\ (hw_pos + 1) % Half = 0 <=> completed + 1 = Half
<1>1. completed \in 0 .. Half - 1
  BY RxRingAssumption DEF TypeOK, EngineShape
<1>2. CASE current_list = 0
  <2>1. hw_pos = completed
    BY <1>1, <1>2, ListStarts DEF EngineShape
  <2> QED
    BY <1>1, <2>1, ModHalf
<1>3. CASE current_list = 1
  <2>1. hw_pos = Half + completed
    BY <1>1, <1>3, ListStarts, RxRingAssumption DEF EngineShape
  <2>2. hw_pos + 1 = Half + completed + 1
    BY <1>1, <2>1, RxRingAssumption
  <2> QED
    BY <1>1, <2>2, ModHalf
<1> QED
  BY <1>1, <1>2, <1>3 DEF TypeOK

(* Advancing cur_rx modulo RX_DESC_NUM wraps at the last descriptor only. *)
LEMMA WrapNext ==
  ASSUME NEW k \in Desc
  PROVE  (k + 1) % (2 * Half) = IF k = 2 * Half - 1 THEN 0 ELSE k + 1
<1> DEFINE m == 2 * Half
<1>1. m \in Nat /\ m > 0 /\ k \in Nat /\ k < m
  BY RxRingAssumption DEF Desc
<1> HIDE DEF m
<1>2. (k + 1) % m = IF k = m - 1 THEN 0 ELSE k + 1
  BY <1>1
<1> QED
  BY <1>2 DEF m

(* The idle engine of a probed card satisfies the invariant. *)
LEMMA InitInv == Init => RxInductive
<1> SUFFICES ASSUME Init PROVE RxInductive
  OBVIOUS
<1> USE RxRingAssumption DEF wake, Active
<1>1. TypeOK
  <2>1. delivered \in Seq(1 .. MaxPkts)
    BY DEF Init
  <2>2. result \in [Desc -> 0 .. MaxPkts] /\ cur_rx \in Desc /\ hw_pos \in Desc
    BY DEF Init, Desc
  <2>3. completed \in 0 .. Half /\ work_done \in 0 .. Budget /\ received \in 0 .. MaxPkts
    BY DEF Init
  <2> QED
    BY <2>1, <2>2, <2>3 DEF Init, TypeOK, NapiStates
<1>2. RxShape
  BY DEF Init, RxShape, EngineShape, ModeShape, SessionShape, MaskServed,
         RestartComing, LateNoticed, NoLostWakeup, Desc, Polling, Heard
<1>3. RingHolds
  BY DEF Init, RingHolds, Waiting, WriteSlot, Ahead, Desc
<1> QED
  BY <1>1, <1>2, <1>3 DEF RxInductive

(* The engine writes a packet; the last one of a list stops it. *)
LEMMA ReceiveInv ==
  ASSUME TypeOK, RxShape, HwReceive
  PROVE  TypeOK' /\ RxShape'
<1> USE RxRingAssumption DEF wake, Active
<1>1. TypeOK'
  <2>1. /\ completed \in 0 .. Half - 1
        /\ (hw_pos + 1) % Half = 0 <=> completed + 1 = Half
        /\ hw_pos = current_list * Half + completed
    BY LastOfList DEF HwReceive, RxShape, EngineShape
  <2>2. hw_pos' \in Desc
    <3>1. completed + 1 # Half => hw_pos + 1 \in Desc
      BY <2>1, ListStarts DEF TypeOK, Desc
    <3> QED
      BY <2>1, <3>1 DEF HwReceive, TypeOK
  <2>3. completed' \in 0 .. Half /\ received' \in 0 .. MaxPkts
    BY <2>1 DEF HwReceive, TypeOK
  <2>4. result' \in [Desc -> 0 .. MaxPkts]
    <3>1. received + 1 \in 0 .. MaxPkts
      BY DEF HwReceive, TypeOK
    <3> QED
      BY <3>1 DEF HwReceive, TypeOK
  <2>5. /\ irq_req' \in BOOLEAN /\ hw_run' \in BOOLEAN
        /\ desc_stopped' \in BOOLEAN /\ overrun' \in BOOLEAN
    BY DEF HwReceive, TypeOK
  <2> QED
    BY <2>2, <2>3, <2>4, <2>5 DEF HwReceive, TypeOK, poll, line, session
<1>2. EngineShape'
  BY <1>1, LastOfList DEF HwReceive, poll, line, session, RxShape, EngineShape,
     TypeOK, NapiStates
<1>3. ModeShape'
  BY DEF HwReceive, poll, line, session, RxShape, ModeShape
<1>4. SessionShape'
  BY DEF HwReceive, poll, line, session, RxShape, SessionShape, Polling
<1>5. MaskServed'
  BY DEF HwReceive, poll, line, session, RxShape, MaskServed, ModeShape,
         SessionShape, Polling
<1>6. RestartComing'
  BY DEF HwReceive, poll, line, session, RxShape, RestartComing, EngineShape,
         MaskServed, ModeShape, SessionShape, Polling, Heard
<1>7. LateNoticed'
  BY DEF HwReceive, poll, line, session, RxShape, LateNoticed, SessionShape,
         Polling
<1>8. NoLostWakeup'
  BY DEF HwReceive, poll, line, session, RxShape, NoLostWakeup, LateNoticed,
         MaskServed, ModeShape, SessionShape, Polling, Heard
<1> QED
  BY <1>1, <1>2, <1>3, <1>4, <1>5, <1>6, <1>7, <1>8 DEF RxShape

(* The MSI-X handler reads and clears the status. *)
LEMMA StatusInv ==
  ASSUME TypeOK, RxShape, C2H_irq_status
  PROVE  TypeOK' /\ RxShape'
<1> USE RxRingAssumption DEF wake, Active
<1>1. TypeOK'
  <2>1. irq_req' \in BOOLEAN /\ desc_stopped' \in BOOLEAN
    BY DEF C2H_irq_status, engine_status_read
  <2>2. isr' \in {"none", "running", "stopped", "entered"}
    BY DEF C2H_irq_status
  <2>3. UNCHANGED <<current_list, running, hw_run, hw_pos, completed, result,
                    cur_rx, wake, poll, line, session, hist>>
    BY DEF C2H_irq_status
  <2> QED
    BY <2>1, <2>2, <2>3 DEF TypeOK, poll, line, session, hist
<1>2. EngineShape'
  BY DEF C2H_irq_status, engine_status_read, poll, line, session, hist, RxShape,
         EngineShape
<1>3. ModeShape'
  BY DEF C2H_irq_status, engine_status_read, poll, line, session, hist, RxShape,
         ModeShape
<1>4. SessionShape'
  BY DEF C2H_irq_status, engine_status_read, poll, line, session, hist, RxShape,
         SessionShape, Polling
<1>5. MaskServed'
  BY DEF C2H_irq_status, engine_status_read, poll, line, session, hist, RxShape,
         MaskServed, ModeShape, SessionShape, Polling
<1>6. RestartComing'
  BY DEF C2H_irq_status, engine_status_read, poll, line, session, hist, RxShape,
         RestartComing, EngineShape, MaskServed, ModeShape, SessionShape,
         Polling, Heard
<1>7. LateNoticed'
  BY DEF C2H_irq_status, engine_status_read, poll, line, session, hist, RxShape,
         LateNoticed, SessionShape, Polling
<1>8. NoLostWakeup'
  BY DEF C2H_irq_status, engine_status_read, poll, line, session, hist, RxShape,
         NoLostWakeup, LateNoticed, MaskServed, ModeShape, SessionShape,
         Polling, Heard
<1> QED
  BY <1>1, <1>2, <1>3, <1>4, <1>5, <1>6, <1>7, <1>8 DEF RxShape

(* ... and restarts the engine on the other list when this one is full. *)
LEMMA ServeInv ==
  ASSUME TypeOK, RxShape, C2H_irq_serve
  PROVE  TypeOK' /\ RxShape'
<1> USE RxRingAssumption DEF wake, Active
<1>1. TypeOK'
  <2>1. napi' \in NapiStates
    BY DEF C2H_irq_serve, napi_schedule, TypeOK, NapiStates
  <2>2. /\ current_list' \in {0, 1} /\ running' \in BOOLEAN /\ hw_run' \in BOOLEAN
        /\ hw_pos' \in Desc /\ desc_stopped' \in BOOLEAN /\ completed' \in 0 .. Half
    <3>1. CASE UNCHANGED engine
      BY <3>1 DEF TypeOK, engine
    <3>2. CASE current_list' = 1 - current_list /\ engine_start(1 - current_list)
      <4>1. current_list' \in {0, 1} /\ hw_pos' \in Desc /\ completed' \in 0 .. Half
        <5>1. 1 - current_list \in {0, 1} /\ (1 - current_list) * Half \in Desc
          BY ListStarts DEF TypeOK
        <5> QED
          BY <3>2, <5>1 DEF engine_start, engine_start_mode_config
      <4>2. running' \in BOOLEAN /\ hw_run' \in BOOLEAN /\ desc_stopped' \in BOOLEAN
        BY <3>2 DEF engine_start, engine_start_mode_config
      <4> QED
        BY <4>1, <4>2
    <3> QED
      BY <3>1, <3>2 DEF C2H_irq_serve
  <2>3. isr' \in {"none", "running", "stopped", "entered"}
    BY DEF C2H_irq_serve
  <2>4. unheard' \in BOOLEAN
    BY DEF C2H_irq_serve, napi_schedule
  <2>5. UNCHANGED <<irq_req, result, cur_rx, poll, line, session, hist>>
    BY DEF C2H_irq_serve
  <2> QED
    BY <2>1, <2>2, <2>3, <2>4, <2>5 DEF TypeOK, poll, line, session, hist
<1>2. EngineShape'
  BY DEF C2H_irq_serve, engine_start, engine_start_mode_config, napi_schedule,
         engine, poll, line, session, hist, RxShape, EngineShape, TypeOK,
         NapiStates
<1>3. ModeShape'
  BY DEF C2H_irq_serve, engine_start, engine_start_mode_config, napi_schedule,
         engine, poll, line, session, hist, RxShape, ModeShape
<1>4. SessionShape'
  BY DEF C2H_irq_serve, engine_start, engine_start_mode_config, napi_schedule,
         engine, poll, line, session, hist, RxShape, SessionShape, Polling,
         TypeOK, NapiStates
<1>5. MaskServed'
  BY DEF C2H_irq_serve, engine_start, engine_start_mode_config, napi_schedule,
         engine, poll, line, session, hist, RxShape, MaskServed, ModeShape,
         SessionShape, Polling
<1>6. RestartComing'
  BY DEF C2H_irq_serve, engine_start, engine_start_mode_config, napi_schedule,
         engine, poll, line, session, hist, RxShape, RestartComing, EngineShape,
         MaskServed, ModeShape, SessionShape, Polling, Heard
<1>7. LateNoticed'
  BY DEF C2H_irq_serve, engine_start, engine_start_mode_config, napi_schedule,
         engine, poll, line, session, hist, RxShape, LateNoticed, SessionShape,
         Polling
<1>8. NoLostWakeup'
  BY DEF C2H_irq_serve, engine_start, engine_start_mode_config, napi_schedule,
         engine, poll, line, session, hist, RxShape, NoLostWakeup, LateNoticed,
         MaskServed, ModeShape, SessionShape, Polling, Heard, TypeOK, NapiStates
<1> QED
  BY <1>1, <1>2, <1>3, <1>4, <1>5, <1>6, <1>7, <1>8 DEF RxShape

(* Without MSI-X the handler first masks the interrupt. *)
LEMMA MaskInv ==
  ASSUME TypeOK, RxShape, xdma_isr_mask
  PROVE  TypeOK' /\ RxShape'
<1> USE RxRingAssumption DEF wake, Active
<1>1. TypeOK'
  BY DEF xdma_isr_mask, TypeOK, engine, poll, session, hist
<1>2. EngineShape'
  BY DEF xdma_isr_mask, engine, poll, session, hist, RxShape, EngineShape
<1>3. ModeShape'
  BY DEF xdma_isr_mask, engine, poll, session, hist, RxShape, ModeShape
<1>4. SessionShape'
  BY DEF xdma_isr_mask, engine, poll, session, hist, RxShape, SessionShape,
         Polling
<1>5. MaskServed'
  BY DEF xdma_isr_mask, engine, poll, session, hist, RxShape, MaskServed,
         ModeShape, SessionShape, Polling
<1>6. RestartComing'
  BY DEF xdma_isr_mask, engine, poll, session, hist, RxShape, RestartComing,
         EngineShape, MaskServed, ModeShape, SessionShape, Polling, Heard
<1>7. LateNoticed'
  BY DEF xdma_isr_mask, engine, poll, session, hist, RxShape, LateNoticed,
         SessionShape, Polling
<1>8. NoLostWakeup'
  BY DEF xdma_isr_mask, engine, poll, session, hist, RxShape, NoLostWakeup,
         LateNoticed, MaskServed, ModeShape, SessionShape, Polling, Heard
<1> QED
  BY <1>1, <1>2, <1>3, <1>4, <1>5, <1>6, <1>7, <1>8 DEF RxShape

(* ... then goes by the status alone. *)
LEMMA IsrInv ==
  ASSUME TypeOK, RxShape, xdma_isr_C2H
  PROVE  TypeOK' /\ RxShape'
<1> USE RxRingAssumption DEF wake, Active
<1>1. TypeOK'
  <2>1. napi' \in NapiStates
    BY DEF xdma_isr_C2H, napi_schedule, TypeOK, NapiStates
  <2>2. /\ current_list' \in {0, 1} /\ running' \in BOOLEAN /\ hw_run' \in BOOLEAN
        /\ hw_pos' \in Desc /\ desc_stopped' \in BOOLEAN /\ completed' \in 0 .. Half
    <3>1. CASE UNCHANGED engine
      BY <3>1 DEF TypeOK, engine
    <3>2. CASE current_list' = 1 - current_list /\ engine_start(1 - current_list)
      <4>1. current_list' \in {0, 1} /\ hw_pos' \in Desc /\ completed' \in 0 .. Half
        <5>1. 1 - current_list \in {0, 1} /\ (1 - current_list) * Half \in Desc
          BY ListStarts DEF TypeOK
        <5> QED
          BY <3>2, <5>1 DEF engine_start, engine_start_mode_config
      <4>2. running' \in BOOLEAN /\ hw_run' \in BOOLEAN /\ desc_stopped' \in BOOLEAN
        BY <3>2 DEF engine_start, engine_start_mode_config
      <4> QED
        BY <4>1, <4>2
    <3> QED
      BY <3>1, <3>2 DEF xdma_isr_C2H
  <2>3. isr' \in {"none", "running", "stopped", "entered"} /\ irq_req' \in BOOLEAN
    BY DEF xdma_isr_C2H, engine_status_read
  <2> QED
    BY <2>1, <2>2, <2>3 DEF xdma_isr_C2H, napi_schedule, TypeOK, engine, poll,
       line, session, hist
<1>2. EngineShape'
  BY DEF xdma_isr_C2H, engine_start, engine_start_mode_config, napi_schedule,
         engine_status_read, engine, poll, line, session, hist, RxShape,
         EngineShape, TypeOK, NapiStates
<1>3. ModeShape'
  BY DEF xdma_isr_C2H, engine_start, engine_start_mode_config, napi_schedule,
         engine_status_read, engine, poll, line, session, hist, RxShape,
         ModeShape
<1>4. SessionShape'
  BY DEF xdma_isr_C2H, engine_start, engine_start_mode_config, napi_schedule,
         engine_status_read, engine, poll, line, session, hist, RxShape,
         SessionShape, Polling, TypeOK, NapiStates
<1>5. MaskServed'
  BY DEF xdma_isr_C2H, engine_start, engine_start_mode_config, napi_schedule,
         engine_status_read, engine, poll, line, session, hist, RxShape,
         MaskServed, ModeShape, SessionShape, Polling, TypeOK, NapiStates
<1>6. RestartComing'
  BY DEF xdma_isr_C2H, engine_start, engine_start_mode_config, napi_schedule,
         engine_status_read, engine, poll, line, session, hist, RxShape,
         RestartComing, EngineShape, MaskServed, ModeShape, SessionShape,
         Polling, Heard
<1>7. LateNoticed'
  BY DEF xdma_isr_C2H, engine_start, engine_start_mode_config, napi_schedule,
         engine_status_read, engine, poll, line, session, hist, RxShape,
         LateNoticed, SessionShape, Polling
<1>8. NoLostWakeup'
  BY DEF xdma_isr_C2H, engine_start, engine_start_mode_config, napi_schedule,
         engine_status_read, engine, poll, line, session, hist, RxShape,
         NoLostWakeup, LateNoticed, MaskServed, ModeShape, SessionShape,
         Polling, Heard, TypeOK, NapiStates
<1> QED
  BY <1>1, <1>2, <1>3, <1>4, <1>5, <1>6, <1>7, <1>8 DEF RxShape

(* The poll delivers the packet at cur_rx. *)
LEMMA RxInv ==
  ASSUME TypeOK, RxShape, ax_net_rx
  PROVE  TypeOK' /\ RxShape'
<1> USE RxRingAssumption DEF wake, Active
<1>1. TypeOK'
  <2>1. result[cur_rx] \in 1 .. MaxPkts
    <3>1. result[cur_rx] \in 0 .. MaxPkts /\ result[cur_rx] # 0
      BY DEF ax_net_rx, TypeOK
    <3> QED
      BY <3>1
  <2>2. delivered' \in Seq(1 .. MaxPkts)
    <3>1. /\ delivered \in Seq(1 .. MaxPkts)
          /\ delivered' = Append(delivered, result[cur_rx])
      BY DEF ax_net_rx, TypeOK
    <3> QED
      BY <2>1, <3>1
  <2>3. cur_rx' \in Desc
    <3>1. cur_rx \in Desc /\ cur_rx' = (cur_rx + 1) % (2 * Half)
      BY DEF ax_net_rx, TypeOK
    <3> QED
      BY <3>1, WrapNext DEF Desc
  <2>4. result' \in [Desc -> 0 .. MaxPkts]
    BY DEF ax_net_rx, TypeOK
  <2>5. work_done' \in 0 .. Budget
    BY DEF ax_net_rx, TypeOK
  <2>6. starved' \in BOOLEAN
    BY DEF ax_net_rx
  <2> QED
    BY <2>2, <2>3, <2>4, <2>5, <2>6 DEF ax_net_rx, TypeOK, engine, line, session
<1>2. EngineShape'
  BY DEF ax_net_rx, engine, line, session, RxShape, EngineShape
<1>3. ModeShape'
  BY DEF ax_net_rx, engine, line, session, RxShape, ModeShape
<1>4. SessionShape'
  BY DEF ax_net_rx, engine, line, session, RxShape, SessionShape, Polling
<1>5. MaskServed'
  BY DEF ax_net_rx, engine, line, session, RxShape, MaskServed, ModeShape,
         SessionShape, Polling
<1>6. RestartComing'
  BY DEF ax_net_rx, engine, line, session, RxShape, RestartComing, EngineShape,
         MaskServed, ModeShape, SessionShape, Polling, Heard
<1>7. LateNoticed'
  BY DEF ax_net_rx, engine, line, session, RxShape, LateNoticed, SessionShape,
         Polling
<1>8. NoLostWakeup'
  BY DEF ax_net_rx, engine, line, session, RxShape, NoLostWakeup, LateNoticed,
         MaskServed, ModeShape, SessionShape, Polling, Heard
<1> QED
  BY <1>1, <1>2, <1>3, <1>4, <1>5, <1>6, <1>7, <1>8 DEF RxShape

(* The poll gives up on a failed allocation. *)
LEMMA AllocFailsInv ==
  ASSUME TypeOK, RxShape, AllocFails
  PROVE  TypeOK' /\ RxShape'
<1> USE RxRingAssumption DEF wake, Active
<1>1. TypeOK'
  BY DEF AllocFails, TypeOK, engine, line, session
<1>2. EngineShape'
  BY DEF AllocFails, engine, line, session, RxShape, EngineShape
<1>3. ModeShape'
  BY DEF AllocFails, engine, line, session, RxShape, ModeShape
<1>4. SessionShape'
  BY DEF AllocFails, engine, line, session, RxShape, SessionShape, Polling
<1>5. MaskServed'
  BY DEF AllocFails, engine, line, session, RxShape, MaskServed, ModeShape,
         SessionShape, Polling
<1>6. RestartComing'
  BY DEF AllocFails, engine, line, session, RxShape, RestartComing, EngineShape,
         MaskServed, ModeShape, SessionShape, Polling, Heard
<1>7. LateNoticed'
  BY DEF AllocFails, engine, line, session, RxShape, LateNoticed, SessionShape,
         Polling
<1>8. NoLostWakeup'
  BY DEF AllocFails, engine, line, session, RxShape, NoLostWakeup, LateNoticed,
         MaskServed, ModeShape, SessionShape, Polling, Heard
<1> QED
  BY <1>1, <1>2, <1>3, <1>4, <1>5, <1>6, <1>7, <1>8 DEF RxShape

(* The poll has read the ring, or used its budget. *)
LEMMA ReturnInv ==
  ASSUME TypeOK, RxShape, rx_return
  PROVE  TypeOK' /\ RxShape'
<1> USE RxRingAssumption DEF wake, Active
<1>1. TypeOK'
  BY DEF rx_return, TypeOK, engine, line, session, hist
<1>2. EngineShape'
  BY DEF rx_return, engine, line, session, hist, RxShape, EngineShape
<1>3. ModeShape'
  BY DEF rx_return, engine, line, session, hist, RxShape, ModeShape
<1>4. SessionShape'
  BY DEF rx_return, engine, line, session, hist, RxShape, SessionShape, Polling
<1>5. MaskServed'
  BY DEF rx_return, engine, line, session, hist, RxShape, MaskServed, ModeShape,
         SessionShape, Polling
<1>6. RestartComing'
  BY DEF rx_return, engine, line, session, hist, RxShape, RestartComing,
         EngineShape, MaskServed, ModeShape, SessionShape, Polling, Heard
<1>7. LateNoticed'
  BY DEF rx_return, engine, line, session, hist, RxShape, LateNoticed,
         SessionShape, Polling
<1>8. NoLostWakeup'
  BY DEF rx_return, engine, line, session, hist, RxShape, NoLostWakeup,
         LateNoticed, MaskServed, ModeShape, SessionShape, Polling, Heard
<1> QED
  BY <1>1, <1>2, <1>3, <1>4, <1>5, <1>6, <1>7, <1>8 DEF RxShape

(* The poll completes, unless an interrupt came or the budget was used. *)
LEMMA PollInv ==
  ASSUME TypeOK, RxShape, ax_net_poll
  PROVE  TypeOK' /\ RxShape'
<1> USE RxRingAssumption DEF wake, Active
<1>1. TypeOK'
  <2>1. napi' \in NapiStates /\ unmasking' \in BOOLEAN
    BY DEF ax_net_poll, napi_complete, TypeOK, NapiStates
  <2>2. rx_returned' \in BOOLEAN
    BY DEF ax_net_poll
  <2>3. work_done' \in 0 .. Budget
    BY DEF ax_net_poll
  <2> QED
    BY <2>1, <2>2, <2>3 DEF ax_net_poll, TypeOK, engine, session, hist
<1>2. EngineShape'
  BY DEF ax_net_poll, napi_complete, engine, session, hist, RxShape, EngineShape
<1>3. ModeShape'
  BY DEF ax_net_poll, napi_complete, engine, session, hist, RxShape, ModeShape
<1>4. SessionShape'
  BY DEF ax_net_poll, napi_complete, engine, session, hist, RxShape,
         SessionShape, Polling
<1>5. MaskServed'
  BY DEF ax_net_poll, napi_complete, engine, session, hist, RxShape, MaskServed,
         ModeShape, SessionShape, Polling
<1>6. RestartComing'
  BY DEF ax_net_poll, napi_complete, engine, session, hist, RxShape,
         RestartComing, EngineShape, MaskServed, ModeShape, SessionShape,
         Polling, Heard
<1>7. LateNoticed'
  BY DEF ax_net_poll, napi_complete, engine, session, hist, RxShape,
         LateNoticed, SessionShape, Polling
<1>8. NoLostWakeup'
  BY DEF ax_net_poll, napi_complete, engine, session, hist, RxShape,
         NoLostWakeup, LateNoticed, MaskServed, ModeShape, SessionShape,
         Polling, Heard
<1> QED
  BY <1>1, <1>2, <1>3, <1>4, <1>5, <1>6, <1>7, <1>8 DEF RxShape

(* The unmasking that ends a poll without MSI-X. *)
LEMMA UnmaskInv ==
  ASSUME TypeOK, RxShape, enable_polling
  PROVE  TypeOK' /\ RxShape'
<1> USE RxRingAssumption DEF wake, Active
<1>1. TypeOK'
  <2>1. unmasking' \in BOOLEAN /\ masked' \in BOOLEAN
    BY DEF enable_polling
  <2> QED
    BY <2>1 DEF enable_polling, TypeOK, engine, poll, session, hist
<1>2. EngineShape'
  BY DEF enable_polling, engine, poll, session, hist, RxShape, EngineShape
<1>3. ModeShape'
  BY DEF enable_polling, engine, poll, session, hist, RxShape, ModeShape
<1>4. SessionShape'
  BY DEF enable_polling, engine, poll, session, hist, RxShape, SessionShape,
         Polling
<1>5. MaskServed'
  BY DEF enable_polling, engine, poll, session, hist, RxShape, MaskServed,
         ModeShape, SessionShape, Polling
<1>6. RestartComing'
  BY DEF enable_polling, engine, poll, session, hist, RxShape, RestartComing,
         EngineShape, MaskServed, ModeShape, SessionShape, Polling, Heard
<1>7. LateNoticed'
  BY DEF enable_polling, engine, poll, session, hist, RxShape, LateNoticed,
         SessionShape, Polling
<1>8. NoLostWakeup'
  BY DEF enable_polling, engine, poll, session, hist, RxShape, NoLostWakeup,
         LateNoticed, MaskServed, ModeShape, SessionShape, Polling, Heard
<1> QED
  BY <1>1, <1>2, <1>3, <1>4, <1>5, <1>6, <1>7, <1>8 DEF RxShape

(* napi_disable has waited for the poll. *)
LEMMA CloseInv ==
  ASSUME TypeOK, RxShape, ax_net_close
  PROVE  TypeOK' /\ RxShape'
<1> USE RxRingAssumption DEF wake, Active
<1>1. TypeOK'
  <2>1. napi' \in NapiStates /\ up' \in BOOLEAN /\ closing' \in BOOLEAN
    BY DEF ax_net_close, NapiStates
  <2> QED
    BY <2>1 DEF ax_net_close, TypeOK, engine, poll, line, hist
<1>2. EngineShape'
  BY DEF ax_net_close, engine, poll, line, hist, RxShape, EngineShape
<1>3. ModeShape'
  BY DEF ax_net_close, engine, poll, line, hist, RxShape, ModeShape
<1>4. SessionShape'
  BY DEF ax_net_close, engine, poll, line, hist, RxShape, SessionShape, Polling
<1>5. MaskServed'
  BY DEF ax_net_close, engine, poll, line, hist, RxShape, MaskServed, ModeShape,
         SessionShape, Polling
<1>6. RestartComing'
  BY DEF ax_net_close, engine, poll, line, hist, RxShape, RestartComing,
         EngineShape, MaskServed, ModeShape, SessionShape, Polling, Heard
<1>7. LateNoticed'
  BY DEF ax_net_close, engine, poll, line, hist, RxShape, LateNoticed,
         SessionShape, Polling
<1>8. NoLostWakeup'
  BY DEF ax_net_close, engine, poll, line, hist, RxShape, NoLostWakeup,
         LateNoticed, MaskServed, ModeShape, SessionShape, Polling, Heard
<1> QED
  BY <1>1, <1>2, <1>3, <1>4, <1>5, <1>6, <1>7, <1>8 DEF RxShape

(* ax_net_close stops the engine. *)
LEMMA StopInv ==
  ASSUME TypeOK, RxShape, close_stop
  PROVE  TypeOK' /\ RxShape'
<1> USE RxRingAssumption DEF wake, Active
<1>1. TypeOK'
  <2>1. closing' \in BOOLEAN /\ running' \in BOOLEAN /\ hw_run' \in BOOLEAN
    BY DEF close_stop, xdma_engine_stop
  <2> QED
    BY <2>1 DEF close_stop, TypeOK, poll, line, hist
<1>2. EngineShape'
  BY DEF close_stop, xdma_engine_stop, poll, line, hist, RxShape, EngineShape
<1>3. ModeShape'
  BY DEF close_stop, xdma_engine_stop, poll, line, hist, RxShape, ModeShape
<1>4. SessionShape'
  BY DEF close_stop, xdma_engine_stop, poll, line, hist, RxShape, SessionShape,
         Polling
<1>5. MaskServed'
  BY DEF close_stop, xdma_engine_stop, poll, line, hist, RxShape, MaskServed,
         ModeShape, SessionShape, Polling
<1>6. RestartComing'
  BY DEF close_stop, xdma_engine_stop, poll, line, hist, RxShape, RestartComing,
         EngineShape, MaskServed, ModeShape, SessionShape, Polling, Heard
<1>7. LateNoticed'
  BY DEF close_stop, xdma_engine_stop, poll, line, hist, RxShape, LateNoticed,
         SessionShape, Polling
<1>8. NoLostWakeup'
  BY DEF close_stop, xdma_engine_stop, poll, line, hist, RxShape, NoLostWakeup,
         LateNoticed, MaskServed, ModeShape, SessionShape, Polling, Heard
<1> QED
  BY <1>1, <1>2, <1>3, <1>4, <1>5, <1>6, <1>7, <1>8 DEF RxShape

(* ax_net_open on a stopped engine starts a clean session. *)
LEMMA OpenInv ==
  ASSUME TypeOK, RxShape, ax_net_open
  PROVE  TypeOK' /\ RxShape'
<1> USE RxRingAssumption DEF wake, Active
<1>1. TypeOK'
  <2>1. opens' \in 0 .. MaxOpens
    BY DEF ax_net_open, TypeOK
  <2>2. CASE running
    <3>1. bug' \in BOOLEAN
      BY <2>2 DEF ax_net_open
    <3> QED
      BY <2>1, <2>2, <3>1 DEF ax_net_open, TypeOK, engine, poll, line
  <2>3. CASE ~running
    <3>1. running' \in BOOLEAN /\ hw_run' \in BOOLEAN /\ desc_stopped' \in BOOLEAN
      BY <2>3 DEF ax_net_open, xdma_desc_setup, engine_start,
         engine_start_mode_config
    <3>2. current_list' \in {0, 1} /\ completed' \in 0 .. Half
      BY <2>3 DEF ax_net_open, xdma_desc_setup, engine_start,
         engine_start_mode_config
    <3>3. hw_pos' \in Desc /\ cur_rx' \in Desc
      BY <2>3, ListStarts DEF ax_net_open, engine_start, Desc
    <3>4. opening' \in BOOLEAN /\ unheard' \in BOOLEAN /\ stale' \in BOOLEAN
      BY <2>3 DEF ax_net_open, TypeOK, NapiStates
    <3> QED
      BY <2>1, <2>3, <3>1, <3>2, <3>3, <3>4 DEF ax_net_open, TypeOK, poll, line
  <2> QED
    BY <2>2, <2>3 DEF TypeOK
<1>2. EngineShape'
  <2>1. CASE running
    BY <2>1 DEF ax_net_open, engine, RxShape, EngineShape
  <2>2. CASE ~running
    <3>1. 0 < Half /\ 0 * Half = 0 * Half + 0
      OBVIOUS
    <3>2. isr = "stopped" => stale'
      BY <2>2 DEF ax_net_open, TypeOK
    <3> QED
      BY <2>2, <3>1, <3>2 DEF ax_net_open, xdma_desc_setup, engine_start,
         engine_start_mode_config, EngineShape
  <2> QED
    BY <2>1, <2>2 DEF TypeOK
<1>3. ModeShape'
  BY DEF ax_net_open, xdma_desc_setup, engine_start, engine_start_mode_config,
         engine, poll, line, RxShape, ModeShape
<1>4. SessionShape'
  BY DEF ax_net_open, xdma_desc_setup, engine_start, engine_start_mode_config,
         engine, poll, line, RxShape, SessionShape, Polling
<1>5. MaskServed'
  BY DEF ax_net_open, xdma_desc_setup, engine_start, engine_start_mode_config,
         engine, poll, line, RxShape, MaskServed, ModeShape, SessionShape,
         Polling
<1>6. RestartComing'
  BY DEF ax_net_open, xdma_desc_setup, engine_start, engine_start_mode_config,
         engine, poll, line, RxShape, RestartComing, EngineShape, MaskServed,
         ModeShape, SessionShape, Polling, Heard
<1>7. LateNoticed'
  BY DEF ax_net_open, xdma_desc_setup, engine_start, engine_start_mode_config,
         engine, poll, line, RxShape, LateNoticed, SessionShape, Polling
<1>8. NoLostWakeup'
  BY ListStarts DEF ax_net_open, xdma_desc_setup, engine_start,
     engine_start_mode_config, engine, poll, line, RxShape, NoLostWakeup,
     LateNoticed, MaskServed, ModeShape, SessionShape, Polling, Heard, TypeOK,
     NapiStates, EngineShape, Desc
<1> QED
  BY <1>1, <1>2, <1>3, <1>4, <1>5, <1>6, <1>7, <1>8 DEF RxShape

(* napi_enable comes after the engine runs. *)
LEMMA EnableInv ==
  ASSUME TypeOK, RxShape, open_enable
  PROVE  TypeOK' /\ RxShape'
<1> USE RxRingAssumption DEF wake, Active
<1>1. TypeOK'
  <2>1. napi' \in NapiStates /\ up' \in BOOLEAN /\ opening' \in BOOLEAN
    BY DEF open_enable, NapiStates
  <2> QED
    BY <2>1 DEF open_enable, TypeOK, engine, poll, line, hist
<1>2. EngineShape'
  BY DEF open_enable, engine, poll, line, hist, RxShape, EngineShape
<1>3. ModeShape'
  BY DEF open_enable, engine, poll, line, hist, RxShape, ModeShape
<1>4. SessionShape'
  BY DEF open_enable, engine, poll, line, hist, RxShape, SessionShape, Polling
<1>5. MaskServed'
  BY DEF open_enable, engine, poll, line, hist, RxShape, MaskServed, ModeShape,
         SessionShape, Polling
<1>6. RestartComing'
  BY DEF open_enable, engine, poll, line, hist, RxShape, RestartComing,
         EngineShape, MaskServed, ModeShape, SessionShape, Polling, Heard
<1>7. LateNoticed'
  BY DEF open_enable, engine, poll, line, hist, RxShape, LateNoticed,
         SessionShape, Polling
<1>8. NoLostWakeup'
  BY DEF open_enable, engine, poll, line, hist, RxShape, NoLostWakeup,
         LateNoticed, MaskServed, ModeShape, SessionShape, Polling, Heard
<1> QED
  BY <1>1, <1>2, <1>3, <1>4, <1>5, <1>6, <1>7, <1>8 DEF RxShape

-----------------------------------------------------------------------------
(* The facts about types the arithmetic on the ring needs. *)
LEMMA RingTypes ==
  ASSUME TypeOK
  PROVE  /\ Half \in Nat /\ Half > 0
         /\ cur_rx \in 0 .. 2 * Half - 1 /\ completed \in 0 .. Half
         /\ received \in Nat /\ Len(delivered) \in Nat
         /\ WriteSlot \in Desc
<1>1. delivered \in Seq(1 .. MaxPkts)
  BY DEF TypeOK
<1>2. Len(delivered) \in Nat
  BY <1>1
<1>3. WriteSlot \in Desc
  <2>1. CASE current_list = 0
    BY <2>1, ListStarts, RxRingAssumption DEF TypeOK, WriteSlot, Desc
  <2>2. CASE current_list = 1
    BY <2>2, ListStarts, RxRingAssumption DEF TypeOK, WriteSlot, Desc
  <2> QED
    BY <2>1, <2>2 DEF TypeOK
<1> QED
  BY <1>2, <1>3, RxRingAssumption DEF TypeOK, Desc

(* Distances from cur_rx tell the slots of the ring apart. *)
LEMMA AheadOneToOne ==
  ASSUME TypeOK
  PROVE  /\ \A i \in Desc : Ahead(i) \in 0 .. 2 * Half - 1
         /\ \A i, j \in Desc : Ahead(i) = Ahead(j) => i = j
         /\ Ahead(cur_rx) = 0
<1>1. Half \in Nat /\ cur_rx \in Int /\ 0 <= cur_rx /\ cur_rx < 2 * Half
  BY RingTypes
<1>2. ASSUME NEW i \in Desc
      PROVE  i \in Int /\ Ahead(i) \in 0 .. 2 * Half - 1
  BY <1>1 DEF Ahead, Desc
<1>3. ASSUME NEW i \in Desc, NEW j \in Desc, Ahead(i) = Ahead(j) PROVE i = j
  <2>1. i \in 0 .. 2 * Half - 1 /\ j \in 0 .. 2 * Half - 1
    BY DEF Desc
  <2> QED
    BY <1>1, <1>3, <2>1 DEF Ahead
<1>4. Ahead(cur_rx) = 0
  BY <1>1 DEF Ahead
<1> QED
  BY <1>2, <1>3, <1>4

(* What neither writes nor reads the ring leaves its contents as they are. *)
LEMMA RingKept ==
  ASSUME RingHolds,
         UNCHANGED <<result, cur_rx, received, delivered, overrun, stale,
                     completed, current_list>>
  PROVE  RingHolds'
BY DEF RingHolds, Waiting, WriteSlot, Ahead

(* A restart on the other list goes on where the full list ended. *)
LEMMA RestartKeepsSlot ==
  ASSUME TypeOK, RingHolds, ~stale => completed = Half,
         current_list' = 1 - current_list, completed' = 0,
         UNCHANGED <<result, cur_rx, received, delivered, overrun, stale>>
  PROVE  RingHolds'
<1> SUFFICES ASSUME ~overrun, ~stale PROVE RingHolds'
  BY DEF RingHolds
<1>1. WriteSlot = (1 - current_list) * Half
  BY DEF WriteSlot
<1>2. WriteSlot' = (1 - current_list) * Half + 0
  BY RingTypes DEF WriteSlot
<1>3. WriteSlot' = WriteSlot
  BY <1>1, <1>2, RingTypes DEF Desc
<1> QED
  BY <1>3 DEF RingHolds, Waiting, Ahead

(* Filling a slot moves the engine on by one, round the ring. *)
LEMMA NextSlot ==
  ASSUME TypeOK, EngineShape, HwReceive
  PROVE  /\ hw_pos = WriteSlot
         /\ WriteSlot' = IF hw_pos = 2 * Half - 1 THEN 0 ELSE hw_pos + 1
<1>1. /\ completed \in 0 .. Half - 1 /\ hw_pos = current_list * Half + completed
      /\ completed' = completed + 1 /\ current_list' = current_list
  BY LastOfList DEF HwReceive, EngineShape
<1>2. hw_pos = WriteSlot
  BY <1>1, RingTypes DEF WriteSlot
<1>3. CASE current_list = 0
  BY <1>1, <1>2, <1>3, ListStarts, RingTypes DEF WriteSlot
<1>4. CASE current_list = 1
  BY <1>1, <1>2, <1>4, ListStarts, RingTypes DEF WriteSlot
<1> QED
  BY <1>3, <1>4 DEF TypeOK

(* A packet lands behind those waiting, unless it overruns the poll. *)
LEMMA ReceiveOrder ==
  ASSUME TypeOK, EngineShape, RingHolds, HwReceive
  PROVE  RingHolds'
<1> SUFFICES ASSUME ~overrun', ~stale' PROVE RingHolds'
  BY DEF RingHolds
<1> DEFINE q == Waiting
           n == Len(delivered)
<1>1. /\ ~overrun /\ ~stale /\ result[hw_pos] = 0 /\ received' = received + 1
      /\ result' = [result EXCEPT ![hw_pos] = received + 1]
      /\ cur_rx' = cur_rx /\ delivered' = delivered /\ hw_pos \in Desc
      /\ result \in [Desc -> 0 .. MaxPkts] /\ cur_rx \in Desc
  BY DEF HwReceive, TypeOK
<1>2. /\ q \in 0 .. 2 * Half
      /\ \A i \in Desc : result[i] = IF Ahead(i) < q THEN n + 1 + Ahead(i) ELSE 0
      /\ IF q = 2 * Half THEN WriteSlot = cur_rx ELSE Ahead(WriteSlot) = q
      /\ \A k \in 1 .. n : delivered[k] = k
  BY <1>1 DEF RingHolds
<1>3. q < 2 * Half /\ Ahead(hw_pos) = q
  <2>1. q # 2 * Half
    <3> SUFFICES ASSUME q = 2 * Half PROVE FALSE
      OBVIOUS
    <3>1. hw_pos = cur_rx
      BY <1>2, NextSlot
    <3>2. result[cur_rx] = n + 1 + 0
      <4>1. Ahead(cur_rx) = 0 /\ 0 < q
        BY AheadOneToOne, RingTypes
      <4> HIDE DEF q, n
      <4> QED
        BY <1>1, <1>2, <4>1
    <3> QED
      BY <1>1, <3>1, <3>2, RingTypes
  <2>2. hw_pos = WriteSlot
    BY NextSlot
  <2>3. Ahead(WriteSlot) = q
    BY <1>2, <2>1
  <2>4. q < 2 * Half
    <3>1. q \in 0 .. 2 * Half /\ Half \in Nat
      BY <1>2, RingTypes
    <3> HIDE DEF q
    <3> QED
      BY <2>1, <3>1
  <2> QED
    BY <2>2, <2>3, <2>4
<1>4. Waiting' = q + 1 /\ received + 1 = n + 1 + q
  BY <1>1, RingTypes DEF Waiting
<1>5. ASSUME NEW i \in Desc
      PROVE  result'[i] = IF Ahead(i) < q + 1 THEN n + 1 + Ahead(i) ELSE 0
  <2>1. CASE i = hw_pos
    BY <1>1, <1>2, <1>3, <1>4, <2>1, RingTypes
  <2>2. CASE i # hw_pos
    <3>1. Ahead(i) # q /\ Ahead(i) \in Int /\ q \in Int
      BY <1>1, <1>2, <1>3, <2>2, AheadOneToOne
    <3>2. Ahead(i) < q + 1 <=> Ahead(i) < q
      BY <3>1
    <3> QED
      BY <1>1, <1>2, <2>2, <3>2
  <2> QED
    BY <2>1, <2>2
<1>6. IF q + 1 = 2 * Half THEN WriteSlot' = cur_rx ELSE Ahead(WriteSlot') = q + 1
  <2>1. /\ WriteSlot' = IF hw_pos = 2 * Half - 1 THEN 0 ELSE hw_pos + 1
        /\ hw_pos \in 0 .. 2 * Half - 1 /\ cur_rx \in 0 .. 2 * Half - 1
        /\ Half \in Nat /\ Half > 0 /\ q \in Int /\ q < 2 * Half
        /\ q = IF hw_pos >= cur_rx THEN hw_pos - cur_rx ELSE hw_pos - cur_rx + 2 * Half
    BY <1>1, <1>2, <1>3, NextSlot, RingTypes DEF Ahead, Desc
  <2> HIDE DEF q
  <2> QED
    BY <2>1 DEF Ahead
<1>7. q + 1 \in 0 .. 2 * Half
  BY <1>2, <1>3, RingTypes
<1>8. \A i : Ahead(i)' = Ahead(i)
  BY <1>1 DEF Ahead
<1> HIDE DEF q, n
<1> QED
  BY <1>1, <1>2, <1>4, <1>5, <1>6, <1>7 DEF RingHolds, n, Ahead

(* ax_net_rx takes the oldest packet waiting. *)
LEMMA DeliverOrder ==
  ASSUME TypeOK, RingHolds, ax_net_rx
  PROVE  RingHolds'
<1> SUFFICES ASSUME ~overrun', ~stale' PROVE RingHolds'
  BY DEF RingHolds
<1> DEFINE q == Waiting
           n == Len(delivered)
           c == cur_rx
<1>1. /\ ~overrun /\ ~stale /\ result[c] # 0 /\ received' = received
      /\ result' = [result EXCEPT ![c] = 0]
      /\ delivered' = Append(delivered, result[c])
      /\ c \in Desc /\ delivered \in Seq(1 .. MaxPkts)
      /\ result \in [Desc -> 0 .. MaxPkts]
      /\ completed' = completed /\ current_list' = current_list
  BY DEF ax_net_rx, TypeOK, engine
<1>2. /\ q \in 0 .. 2 * Half
      /\ \A i \in Desc : result[i] = IF Ahead(i) < q THEN n + 1 + Ahead(i) ELSE 0
      /\ IF q = 2 * Half THEN WriteSlot = c ELSE Ahead(WriteSlot) = q
      /\ \A k \in 1 .. n : delivered[k] = k
  BY <1>1 DEF RingHolds
<1>3. q > 0 /\ result[c] = n + 1
  BY <1>1, <1>2, AheadOneToOne, RingTypes
<1>4. cur_rx' = IF c = 2 * Half - 1 THEN 0 ELSE c + 1
  BY <1>1, WrapNext DEF ax_net_rx
<1>5. Len(delivered') = n + 1 /\ Waiting' = q - 1
  <2>1. Len(delivered') = n + 1
    BY <1>1
  <2> QED
    BY <1>1, <2>1, RingTypes DEF Waiting
<1>6. \A k \in 1 .. n + 1 : delivered'[k] = k
  <2> SUFFICES ASSUME NEW k \in 1 .. n + 1 PROVE delivered'[k] = k
    OBVIOUS
  <2>1. CASE k = n + 1
    BY <1>1, <1>3, <2>1
  <2>2. CASE k # n + 1
    <3>1. k \in 1 .. n
      BY <2>2, RingTypes
    <3>2. delivered'[k] = delivered[k]
      BY <1>1, <3>1
    <3> QED
      BY <1>2, <3>1, <3>2
  <2> QED
    BY <2>1, <2>2
<1>7. ASSUME NEW i \in Desc
      PROVE  Ahead(i)' = IF i = c THEN 2 * Half - 1 ELSE Ahead(i) - 1
  <2>1. /\ i \in 0 .. 2 * Half - 1 /\ c \in 0 .. 2 * Half - 1 /\ Half \in Nat
    BY <1>1, RingTypes DEF Desc
  <2>2. Ahead(i)' = IF i >= cur_rx' THEN i - cur_rx' ELSE i - cur_rx' + 2 * Half
    BY DEF Ahead
  <2>3. Ahead(i) = IF i >= c THEN i - c ELSE i - c + 2 * Half
    BY DEF Ahead
  <2> HIDE DEF c
  <2> QED
    BY <1>4, <2>1, <2>2, <2>3
<1>8. ASSUME NEW i \in Desc
      PROVE  result'[i] = IF Ahead(i)' < q - 1 THEN n + 1 + 1 + Ahead(i)' ELSE 0
  <2>1. CASE i = c
    BY <1>1, <1>2, <1>7, <2>1, RingTypes
  <2>2. CASE i # c
    <3>1. Ahead(i) \in Int /\ Ahead(i)' = Ahead(i) - 1
      BY <1>7, <2>2, AheadOneToOne
    <3>2. result'[i] = IF Ahead(i) < q THEN n + 1 + Ahead(i) ELSE 0
      BY <1>1, <1>2, <2>2
    <3> HIDE DEF q, n
    <3>3. q \in Int /\ n \in Int
      BY <1>2, RingTypes DEF n
    <3> QED
      BY <3>1, <3>2, <3>3
  <2> QED
    BY <2>1, <2>2
<1>9. WriteSlot' = WriteSlot /\ WriteSlot \in Desc
  BY <1>1, RingTypes DEF WriteSlot
<1>10. q - 1 # 2 * Half /\ Ahead(WriteSlot)' = q - 1
  <2>1. CASE q = 2 * Half
    BY <1>2, <1>7, <1>9, <2>1, RingTypes
  <2>2. CASE q # 2 * Half
    <3>1. Ahead(WriteSlot) = q
      BY <1>2, <2>2
    <3>2. WriteSlot # c
      BY <1>1, <1>3, <3>1, AheadOneToOne, RingTypes
    <3> QED
      BY <1>2, <1>7, <1>9, <3>1, <3>2, RingTypes
  <2> QED
    BY <2>1, <2>2
<1>11. q - 1 \in 0 .. 2 * Half
  BY <1>2, <1>3, RingTypes
<1> HIDE DEF q, n
<1> QED
  BY <1>5, <1>6, <1>8, <1>9, <1>10, <1>11 DEF RingHolds, Ahead

(* A clean open finds every packet of the previous session delivered. *)
LEMMA OpenOrder ==
  ASSUME TypeOK, RingHolds, ax_net_open
  PROVE  RingHolds'
<1>1. CASE running
  BY <1>1, RingKept DEF ax_net_open, engine
<1>2. CASE ~running
  <2> SUFFICES ASSUME ~overrun', ~stale' PROVE RingHolds'
    BY DEF RingHolds
  <2>1. /\ ~overrun /\ ~stale /\ result' = result /\ received' = received
        /\ delivered' = delivered /\ cur_rx' = 0 /\ current_list' = 0
        /\ completed' = 0 /\ cur_rx \in Desc
        /\ \A i \in Desc : result[i] = 0
    BY <1>2 DEF ax_net_open, xdma_desc_setup, engine_start,
       engine_start_mode_config, TypeOK
  <2>2. Waiting = 0
    <3>1. /\ Waiting \in 0 .. 2 * Half
          /\ 0 = IF Ahead(cur_rx) < Waiting THEN Len(delivered) + 1 + Ahead(cur_rx) ELSE 0
      BY <2>1 DEF RingHolds
    <3> QED
      BY <3>1, AheadOneToOne, RingTypes
  <2>3. Waiting' = 0 /\ Len(delivered') = Len(delivered)
    BY <2>1, <2>2 DEF Waiting
  <2>4. WriteSlot' = 0
    BY <2>1, RingTypes DEF WriteSlot
  <2>5. \A i \in Desc : Ahead(i)' = i
    BY <2>1 DEF Ahead, Desc
  <2>6. \A k \in 1 .. Len(delivered) : delivered[k] = k
    BY <2>1 DEF RingHolds
  <2>7. 0 \in 0 .. 2 * Half /\ 0 # 2 * Half /\ 0 \in Desc
    BY RingTypes DEF Desc
  <2>8. ASSUME NEW i \in Desc PROVE ~(Ahead(i)' < 0)
    BY <2>5 DEF Desc
  <2>9. Ahead(0)' = 0
    BY <2>5, <2>7
  <2>10. \A i \in Desc : result'[i] = IF Ahead(i)' < Waiting'
                                      THEN Len(delivered)' + 1 + Ahead(i)' ELSE 0
    BY <2>1, <2>3, <2>8
  <2> QED
    BY <2>1, <2>3, <2>4, <2>6, <2>7, <2>9, <2>10 DEF RingHolds, Ahead
<1> QED
  BY <1>1, <1>2 DEF TypeOK

(* Every step of the receive path keeps the invariant. *)
LEMMA StepInv == RxInductive /\ [Next]_vars => RxInductive'
<1> SUFFICES ASSUME TypeOK, RxShape, RingHolds, [Next]_vars
             PROVE  TypeOK' /\ RxShape' /\ RingHolds'
  BY DEF RxInductive
<1>1. CASE HwReceive
  BY <1>1, ReceiveInv, ReceiveOrder DEF RxShape
<1>2. CASE C2H_irq_status
  <2>1. RingHolds'
    BY <1>2, RingKept DEF C2H_irq_status, hist
  <2> QED
    BY <1>2, <2>1, StatusInv
<1>3. CASE C2H_irq_serve
  <2>1. CASE isr = "stopped" \/ completed = Half
    <3>1. ~stale => completed = Half
      BY <2>1 DEF RxShape, EngineShape
    <3>2. RingHolds'
      BY <1>3, <2>1, <3>1, RestartKeepsSlot
      DEF C2H_irq_serve, engine_start, engine_start_mode_config, hist
    <3> QED
      BY <1>3, <3>2, ServeInv
  <2>2. CASE ~(isr = "stopped" \/ completed = Half)
    <3>1. RingHolds'
      BY <1>3, <2>2, RingKept DEF C2H_irq_serve, engine, hist
    <3> QED
      BY <1>3, <3>1, ServeInv
  <2> QED
    BY <2>1, <2>2
<1>4. CASE xdma_isr_mask
  <2>1. RingHolds'
    BY <1>4, RingKept DEF xdma_isr_mask, engine, hist
  <2> QED
    BY <1>4, <2>1, MaskInv
<1>5. CASE xdma_isr_C2H
  <2>1. CASE desc_stopped
    <3>1. completed = Half
      BY <2>1 DEF RxShape, EngineShape
    <3>2. RingHolds'
      BY <1>5, <2>1, <3>1, RestartKeepsSlot
      DEF xdma_isr_C2H, engine_start, engine_start_mode_config, hist
    <3> QED
      BY <1>5, <3>2, IsrInv
  <2>2. CASE ~desc_stopped
    <3>1. RingHolds'
      BY <1>5, <2>2, RingKept DEF xdma_isr_C2H, engine, hist
    <3> QED
      BY <1>5, <3>1, IsrInv
  <2> QED
    BY <2>1, <2>2 DEF TypeOK
<1>6. CASE ax_net_rx
  BY <1>6, RxInv, DeliverOrder
<1>7. CASE AllocFails
  <2>1. RingHolds'
    BY <1>7, RingKept DEF AllocFails, engine
  <2> QED
    BY <1>7, <2>1, AllocFailsInv
<1>8. CASE rx_return
  <2>1. RingHolds'
    BY <1>8, RingKept DEF rx_return, engine, hist
  <2> QED
    BY <1>8, <2>1, ReturnInv
<1>9. CASE ax_net_poll
  <2>1. RingHolds'
    BY <1>9, RingKept DEF ax_net_poll, engine, hist
  <2> QED
    BY <1>9, <2>1, PollInv
<1>10. CASE enable_polling
  <2>1. RingHolds'
    BY <1>10, RingKept DEF enable_polling, engine, hist
  <2> QED
    BY <1>10, <2>1, UnmaskInv
<1>11. CASE ax_net_close
  <2>1. RingHolds'
    BY <1>11, RingKept DEF ax_net_close, engine, hist
  <2> QED
    BY <1>11, <2>1, CloseInv
<1>12. CASE close_stop
  <2>1. RingHolds'
    BY <1>12, RingKept DEF close_stop, hist
  <2> QED
    BY <1>12, <2>1, StopInv
<1>13. CASE ax_net_open
  BY <1>13, OpenInv, OpenOrder
<1>14. CASE open_enable
  <2>1. RingHolds'
    BY <1>14, RingKept DEF open_enable, engine, hist
  <2> QED
    BY <1>14, <2>1, EnableInv
<1>15. CASE UNCHANGED vars
  <2>1. RingHolds'
    BY <1>15, RingKept DEF vars, engine, hist
  <2>2. TypeOK'
    BY <1>15 DEF vars, engine, wake, poll, line, session, hist, TypeOK
  <2>3. RxShape'
    BY <1>15 DEF vars, engine, wake, poll, line, session, hist, RxShape,
                EngineShape, ModeShape, SessionShape, MaskServed, RestartComing,
                LateNoticed, NoLostWakeup, Polling, Active, Heard
  <2> QED
    BY <2>1, <2>2, <2>3
<1> QED
  BY <1>1, <1>2, <1>3, <1>4, <1>5, <1>6, <1>7, <1>8, <1>9, <1>10, <1>11, <1>12,
     <1>13, <1>14, <1>15 DEF Next

(* The invariant holds in every reachable state. *)
LEMMA RxInvariant == Spec => []RxInductive
<1> QED
  BY InitInv, StepInv, PTL DEF Spec

(* From engine_start in ax_net_open on the C2H engine runs, or the          *)
(* interrupt that restarts it is pending and will be heard: always with     *)
(* MSI-X, and without unless xdma_isr masked it while NAPI was off.         *)
THEOREM EngineNeverStalls == Spec => []EngineRunsOrWillRestart
<1>1. RxInductive => EngineRunsOrWillRestart
  BY DEF RxInductive, RxShape, RestartComing, EngineRunsOrWillRestart
<1> QED
  BY <1>1, RxInvariant, PTL

(* No packet is left on the ring without a poll, a handler or an interrupt  *)
(* that leads to its delivery, however the poll, the unmasking, the         *)
(* handlers and the two halves of ax_net_open interleave, unless the last   *)
(* handler ran before napi_enable.                                          *)
THEOREM NoWakeupLost == Spec => []NoLostWakeup
<1>1. RxInductive => NoLostWakeup
  BY DEF RxInductive, RxShape
<1> QED
  BY <1>1, RxInvariant, PTL

(* ax_net_rx hands the packets to the stack in the order the engine wrote   *)
(* them, none skipped, none twice, for every ring size.                     *)
THEOREM DeliveryOrder == Spec => []DeliveredInOrder
<1>1. RxInductive => DeliveredInOrder
  BY DEF RxInductive, RingHolds, DeliveredInOrder
<1> QED
  BY <1>1, RxInvariant, PTL

=============================================================================
