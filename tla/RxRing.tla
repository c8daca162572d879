------------------------------- MODULE RxRing -------------------------------
(***************************************************************************)
(* The receive path: the C2H engine writing packets into its ring of       *)
(* 2 * Half descriptors, the interrupt handler restarting it list by list  *)
(* (xdma_channel_C2H_irq with MSI-X, the C2H branch of xdma_isr without;   *)
(* libxdma.c), the NAPI poll ax_net_poll / ax_net_rx consuming the ring,   *)
(* and the receive side of ax_net_open and ax_net_close (xdma_mod.c).      *)
(*                                                                         *)
(* Neither handler takes a lock.  The first reads and clears the engine's  *)
(* status and reads completed_desc_count afterwards; the second masks the  *)
(* channel's interrupt, for the poll to unmask, and reads the status       *)
(* afterwards.  Each is two steps between which the engine, the poll and   *)
(* ax_net_close may run.  Opening and closing are two steps each, too: the *)
(* engine runs before napi_enable and after napi_disable, and handlers of  *)
(* its interrupts with it.  A packet is the number of its arrival.         *)
(***************************************************************************)
EXTENDS Integers, Sequences

CONSTANTS
  Half,      \* RX_DESC_NUM / DESC_LIST_NUM, descriptors per list (512)
  Budget,    \* the NAPI weight
  MsixModes, \* what enable_msi_msix may have chosen: MSI-X (TRUE) or not
  MaxPkts,   \* bound: packets received
  MaxOpens   \* bound: calls of ax_net_open

ASSUME RxRingAssumption ==
  /\ Half \in Nat \ {0}
  /\ Budget \in Nat \ {0}
  /\ MsixModes \subseteq BOOLEAN
  /\ MaxPkts \in Nat
  /\ MaxOpens \in Nat

Desc == 0 .. 2 * Half - 1   \* RX_DESC_NUM

VARIABLES
  current_list,   \* engine->transfer->current_list
  running,        \* engine->running
  hw_run, hw_pos, \* hardware: RUN, and the descriptor the next packet fills
  desc_stopped,   \* hardware: XDMA_STAT_DESC_STOPPED
  completed,      \* hardware: completed_desc_count
  irq_req,        \* the engine's bit of channel_int_request
  msix,           \* the device signals through MSI-X
  masked,         \* without: the bit is cleared in channel_int_enable
  isr,            \* handler: "none", the STOPPED bit it has read, or
                  \* "entered" when it has only masked the interrupt
  result,         \* cyclic_result[i]: the packet written back, 0 when cleared
  cur_rx,         \* ax_local->cur_rx
  napi,           \* state of ax_local->napi
  unheard,        \* history: in this session, the last napi_schedule found
                  \* NAPI off
  work_done,      \* packets delivered by the poll under way
  rx_returned,    \* the poll is between ax_net_rx and napi_complete
  unmasking,      \* a poll is between napi_complete and its unmasking
  opening,        \* ax_net_open is past engine_start
  up,             \* between ax_net_open and ax_net_close
  closing,        \* ax_net_close is past napi_disable
  opens,          \* calls of ax_net_open
  bug,            \* BUG_ON(engine->running) hit in engine_start
  received,       \* history: packets the engine has written
  delivered,      \* history: packets given to the stack
  starved,        \* history: the last poll ended on a failed allocation
  overrun,        \* history: the engine wrote over a packet not yet read
  stale           \* history: a reopen found packets, a handler still
                  \* running or a masked interrupt of the previous session

engine  == <<current_list, running, hw_run, hw_pos, desc_stopped, completed>>
wake    == <<napi, unheard>>
poll    == <<work_done, rx_returned>>
line    == <<msix, masked, unmasking>>
session == <<opening, up, closing, opens, bug>>
hist    == <<received, delivered, starved, overrun, stale>>
vars    == <<engine, irq_req, isr, result, cur_rx, wake, poll, line, session,
             hist>>

(* NAPI: disabled, not scheduled, scheduled, scheduled again meanwhile. *)
NapiStates == {"off", "idle", "sched", "missed"}

-----------------------------------------------------------------------------
(* After the probe, before the first ax_net_open: the engine is idle, the *)
(* results are as allocated, NAPI is not enabled yet.                      *)
Init ==
  /\ current_list = 0
  /\ running = FALSE
  /\ hw_run = FALSE
  /\ hw_pos = 0
  /\ desc_stopped = FALSE
  /\ completed = 0
  /\ irq_req = FALSE
  /\ msix \in MsixModes
  /\ masked = FALSE
  /\ isr = "none"
  /\ result = [i \in Desc |-> 0]
  /\ cur_rx = 0
  /\ napi = "off"
  /\ unheard = FALSE
  /\ work_done = 0
  /\ rx_returned = FALSE
  /\ unmasking = FALSE
  /\ opening = FALSE
  /\ up = FALSE
  /\ closing = FALSE
  /\ opens = 0
  /\ bug = FALSE
  /\ received = 0
  /\ delivered = <<>>
  /\ starved = FALSE
  /\ overrun = FALSE
  /\ stale = FALSE

(* The control word with RUN, which resets the engine's status and count. *)
engine_start_mode_config ==
  /\ hw_run' = TRUE
  /\ desc_stopped' = FALSE
  /\ completed' = 0

(* Mutant: the control word is written without RUN. *)
engine_start_NoRun(l) ==
  /\ running' = TRUE
  /\ hw_pos' = l * Half
  /\ desc_stopped' = FALSE
  /\ completed' = 0
  /\ UNCHANGED hw_run

(* engine_start on list l. *)
engine_start(l) ==
  /\ running' = TRUE
  /\ hw_pos' = l * Half
  /\ engine_start_mode_config

(* The control word without RUN. *)
xdma_engine_stop ==
  /\ running' = FALSE
  /\ hw_run' = FALSE

(* With clear set, the read takes the request back with the status. *)
engine_status_read ==
  /\ irq_req' = FALSE
  /\ desc_stopped' = FALSE

(* napi_schedule: no poll while disabled, remembered while polling. *)
napi_schedule ==
  /\ napi' = CASE napi = "idle" -> "sched"
               [] napi \in {"sched", "missed"} -> "missed"
               [] napi = "off" -> "off"
  /\ unheard' = (napi = "off")

-----------------------------------------------------------------------------
(***************************************************************************)
(* Hardware (external): a packet and its write-back fill one descriptor;   *)
(* every descriptor carries COMPLETED, the last of a list STOPPED.         *)
(***************************************************************************)
HwReceive ==
  LET last == (hw_pos + 1) % Half = 0
  IN /\ hw_run
     /\ received < MaxPkts
     /\ received' = received + 1
     /\ result' = [result EXCEPT ![hw_pos] = received + 1]
     /\ overrun' = (overrun \/ result[hw_pos] # 0)
     /\ completed' = completed + 1
     /\ irq_req' = TRUE
     /\ hw_run' = ~last
     /\ hw_pos' = IF last THEN hw_pos ELSE hw_pos + 1
     /\ desc_stopped' = last
     /\ UNCHANGED <<current_list, running, isr, cur_rx, wake, poll, line,
                    session, delivered, starved, stale>>

(* xdma_channel_C2H_irq up to engine_status_read: the status is cleared. *)
C2H_irq_status ==
  /\ msix
  /\ irq_req
  /\ isr = "none"
  /\ isr' = IF desc_stopped THEN "stopped" ELSE "running"
  /\ engine_status_read
  /\ UNCHANGED <<current_list, running, hw_run, hw_pos, completed, result,
                 cur_rx, wake, poll, line, session, hist>>

(* Mutant: the engine is restarted on the list that is full. *)
C2H_irq_SameList ==
  /\ isr \in {"running", "stopped"}
  /\ isr' = "none"
  /\ IF isr = "stopped" \/ completed = Half
     THEN engine_start(current_list) /\ UNCHANGED current_list
     ELSE UNCHANGED engine
  /\ napi_schedule
  /\ UNCHANGED <<irq_req, result, cur_rx, poll, line, session, hist>>

(* Mutant: NAPI is scheduled only when a list is done. *)
C2H_irq_ScheduleLate ==
  /\ isr \in {"running", "stopped"}
  /\ isr' = "none"
  /\ IF isr = "stopped" \/ completed = Half
     THEN /\ current_list' = 1 - current_list
          /\ engine_start(1 - current_list)
          /\ napi_schedule
     ELSE UNCHANGED <<engine, wake>>
  /\ UNCHANGED <<irq_req, result, cur_rx, poll, line, session, hist>>

(* ... the rest: restart on the other list when this one is done, then NAPI. *)
C2H_irq_serve ==
  /\ isr \in {"running", "stopped"}
  /\ isr' = "none"
  /\ IF isr = "stopped" \/ completed = Half
     THEN /\ current_list' = 1 - current_list
          /\ engine_start(1 - current_list)
     ELSE UNCHANGED engine
  /\ napi_schedule
  /\ UNCHANGED <<irq_req, result, cur_rx, poll, line, session, hist>>

(* xdma_isr, without MSI-X: an interrupt that fired is masked first ... *)
xdma_isr_mask ==
  /\ ~msix
  /\ irq_req
  /\ ~masked
  /\ isr = "none"
  /\ isr' = "entered"
  /\ masked' = TRUE
  /\ UNCHANGED <<engine, irq_req, result, cur_rx, wake, poll, msix, unmasking,
                 session, hist>>

(* ... then the status alone says whether to restart; the poll unmasks. *)
xdma_isr_C2H ==
  /\ isr = "entered"
  /\ isr' = "none"
  /\ engine_status_read
  /\ IF desc_stopped
     THEN /\ current_list' = 1 - current_list
          /\ engine_start(1 - current_list)
     ELSE UNCHANGED engine
  /\ napi_schedule
  /\ UNCHANGED <<result, cur_rx, poll, line, session, hist>>

-----------------------------------------------------------------------------
Polling == napi \in {"sched", "missed"}

(* Mutant: the write-back result is not cleared. *)
ax_net_rx_NoClear ==
  /\ Polling
  /\ ~rx_returned
  /\ result[cur_rx] # 0
  /\ work_done < Budget
  /\ delivered' = Append(delivered, result[cur_rx])
  /\ cur_rx' = (cur_rx + 1) % (2 * Half)
  /\ work_done' = work_done + 1
  /\ starved' = FALSE
  /\ UNCHANGED <<engine, irq_req, isr, result, wake, rx_returned, line, session,
                 received, overrun, stale>>

(* ax_net_rx, one turn of its loop: deliver the packet, clear its result. *)
ax_net_rx ==
  /\ Polling
  /\ ~rx_returned
  /\ result[cur_rx] # 0
  /\ work_done < Budget
  /\ delivered' = Append(delivered, result[cur_rx])
  /\ result' = [result EXCEPT ![cur_rx] = 0]
  /\ cur_rx' = (cur_rx + 1) % (2 * Half)
  /\ work_done' = work_done + 1
  /\ starved' = FALSE
  /\ UNCHANGED <<engine, irq_req, isr, wake, rx_returned, line, session,
                 received, overrun, stale>>

(* napi_complete: polled again if an interrupt asked for it meanwhile. *)
napi_complete ==
  napi' = IF napi = "missed" THEN "sched" ELSE "idle"

(* ax_net_rx returns early, packet unread, when no skb can be allocated. *)
AllocFails ==
  /\ Polling
  /\ ~rx_returned
  /\ result[cur_rx] # 0
  /\ work_done < Budget
  /\ rx_returned' = TRUE
  /\ starved' = TRUE
  /\ UNCHANGED <<engine, irq_req, isr, result, cur_rx, wake, work_done, line,
                 session, received, delivered, overrun, stale>>

(* ... or at the end of its loop: nothing more to read, or out of budget. *)
rx_return ==
  /\ Polling
  /\ ~rx_returned
  /\ result[cur_rx] = 0 \/ work_done = Budget
  /\ rx_returned' = TRUE
  /\ UNCHANGED <<engine, irq_req, isr, result, cur_rx, wake, work_done, line,
                 session, hist>>

(* The end of ax_net_poll: done for now, or polled again when out of budget. *)
ax_net_poll ==
  /\ Polling
  /\ rx_returned
  /\ IF work_done < Budget
     THEN napi_complete /\ unmasking' = (unmasking \/ ~msix)
     ELSE UNCHANGED <<napi, unmasking>>
  /\ rx_returned' = FALSE
  /\ work_done' = 0
  /\ UNCHANGED <<engine, irq_req, isr, result, cur_rx, unheard, msix, masked,
                 session, hist>>

(***************************************************************************)
(* ... which ends with channel_interrupts_enable_polling, after            *)
(* napi_complete, so that a new poll may be under way.  With MSI-X it      *)
(* finds nothing masked and is left out.                                   *)
(***************************************************************************)
enable_polling ==
  /\ unmasking
  /\ unmasking' = FALSE
  /\ masked' = FALSE
  /\ UNCHANGED <<engine, irq_req, isr, result, cur_rx, wake, poll, msix, session,
                 hist>>

-----------------------------------------------------------------------------
(* ax_net_close: napi_disable waits for the poll ... *)
ax_net_close ==
  /\ up
  /\ napi = "idle"
  /\ napi' = "off"
  /\ up' = FALSE
  /\ closing' = TRUE
  /\ UNCHANGED <<engine, irq_req, isr, result, cur_rx, unheard, poll, line,
                 opening, opens, bug, hist>>

(* ... then the engine is stopped, its interrupt left as it is. *)
close_stop ==
  /\ closing
  /\ closing' = FALSE
  /\ xdma_engine_stop
  /\ UNCHANGED <<current_list, hw_pos, desc_stopped, completed, irq_req, isr,
                 result, cur_rx, wake, poll, line, opening, up, opens, bug,
                 hist>>

(* The transfer starts on list 0 again. *)
xdma_desc_setup == current_list' = 0

(* ax_net_open up to engine_start; the write-back results are not cleared. *)
ax_net_open ==
  /\ ~opening
  /\ ~up
  /\ ~closing
  /\ ~bug
  /\ opens < MaxOpens
  /\ opens' = opens + 1
  /\ IF running
     THEN /\ bug' = TRUE
          /\ UNCHANGED <<engine, cur_rx, unheard, opening, stale>>
     ELSE /\ xdma_desc_setup
          /\ cur_rx' = 0
          /\ engine_start(0)
          /\ opening' = TRUE
          /\ unheard' = FALSE
          /\ stale' = (stale \/ isr # "none" \/ masked
                             \/ \E i \in Desc : result[i] # 0)
          /\ UNCHANGED bug
  /\ UNCHANGED <<irq_req, isr, result, napi, poll, line, up, closing, received,
                 delivered, starved, overrun>>

(* ... then napi_enable, which schedules nothing. *)
open_enable ==
  /\ opening
  /\ opening' = FALSE
  /\ up' = TRUE
  /\ napi' = "idle"
  /\ UNCHANGED <<engine, irq_req, isr, result, cur_rx, unheard, poll, line,
                 closing, opens, bug, hist>>

-----------------------------------------------------------------------------
Next ==
  \/ HwReceive
  \/ C2H_irq_status
  \/ C2H_irq_serve
  \/ xdma_isr_mask
  \/ xdma_isr_C2H
  \/ ax_net_rx
  \/ AllocFails
  \/ rx_return
  \/ ax_net_poll
  \/ enable_polling
  \/ ax_net_close
  \/ close_stop
  \/ ax_net_open
  \/ open_enable

(* Interrupts are delivered, handlers and ax_net_open finish, a scheduled *)
(* poll runs.                                                             *)
Fairness ==
  /\ WF_vars(C2H_irq_status)
  /\ WF_vars(C2H_irq_serve)
  /\ WF_vars(xdma_isr_mask)
  /\ WF_vars(xdma_isr_C2H)
  /\ WF_vars(ax_net_rx)
  /\ WF_vars(rx_return)
  /\ WF_vars(ax_net_poll)
  /\ WF_vars(enable_polling)
  /\ WF_vars(open_enable)

Spec     == Init /\ [][Next]_vars
FairSpec == Spec /\ Fairness

-----------------------------------------------------------------------------
TypeOK ==
  /\ current_list \in {0, 1}
  /\ running \in BOOLEAN
  /\ hw_run \in BOOLEAN
  /\ hw_pos \in Desc
  /\ desc_stopped \in BOOLEAN
  /\ completed \in 0 .. Half
  /\ irq_req \in BOOLEAN
  /\ msix \in MsixModes
  /\ masked \in BOOLEAN
  /\ isr \in {"none", "running", "stopped", "entered"}
  /\ result \in [Desc -> 0 .. MaxPkts]
  /\ cur_rx \in Desc
  /\ napi \in NapiStates
  /\ unheard \in BOOLEAN
  /\ work_done \in 0 .. Budget
  /\ rx_returned \in BOOLEAN
  /\ unmasking \in BOOLEAN
  /\ opening \in BOOLEAN
  /\ up \in BOOLEAN
  /\ closing \in BOOLEAN
  /\ opens \in 0 .. MaxOpens
  /\ bug \in BOOLEAN
  /\ received \in 0 .. MaxPkts
  /\ delivered \in Seq(1 .. MaxPkts)
  /\ starved \in BOOLEAN
  /\ overrun \in BOOLEAN
  /\ stale \in BOOLEAN

(* From engine_start in ax_net_open to napi_disable in ax_net_close. *)
Active == opening \/ up

(* A requested interrupt will be heard: not masked, or with a poll that     *)
(* unmasks it still to end.                                                 *)
Heard == irq_req /\ (masked => Polling \/ unmasking)

(***************************************************************************)
(* Reception never stalls: from engine_start in ax_net_open on the engine  *)
(* is either running or the interrupt that restarts it is on its way and   *)
(* will be heard.  With MSI-X there is no exception.  Without, they are a  *)
(* handler that masked the interrupt before napi_enable, when no poll      *)
(* could be scheduled to unmask it, and a reopen that found it masked or   *)
(* a handler at work.                                                      *)
(***************************************************************************)
EngineRunsOrWillRestart ==
  /\ TypeOK
  /\ Active =>
       \/ hw_run
       \/ isr \in {"running", "stopped"} /\ (isr = "stopped" \/ completed = Half)
       \/ isr = "entered" /\ desc_stopped
       \/ /\ Heard \/ (irq_req /\ ~msix /\ (unheard \/ stale))
          /\ desc_stopped \/ (msix /\ completed = Half)

(***************************************************************************)
(* Packets reach the stack in the order they arrived, none skipped and     *)
(* none twice, for as long as the engine has not lapped the poll and no    *)
(* reopen found write-backs, a C2H handler or a masked interrupt of the    *)
(* previous session.                                                       *)
(***************************************************************************)
DeliveredInOrder ==
  ~overrun /\ ~stale => \A k \in 1 .. Len(delivered) : delivered[k] = k

(***************************************************************************)
(* No lost wake-up between napi_complete, the unmasking and the interrupt: *)
(* a packet waiting at cur_rx is being polled, or an interrupt that        *)
(* schedules the poll is coming and will be heard.  The exceptions are a   *)
(* poll that ran out of memory, what DeliveredInOrder names, and the one   *)
(* wake-up the code does lose: ax_net_open starts the engine before        *)
(* napi_enable, so a handler in between schedules nothing, and until a     *)
(* handler runs again (never, once it masked) the packet waits.            *)
(***************************************************************************)
NoLostWakeup ==
  Active /\ ~overrun /\ ~stale /\ result[cur_rx] # 0
    => Polling \/ Heard \/ isr # "none" \/ starved \/ unheard

(***************************************************************************)
(* What arrived is delivered, unless memory, ring space or the session     *)
(* ran out first, or the last wake-up came before napi_enable and no       *)
(* handler has run since.                                                  *)
(***************************************************************************)
Disturbed == starved \/ overrun \/ stale \/ unheard \/ ~Active

EveryPacketDelivered ==
  \A p \in 1 .. MaxPkts : received >= p ~> Len(delivered) >= p \/ Disturbed

(***************************************************************************)
(* engine_start's own demand (libxdma.c:600 "The engine must be idle",     *)
(* asserted by BUG_ON(engine->running)): ax_net_open finds the engine that *)
(* ax_net_close stopped still stopped.                                     *)
(***************************************************************************)
NoBugOn == ~bug

(***************************************************************************)
(* xdma_isr's own promise (libxdma.c:1113 "disable all interrupts that     *)
(* fired; these are re-enabled individually after the causing module has   *)
(* been fully serviced"): while the interface is up, a masked C2H          *)
(* interrupt has a handler or a poll at work that leads to its unmasking.  *)
(***************************************************************************)
MaskedIsServed == up /\ masked => isr # "none" \/ Polling \/ unmasking
=============================================================================
