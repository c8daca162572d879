-------------------------------- MODULE Phy ---------------------------------
(***************************************************************************)
(* The PHYs of the switch ports over MDIO (xdma_mod.c): ax_init_rgmii, run *)
(* by probe, which restarts autonegotiation on the ports that have not     *)
(* finished it, ax_restart_autoneg, and then the PHY timer, which polls    *)
(* the link of every port and records what was negotiated.                 *)
(*                                                                         *)
(* A PHY changes on its own between any two accesses.  The MDIO controller *)
(* may not answer in time: ax_mdio_read then returns 0, ax_mdio_write      *)
(* returns as if it had written; there is no error to see.                 *)
(***************************************************************************)
EXTENDS Integers, FiniteSets

CONSTANTS
    NPorts,         \* number_of_ports - 1: the PHYs are 1 to NPorts
    Own,            \* what a PHY of the switch may advertise: sets of modes
    Abilities,      \* what its link partner may advertise
    MaxChanges,     \* bound: changes of the PHYs' state
    MaxTimeouts     \* bound: MDIO accesses that are not answered

ASSUME PhyAssumption ==
    /\ NPorts \in Nat \ {0} /\ MaxChanges \in Nat /\ MaxTimeouts \in Nat

VARIABLES
    stage,      \* "read", "restart", "retry", "poll" or a register to read
    phyad,      \* the port being worked on, the address of its PHY
    j,          \* attempts of ax_init_rgmii on this port
    match, retry,   \* match_num and retry_num: never reset
    phy,        \* each PHY: [plug, up, adv, lpa]
    regs,       \* what the timer has read for this port
    status,     \* phy_status[], what the timer has recorded
    torn,       \* the PHY changed, or did not answer, since the port's poll began
    changes, timeouts

phyVars == <<stage, phyad, j, match, retry, phy, regs, status, torn, changes, timeouts>>

Ports == 1 .. NPorts
Modes == {"1000F", "1000H", "100F", "100H", "10F", "pause", "asym"}
NoStatus == [link |-> 0, speed |-> 0, full |-> FALSE, pause |-> FALSE, asym |-> FALSE]
NoRegs == [gb |-> {}, lpa |-> {}]

PhyInit ==
    /\ stage = "read" /\ phyad = 1 /\ j = 0 /\ match = 0 /\ retry = 0
    /\ phy \in [Ports -> [plug : BOOLEAN, up : BOOLEAN, adv : Own, lpa : Abilities]]
    /\ \A p \in Ports : phy[p].up => phy[p].plug
    /\ regs = NoRegs /\ status = [p \in Ports |-> NoStatus]
    /\ torn = FALSE /\ changes = 0 /\ timeouts = 0

-----------------------------------------------------------------------------
(* MDIO accesses                                                           *)

(* The values a read may give: the register, or 0 when the controller is   *)
(* still busy after ten polls.  "zero" is the register value without bits. *)
ax_mdio_read(v, zero, got) ==
    \/ got = v /\ UNCHANGED timeouts
    \/ timeouts < MaxTimeouts /\ got = zero /\ timeouts' = timeouts + 1

(* A write reaches the PHY, or does not. *)
ax_mdio_write(new) ==
    \/ phy' = new /\ UNCHANGED timeouts
    \/ timeouts < MaxTimeouts /\ phy' = phy /\ timeouts' = timeouts + 1

Restarted(p) == [phy EXCEPT ![p].up = FALSE]

-----------------------------------------------------------------------------
(* ax_init_rgmii                                                           *)

InitVars == <<phyad, j, match, retry>>
TimerVars == <<regs, status, torn>>

Port(p) == IF p < NPorts THEN stage' = "read" /\ phyad' = p + 1
                         ELSE stage' = "restart_all" /\ phyad' = 1

(* A port whose link is up and negotiated is left alone. *)
CheckPort ==
    /\ stage = "read"
    /\ \E ok \in BOOLEAN :
        /\ ax_mdio_read(phy[phyad].up, FALSE, ok)
        /\ IF ok THEN Port(phyad) ELSE stage' = "restart" /\ UNCHANGED phyad
    /\ j' = 0
    /\ UNCHANGED <<match, retry, phy, changes, TimerVars>>

RestartPort ==
    /\ stage = "restart" /\ stage' = "retry"
    /\ ax_mdio_write(Restarted(phyad))
    /\ UNCHANGED <<changes, InitVars, TimerVars>>

(* One read of the loop, with all that follows from it: another read, the  *)
(* next attempt or the next port (a failure is only printed).              *)
RetryRead ==
    /\ stage = "retry"
    /\ retry' = retry + 1
    /\ \E ok \in BOOLEAN :
        /\ ax_mdio_read(phy[phyad].up, FALSE, ok)
        /\ match' = IF ok THEN match + 1 ELSE match
    /\ \/ match' < 3 /\ retry' < 5 /\ UNCHANGED <<stage, phyad, j>>
       \/ /\ match' >= 3 \/ retry' >= 5
          /\ match' # 3 /\ j < 2
          /\ stage' = "restart" /\ j' = j + 1 /\ UNCHANGED phyad
       \/ /\ match' >= 3 \/ retry' >= 5
          /\ match' = 3 \/ j = 2
          /\ Port(phyad) /\ j' = 0
    /\ UNCHANGED <<phy, changes, TimerVars>>

(* ax_restart_autoneg, after the PHY settings of probe; then the timer.    *)
(* The read of BMCR before the write is left out: one that is not answered *)
(* gives 0, and the write then also takes ANENABLE from the PHY, whose     *)
(* negotiation is its own affair here.                                     *)
ax_restart_autoneg ==
    /\ stage = "restart_all"
    /\ ax_mdio_write(Restarted(phyad))
    /\ IF phyad < NPorts THEN phyad' = phyad + 1 /\ UNCHANGED stage ELSE phyad' = 1 /\ stage' = "bmsr"
    /\ UNCHANGED <<j, match, retry, changes, TimerVars>>

-----------------------------------------------------------------------------
(* __ax_phy_timer                                                          *)

(* Done with a port: the next one, or the timer is armed again.  Between   *)
(* two ticks and between two ports nothing but the record is kept.         *)
NextPort ==
    /\ phyad' = IF phyad < NPorts THEN phyad + 1 ELSE 1
    /\ stage' = "bmsr" /\ regs' = NoRegs /\ torn' = FALSE

Kept == UNCHANGED <<j, match, retry, phy, changes>>

(* Mutant: a link that is lost leaves the record as it was. *)
LostIgnored ==
    /\ stage = "bmsr"
    /\ \E up \in BOOLEAN :
        /\ ax_mdio_read(phy[phyad].up, FALSE, up)
        /\ IF up /\ status[phyad].link = 0
           THEN /\ status' = [status EXCEPT ![phyad].link = 1]
                /\ stage' = "stat1000" /\ torn' = (timeouts' # timeouts)
                /\ UNCHANGED <<phyad, regs>>
           ELSE NextPort /\ UNCHANGED status
    /\ Kept

(* A link that is still up is not looked at again. *)
ReadLink ==
    /\ stage = "bmsr"
    /\ \E up \in BOOLEAN :
        /\ ax_mdio_read(phy[phyad].up, FALSE, up)
        /\ \/ /\ up /\ status[phyad].link = 0
              /\ status' = [status EXCEPT ![phyad].link = 1]
              /\ stage' = "stat1000" /\ torn' = FALSE /\ UNCHANGED <<phyad, regs>>
           \/ up /\ status[phyad].link = 1 /\ NextPort /\ UNCHANGED status
           \/ ~up /\ NextPort /\ status' = [status EXCEPT ![phyad] = NoStatus]
    /\ Kept

(* The four registers: the partner's and our own abilities, at 1000 Mbit/s *)
(* and below.                                                              *)
Below == {"100F", "100H", "10F", "pause", "asym"}
Gigabit == {"1000F", "1000H"}

Read(at, to, v, f(_)) ==
    /\ stage = at /\ stage' = to
    /\ \E got \in {v, {}} : ax_mdio_read(v, {}, got) /\ regs' = f(got)
    /\ torn' = (torn \/ timeouts' # timeouts)
    /\ UNCHANGED <<phyad, status>> /\ Kept

ReadStat1000 == LET f(v) == [regs EXCEPT !.gb = v]
                IN  Read("stat1000", "ctrl1000", phy[phyad].lpa \cap Gigabit, f)
ReadCtrl1000 == LET f(v) == [regs EXCEPT !.gb = @ \cap v]
                IN  Read("ctrl1000", "lpa", phy[phyad].adv \cap Gigabit, f)
ReadLpa      == LET f(v) == [regs EXCEPT !.lpa = v]
                IN  Read("lpa", "advertise", phy[phyad].lpa \cap Below, f)

(* Mutant: half duplex is taken for full at 100 Mbit/s. *)
ResolveSwapped(gb, lpa, adv) ==
    LET common == lpa \cap adv
        speed == IF gb # {} THEN 1000 ELSE IF common \cap {"100F", "100H"} # {} THEN 100 ELSE 10
        full == IF speed = 1000 THEN "1000F" \in gb ELSE "10F" \in common
    IN  [link |-> 1, speed |-> speed, full |-> full,
         pause |-> full /\ "pause" \in lpa, asym |-> full /\ "asym" \in lpa]

(* What the timer makes of the registers. *)
Resolve(gb, lpa, adv) ==
    LET common == lpa \cap adv
        speed == IF gb # {} THEN 1000 ELSE IF common \cap {"100F", "100H"} # {} THEN 100 ELSE 10
        full == CASE speed = 1000 -> "1000F" \in gb
                  [] speed = 100  -> "100F" \in common
                  [] speed = 10   -> "10F" \in common
    IN  [link |-> 1, speed |-> speed, full |-> full,
         pause |-> full /\ "pause" \in lpa, asym |-> full /\ "asym" \in lpa]

(* The last register; the record is compared and replaced.                 *)
ReadAdvertise ==
    /\ stage = "advertise"
    /\ \E adv \in {phy[phyad].adv \cap Below, {}} :
        /\ ax_mdio_read(phy[phyad].adv \cap Below, {}, adv)
        /\ status' = [status EXCEPT ![phyad] = Resolve(regs.gb, regs.lpa, adv)]
    /\ NextPort /\ Kept

-----------------------------------------------------------------------------
(* The PHYs                                                                *)

(* Autonegotiation is complete and the link is up: both bits of BMSR. *)
Negotiated(p) ==
    /\ phy[p].plug /\ ~phy[p].up
    /\ phy' = [phy EXCEPT ![p].up = TRUE]
    /\ UNCHANGED <<stage, changes, timeouts, InitVars, TimerVars>>

(* The cable is pulled or plugged, perhaps to another partner. *)
Changed(p) ==
    /\ changes < MaxChanges /\ changes' = changes + 1
    /\ \E l \in Abilities :
        phy' = [phy EXCEPT ![p].plug = ~@, ![p].up = FALSE, ![p].lpa = l]
    /\ torn' = (torn \/ p = phyad)
    /\ UNCHANGED <<stage, timeouts, regs, status, InitVars>>

-----------------------------------------------------------------------------
Driver == CheckPort \/ RestartPort \/ RetryRead \/ ax_restart_autoneg
          \/ ReadLink \/ ReadStat1000 \/ ReadCtrl1000 \/ ReadLpa \/ ReadAdvertise
PhyNext == Driver \/ \E p \in Ports : Negotiated(p) \/ Changed(p)

(* Probe runs on, and the timer fires every PHY_POLLING_TIMER. *)
PhySpec == PhyInit /\ [][PhyNext]_phyVars /\ WF_phyVars(Driver)

-----------------------------------------------------------------------------
(* Priority of IEEE 802.3 among the modes both sides have. *)
Best(p) ==
    LET common == phy[p].adv \cap phy[p].lpa
        Top(m, above) == m \in common /\ common \cap above = {}
    IN  CASE Top("1000F", {}) -> <<1000, TRUE>>
          [] Top("1000H", {"1000F"}) -> <<1000, FALSE>>
          [] Top("100F", Gigabit) -> <<100, TRUE>>
          [] Top("100H", Gigabit \cup {"100F"}) -> <<100, FALSE>>
          [] Top("10F", Gigabit \cup {"100F", "100H"}) -> <<10, TRUE>>
          [] OTHER -> <<10, FALSE>>

(* What __ax_phy_timer records, read register by register while the PHY    *)
(* goes on, is the best mode both sides have whenever the PHY was still    *)
(* and answered from the port's first read to its last.                    *)
RecordsBest ==
    [][\A p \in Ports :
        (stage = "advertise" /\ p = phyad /\ status'[p] # status[p] /\ ~torn /\ timeouts' = timeouts)
            => <<status'[p].speed, status'[p].full>> = Best(p)]_phyVars

(* Once the links stay and the PHYs answer, ax_init_rgmii comes to an end  *)
(* with its counters in any state, and each port's link flag is then in    *)
(* the end that of its PHY.  Only the flag: __ax_phy_timer does not look   *)
(* again at a link that stays up, so a speed or duplex recorded from torn  *)
(* or unanswered reads stays as long as the link does.                     *)
LinkConverges == \A p \in Ports : <>[](status[p].link = 1 <=> phy[p].up)
=============================================================================
