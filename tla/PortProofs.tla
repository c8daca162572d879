----------------------------- MODULE PortProofs -----------------------------
(***************************************************************************)
(* Proofs about the models of the switch's ports: the PHYs (Phy), the tag  *)
(* (SdsaTag), the receive filters (DsaUser), bridging (DsaBridge) and      *)
(* VLANs (DsaVlan).  The five share no state; each part below is about     *)
(* one of them.                                                            *)
(***************************************************************************)
EXTENDS Phy, SdsaTag, DsaUser, DsaBridge, DsaVlan, TLAPS, FiniteSetTheorems,
        SequenceTheorems, WellFoundedInduction

-----------------------------------------------------------------------------
(***************************************************************************)
(* Phy.  What the timer has read of the PHY is what the PHY has, as long   *)
(* as it was still and answered since the port's poll began.               *)
(***************************************************************************)
Polled  == {"stat1000", "ctrl1000", "lpa", "advertise"}
Reading == ~torn =>
  /\ stage = "ctrl1000" => regs.gb = phy[phyad].lpa \cap Gigabit
  /\ stage \in {"lpa", "advertise"} => regs.gb = phy[phyad].lpa \cap phy[phyad].adv \cap Gigabit
  /\ stage = "advertise" => regs.lpa = phy[phyad].lpa \cap Below

PhyShape ==
  /\ stage \in {"read", "restart", "retry", "restart_all", "bmsr"} \cup Polled
  /\ phyad \in Ports
  /\ DOMAIN phy = Ports /\ DOMAIN status = Ports
  /\ \A p \in Ports : phy[p] = [plug |-> phy[p].plug, up |-> phy[p].up,
                                adv |-> phy[p].adv, lpa |-> phy[p].lpa]
  /\ regs = [gb |-> regs.gb, lpa |-> regs.lpa]
  /\ torn \in BOOLEAN /\ timeouts \in Nat

PhyInv == PhyShape /\ Reading

(* Speed and duplex of the first mode in the order of IEEE 802.3. *)
First(common, a, b, c, d, e, f) ==
  IF "1000F" \in common THEN a ELSE IF "1000H" \in common THEN b ELSE
  IF "100F" \in common THEN c ELSE IF "100H" \in common THEN d ELSE
  IF "10F" \in common THEN e ELSE f

FirstMode(common) ==
  First(common, <<1000, TRUE>>, <<1000, FALSE>>, <<100, TRUE>>, <<100, FALSE>>,
        <<10, TRUE>>, <<10, FALSE>>)
Mode(r) == <<r.speed, r.full>>

LEMMA ModeOrder ==
  ASSUME NEW common, NEW a, NEW b, NEW c, NEW d, NEW e, NEW f
  PROVE  (CASE "1000F" \in common /\ common \cap {} = {} -> a
            [] "1000H" \in common /\ common \cap {"1000F"} = {} -> b
            [] "100F" \in common /\ common \cap Gigabit = {} -> c
            [] "100H" \in common /\ common \cap (Gigabit \cup {"100F"}) = {} -> d
            [] "10F" \in common /\ common \cap (Gigabit \cup {"100F", "100H"}) = {} -> e
            [] OTHER -> f) = First(common, a, b, c, d, e, f)
BY DEF Gigabit, First

LEMMA BestIsFirst ==
  ASSUME NEW p
  PROVE  Best(p) = FirstMode(phy[p].adv \cap phy[p].lpa)
BY ModeOrder, Zenon DEF Best, FirstMode

(* What the timer makes of the registers is that mode. *)
LEMMA ResolvesFirst ==
  ASSUME NEW lpa, NEW adv, NEW r,
         r = Resolve(lpa \cap adv \cap Gigabit, lpa \cap Below, adv \cap Below)
  PROVE  Mode(r) = FirstMode(adv \cap lpa)
<1> DEFINE common == adv \cap lpa
           gb == lpa \cap adv \cap Gigabit
           low == lpa \cap Below
           own == adv \cap Below
<1>1. /\ gb = common \cap Gigabit /\ low \cap own = common \cap Below
      /\ ("1000F" \in gb <=> "1000F" \in common)
      /\ ("1000H" \in gb <=> "1000H" \in common)
  BY DEF Gigabit
<1>2. /\ ("100F" \in low \cap own <=> "100F" \in common)
      /\ ("100H" \in low \cap own <=> "100H" \in common)
      /\ ("10F" \in low \cap own <=> "10F" \in common)
  BY DEF Below
<1>3. /\ r.speed = IF "1000F" \in common \/ "1000H" \in common THEN 1000 ELSE
                   IF "100F" \in common \/ "100H" \in common THEN 100 ELSE 10
      /\ r.speed = 1000 => r.full = ("1000F" \in common)
      /\ r.speed = 100 => r.full = ("100F" \in common)
      /\ r.speed = 10 => r.full = ("10F" \in common)
  <2>1. CASE "1000F" \in common \/ "1000H" \in common
    BY <1>1, <2>1 DEF Resolve
  <2>2. CASE /\ "1000F" \notin common /\ "1000H" \notin common
             /\ "100F" \in common \/ "100H" \in common
    <3>1. gb = {} /\ (low \cap own) \cap {"100F", "100H"} # {}
      BY <1>1, <1>2, <2>2 DEF Gigabit
    <3> QED
      BY <1>2, <2>2, <3>1 DEF Resolve
  <2>3. CASE {"1000F", "1000H", "100F", "100H"} \cap common = {}
    <3>1. gb = {} /\ (low \cap own) \cap {"100F", "100H"} = {}
      BY <1>1, <1>2, <2>3 DEF Gigabit
    <3> QED
      BY <1>2, <2>3, <3>1 DEF Resolve
  <2> QED
    BY <2>1, <2>2, <2>3
<1>4. CASE "1000F" \in common
  <2>1. r.speed = 1000 /\ r.full = TRUE
    BY <1>3, <1>4, Zenon
  <2> QED
    BY <1>4, <2>1, ZenonT(40) DEF First, FirstMode, Mode
<1>5. CASE "1000F" \notin common /\ "1000H" \in common
  <2>1. r.speed = 1000 /\ r.full = FALSE
    <3>1. r.speed = 1000 /\ r.full = ("1000F" \in common)
      BY <1>3, <1>5, Zenon
    <3>2. ("1000F" \in common) = FALSE
      BY <1>5
    <3> QED
      BY <3>1, <3>2, ZenonT(40)
  <2> QED
    BY <1>5, <2>1, ZenonT(40) DEF First, FirstMode, Mode
<1>6. CASE "1000F" \notin common /\ "1000H" \notin common /\ "100F" \in common
  <2>1. r.speed = 100 /\ r.full = TRUE
    BY <1>3, <1>6, Zenon
  <2> QED
    BY <1>6, <2>1, ZenonT(40) DEF First, FirstMode, Mode
<1>7. CASE /\ "1000F" \notin common /\ "1000H" \notin common /\ "100F" \notin common
           /\ "100H" \in common
  <2>1. r.speed = 100 /\ r.full = FALSE
    <3>1. r.speed = 100 /\ r.full = ("100F" \in common)
      BY <1>3, <1>7, Zenon
    <3>2. ("100F" \in common) = FALSE
      BY <1>7
    <3> QED
      BY <3>1, <3>2, Zenon
  <2> QED
    BY <1>7, <2>1, ZenonT(40) DEF First, FirstMode, Mode
<1>8. CASE /\ "1000F" \notin common /\ "1000H" \notin common /\ "100F" \notin common
           /\ "100H" \notin common /\ "10F" \in common
  <2>1. r.speed = 10 /\ r.full = TRUE
    BY <1>3, <1>8, Zenon
  <2> QED
    BY <1>8, <2>1, ZenonT(40) DEF First, FirstMode, Mode
<1>9. CASE /\ "1000F" \notin common /\ "1000H" \notin common /\ "100F" \notin common
           /\ "100H" \notin common /\ "10F" \notin common
  <2>1. r.speed = 10 /\ r.full = FALSE
    <3>1. r.speed = 10 /\ r.full = ("10F" \in common)
      BY <1>3, <1>9, Zenon
    <3>2. ("10F" \in common) = FALSE
      BY <1>9
    <3> QED
      BY <3>1, <3>2, Zenon
  <2> QED
    BY <1>9, <2>1, ZenonT(40) DEF First, FirstMode, Mode
<1> QED
  BY <1>4, <1>5, <1>6, <1>7, <1>8, <1>9

LEMMA PhyInitInv == PhyInit => PhyInv
<1> SUFFICES ASSUME PhyInit PROVE PhyInv
  OBVIOUS
<1>1. phyad \in Ports
  BY PhyAssumption DEF PhyInit, Ports
<1>2. PhyShape
  BY <1>1 DEF PhyInit, PhyShape, NoRegs, NoStatus
<1>3. Reading
  BY DEF PhyInit, Reading
<1> QED
  BY <1>2, <1>3 DEF PhyInv

(* The step to the next port forgets what was read. *)
LEMMA NextPortInv ==
  ASSUME PhyInv, NextPort, phy' = phy, DOMAIN status' = Ports, timeouts' \in Nat
  PROVE  PhyInv'
<1>1. phyad' \in Ports
  BY PhyAssumption DEF PhyInv, PhyShape, NextPort, Ports
<1>2. PhyShape'
  BY <1>1 DEF PhyInv, PhyShape, NextPort, NoRegs
<1>3. Reading'
  BY DEF NextPort, Reading
<1> QED
  BY <1>2, <1>3 DEF PhyInv

(* The steps of probe, before the timer. *)
LEMMA PhyProbeInv ==
  ASSUME PhyInv, CheckPort \/ RestartPort \/ RetryRead \/ ax_restart_autoneg
  PROVE  PhyInv'
<1> USE DEF PhyInv, PhyShape
<1>1. /\ stage' \in {"read", "restart", "retry", "restart_all", "bmsr"}
      /\ phyad' \in Ports /\ torn' = torn /\ regs' = regs /\ status' = status
      /\ timeouts' \in Nat
  <2>1. CASE CheckPort
    BY <2>1, PhyAssumption DEF CheckPort, Port, Ports, TimerVars, ax_mdio_read
  <2>2. CASE RestartPort
    BY <2>2 DEF RestartPort, InitVars, TimerVars, ax_mdio_write
  <2>3. CASE RetryRead
    BY <2>3, PhyAssumption DEF RetryRead, Port, Ports, TimerVars, ax_mdio_read
  <2>4. CASE ax_restart_autoneg
    BY <2>4, PhyAssumption DEF ax_restart_autoneg, Ports, TimerVars, ax_mdio_write
  <2> QED
    BY <2>1, <2>2, <2>3, <2>4
<1>2. phy' = phy \/ phy' = Restarted(phyad)
  BY DEF CheckPort, RestartPort, RetryRead, ax_restart_autoneg, ax_mdio_write
<1>3. DOMAIN phy' = Ports /\ \A p \in Ports : phy'[p] = [plug |-> phy'[p].plug,
                          up |-> phy'[p].up, adv |-> phy'[p].adv, lpa |-> phy'[p].lpa]
  BY <1>2 DEF Restarted
<1>4. PhyShape'
  BY <1>1, <1>3
<1>5. Reading'
  BY <1>1 DEF Reading
<1> QED
  BY <1>4, <1>5

(* Each register of the PHY's abilities is read as it is, or the poll is    *)
(* marked.                                                                  *)
LEMMA PhyReadInv ==
  ASSUME PhyInv, ReadStat1000 \/ ReadCtrl1000 \/ ReadLpa
  PROVE  PhyInv'
<1>1. phy' = phy /\ status' = status /\ phyad' = phyad /\ timeouts' \in Nat
  BY DEF ReadStat1000, ReadCtrl1000, ReadLpa, Read, Kept, ax_mdio_read, PhyInv, PhyShape
<1>2. CASE ReadStat1000
  <2>1. /\ stage = "stat1000" /\ stage' = "ctrl1000" /\ torn' = (torn \/ timeouts' # timeouts)
        /\ \E got \in {phy[phyad].lpa \cap Gigabit, {}} :
              ax_mdio_read(phy[phyad].lpa \cap Gigabit, {}, got) /\ regs' = [regs EXCEPT !.gb = got]
    BY <1>2, Zenon DEF ReadStat1000, Read
  <2>2. PICK got : /\ ax_mdio_read(phy[phyad].lpa \cap Gigabit, {}, got)
                   /\ regs' = [regs EXCEPT !.gb = got]
    BY <2>1, Zenon
  <2>3. torn' \in BOOLEAN /\ (~torn' => ~torn /\ timeouts' = timeouts)
    BY <2>1, Zenon DEF PhyInv, PhyShape
  <2>4. ~torn' => got = phy[phyad].lpa \cap Gigabit
    BY <2>2, <2>3 DEF ax_mdio_read, PhyInv, PhyShape
  <2>5. regs' = [gb |-> got, lpa |-> regs.lpa]
    BY <2>2 DEF PhyInv, PhyShape
  <2> QED
    BY <1>1, <2>1, <2>3, <2>4, <2>5 DEF PhyInv, PhyShape, Reading, Polled
<1>3. CASE ReadCtrl1000
  <2>1. /\ stage = "ctrl1000" /\ stage' = "lpa" /\ torn' = (torn \/ timeouts' # timeouts)
        /\ \E got \in {phy[phyad].adv \cap Gigabit, {}} :
              ax_mdio_read(phy[phyad].adv \cap Gigabit, {}, got) /\ regs' = [regs EXCEPT !.gb = @ \cap got]
    BY <1>3, Zenon DEF ReadCtrl1000, Read
  <2>2. PICK got : /\ ax_mdio_read(phy[phyad].adv \cap Gigabit, {}, got)
                   /\ regs' = [regs EXCEPT !.gb = @ \cap got]
    BY <2>1, Zenon
  <2>3. torn' \in BOOLEAN /\ (~torn' => ~torn /\ timeouts' = timeouts)
    BY <2>1, Zenon DEF PhyInv, PhyShape
  <2>4. ~torn' => got = phy[phyad].adv \cap Gigabit
    BY <2>2, <2>3 DEF ax_mdio_read, PhyInv, PhyShape
  <2>5. regs' = [gb |-> regs.gb \cap got, lpa |-> regs.lpa]
    BY <2>2 DEF PhyInv, PhyShape
  <2>6. ~torn' => regs'.gb = phy[phyad].lpa \cap phy[phyad].adv \cap Gigabit
    BY <2>1, <2>3, <2>4, <2>5 DEF PhyInv, Reading
  <2> QED
    BY <1>1, <2>1, <2>3, <2>5, <2>6 DEF PhyInv, PhyShape, Reading, Polled
<1>4. CASE ReadLpa
  <2>1. /\ stage = "lpa" /\ stage' = "advertise" /\ torn' = (torn \/ timeouts' # timeouts)
        /\ \E got \in {phy[phyad].lpa \cap Below, {}} :
              ax_mdio_read(phy[phyad].lpa \cap Below, {}, got) /\ regs' = [regs EXCEPT !.lpa = got]
    BY <1>4, Zenon DEF ReadLpa, Read
  <2>2. PICK got : /\ ax_mdio_read(phy[phyad].lpa \cap Below, {}, got)
                   /\ regs' = [regs EXCEPT !.lpa = got]
    BY <2>1, Zenon
  <2>3. torn' \in BOOLEAN /\ (~torn' => ~torn /\ timeouts' = timeouts)
    BY <2>1, Zenon DEF PhyInv, PhyShape
  <2>4. ~torn' => got = phy[phyad].lpa \cap Below
    BY <2>2, <2>3 DEF ax_mdio_read, PhyInv, PhyShape
  <2>5. regs' = [gb |-> regs.gb, lpa |-> got]
    BY <2>2 DEF PhyInv, PhyShape
  <2> QED
    BY <1>1, <2>1, <2>3, <2>4, <2>5 DEF PhyInv, PhyShape, Reading, Polled
<1> QED
  BY <1>2, <1>3, <1>4

LEMMA PhyStepInv == PhyInv /\ [PhyNext]_phyVars => PhyInv'
<1> SUFFICES ASSUME PhyInv, [PhyNext]_phyVars PROVE PhyInv'
  OBVIOUS
<1>1. CASE UNCHANGED phyVars
  BY <1>1 DEF phyVars, PhyInv, PhyShape, Reading, Ports
<1>2. CASE CheckPort \/ RestartPort \/ RetryRead \/ ax_restart_autoneg
  BY <1>2, PhyProbeInv
<1>3. CASE ReadLink
  <2>1. phy' = phy /\ DOMAIN status' = Ports /\ timeouts' \in Nat
    BY <1>3 DEF ReadLink, ax_mdio_read, Kept, PhyInv, PhyShape
  <2>2. CASE NextPort
    BY <2>1, <2>2, NextPortInv
  <2>3. CASE stage' = "stat1000" /\ torn' = FALSE /\ phyad' = phyad /\ regs' = regs
    BY <2>1, <2>3 DEF PhyInv, PhyShape, Reading, Polled
  <2> QED
    BY <1>3, <2>2, <2>3 DEF ReadLink
<1>4. CASE ReadStat1000 \/ ReadCtrl1000 \/ ReadLpa
  BY <1>4, PhyReadInv
<1>5. CASE ReadAdvertise
  <2>1. phy' = phy /\ DOMAIN status' = Ports /\ NextPort /\ timeouts' \in Nat
    BY <1>5 DEF ReadAdvertise, ax_mdio_read, Kept, PhyInv, PhyShape
  <2> QED
    BY <2>1, NextPortInv
<1>6. CASE \E p \in Ports : Negotiated(p) \/ Changed(p)
  <2>1. PICK p \in Ports : Negotiated(p) \/ Changed(p)
    BY <1>6
  <2>2. /\ stage' = stage /\ phyad' = phyad /\ regs' = regs /\ status' = status /\ torn' \in BOOLEAN
        /\ (~torn' => ~torn) /\ timeouts' = timeouts
    BY <2>1 DEF Negotiated, Changed, InitVars, TimerVars, PhyInv, PhyShape
  <2>3. /\ DOMAIN phy' = Ports /\ \A q \in Ports : phy'[q] = [plug |-> phy'[q].plug,
                          up |-> phy'[q].up, adv |-> phy'[q].adv, lpa |-> phy'[q].lpa]
    BY <2>1 DEF Negotiated, Changed, PhyInv, PhyShape
  <2>4. ~torn' => phy'[phyad].adv = phy[phyad].adv /\ phy'[phyad].lpa = phy[phyad].lpa
    BY <2>1 DEF Negotiated, Changed, PhyInv, PhyShape
  <2> QED
    BY <2>2, <2>3, <2>4 DEF PhyInv, PhyShape, Reading
<1> QED
  BY <1>1, <1>2, <1>3, <1>4, <1>5, <1>6 DEF PhyNext, Driver

(* What __ax_phy_timer records is the best mode both sides have whenever    *)
(* the PHY was still and answered from the port's first read to its last,   *)
(* for any number of PHYs and whatever they advertise.                      *)
THEOREM TimerRecordsBest == PhySpec => RecordsBest
<1>1. ASSUME PhyInv, PhyNext, NEW p \in Ports,
             stage = "advertise" /\ p = phyad /\ status'[p] # status[p] /\ ~torn /\ timeouts' = timeouts
      PROVE  <<status'[p].speed, status'[p].full>> = Best(p)
  <2>1. ReadAdvertise
    BY <1>1
    DEF PhyNext, Driver, CheckPort, RestartPort, RetryRead, ax_restart_autoneg, ReadLink,
        ReadStat1000, ReadCtrl1000, ReadLpa, Read, Negotiated, Changed, TimerVars
  <2>2. status'[p] = Resolve(regs.gb, regs.lpa, phy[phyad].adv \cap Below)
    <3>1. PICK adv : /\ ax_mdio_read(phy[phyad].adv \cap Below, {}, adv)
                     /\ status' = [status EXCEPT ![phyad] = Resolve(regs.gb, regs.lpa, adv)]
      BY <2>1, Zenon DEF ReadAdvertise
    <3>2. adv = phy[phyad].adv \cap Below
      BY <1>1, <3>1 DEF ax_mdio_read, PhyInv, PhyShape
    <3> QED
      BY <1>1, <3>1, <3>2 DEF PhyInv, PhyShape
  <2>3. /\ regs.gb = phy[p].lpa \cap phy[p].adv \cap Gigabit
        /\ regs.lpa = phy[p].lpa \cap Below
    BY <1>1 DEF PhyInv, Reading
  <2>4. status'[p] = Resolve(phy[p].lpa \cap phy[p].adv \cap Gigabit, phy[p].lpa \cap Below,
                             phy[p].adv \cap Below)
    BY <1>1, <2>2, <2>3, Zenon
  <2>5. Mode(status'[p]) = FirstMode(phy[p].adv \cap phy[p].lpa)
    BY <2>4, ResolvesFirst
  <2> QED
    BY <2>5, BestIsFirst, Zenon DEF Mode
<1>2. PhyInv /\ [PhyNext]_phyVars =>
        [\A p \in Ports :
          (stage = "advertise" /\ p = phyad /\ status'[p] # status[p] /\ ~torn /\ timeouts' = timeouts)
            => <<status'[p].speed, status'[p].full>> = Best(p)]_phyVars
  BY <1>1, Zenon
<1> QED
  BY <1>2, PhyInitInv, PhyStepInv, PTL DEF PhySpec, RecordsBest

-----------------------------------------------------------------------------
(***************************************************************************)
(* DsaUser.  First, how the sum over all users changes when one user       *)
(* changes, and when several take one off.                                 *)
(***************************************************************************)
Marks(f) == {p \in Users \X (1 .. 2) : p[2] <= f[p[1]]}
Sums == [Users -> 0 .. 2]

LEMMA MarksFinite ==
  ASSUME NEW f
  PROVE  IsFiniteSet(Marks(f)) /\ Total(f) = Cardinality(Marks(f)) /\ Total(f) \in Nat
<1>1. IsFiniteSet(1 .. 2)
  <2>1. 1 .. 2 = {1} \cup {2}
    OBVIOUS
  <2>2. IsFiniteSet({1})
    BY FS_Singleton, Zenon
  <2>3. IsFiniteSet({1} \cup {2})
    BY <2>2, FS_AddElement, Zenon
  <2> QED
    BY <2>1, <2>3, Zenon
<1>2. IsFiniteSet(Users \X (1 .. 2))
  BY <1>1, FS_Product, DsaUserAssumption
<1>3. IsFiniteSet(Marks(f))
  BY <1>2, FS_Subset DEF Marks
<1>4. Total(f) = Cardinality(Marks(f))
  BY DEF Total, Marks
<1> QED
  BY <1>3, <1>4, FS_CardinalityType

(* The share of one user in the sum. *)
LEMMA MarksOfOne ==
  ASSUME NEW f \in Sums, NEW u \in Users
  PROVE  Total(f) = Cardinality({p \in Marks(f) : p[1] # u}) + f[u]
<1> DEFINE R == {p \in Marks(f) : p[1] # u}
<1>1. IsFiniteSet(Marks(f)) /\ Total(f) = Cardinality(Marks(f))
  BY MarksFinite
<1>2. IsFiniteSet(R) /\ Cardinality(R) \in Nat
  BY <1>1, FS_Subset, FS_CardinalityType
<1>3. f[u] \in {0, 1, 2}
  BY DEF Sums
<1>4. /\ IsFiniteSet(R \cup {<<u, 1>>}) /\ Cardinality(R \cup {<<u, 1>>}) = Cardinality(R) + 1
  <2>1. <<u, 1>> \notin R
    OBVIOUS
  <2> QED
    BY <1>2, <2>1, FS_AddElement
<1>5. Cardinality((R \cup {<<u, 1>>}) \cup {<<u, 2>>}) = Cardinality(R) + 2
  <2>1. <<u, 2>> \notin R \cup {<<u, 1>>}
    OBVIOUS
  <2>2. Cardinality((R \cup {<<u, 1>>}) \cup {<<u, 2>>}) = Cardinality(R \cup {<<u, 1>>}) + 1
    BY <1>4, <2>1, FS_AddElement
  <2> QED
    BY <1>2, <1>4, <2>2
<1>6. CASE f[u] = 0
  <2>1. Marks(f) = R
    BY <1>6 DEF Marks
  <2> QED
    BY <1>1, <1>2, <1>6, <2>1
<1>7. CASE f[u] = 1
  <2>1. Marks(f) = R \cup {<<u, 1>>}
    BY <1>7 DEF Marks
  <2> QED
    BY <1>1, <1>4, <1>7, <2>1
<1>8. CASE f[u] = 2
  <2>1. Marks(f) = (R \cup {<<u, 1>>}) \cup {<<u, 2>>}
    BY <1>8 DEF Marks
  <2> QED
    BY <1>1, <1>5, <1>8, <2>1
<1> QED
  BY <1>3, <1>6, <1>7, <1>8

LEMMA TotalOfOne ==
  ASSUME NEW f \in Sums, NEW g \in Sums, NEW u \in Users,
         \A v \in Users \ {u} : f[v] = g[v]
  PROVE  Total(g) = Total(f) + g[u] - f[u] /\ f[u] <= Total(f)
<1>1. {p \in Marks(f) : p[1] # u} = {p \in Marks(g) : p[1] # u}
  BY DEF Marks
<1>2. Cardinality({p \in Marks(f) : p[1] # u}) \in Nat
  BY MarksFinite, FS_Subset, FS_CardinalityType
<1>3. f[u] \in Nat /\ g[u] \in Nat
  BY DEF Sums
<1> QED
  BY <1>1, <1>2, <1>3, MarksOfOne

LEMMA TotalOfNone ==
  ASSUME NEW f \in Sums, \A u \in Users : f[u] = 0
  PROVE  Total(f) = 0
<1>1. Marks(f) = {}
  BY DEF Marks
<1> QED
  BY <1>1, MarksFinite, FS_EmptySet

LEMMA TotalLess ==
  ASSUME NEW f \in Sums, NEW g \in Sums, NEW S \in SUBSET Users,
         \A u \in Users : f[u] = g[u] + One(u \in S)
  PROVE  Total(f) = Total(g) + Cardinality(S) /\ Cardinality(S) \in Nat
<1> DEFINE T == {p \in Marks(f) : p[1] \in S /\ p[2] = f[p[1]]}
           top == [u \in S |-> <<u, f[u]>>]
<1>1. IsFiniteSet(S) /\ Cardinality(S) \in Nat
  BY DsaUserAssumption, FS_Subset, FS_CardinalityType
<1>2. \A u \in S : f[u] \in 1 .. 2
  BY DEF Sums, One
<1>3. top \in [S -> T]
  BY <1>2 DEF Marks
<1>4. ExistsBijection(S, T)
  <2>1. \A a, b \in S : top[a] = top[b] => a = b
    OBVIOUS
  <2>2. \A t \in T : \E a \in S : top[a] = t
    BY DEF Marks
  <2> QED
    BY <1>3, <2>1, <2>2
    DEF ExistsBijection, Bijection, Injection, Surjection, IsInjective
<1>5. IsFiniteSet(T) /\ Cardinality(T) = Cardinality(S)
  BY <1>1, <1>4, FS_Bijection
<1>6. Marks(f) = Marks(g) \cup T /\ Marks(g) \cap T = {}
  BY DEF Marks, Sums, One
<1>7. IsFiniteSet(Marks(g)) /\ Total(g) = Cardinality(Marks(g)) /\ Total(g) \in Nat
  BY MarksFinite
<1>8. Cardinality(Marks(f)) = Cardinality(Marks(g)) + Cardinality(T) - Cardinality(Marks(g) \cap T)
  BY <1>5, <1>6, <1>7, FS_Union
<1>9. Cardinality(Marks(g) \cap T) = 0
  BY <1>6, FS_EmptySet
<1> QED
  BY <1>1, <1>5, <1>7, <1>8, <1>9, MarksFinite

(***************************************************************************)
(* The conduit's books: its lists R, its count P of those who asked for    *)
(* promiscuous mode, itself left out, and its count A of those who asked   *)
(* for all groups.                                                         *)
(***************************************************************************)
ConType(c) ==
  c \in [up : BOOLEAN, addr : Addrs, refs : [Listed -> Nat], promisc : Nat, allmulti : Nat,
         ucp : BOOLEAN, dsa : BOOLEAN, mode : {"dir", "groups", "all groups", "all"},
         filter : SUBSET Groups]
Books(c, R, P, A) ==
  ConType(c) /\ c.refs = R /\ c.promisc = P + One(c.ucp) /\ c.allmulti = A
SameCon(c, d) == d.up = c.up /\ d.addr = c.addr /\ d.dsa = c.dsa

(* The filter of a conduit that is up follows its lists and counts. *)
Tuned(c) ==
  c.up =>
    /\ (c.ucp <=> \E a \in Addrs : c.refs[a] > 0)
    /\ c.promisc > 0 => c.mode = "all"
    /\ c.allmulti > 0 => c.mode \in {"all", "all groups"}
    /\ \A g \in Groups : c.refs[g] > 0 => c.mode \in {"all", "all groups"} \/ g \in c.filter
    /\ (c.promisc = 0 /\ c.allmulti = 0 /\ \A g \in Groups : c.refs[g] = 0) => c.mode = "dir"

LEMMA MulticastMode ==
  ASSUME NEW c, ConType(c), NEW d, d = ax_net_set_multicast(c)
  PROVE  /\ ConType(d) /\ SameCon(c, d) /\ d.refs = c.refs /\ d.promisc = c.promisc
         /\ d.allmulti = c.allmulti /\ d.ucp = c.ucp
         /\ d.promisc > 0 => d.mode = "all"
         /\ d.allmulti > 0 => d.mode \in {"all", "all groups"}
         /\ \A g \in Groups : d.refs[g] > 0 => d.mode \in {"all", "all groups"} \/ g \in d.filter
         /\ (d.promisc = 0 /\ d.allmulti = 0 /\ \A g \in Groups : d.refs[g] = 0) => d.mode = "dir"
<1> DEFINE groups == {g \in Groups : c.refs[g] > 0}
           many == Cardinality(groups) > AX_MAX_MCAST
           mode == CASE c.promisc > 0 -> "all"
                     [] c.promisc = 0 /\ (c.allmulti > 0 \/ Cardinality(groups) > AX_MAX_MCAST)
                                      -> "all groups"
                     [] OTHER         -> IF groups = {} THEN "dir" ELSE "groups"
<1>1. d = [c EXCEPT !.mode = mode, !.filter = IF mode = "groups" THEN groups ELSE {}]
  BY DEF ax_net_set_multicast
<1>2. c.promisc \in Nat /\ c.allmulti \in Nat /\ c.refs \in [Listed -> Nat]
  BY DEF ConType
<1>3. /\ mode \in {"dir", "groups", "all groups", "all"}
      /\ c.promisc > 0 => mode = "all"
      /\ c.allmulti > 0 => mode \in {"all", "all groups"}
      /\ mode \in {"all", "all groups", "groups"} \/ groups = {}
  BY <1>2
<1>4. ASSUME c.promisc = 0, c.allmulti = 0, \A g \in Groups : c.refs[g] = 0 PROVE mode = "dir"
  <2>1. groups = {}
    BY <1>4
  <2>2. ~many
    BY <2>1, FS_EmptySet, DsaUserAssumption
  <2> QED
    BY <1>2, <1>4, <2>1, <2>2
<1>5. \A g \in Groups : c.refs[g] > 0 => g \in groups
  OBVIOUS
<1> HIDE DEF mode, groups
<1>6. groups \subseteq Groups
  BY DEF groups
<1>7. ConType(d) /\ d.mode = mode /\ d.filter = IF mode = "groups" THEN groups ELSE {}
  BY <1>1, <1>3, <1>6 DEF ConType
<1>8. /\ SameCon(c, d) /\ d.refs = c.refs /\ d.promisc = c.promisc
      /\ d.allmulti = c.allmulti /\ d.ucp = c.ucp
  BY <1>1 DEF ConType, SameCon
<1> QED
  BY <1>3, <1>4, <1>5, <1>7, <1>8

LEMMA RxModeBooks ==
  ASSUME NEW c, NEW R, NEW P \in Nat, NEW A, Books(c, R, P, A), NEW d, d = SetRxMode(c)
  PROVE  Books(d, R, P, A) /\ SameCon(c, d) /\ Tuned(d)
<1> DEFINE ucp == \E a \in Addrs : c.refs[a] > 0
           e == [c EXCEPT !.ucp = ucp, !.promisc = Less(@ + One(ucp), One(c.ucp))]
<1>1. CASE ~c.up
  BY <1>1 DEF SetRxMode, Books, SameCon, Tuned
<1>2. CASE c.up
  <2>1. d = ax_net_set_multicast(e)
    BY <1>2 DEF SetRxMode
  <2>2. ucp \in BOOLEAN
    OBVIOUS
  <2> HIDE DEF ucp
  <2>3. c.promisc = P + One(c.ucp) /\ One(c.ucp) \in {0, 1} /\ One(ucp) \in {0, 1}
    BY DEF Books, One
  <2>4. Less(c.promisc + One(ucp), One(c.ucp)) = P + One(ucp)
    BY <2>3 DEF Less
  <2>5. e = [c EXCEPT !.ucp = ucp, !.promisc = P + One(ucp)]
    BY <2>4 DEF Books, ConType
  <2>6. P + One(ucp) \in Nat
    BY <2>3
  <2>7. ConType(e) /\ e.ucp = ucp /\ e.promisc = P + One(e.ucp)
    BY <2>2, <2>5, <2>6 DEF Books, ConType
  <2>8. e.refs = c.refs /\ e.allmulti = c.allmulti /\ SameCon(c, e)
    BY DEF Books, ConType, SameCon
  <2> HIDE DEF e
  <2>9. Books(d, R, P, A) /\ SameCon(c, d)
    BY <2>1, <2>7, <2>8, MulticastMode, ZenonT(40) DEF Books, SameCon
  <2>10. d.ucp <=> \E a \in Addrs : d.refs[a] > 0
    BY <2>1, <2>7, <2>8, MulticastMode DEF ucp
  <2>11. Tuned(d)
    BY <2>1, <2>7, <2>10, MulticastMode DEF Tuned
  <2> QED
    BY <2>9, <2>11
<1> QED
  BY <1>1, <1>2 DEF Books, ConType

LEMMA AddDelBooks ==
  ASSUME NEW c, NEW R, NEW P \in Nat, NEW A, Books(c, R, P, A),
         NEW add \in [Listed -> Nat], NEW del \in [Listed -> Nat],
         \A x \in Listed : del[x] <= R[x] + add[x],
         NEW d, d = AddDel(c, add, del)
  PROVE  Books(d, [x \in Listed |-> R[x] + add[x] - del[x]], P, A) /\ SameCon(c, d) /\ Tuned(d)
<1> DEFINE new == [x \in Listed |-> R[x] + add[x] - del[x]]
           e == [c EXCEPT !.refs = [x \in Listed |-> Less(@[x] + add[x], del[x])]]
<1>1. R \in [Listed -> Nat] /\ c.refs = R
  BY DEF Books, ConType
<1>2. \A x \in Listed : Less(R[x] + add[x], del[x]) = R[x] + add[x] - del[x]
  BY <1>1 DEF Less
<1>3. [x \in Listed |-> Less(c.refs[x] + add[x], del[x])] = new
  BY <1>1, <1>2
<1>4. new \in [Listed -> Nat]
  BY <1>1
<1> HIDE DEF new
<1>5. e = [c EXCEPT !.refs = new]
  BY <1>3 DEF Books, ConType
<1> HIDE DEF e
<1>6. Books(e, new, P, A) /\ SameCon(c, e)
  BY <1>4, <1>5 DEF Books, ConType, SameCon
<1>7. d = SetRxMode(e)
  BY DEF AddDel, e
<1>8. Books(d, new, P, A) /\ SameCon(e, d) /\ Tuned(d)
  BY <1>6, <1>7, RxModeBooks
<1> QED
  BY <1>6, <1>8 DEF SameCon, new

LEMMA PromiscBooks ==
  ASSUME NEW c, NEW R, NEW P \in Nat, NEW A, Books(c, R, P, A),
         NEW up \in Nat, NEW down \in Nat, down <= P + up,
         NEW d, d = dev_set_promiscuity(c, up, down)
  PROVE  Books(d, R, P + up - down, A) /\ SameCon(c, d) /\ Tuned(d)
<1> DEFINE e == [c EXCEPT !.promisc = Less(@ + up, down)]
<1>1. One(c.ucp) \in {0, 1} /\ c.promisc = P + One(c.ucp)
  BY DEF Books, One
<1>2. Less(c.promisc + up, down) = (P + up - down) + One(c.ucp)
  BY <1>1 DEF Less
<1>3. P + up - down \in Nat /\ (P + up - down) + One(c.ucp) \in Nat
  BY <1>1
<1>4. Books(e, R, P + up - down, A) /\ SameCon(c, e)
  BY <1>2, <1>3 DEF Books, ConType, SameCon
<1>5. d = SetRxMode(e)
  BY DEF dev_set_promiscuity
<1> HIDE DEF e
<1> QED
  BY <1>3, <1>4, <1>5, RxModeBooks DEF SameCon

LEMMA AllmultiBooks ==
  ASSUME NEW c, NEW R, NEW P \in Nat, NEW A \in Nat, Books(c, R, P, A),
         NEW up \in Nat, NEW down \in Nat, down <= A + up,
         NEW d, d = dev_set_allmulti(c, up, down)
  PROVE  Books(d, R, P, A + up - down) /\ SameCon(c, d) /\ Tuned(d)
<1> DEFINE e == [c EXCEPT !.allmulti = Less(@ + up, down)]
<1>1. Less(c.allmulti + up, down) = A + up - down /\ A + up - down \in Nat
  BY DEF Less, Books
<1>2. Books(e, R, P, A + up - down) /\ SameCon(c, e)
  BY <1>1 DEF Books, ConType, SameCon
<1>3. d = SetRxMode(e)
  BY DEF dev_set_allmulti
<1> HIDE DEF e
<1> QED
  BY <1>2, <1>3, RxModeBooks DEF SameCon

LEMMA OpenBooks ==
  ASSUME NEW c, NEW R, NEW P \in Nat, NEW A, Books(c, R, P, A), NEW d, d = dev_open(c)
  PROVE  Books(d, R, P, A) /\ d.addr = c.addr /\ d.dsa = c.dsa /\ d.up /\ Tuned(d)
<1> DEFINE e == [c EXCEPT !.up = TRUE]
<1>1. Books(e, R, P, A) /\ e.addr = c.addr /\ e.dsa = c.dsa /\ e.up
  BY DEF Books, ConType
<1>2. d = SetRxMode(e)
  BY DEF dev_open
<1> HIDE DEF e
<1> QED
  BY <1>1, <1>2, RxModeBooks DEF SameCon

-----------------------------------------------------------------------------
(* What one user interface does to the books of the conduit.               *)

UserType(v) ==
  v \in [there : BOOLEAN, up : BOOLEAN, addr : Addrs, want : SUBSET Listed,
         synced : SUBSET Listed, promisc : BOOLEAN, ucp : BOOLEAN, allmulti : BOOLEAN]

LEMMA OneType == \A b : One(b) \in {0, 1} /\ (b => One(b) = 1) /\ (~b => One(b) = 0)
BY DEF One

LEMMA FlagsBooks ==
  ASSUME NEW c, NEW R, NEW P \in Nat, NEW A \in Nat, Books(c, R, P, A), Tuned(c),
         NEW v, NEW w, UserType(v), UserType(w),
         One(IFF_PROMISC(v)) <= P, One(v.allmulti) <= A,
         NEW d, d = dsa_user_change_rx_flags(c, v, w)
  PROVE  /\ Books(d, R, P + One(IFF_PROMISC(w)) - One(IFF_PROMISC(v)),
                  A + One(w.allmulti) - One(v.allmulti))
         /\ SameCon(c, d) /\ Tuned(d)
<1> DEFINE all == IF v.allmulti = w.allmulti THEN c
                  ELSE dev_set_allmulti(c, One(w.allmulti), One(v.allmulti))
           A1 == A + One(w.allmulti) - One(v.allmulti)
<1>1. /\ One(IFF_PROMISC(v)) \in {0, 1} /\ One(IFF_PROMISC(w)) \in {0, 1}
      /\ One(v.allmulti) \in {0, 1} /\ One(w.allmulti) \in {0, 1}
  BY OneType
<1>2. Books(all, R, P, A1) /\ SameCon(c, all) /\ Tuned(all)
  <2>1. CASE v.allmulti = w.allmulti
    <3>1. all = c /\ A1 = A
      BY <1>1, <2>1
    <3> QED
      BY <3>1 DEF SameCon
  <2>2. CASE v.allmulti # w.allmulti
    <3>1. all = dev_set_allmulti(c, One(w.allmulti), One(v.allmulti))
      BY <2>2
    <3>2. /\ One(w.allmulti) \in Nat /\ One(v.allmulti) \in Nat
          /\ One(v.allmulti) <= A + One(w.allmulti)
      BY <1>1
    <3> QED
      BY <3>1, <3>2, AllmultiBooks, Zenon
  <2> QED
    BY <2>1, <2>2
<1>3. d = IF IFF_PROMISC(v) = IFF_PROMISC(w) THEN all
          ELSE dev_set_promiscuity(all, One(IFF_PROMISC(w)), One(IFF_PROMISC(v)))
  BY DEF dsa_user_change_rx_flags
<1>4. A1 \in Nat
  BY <1>1
<1> HIDE DEF all, A1
<1>5. CASE IFF_PROMISC(v) = IFF_PROMISC(w)
  <2>1. One(IFF_PROMISC(v)) = One(IFF_PROMISC(w))
    BY <1>5
  <2>2. d = all /\ P + One(IFF_PROMISC(w)) - One(IFF_PROMISC(v)) = P
    BY <1>1, <1>3, <1>5, <2>1
  <2> QED
    BY <1>2, <2>2 DEF A1
<1>6. CASE ~(IFF_PROMISC(v) = IFF_PROMISC(w))
  <2>1. d = dev_set_promiscuity(all, One(IFF_PROMISC(w)), One(IFF_PROMISC(v)))
    BY <1>3, <1>6
  <2>2. /\ Books(d, R, P + One(IFF_PROMISC(w)) - One(IFF_PROMISC(v)), A1)
        /\ SameCon(all, d) /\ Tuned(d)
    <3>1. /\ One(IFF_PROMISC(w)) \in Nat /\ One(IFF_PROMISC(v)) \in Nat
          /\ One(IFF_PROMISC(v)) <= P + One(IFF_PROMISC(w))
      BY <1>1
    <3> QED
      BY <1>2, <2>1, <3>1, PromiscBooks, Zenon
  <2> QED
    BY <1>2, <2>2 DEF A1, SameCon
<1> QED
  BY <1>5, <1>6

(* The entries of a user on the conduit, and what its lists do to them. *)
Entries(R, v, w) == [x \in Listed |-> R[x] + One(x \in w.synced) - One(x \in v.synced)]
SameUser(v, w) ==
  /\ w.there = v.there /\ w.up = v.up /\ w.addr = v.addr /\ w.want = v.want
  /\ w.promisc = v.promisc /\ w.allmulti = v.allmulti

LEMMA SyncBooks ==
  ASSUME NEW c, NEW R, NEW P \in Nat, NEW A, Books(c, R, P, A), NEW v, UserType(v),
         \A x \in Listed : One(x \in v.synced) <= R[x],
         NEW w, w = [v EXCEPT !.synced = v.want],
         NEW d, d = dsa_user_set_rx_mode(c, v)
  PROVE  Books(d, Entries(R, v, w), P, A) /\ SameCon(c, d) /\ Tuned(d)
<1> DEFINE add == Counted(v.want \ v.synced)
           del == Counted(v.synced \ v.want)
<1>1. /\ add \in [Listed -> Nat] /\ del \in [Listed -> Nat]
      /\ \A x \in Listed : add[x] = One(x \in v.want \ v.synced) /\ del[x] = One(x \in v.synced \ v.want)
  BY DEF Counted, One
<1>2. R \in [Listed -> Nat]
  BY DEF Books, ConType
<1>3. w.synced = v.want
  BY DEF UserType
<1>4. d = AddDel(c, add, del)
  BY DEF dsa_user_set_rx_mode
<1> HIDE DEF add, del
<1>5. \A x \in Listed : /\ del[x] <= R[x] + add[x]
                        /\ R[x] + add[x] - del[x] = R[x] + One(x \in w.synced) - One(x \in v.synced)
  BY <1>1, <1>2, <1>3 DEF One
<1>6. [x \in Listed |-> R[x] + add[x] - del[x]] = Entries(R, v, w)
  BY <1>5 DEF Entries
<1>7. Books(d, [x \in Listed |-> R[x] + add[x] - del[x]], P, A) /\ SameCon(c, d) /\ Tuned(d)
  BY <1>1, <1>4, <1>5, AddDelBooks
<1> QED
  BY <1>6, <1>7

LEMMA RxBooks ==
  ASSUME NEW c, NEW R, NEW P \in Nat, NEW A \in Nat, Books(c, R, P, A), Tuned(c),
         NEW v, UserType(v), One(IFF_PROMISC(v)) <= P, One(v.allmulti) <= A,
         \A x \in Listed : One(x \in v.synced) <= R[x],
         NEW r, r = UserRxMode(c, v)
  PROVE  /\ Books(r.con, Entries(R, v, r.user),
                  P + One(IFF_PROMISC(r.user)) - One(IFF_PROMISC(v)), A)
         /\ SameCon(c, r.con) /\ Tuned(r.con)
         /\ UserType(r.user) /\ SameUser(v, r.user) /\ (v.up => r.user.synced = r.user.want)
<1>0. R \in [Listed -> Nat]
  BY DEF Books, ConType
<1>1. CASE ~v.up
  <2>1. r.con = c /\ r.user = v
    BY <1>1 DEF UserRxMode
  <2>2. Entries(R, v, v) = R
    BY <1>0, OneType DEF Entries
  <2>3. P + One(IFF_PROMISC(v)) - One(IFF_PROMISC(v)) = P
    BY OneType
  <2> QED
    BY <1>1, <2>1, <2>2, <2>3 DEF SameCon, SameUser
<1>2. CASE v.up
  <2> DEFINE ucp == (v.want \cup v.synced) \cap Addrs # {}
             w == [v EXCEPT !.ucp = ucp]
             e == dsa_user_change_rx_flags(c, v, w)
             P1 == P + One(IFF_PROMISC(w)) - One(IFF_PROMISC(v))
  <2>1. r = [con |-> dsa_user_set_rx_mode(e, w), user |-> [w EXCEPT !.synced = v.want]]
    BY <1>2 DEF UserRxMode
  <2>2. ucp \in BOOLEAN
    OBVIOUS
  <2> HIDE DEF ucp
  <2>3. UserType(w) /\ SameUser(v, w) /\ w.synced = v.synced
    BY <2>2 DEF UserType, SameUser
  <2>4. [w EXCEPT !.synced = v.want] = [w EXCEPT !.synced = w.want]
    BY <2>3 DEF SameUser
  <2> HIDE DEF w
  <2>5. P1 \in Nat /\ A + One(w.allmulti) - One(v.allmulti) = A
    BY <2>3, OneType DEF SameUser
  <2>6. Books(e, R, P1, A) /\ SameCon(c, e) /\ Tuned(e)
    BY <2>3, <2>5, FlagsBooks
  <2>7. \A x \in Listed : One(x \in w.synced) <= R[x]
    BY <2>3
  <2> HIDE DEF e, P1
  <2>8. r.con = dsa_user_set_rx_mode(e, w) /\ r.user = [w EXCEPT !.synced = w.want]
    BY <2>1, <2>4
  <2>9. Books(r.con, Entries(R, w, r.user), P1, A) /\ SameCon(e, r.con) /\ Tuned(r.con)
    BY <2>3, <2>5, <2>6, <2>7, <2>8, SyncBooks
  <2>10. Entries(R, w, r.user) = Entries(R, v, r.user)
    BY <2>3 DEF Entries
  <2>11. /\ UserType(r.user) /\ SameUser(w, r.user) /\ r.user.synced = r.user.want
         /\ r.user.ucp = w.ucp
    BY <2>3, <2>8 DEF UserType, SameUser
  <2>12. IFF_PROMISC(r.user) = IFF_PROMISC(w)
    BY <2>11 DEF IFF_PROMISC, SameUser
  <2>13. P + One(IFF_PROMISC(r.user)) - One(IFF_PROMISC(v)) = P1
    BY <2>12, Zenon DEF P1
  <2> QED
    BY <2>3, <2>6, <2>9, <2>10, <2>11, <2>13 DEF SameCon, SameUser
<1> QED
  BY <1>1, <1>2 DEF UserType

-----------------------------------------------------------------------------
(* The sums over all users, for any state f of the users and any address a  *)
(* of the conduit.                                                          *)
UsersType(f) == f = [u \in Users |-> f[u]] /\ \A u \in Users : UserType(f[u])
LeftType(l)  == l \in [refs : [Listed -> Nat], promisc : Nat, allmulti : Nat]

Owns(v, a, x)  == v.up /\ x = v.addr /\ x # a
Share(v, a, x) == One(Owns(v, a, x)) + One(x \in v.synced)
SumRefs(f, a, x) == Total([u \in Users |-> Share(f[u], a, x)])
SumPromisc(f)    == Total([u \in Users |-> One(IFF_PROMISC(f[u]))])
SumAllmulti(f)   == Total([u \in Users |-> One(f[u].allmulti)])

(* The conduit's books are those of the users, of the tree and of what was  *)
(* left behind.                                                             *)
LedgerRefs(c, f, l)    == [x \in Listed |-> SumRefs(f, c.addr, x) + l.refs[x]]
LedgerPromisc(c, f, l) == SumPromisc(f) + One(c.dsa) + l.promisc
LedgerAllmulti(f, l)   == SumAllmulti(f) + l.allmulti
Ledger(c, f, l) ==
  Books(c, LedgerRefs(c, f, l), LedgerPromisc(c, f, l), LedgerAllmulti(f, l))

LEMMA ShareType ==
  ASSUME NEW v, NEW a, NEW x
  PROVE  Share(v, a, x) \in 0 .. 2 /\ One(Owns(v, a, x)) \in {0, 1}
BY OneType DEF Share

LEMMA SumsType ==
  ASSUME NEW f
  PROVE  /\ \A a, x : SumRefs(f, a, x) \in Nat
         /\ SumPromisc(f) \in Nat /\ SumAllmulti(f) \in Nat
BY MarksFinite DEF SumRefs, SumPromisc, SumAllmulti

LEMMA SumRefsOfOne ==
  ASSUME NEW f, NEW g, NEW u \in Users, \A v \in Users \ {u} : g[v] = f[v], NEW a, NEW x
  PROVE  /\ SumRefs(g, a, x) = SumRefs(f, a, x) + Share(g[u], a, x) - Share(f[u], a, x)
         /\ Share(f[u], a, x) <= SumRefs(f, a, x)
<1> DEFINE F == [v \in Users |-> Share(f[v], a, x)]
           G == [v \in Users |-> Share(g[v], a, x)]
<1>1. F \in Sums /\ G \in Sums
  BY ShareType DEF Sums
<1>2. \A v \in Users \ {u} : F[v] = G[v]
  OBVIOUS
<1>3. F[u] = Share(f[u], a, x) /\ G[u] = Share(g[u], a, x)
  OBVIOUS
<1>4. SumRefs(f, a, x) = Total(F) /\ SumRefs(g, a, x) = Total(G)
  BY DEF SumRefs
<1> HIDE DEF F, G
<1> QED
  BY <1>1, <1>2, <1>3, <1>4, TotalOfOne

LEMMA SumFlagsOfOne ==
  ASSUME NEW f, NEW g, NEW u \in Users, \A v \in Users \ {u} : g[v] = f[v]
  PROVE  /\ SumPromisc(g) = SumPromisc(f) + One(IFF_PROMISC(g[u])) - One(IFF_PROMISC(f[u]))
         /\ One(IFF_PROMISC(f[u])) <= SumPromisc(f)
         /\ SumAllmulti(g) = SumAllmulti(f) + One(g[u].allmulti) - One(f[u].allmulti)
         /\ One(f[u].allmulti) <= SumAllmulti(f)
<1> DEFINE F == [v \in Users |-> One(IFF_PROMISC(f[v]))]
           G == [v \in Users |-> One(IFF_PROMISC(g[v]))]
           H == [v \in Users |-> One(f[v].allmulti)]
           K == [v \in Users |-> One(g[v].allmulti)]
<1>1. F \in Sums /\ G \in Sums /\ H \in Sums /\ K \in Sums
  <2>1. \A b : One(b) \in 0 .. 2
    BY DEF One
  <2> QED
    BY <2>1 DEF Sums
<1>2. \A v \in Users \ {u} : F[v] = G[v] /\ H[v] = K[v]
  OBVIOUS
<1>3. /\ F[u] = One(IFF_PROMISC(f[u])) /\ G[u] = One(IFF_PROMISC(g[u]))
      /\ H[u] = One(f[u].allmulti) /\ K[u] = One(g[u].allmulti)
  OBVIOUS
<1>4. /\ SumPromisc(f) = Total(F) /\ SumPromisc(g) = Total(G)
      /\ SumAllmulti(f) = Total(H) /\ SumAllmulti(g) = Total(K)
  BY DEF SumPromisc, SumAllmulti
<1> HIDE DEF F, G, H, K
<1>5. Total(G) = Total(F) + G[u] - F[u] /\ F[u] <= Total(F)
  BY <1>1, <1>2, TotalOfOne
<1>6. Total(K) = Total(H) + K[u] - H[u] /\ H[u] <= Total(H)
  BY <1>1, <1>2, TotalOfOne
<1> QED
  BY <1>3, <1>4, <1>5, <1>6

(* Users whose flags and lists are alike have the same sums. *)
LEMMA SumsAlike ==
  ASSUME NEW f, NEW g, NEW a, NEW b,
         \A u \in Users : /\ IFF_PROMISC(g[u]) = IFF_PROMISC(f[u]) /\ g[u].allmulti = f[u].allmulti
                          /\ \A x \in Listed : Share(g[u], b, x) = Share(f[u], a, x)
  PROVE  /\ SumPromisc(g) = SumPromisc(f) /\ SumAllmulti(g) = SumAllmulti(f)
         /\ \A x \in Listed : SumRefs(g, b, x) = SumRefs(f, a, x)
<1>1. [u \in Users |-> One(IFF_PROMISC(g[u]))] = [u \in Users |-> One(IFF_PROMISC(f[u]))]
  BY Zenon
<1>2. [u \in Users |-> One(g[u].allmulti)] = [u \in Users |-> One(f[u].allmulti)]
  BY Zenon
<1>3. \A x \in Listed : [u \in Users |-> Share(g[u], b, x)] = [u \in Users |-> Share(f[u], a, x)]
  BY Zenon
<1> QED
  BY <1>1, <1>2, <1>3, Zenon DEF SumPromisc, SumAllmulti, SumRefs

LEMMA LedgerType ==
  ASSUME NEW c, NEW f, NEW l, LeftType(l)
  PROVE  /\ LedgerRefs(c, f, l) \in [Listed -> Nat]
         /\ \A x \in Listed : LedgerRefs(c, f, l)[x] = SumRefs(f, c.addr, x) + l.refs[x]
         /\ LedgerPromisc(c, f, l) \in Nat /\ LedgerAllmulti(f, l) \in Nat
<1>1. \A x \in Listed : SumRefs(f, c.addr, x) \in Nat /\ l.refs[x] \in Nat
  BY SumsType DEF LeftType
<1>2. One(c.dsa) \in Nat
  BY OneType
<1> QED
  BY <1>1, <1>2, SumsType DEF LedgerRefs, LedgerPromisc, LedgerAllmulti, LeftType

(* What one user has on the books is on them. *)
LEMMA LedgerHas ==
  ASSUME NEW c, NEW f, NEW l, LeftType(l), NEW u \in Users
  PROVE  /\ One(IFF_PROMISC(f[u])) <= LedgerPromisc(c, f, l)
         /\ One(f[u].allmulti) <= LedgerAllmulti(f, l)
         /\ \A x \in Listed : Share(f[u], c.addr, x) <= LedgerRefs(c, f, l)[x]
<1>1. /\ One(IFF_PROMISC(f[u])) <= SumPromisc(f) /\ One(f[u].allmulti) <= SumAllmulti(f)
      /\ SumPromisc(f) \in Nat /\ SumAllmulti(f) \in Nat
  BY SumFlagsOfOne, SumsType
<1>2. One(c.dsa) \in Nat /\ One(IFF_PROMISC(f[u])) \in Nat /\ One(f[u].allmulti) \in Nat
  BY OneType
<1>3. ASSUME NEW x \in Listed PROVE Share(f[u], c.addr, x) <= LedgerRefs(c, f, l)[x]
  <2>1. Share(f[u], c.addr, x) <= SumRefs(f, c.addr, x)
    BY SumRefsOfOne
  <2>2. Share(f[u], c.addr, x) \in Nat /\ SumRefs(f, c.addr, x) \in Nat /\ l.refs[x] \in Nat
    BY ShareType, SumsType DEF LeftType
  <2> QED
    BY <2>1, <2>2 DEF LedgerRefs
<1>4. l.promisc \in Nat /\ l.allmulti \in Nat
  BY DEF LeftType
<1> QED
  BY <1>1, <1>2, <1>3, <1>4 DEF LedgerPromisc, LedgerAllmulti

(* One user changes, and the conduit with it. *)
LEMMA LedgerOfOne ==
  ASSUME NEW c, NEW f, NEW l, LeftType(l), NEW u \in Users, NEW g,
         \A v \in Users \ {u} : g[v] = f[v],
         NEW d, d.addr = c.addr, d.dsa = c.dsa, NEW R, NEW P, NEW A, Books(d, R, P, A),
         R = [x \in Listed |-> LedgerRefs(c, f, l)[x] + Share(g[u], c.addr, x)
                               - Share(f[u], c.addr, x)],
         P = LedgerPromisc(c, f, l) + One(IFF_PROMISC(g[u])) - One(IFF_PROMISC(f[u])),
         A = LedgerAllmulti(f, l) + One(g[u].allmulti) - One(f[u].allmulti)
  PROVE  Ledger(d, g, l)
<1>1. ASSUME NEW x \in Listed PROVE R[x] = SumRefs(g, d.addr, x) + l.refs[x]
  <2>1. SumRefs(g, c.addr, x) = SumRefs(f, c.addr, x) + Share(g[u], c.addr, x) - Share(f[u], c.addr, x)
    BY SumRefsOfOne
  <2>2. /\ Share(f[u], c.addr, x) \in Nat /\ Share(g[u], c.addr, x) \in Nat
        /\ SumRefs(f, c.addr, x) \in Nat /\ l.refs[x] \in Nat
    BY ShareType, SumsType DEF LeftType
  <2>3. R[x] = LedgerRefs(c, f, l)[x] + Share(g[u], c.addr, x) - Share(f[u], c.addr, x)
    OBVIOUS
  <2> QED
    BY <2>1, <2>2, <2>3, LedgerType
<1>2. R = LedgerRefs(d, g, l)
  BY <1>1 DEF LedgerRefs
<1>3. /\ One(IFF_PROMISC(f[u])) \in Nat /\ One(IFF_PROMISC(g[u])) \in Nat
      /\ One(f[u].allmulti) \in Nat /\ One(g[u].allmulti) \in Nat /\ One(c.dsa) \in Nat
  BY OneType
<1>4. /\ l.promisc \in Nat /\ l.allmulti \in Nat
      /\ SumPromisc(f) \in Nat /\ SumAllmulti(f) \in Nat
  BY SumsType DEF LeftType
<1>5. /\ SumPromisc(g) = SumPromisc(f) + One(IFF_PROMISC(g[u])) - One(IFF_PROMISC(f[u]))
      /\ SumAllmulti(g) = SumAllmulti(f) + One(g[u].allmulti) - One(f[u].allmulti)
  BY SumFlagsOfOne
<1>6. P = LedgerPromisc(d, g, l) /\ A = LedgerAllmulti(g, l)
  BY <1>3, <1>4, <1>5 DEF LedgerPromisc, LedgerAllmulti
<1> QED
  BY <1>2, <1>6 DEF Ledger

LEMMA OwnEntryOf ==
  ASSUME NEW c, NEW v
  PROVE  /\ OwnEntry(c, v) \in [Listed -> Nat]
         /\ \A x \in Listed : /\ OwnEntry(c, v)[x] = One(x = v.addr /\ x # c.addr)
                              /\ (OwnEntry(c, v)[x] = 1 <=> (x = v.addr /\ x # c.addr))
BY DEF OwnEntry, Counted, One

LEMMA NoneCounted ==
  Counted({}) \in [Listed -> Nat] /\ \A x \in Listed : Counted({})[x] = 0
BY DEF Counted, One

-----------------------------------------------------------------------------
(* The invariant: what was proved of the books holds of the conduit, its    *)
(* users and what was left, until the conduit is moved.                     *)
UserTypes ==
  /\ tree \in [phase : {"none", "users", "up", "gone"}, count : Nat]
  /\ ConType(con) /\ UsersType(user) /\ LeftType(left) /\ moved \in BOOLEAN
UserPhases ==
  /\ con.dsa <=> tree.phase = "up"
  /\ tree.phase = "none" => \A u \in Users : ~user[u].there
  /\ \A u \in Users : ~user[u].there => user[u] = Absent
Synced == \A u \in Users : user[u].up => user[u].synced = user[u].want

UserInv ==
  /\ UserTypes /\ UserPhases /\ Synced /\ Tuned(con)
  /\ (moved => ~con.up) /\ (~moved => Ledger(con, user, left))

LEMMA AbsentType ==
  /\ UserType(Absent) /\ ~Absent.up /\ ~Absent.there /\ Absent.want = {} /\ Absent.synced = {}
  /\ ~IFF_PROMISC(Absent) /\ ~Absent.allmulti
BY DsaUserAssumption DEF UserType, Absent, Listed, IFF_PROMISC

LEMMA AbsentShare ==
  ASSUME NEW v, ~v.up, v.synced = {}, NEW a, NEW x PROVE Share(v, a, x) = 0
BY DEF Share, Owns, One

LEMMA UserInitInv == UserInit => UserInv
<1> SUFFICES ASSUME UserInit PROVE UserInv
  OBVIOUS
<1>1. \A u \in Users : user[u] = Absent
  BY DEF UserInit
<1>2. UserTypes
  <2>1. ConType(con)
    <3>1. PICK a \in Addrs : con = Fresh(a)
      BY DEF UserInit
    <3>2. Nothing.refs = [x \in Listed |-> 0]
      BY DEF Nothing
    <3>3. ConType(Fresh(a))
      BY <3>2 DEF Fresh, ConType
    <3> QED
      BY <3>1, <3>3
  <2>2. LeftType(left)
    BY DEF UserInit, LeftType, Nothing
  <2>3. UsersType(user)
    BY AbsentType DEF UserInit, UsersType
  <2> QED
    BY <2>1, <2>2, <2>3 DEF UserInit, UserTypes
<1>3. /\ ~con.dsa /\ ~con.up /\ ~con.ucp /\ con.refs = [x \in Listed |-> 0] /\ con.promisc = 0
      /\ con.allmulti = 0
  BY DEF UserInit, Fresh, Nothing
<1>4. UserPhases /\ Synced /\ Tuned(con)
  BY <1>1, <1>3, AbsentType DEF UserInit, UserPhases, Synced, Tuned
<1>5. Ledger(con, user, left)
  <2> DEFINE Z == [u \in Users |-> 0]
  <2>1. Z \in Sums /\ \A u \in Users : Z[u] = 0
    BY DEF Sums
  <2>2. Total(Z) = 0
    BY <2>1, TotalOfNone
  <2>3. \A x \in Listed : [u \in Users |-> Share(user[u], con.addr, x)] = Z
    BY <1>1, AbsentShare, AbsentType
  <2>4. [u \in Users |-> One(IFF_PROMISC(user[u]))] = Z
    <3>1. \A u \in Users : ~IFF_PROMISC(user[u])
      BY <1>1, AbsentType
    <3> QED
      BY <3>1, OneType
  <2>5. [u \in Users |-> One(user[u].allmulti)] = Z
    <3>1. \A u \in Users : ~user[u].allmulti
      BY <1>1, AbsentType
    <3> QED
      BY <3>1, OneType
  <2> HIDE DEF Z
  <2>6. \A x \in Listed : SumRefs(user, con.addr, x) = 0
    BY <2>2, <2>3 DEF SumRefs
  <2>7. SumPromisc(user) = 0 /\ SumAllmulti(user) = 0
    BY <2>2, <2>4, <2>5 DEF SumPromisc, SumAllmulti
  <2>8. /\ left.promisc = 0 /\ left.allmulti = 0 /\ \A x \in Listed : left.refs[x] = 0
    BY DEF UserInit, Nothing
  <2>9. /\ LedgerRefs(con, user, left) = con.refs
        /\ LedgerPromisc(con, user, left) = 0 /\ LedgerAllmulti(user, left) = 0
    BY <1>3, <2>6, <2>7, <2>8 DEF LedgerRefs, LedgerPromisc, LedgerAllmulti, One
  <2> QED
    BY <1>2, <1>3, <2>9 DEF Ledger, Books, UserTypes, One
<1> QED
  BY <1>2, <1>3, <1>4, <1>5 DEF UserInv

LEMMA UserInitNext == UserInit' => UserInv'
BY UserInitInv, PTL

(* A step of one user, from what it does to the conduit's books. *)
LEMMA OneUserInv ==
  ASSUME UserInv, ~moved, NEW u \in Users, user[u].there,
         NEW w, UserType(w), w.there, w.up => w.synced = w.want,
         user' = [user EXCEPT ![u] = w], tree' = tree, left' = left, moved' = moved,
         con'.addr = con.addr, con'.dsa = con.dsa, Tuned(con'),
         NEW R, NEW P, NEW A, Books(con', R, P, A),
         R = [x \in Listed |-> LedgerRefs(con, user, left)[x] + Share(w, con.addr, x)
                               - Share(user[u], con.addr, x)],
         P = LedgerPromisc(con, user, left) + One(IFF_PROMISC(w)) - One(IFF_PROMISC(user[u])),
         A = LedgerAllmulti(user, left) + One(w.allmulti) - One(user[u].allmulti)
  PROVE  UserInv'
<1>0. DOMAIN user = Users
  BY DEF UserInv, UserTypes, UsersType
<1>1. /\ user'[u] = w /\ \A v \in Users \ {u} : user'[v] = user[v]
      /\ user' = [v \in Users |-> user'[v]]
  BY <1>0
<1>2. UserTypes'
  BY <1>1 DEF UserInv, UserTypes, UsersType, Books
<1>3. UserPhases' /\ Synced'
  BY <1>1 DEF UserInv, UserPhases, Synced
<1>4. Ledger(con', user', left)
  BY <1>1, LedgerOfOne DEF UserInv, UserTypes
<1> QED
  BY <1>2, <1>3, <1>4 DEF UserInv

(* The books before a step of a user. *)
LEMMA BooksOf ==
  ASSUME UserInv, ~moved, NEW u \in Users
  PROVE  /\ Books(con, LedgerRefs(con, user, left), LedgerPromisc(con, user, left),
                  LedgerAllmulti(user, left))
         /\ LedgerRefs(con, user, left) \in [Listed -> Nat]
         /\ LedgerPromisc(con, user, left) \in Nat /\ LedgerAllmulti(user, left) \in Nat
         /\ UserType(user[u]) /\ Tuned(con) /\ con.addr \in Addrs
         /\ One(IFF_PROMISC(user[u])) <= LedgerPromisc(con, user, left)
         /\ One(user[u].allmulti) <= LedgerAllmulti(user, left)
         /\ \A x \in Listed : /\ Share(user[u], con.addr, x) <= LedgerRefs(con, user, left)[x]
                              /\ One(x \in user[u].synced) <= LedgerRefs(con, user, left)[x]
<1>1. LeftType(left) /\ UserType(user[u]) /\ Tuned(con) /\ con.addr \in Addrs
  BY DEF UserInv, UserTypes, UsersType, ConType
<1>2. \A x \in Listed : One(x \in user[u].synced) <= Share(user[u], con.addr, x)
                        /\ One(x \in user[u].synced) \in Nat
  BY OneType DEF Share
<1>3. \A x \in Listed : Share(user[u], con.addr, x) <= LedgerRefs(con, user, left)[x]
                        /\ Share(user[u], con.addr, x) \in Nat
  BY <1>1, LedgerHas, ShareType
<1>4. LedgerRefs(con, user, left) \in [Listed -> Nat]
  BY <1>1, LedgerType
<1>5. \A x \in Listed : One(x \in user[u].synced) <= LedgerRefs(con, user, left)[x]
  BY <1>2, <1>3, <1>4
<1> QED
  BY <1>1, <1>3, <1>4, <1>5, LedgerHas, LedgerType DEF UserInv, Ledger

LEMMA ListChangeInv ==
  ASSUME UserInv, ~moved, NEW u \in Users, NEW x \in Extra, ListChange(u, x)
  PROVE  UserInv'
<1> DEFINE v == user[u]
           w == [v EXCEPT !.want = IF x \in @ THEN @ \ {x} ELSE @ \cup {x}]
           r == UserRxMode(con, w)
           Rs == LedgerRefs(con, user, left)
           Pn == LedgerPromisc(con, user, left)
           An == LedgerAllmulti(user, left)
<1>1. /\ v.there /\ con' = r.con /\ user' = [user EXCEPT ![u] = r.user]
      /\ tree' = tree /\ left' = left /\ moved' = moved
  BY DEF ListChange, Becomes
<1>2. /\ Books(con, Rs, Pn, An) /\ UserType(v) /\ Tuned(con) /\ One(IFF_PROMISC(v)) <= Pn
      /\ One(v.allmulti) <= An /\ Pn \in Nat /\ An \in Nat
      /\ \A y \in Listed : One(y \in v.synced) <= Rs[y]
  BY BooksOf
<1>3. x \in Listed
  BY DsaUserAssumption DEF Listed
<1>4. /\ UserType(w) /\ w.synced = v.synced /\ w.there = v.there /\ w.up = v.up /\ w.addr = v.addr
      /\ w.promisc = v.promisc /\ w.ucp = v.ucp /\ w.allmulti = v.allmulti
  BY <1>2, <1>3 DEF UserType
<1> HIDE DEF w, v, Rs, Pn, An
<1>5. IFF_PROMISC(w) = IFF_PROMISC(v)
  BY <1>4 DEF IFF_PROMISC
<1>6. /\ One(IFF_PROMISC(w)) <= Pn /\ One(w.allmulti) <= An
      /\ \A y \in Listed : One(y \in w.synced) <= Rs[y]
  BY <1>2, <1>4, <1>5
<1> HIDE DEF r
<1>7. /\ Books(r.con, Entries(Rs, w, r.user), Pn + One(IFF_PROMISC(r.user)) - One(IFF_PROMISC(w)), An)
      /\ SameCon(con, r.con) /\ Tuned(r.con)
      /\ UserType(r.user) /\ SameUser(w, r.user) /\ (w.up => r.user.synced = r.user.want)
  BY <1>2, <1>4, <1>6, RxBooks, SMTT(40) DEF r
<1>8. ASSUME NEW y \in Listed
      PROVE  Rs[y] + One(y \in r.user.synced) - One(y \in w.synced)
             = Rs[y] + Share(r.user, con.addr, y) - Share(v, con.addr, y)
  <2>1. Owns(r.user, con.addr, y) = Owns(v, con.addr, y)
    BY <1>4, <1>7 DEF Owns, SameUser
  <2>2. Rs[y] \in Nat
    BY <1>2, BooksOf DEF Rs
  <2> QED
    BY <1>4, <2>1, <2>2, OneType DEF Share
<1>9. Entries(Rs, w, r.user)
      = [y \in Listed |-> Rs[y] + Share(r.user, con.addr, y) - Share(v, con.addr, y)]
  BY <1>8 DEF Entries
<1>10. An = An + One(r.user.allmulti) - One(v.allmulti)
  BY <1>2, <1>4, <1>7, OneType DEF SameUser
<1>11. r.user.there /\ (r.user.up => r.user.synced = r.user.want)
  BY <1>1, <1>4, <1>7 DEF SameUser
<1>12. con'.addr = con.addr /\ con'.dsa = con.dsa /\ Tuned(con')
  BY <1>1, <1>7 DEF SameCon
<1> QED
  BY <1>1, <1>5, <1>7, <1>9, <1>10, <1>11, <1>12, OneUserInv DEF v, Rs, Pn, An

LEMMA FlagsRxBooks ==
  ASSUME NEW c, NEW R, NEW P \in Nat, NEW A \in Nat, Books(c, R, P, A), Tuned(c),
         NEW v, NEW w, UserType(v), UserType(w), w.synced = v.synced,
         One(IFF_PROMISC(v)) <= P, One(v.allmulti) <= A,
         \A x \in Listed : One(x \in v.synced) <= R[x],
         NEW r, r = UserRxMode(dsa_user_change_rx_flags(c, v, w), w)
  PROVE  /\ Books(r.con, Entries(R, w, r.user),
                  P + One(IFF_PROMISC(r.user)) - One(IFF_PROMISC(v)),
                  A + One(w.allmulti) - One(v.allmulti))
         /\ SameCon(c, r.con) /\ Tuned(r.con)
         /\ UserType(r.user) /\ SameUser(w, r.user) /\ (w.up => r.user.synced = r.user.want)
<1> DEFINE e == dsa_user_change_rx_flags(c, v, w)
           Pw == P + One(IFF_PROMISC(w)) - One(IFF_PROMISC(v))
           Aw == A + One(w.allmulti) - One(v.allmulti)
<1>1. Books(e, R, Pw, Aw) /\ SameCon(c, e) /\ Tuned(e)
  BY FlagsBooks
<1>2. /\ Pw \in Nat /\ Aw \in Nat /\ One(IFF_PROMISC(w)) <= Pw /\ One(w.allmulti) <= Aw
      /\ \A x \in Listed : One(x \in w.synced) <= R[x]
  BY OneType
<1> HIDE DEF e, Pw, Aw
<1>3. r = UserRxMode(e, w)
  BY DEF e
<1>4. /\ Books(r.con, Entries(R, w, r.user), Pw + One(IFF_PROMISC(r.user)) - One(IFF_PROMISC(w)), Aw)
      /\ SameCon(e, r.con) /\ Tuned(r.con)
      /\ UserType(r.user) /\ SameUser(w, r.user) /\ (w.up => r.user.synced = r.user.want)
  BY <1>1, <1>2, <1>3, RxBooks
<1>5. Pw + One(IFF_PROMISC(r.user)) - One(IFF_PROMISC(w))
      = P + One(IFF_PROMISC(r.user)) - One(IFF_PROMISC(v))
  BY OneType DEF Pw
<1> QED
  BY <1>1, <1>4, <1>5 DEF SameCon, Aw

LEMMA FlagChangeInv ==
  ASSUME UserInv, ~moved, NEW u \in Users, NEW promisc \in BOOLEAN, NEW allmulti \in BOOLEAN,
         FlagChange(u, promisc, allmulti)
  PROVE  UserInv'
<1> DEFINE v == user[u]
           w == [v EXCEPT !.promisc = promisc, !.allmulti = allmulti]
           r == UserRxMode(dsa_user_change_rx_flags(con, v, w), w)
           Rs == LedgerRefs(con, user, left)
           Pn == LedgerPromisc(con, user, left)
           An == LedgerAllmulti(user, left)
           Aw == An + One(w.allmulti) - One(v.allmulti)
<1>1. /\ v.there /\ con' = r.con /\ user' = [user EXCEPT ![u] = r.user]
      /\ tree' = tree /\ left' = left /\ moved' = moved
  BY DEF FlagChange, Becomes
<1>2. /\ Books(con, Rs, Pn, An) /\ UserType(v) /\ Tuned(con) /\ One(IFF_PROMISC(v)) <= Pn
      /\ One(v.allmulti) <= An /\ Pn \in Nat /\ An \in Nat
      /\ Rs \in [Listed -> Nat] /\ \A y \in Listed : One(y \in v.synced) <= Rs[y]
  BY BooksOf
<1>3. /\ UserType(w) /\ w.synced = v.synced /\ w.there = v.there /\ w.up = v.up /\ w.addr = v.addr
  BY <1>2 DEF UserType
<1> HIDE DEF w, v, Rs, Pn, An
<1> HIDE DEF r, Aw
<1>4. /\ Books(r.con, Entries(Rs, w, r.user), Pn + One(IFF_PROMISC(r.user)) - One(IFF_PROMISC(v)), Aw)
      /\ SameCon(con, r.con) /\ Tuned(r.con)
      /\ UserType(r.user) /\ SameUser(w, r.user) /\ (w.up => r.user.synced = r.user.want)
  BY <1>2, <1>3, FlagsRxBooks DEF r, Aw
<1>5. ASSUME NEW y \in Listed
      PROVE  Rs[y] + One(y \in r.user.synced) - One(y \in w.synced)
             = Rs[y] + Share(r.user, con.addr, y) - Share(v, con.addr, y)
  <2>1. Owns(r.user, con.addr, y) = Owns(v, con.addr, y)
    BY <1>3, <1>4 DEF Owns, SameUser
  <2>2. Rs[y] \in Nat
    BY <1>2
  <2> QED
    BY <1>3, <2>1, <2>2, OneType DEF Share
<1>6. Entries(Rs, w, r.user)
      = [y \in Listed |-> Rs[y] + Share(r.user, con.addr, y) - Share(v, con.addr, y)]
  BY <1>5 DEF Entries
<1>7. Aw = An + One(r.user.allmulti) - One(v.allmulti)
  BY <1>4 DEF SameUser, Aw
<1>8. r.user.there /\ (r.user.up => r.user.synced = r.user.want)
  BY <1>1, <1>3, <1>4 DEF SameUser
<1>9. con'.addr = con.addr /\ con'.dsa = con.dsa /\ Tuned(con')
  BY <1>1, <1>4 DEF SameCon
<1> QED
  BY <1>1, <1>4, <1>6, <1>7, <1>8, <1>9, OneUserInv DEF v, Rs, Pn, An

LEMMA SetMacInv ==
  ASSUME UserInv, ~moved, NEW u \in Users, NEW a \in Addrs, dsa_user_set_mac_address(u, a)
  PROVE  UserInv'
<1> DEFINE v == user[u]
           w == [v EXCEPT !.addr = a]
           Rs == LedgerRefs(con, user, left)
           Pn == LedgerPromisc(con, user, left)
           An == LedgerAllmulti(user, left)
           Rw == [x \in Listed |-> Rs[x] + Share(w, con.addr, x) - Share(v, con.addr, x)]
<1>1. /\ v.there /\ user' = [user EXCEPT ![u] = w]
      /\ con' = IF v.up THEN AddDel(con, OwnEntry(con, w), OwnEntry(con, v)) ELSE con
      /\ tree' = tree /\ left' = left /\ moved' = moved
  BY DEF dsa_user_set_mac_address
<1>2. /\ Books(con, Rs, Pn, An) /\ UserType(v) /\ Tuned(con) /\ Pn \in Nat /\ An \in Nat
      /\ Rs \in [Listed -> Nat] /\ \A x \in Listed : Share(v, con.addr, x) <= Rs[x]
  BY BooksOf
<1>3. /\ UserType(w) /\ w.synced = v.synced /\ w.there = v.there /\ w.up = v.up /\ w.want = v.want
      /\ w.promisc = v.promisc /\ w.ucp = v.ucp /\ w.allmulti = v.allmulti
  BY <1>2 DEF UserType
<1> HIDE DEF w, v, Rs, Pn, An
<1>4. IFF_PROMISC(w) = IFF_PROMISC(v)
  BY <1>3 DEF IFF_PROMISC
<1>5. Pn = Pn + One(IFF_PROMISC(w)) - One(IFF_PROMISC(v)) /\ An = An + One(w.allmulti) - One(v.allmulti)
  BY <1>2, <1>3, <1>4, OneType
<1>6. Books(con', Rw, Pn, An) /\ SameCon(con, con') /\ Tuned(con')
  <2>1. CASE ~v.up
    <3>1. \A x \in Listed : Share(w, con.addr, x) = Share(v, con.addr, x)
      BY <1>3, <2>1, OneType DEF Share, Owns
    <3>2. Rw = Rs
      BY <1>2, <3>1, ShareType
    <3> QED
      BY <1>1, <1>2, <2>1, <3>2 DEF SameCon
  <2>2. CASE v.up
    <3> DEFINE add == OwnEntry(con, w)
               del == OwnEntry(con, v)
    <3>1. /\ add \in [Listed -> Nat] /\ del \in [Listed -> Nat]
          /\ \A x \in Listed : /\ add[x] = One(x = w.addr /\ x # con.addr)
                               /\ del[x] = One(x = v.addr /\ x # con.addr)
      BY OwnEntryOf
    <3>2. \A x \in Listed : /\ Share(w, con.addr, x) = add[x] + One(x \in v.synced)
                            /\ Share(v, con.addr, x) = del[x] + One(x \in v.synced)
      <4>1. /\ \A x : Owns(w, con.addr, x) = (x = w.addr /\ x # con.addr)
            /\ \A x : Owns(v, con.addr, x) = (x = v.addr /\ x # con.addr)
        BY <1>3, <2>2 DEF Owns
      <4> QED
        BY <1>3, <3>1, <4>1, Zenon DEF Share
    <3> HIDE DEF add, del
    <3>3. \A x \in Listed : /\ del[x] <= Rs[x] + add[x]
                            /\ Rs[x] + add[x] - del[x]
                               = Rs[x] + Share(w, con.addr, x) - Share(v, con.addr, x)
      BY <1>2, <3>1, <3>2, OneType
    <3>4. [x \in Listed |-> Rs[x] + add[x] - del[x]] = Rw
      BY <3>3
    <3>5. con' = AddDel(con, add, del)
      BY <1>1, <2>2 DEF add, del
    <3>6. /\ Books(con', [x \in Listed |-> Rs[x] + add[x] - del[x]], Pn, An)
          /\ SameCon(con, con') /\ Tuned(con')
      BY <1>2, <3>1, <3>3, <3>5, AddDelBooks, ZenonT(40)
    <3> QED
      BY <3>4, <3>6
  <2> QED
    BY <2>1, <2>2
<1>7. w.there /\ (w.up => w.synced = w.want)
  BY <1>1, <1>3 DEF UserInv, Synced, v
<1> QED
  BY <1>1, <1>3, <1>5, <1>6, <1>7, OneUserInv DEF v, Rs, Pn, An, SameCon

(* A step that leaves users and what was left alone and keeps the books. *)
LEMMA ConduitInv ==
  ASSUME UserInv, ~moved, user' = user, left' = left, moved' = moved, UserTypes', UserPhases',
         con'.addr = con.addr, Tuned(con'),
         Books(con', LedgerRefs(con, user, left),
               SumPromisc(user) + One(con'.dsa) + left.promisc, LedgerAllmulti(user, left))
  PROVE  UserInv'
<1>1. LedgerRefs(con', user, left) = LedgerRefs(con, user, left)
  BY DEF LedgerRefs
<1>2. Ledger(con', user, left)
  BY <1>1 DEF Ledger, LedgerPromisc
<1> QED
  BY <1>2 DEF UserInv, Synced

LEMMA OpenInv ==
  ASSUME UserInv, ~moved, NEW u \in Users, dsa_user_open(u)
  PROVE  UserInv'
<1> DEFINE v == user[u]
           opened == IF con.up THEN con ELSE dev_open(con)
           Rs == LedgerRefs(con, user, left)
           Pn == LedgerPromisc(con, user, left)
           An == LedgerAllmulti(user, left)
           w == [v EXCEPT !.up = TRUE]
           own == OwnEntry(con, v)
           e == AddDel(opened, own, Counted({}))
           r == UserRxMode(e, w)
           Ro == [x \in Listed |-> Rs[x] + own[x]]
<1>1. /\ Books(con, Rs, Pn, An) /\ UserType(v) /\ Tuned(con) /\ One(IFF_PROMISC(v)) <= Pn
      /\ One(v.allmulti) <= An /\ Pn \in Nat /\ An \in Nat /\ Rs \in [Listed -> Nat]
      /\ \A x \in Listed : One(x \in v.synced) <= Rs[x]
  BY BooksOf
<1>2. /\ v.there /\ ~v.up /\ tree' = tree /\ left' = left /\ moved' = moved
      /\ \/ con' = opened /\ user' = user
         \/ con' = r.con /\ user' = [user EXCEPT ![u] = r.user]
  BY DEF dsa_user_open, Becomes
<1> HIDE DEF v, Rs, Pn, An, w, own, e, r
<1>3. Books(opened, Rs, Pn, An) /\ opened.addr = con.addr /\ opened.dsa = con.dsa /\ Tuned(opened)
  BY <1>1, OpenBooks
<1> HIDE DEF opened
<1>4. CASE con' = opened /\ user' = user
  <2>1. UserTypes' /\ UserPhases'
    BY <1>2, <1>3, <1>4 DEF UserInv, UserTypes, UserPhases, Books
  <2>2. Pn = SumPromisc(user) + One(con'.dsa) + left.promisc
    BY <1>3, <1>4 DEF Pn, LedgerPromisc
  <2> QED
    BY <1>2, <1>3, <1>4, <2>1, <2>2, ConduitInv DEF Rs, An
<1>5. CASE con' = r.con /\ user' = [user EXCEPT ![u] = r.user]
  <2>1. /\ own \in [Listed -> Nat] /\ \A x \in Listed : own[x] = One(x = v.addr /\ x # con.addr)
    BY OwnEntryOf DEF own
  <2>2. Books(e, Ro, Pn, An) /\ SameCon(opened, e) /\ Tuned(e)
    <3> DEFINE none == Counted({})
    <3>1. none \in [Listed -> Nat] /\ e = AddDel(opened, own, none)
      BY NoneCounted DEF e
    <3>2. \A x \in Listed : none[x] <= Rs[x] + own[x] /\ Rs[x] + own[x] - none[x] = Ro[x]
      BY <1>1, <2>1, NoneCounted
    <3> HIDE DEF none
    <3>3. [x \in Listed |-> Rs[x] + own[x] - none[x]] = Ro
      BY <3>2
    <3>4. /\ Books(e, [x \in Listed |-> Rs[x] + own[x] - none[x]], Pn, An)
          /\ SameCon(opened, e) /\ Tuned(e)
      <4>1. \A x \in Listed : none[x] <= Rs[x] + own[x]
        BY <3>2
      <4> QED
        BY <1>1, <1>3, <2>1, <3>1, <4>1, AddDelBooks, Zenon
    <3> QED
      BY <3>3, <3>4
  <2>3. /\ UserType(w) /\ w.synced = v.synced /\ w.there = v.there /\ w.up /\ w.addr = v.addr
        /\ w.promisc = v.promisc /\ w.ucp = v.ucp /\ w.allmulti = v.allmulti
    BY <1>1 DEF UserType, w
  <2>4. IFF_PROMISC(w) = IFF_PROMISC(v)
    BY <2>3 DEF IFF_PROMISC
  <2>5. \A x \in Listed : One(x \in w.synced) <= Ro[x]
    <3>1. \A x \in Listed : /\ One(x \in w.synced) = One(x \in v.synced) /\ Ro[x] = Rs[x] + own[x]
                            /\ One(x \in v.synced) <= Rs[x] /\ own[x] \in Nat /\ Rs[x] \in Nat
                            /\ One(x \in v.synced) \in Nat
      BY <1>1, <2>1, <2>3, OneType
    <3> QED
      BY <3>1
  <2> HIDE DEF Ro
  <2>6. /\ Books(r.con, Entries(Ro, w, r.user), Pn + One(IFF_PROMISC(r.user)) - One(IFF_PROMISC(w)), An)
        /\ SameCon(e, r.con) /\ Tuned(r.con)
        /\ UserType(r.user) /\ SameUser(w, r.user) /\ (w.up => r.user.synced = r.user.want)
    <3>1. r = UserRxMode(e, w)
      BY DEF r
    <3>2. One(IFF_PROMISC(w)) <= Pn /\ One(w.allmulti) <= An
      BY <1>1, <2>3, <2>4
    <3> QED
      BY <1>1, <2>2, <2>3, <2>5, <3>1, <3>2, RxBooks, SMTT(40)
  <2>7. ASSUME NEW x \in Listed
        PROVE  Ro[x] + One(x \in r.user.synced) - One(x \in w.synced)
               = Rs[x] + Share(r.user, con.addr, x) - Share(v, con.addr, x)
    <3>1. Owns(r.user, con.addr, x) = (x = v.addr /\ x # con.addr) /\ ~Owns(v, con.addr, x)
      BY <1>2, <2>3, <2>6 DEF Owns, SameUser
    <3>2. /\ Share(r.user, con.addr, x) = own[x] + One(x \in r.user.synced)
          /\ Share(v, con.addr, x) = 0 + One(x \in w.synced)
      BY <2>1, <2>3, <3>1, OneType DEF Share
    <3>3. Ro[x] = Rs[x] + own[x]
      BY DEF Ro
    <3> QED
      BY <1>1, <2>1, <3>2, <3>3, OneType
  <2>8. Entries(Ro, w, r.user)
        = [x \in Listed |-> Rs[x] + Share(r.user, con.addr, x) - Share(v, con.addr, x)]
    BY <2>7 DEF Entries
  <2>9. An = An + One(r.user.allmulti) - One(v.allmulti)
    BY <1>1, <2>3, <2>6, OneType DEF SameUser
  <2>10. r.user.there /\ (r.user.up => r.user.synced = r.user.want)
    BY <1>2, <2>3, <2>6 DEF SameUser
  <2>11. con'.addr = con.addr /\ con'.dsa = con.dsa /\ Tuned(con')
    BY <1>3, <1>5, <2>2, <2>6 DEF SameCon
  <2>12. Books(con', Entries(Ro, w, r.user),
               Pn + One(IFF_PROMISC(r.user)) - One(IFF_PROMISC(v)), An)
    BY <1>5, <2>4, <2>6
  <2> QED
    BY <1>2, <1>5, <2>6, <2>8, <2>9, <2>10, <2>11, <2>12, OneUserInv DEF v, Rs, Pn, An
<1> QED
  BY <1>2, <1>4, <1>5

(* Users that are closed take their own addresses off the list. *)
LEMMA DownType ==
  ASSUME UsersType(user), NEW us \in SUBSET Users, NEW f, f = Down(us)
  PROVE  /\ UsersType(f)
         /\ \A u \in Users : u \notin us => f[u] = user[u]
         /\ \A u \in us : f[u] = [user[u] EXCEPT !.up = FALSE]
         /\ \A u \in Users : /\ f[u].there = user[u].there /\ f[u].addr = user[u].addr
                             /\ f[u].want = user[u].want /\ f[u].synced = user[u].synced
                             /\ f[u].allmulti = user[u].allmulti /\ (f[u].up => user[u].up)
                             /\ IFF_PROMISC(f[u]) = IFF_PROMISC(user[u])
                             /\ (u \in us => ~f[u].up)
<1>1. /\ f = [u \in Users |-> f[u]] /\ \A u \in Users : u \notin us => f[u] = user[u]
      /\ \A u \in us : f[u] = [user[u] EXCEPT !.up = FALSE]
  BY DEF Down
<1>2. ASSUME NEW u \in Users
      PROVE  /\ UserType(f[u]) /\ f[u].there = user[u].there /\ f[u].addr = user[u].addr
             /\ f[u].want = user[u].want /\ f[u].synced = user[u].synced
             /\ f[u].allmulti = user[u].allmulti /\ (f[u].up => user[u].up)
             /\ f[u].promisc = user[u].promisc /\ f[u].ucp = user[u].ucp
             /\ (u \in us => ~f[u].up)
  <2>1. UserType(user[u])
    BY DEF UsersType
  <2>2. CASE u \notin us
    BY <1>1, <2>1, <2>2
  <2>3. CASE u \in us
    BY <1>1, <2>1, <2>3 DEF UserType
  <2> QED
    BY <2>2, <2>3
<1>3. \A u \in Users : IFF_PROMISC(f[u]) = IFF_PROMISC(user[u])
  BY <1>2 DEF IFF_PROMISC
<1> QED
  BY <1>1, <1>2, <1>3 DEF UsersType

LEMMA ClosedBooks ==
  ASSUME UserInv, ~moved, NEW us \in SUBSET Users, NEW f, f = Down(us), NEW d, d = Closed(con, us)
  PROVE  /\ Books(d, LedgerRefs(con, f, left), LedgerPromisc(con, f, left), LedgerAllmulti(f, left))
         /\ SameCon(con, d) /\ Tuned(d)
<1> DEFINE S(x) == {u \in us : user[u].up /\ OwnEntry(con, user[u])[x] = 1}
           del == [x \in Listed |-> Cardinality(S(x))]
           none == Counted({})
           Rs == LedgerRefs(con, user, left)
           Pn == LedgerPromisc(con, user, left)
           An == LedgerAllmulti(user, left)
<1>1. UsersType(user) /\ LeftType(left) /\ ConType(con)
  BY DEF UserInv, UserTypes
<1>2. ASSUME NEW x \in Listed
      PROVE  /\ SumRefs(user, con.addr, x) = SumRefs(f, con.addr, x) + Cardinality(S(x))
             /\ Cardinality(S(x)) \in Nat
  <2> DEFINE F == [u \in Users |-> Share(user[u], con.addr, x)]
             G == [u \in Users |-> Share(f[u], con.addr, x)]
  <2>1. F \in Sums /\ G \in Sums
    BY ShareType DEF Sums
  <2>2. ASSUME NEW u \in Users PROVE F[u] = G[u] + One(u \in S(x))
    <3>1. u \in S(x) <=> u \in us /\ Owns(user[u], con.addr, x)
      BY OwnEntryOf DEF Owns
    <3>2. CASE u \in us
      <4>1. /\ ~Owns(f[u], con.addr, x) /\ f[u].synced = user[u].synced
        BY <1>1, <3>2, DownType DEF Owns
      <4>2. One(u \in S(x)) = One(Owns(user[u], con.addr, x))
        BY <3>1, <3>2 DEF One
      <4> QED
        BY <4>1, <4>2, OneType DEF Share
    <3>3. CASE u \notin us
      <4>1. f[u] = user[u] /\ u \notin S(x)
        BY <1>1, <3>1, <3>3, DownType
      <4>2. One(u \in S(x)) = 0 /\ Share(f[u], con.addr, x) \in Nat
        BY <4>1, ShareType DEF One
      <4> QED
        BY <4>1, <4>2
    <3> QED
      BY <3>2, <3>3
  <2>3. S(x) \in SUBSET Users
    OBVIOUS
  <2>4. SumRefs(user, con.addr, x) = Total(F) /\ SumRefs(f, con.addr, x) = Total(G)
    BY DEF SumRefs
  <2> HIDE DEF F, G, S
  <2> QED
    BY <2>1, <2>2, <2>3, <2>4, TotalLess
<1>3. del \in [Listed -> Nat]
  BY <1>2
<1>4. none \in [Listed -> Nat] /\ \A x \in Listed : none[x] = 0
  BY NoneCounted
<1>5. d = AddDel(con, none, del)
  BY DEF Closed
<1>6. ASSUME NEW x \in Listed
      PROVE  del[x] <= Rs[x] + none[x] /\ Rs[x] + none[x] - del[x] = LedgerRefs(con, f, left)[x]
  <2>1. /\ del[x] = Cardinality(S(x)) /\ Rs[x] = SumRefs(user, con.addr, x) + left.refs[x]
        /\ LedgerRefs(con, f, left)[x] = SumRefs(f, con.addr, x) + left.refs[x]
    BY DEF LedgerRefs
  <2>2. left.refs[x] \in Nat /\ SumRefs(f, con.addr, x) \in Nat
    BY <1>1, SumsType DEF LeftType
  <2> HIDE DEF S, del, none, Rs
  <2> QED
    BY <1>2, <1>4, <2>1, <2>2
<1> HIDE DEF S, del, none
<1>7. [x \in Listed |-> Rs[x] + none[x] - del[x]] = LedgerRefs(con, f, left)
  BY <1>6 DEF LedgerRefs
<1>8. LedgerPromisc(con, f, left) = Pn /\ LedgerAllmulti(f, left) = An
  <2>1. [u \in Users |-> One(IFF_PROMISC(f[u]))] = [u \in Users |-> One(IFF_PROMISC(user[u]))]
    BY <1>1, DownType
  <2>2. [u \in Users |-> One(f[u].allmulti)] = [u \in Users |-> One(user[u].allmulti)]
    BY <1>1, DownType
  <2> QED
    BY <2>1, <2>2, Zenon DEF LedgerPromisc, LedgerAllmulti, SumPromisc, SumAllmulti
<1>9. Books(con, Rs, Pn, An) /\ Pn \in Nat
  BY <1>1, LedgerType DEF UserInv, Ledger
<1> HIDE DEF Rs, Pn, An
<1>10. /\ Books(d, [x \in Listed |-> Rs[x] + none[x] - del[x]], Pn, An)
       /\ SameCon(con, d) /\ Tuned(d)
  <2>1. \A x \in Listed : del[x] <= Rs[x] + none[x]
    BY <1>6
  <2>2. none \in [Listed -> Nat]
    BY <1>4
  <2> QED
    BY <1>3, <1>5, <1>9, <2>1, <2>2, AddDelBooks
<1> QED
  BY <1>7, <1>8, <1>10

LEMMA CloseInv ==
  ASSUME UserInv, ~moved, NEW us \in SUBSET Users, NEW d, d = Closed(con, us),
         user' = Down(us), tree' = tree, left' = left, moved' = moved,
         con' = d \/ con' = [d EXCEPT !.up = FALSE]
  PROVE  UserInv'
<1> DEFINE f == Down(us)
<1>1. UsersType(user) /\ LeftType(left)
  BY DEF UserInv, UserTypes
<1>2. /\ Books(d, LedgerRefs(con, f, left), LedgerPromisc(con, f, left), LedgerAllmulti(f, left))
      /\ SameCon(con, d) /\ Tuned(d)
  BY ClosedBooks
<1> HIDE DEF f
<1>3. /\ Books(con', LedgerRefs(con, f, left), LedgerPromisc(con, f, left), LedgerAllmulti(f, left))
      /\ con'.addr = con.addr /\ con'.dsa = con.dsa /\ Tuned(con')
  <2>1. CASE con' = d
    BY <1>2, <2>1 DEF SameCon
  <2>2. CASE con' = [d EXCEPT !.up = FALSE]
    BY <1>2, <2>2 DEF SameCon, Books, ConType, Tuned
  <2> QED
    BY <2>1, <2>2
<1>4. LedgerRefs(con', f, left) = LedgerRefs(con, f, left)
      /\ LedgerPromisc(con', f, left) = LedgerPromisc(con, f, left)
  BY <1>3 DEF LedgerRefs, LedgerPromisc
<1>5. user' = f
  BY DEF f
<1>6. Ledger(con', user', left')
  BY <1>3, <1>4, <1>5 DEF Ledger
<1>7. /\ UsersType(f)
      /\ \A u \in Users : /\ f[u].there = user[u].there /\ f[u].addr = user[u].addr
                          /\ f[u].want = user[u].want /\ f[u].synced = user[u].synced
                          /\ (f[u].up => user[u].up) /\ (~user[u].up => f[u] = user[u])
  <2>1. \A u \in Users : ~user[u].up /\ UserType(user[u]) => [user[u] EXCEPT !.up = FALSE] = user[u]
    BY DEF UserType
  <2>2. /\ UsersType(f)
        /\ \A u \in Users : u \notin us => f[u] = user[u]
        /\ \A u \in us : f[u] = [user[u] EXCEPT !.up = FALSE]
        /\ \A u \in Users : /\ f[u].there = user[u].there /\ f[u].addr = user[u].addr
                            /\ f[u].want = user[u].want /\ f[u].synced = user[u].synced
                            /\ (f[u].up => user[u].up)
    BY <1>1, DownType DEF f
  <2>3. ASSUME NEW u \in Users, ~user[u].up PROVE f[u] = user[u]
    BY <1>1, <2>1, <2>2, <2>3 DEF UsersType
  <2> QED
    BY <2>2, <2>3
<1>8. UserTypes'
  BY <1>3, <1>5, <1>7 DEF UserInv, UserTypes, Books
<1>9. UserPhases'
  <2>1. \A u \in Users : ~f[u].there => f[u] = Absent
    BY <1>7, AbsentType DEF UserInv, UserPhases
  <2> QED
    BY <1>3, <1>5, <1>7, <2>1 DEF UserInv, UserPhases
<1>10. Synced'
  BY <1>5, <1>7 DEF UserInv, Synced
<1> QED
  BY <1>3, <1>6, <1>8, <1>9, <1>10 DEF UserInv

LEMMA DestroyInv ==
  ASSUME UserInv, ~moved, NEW u \in Users, dsa_user_destroy(u)
  PROVE  UserInv'
<1> DEFINE v == user[u]
<1>1. /\ tree.phase = "gone" /\ v.there /\ con' = IF v.up THEN Closed(con, {u}) ELSE con
      /\ user' = [user EXCEPT ![u] = Absent] /\ tree' = tree /\ moved' = moved
      /\ left' = [refs |-> [x \in Listed |-> left.refs[x] + One(x \in v.synced)],
                  promisc |-> left.promisc + One(IFF_PROMISC(v)),
                  allmulti |-> left.allmulti + One(v.allmulti)]
  BY DEF dsa_user_destroy
<1>2. UsersType(user) /\ LeftType(left) /\ ConType(con) /\ UserType(v)
  BY DEF UserInv, UserTypes, UsersType
<1>3. \E f : /\ Books(con', LedgerRefs(con, f, left), LedgerPromisc(con, f, left),
                      LedgerAllmulti(f, left))
             /\ SameCon(con, con') /\ Tuned(con')
             /\ ~f[u].up /\ f[u].synced = v.synced /\ f[u].allmulti = v.allmulti
             /\ IFF_PROMISC(f[u]) = IFF_PROMISC(v)
             /\ \A w \in Users \ {u} : f[w] = user[w]
  <2>1. CASE v.up
    <3> DEFINE f == Down({u})
    <3>1. /\ Books(con', LedgerRefs(con, f, left), LedgerPromisc(con, f, left), LedgerAllmulti(f, left))
          /\ SameCon(con, con') /\ Tuned(con')
      BY <1>1, <2>1, ClosedBooks
    <3>2. /\ ~f[u].up /\ f[u].synced = v.synced /\ f[u].allmulti = v.allmulti
          /\ IFF_PROMISC(f[u]) = IFF_PROMISC(v)
          /\ \A w \in Users \ {u} : f[w] = user[w]
      BY <1>2, DownType
    <3> HIDE DEF f
    <3> QED
      BY <3>1, <3>2
  <2>2. CASE ~v.up
    BY <1>1, <2>2 DEF UserInv, Ledger, SameCon
  <2> QED
    BY <2>1, <2>2
<1>4. PICK f : /\ Books(con', LedgerRefs(con, f, left), LedgerPromisc(con, f, left),
                        LedgerAllmulti(f, left))
               /\ SameCon(con, con') /\ Tuned(con')
               /\ ~f[u].up /\ f[u].synced = v.synced /\ f[u].allmulti = v.allmulti
               /\ IFF_PROMISC(f[u]) = IFF_PROMISC(v)
               /\ \A w \in Users \ {u} : f[w] = user[w]
  BY <1>3
<1> DEFINE g == [user EXCEPT ![u] = Absent]
<1>5. /\ g[u] = Absent /\ (\A w \in Users \ {u} : g[w] = f[w] /\ g[w] = user[w])
      /\ g = [w \in Users |-> g[w]]
  BY <1>2, <1>4 DEF UsersType
<1> HIDE DEF g, v
<1>6. LeftType(left')
  BY <1>1, <1>2, OneType DEF LeftType
<1>7. ASSUME NEW x \in Listed
      PROVE  LedgerRefs(con, f, left)[x] = SumRefs(g, con'.addr, x) + left'.refs[x]
  <2>1. SumRefs(g, con.addr, x) = SumRefs(f, con.addr, x) + Share(g[u], con.addr, x) - Share(f[u], con.addr, x)
    BY <1>5, SumRefsOfOne
  <2>2. Share(g[u], con.addr, x) = 0
    BY <1>5, AbsentShare, AbsentType
  <2>3. Share(f[u], con.addr, x) = One(x \in v.synced)
    <3>1. One(Owns(f[u], con.addr, x)) = 0
      BY <1>4 DEF One, Owns
    <3>2. One(x \in f[u].synced) = One(x \in v.synced) /\ One(x \in v.synced) \in Nat
      BY <1>4, OneType
    <3> QED
      BY <3>1, <3>2 DEF Share
  <2>4. left'.refs[x] = left.refs[x] + One(x \in v.synced) /\ con'.addr = con.addr
    BY <1>1, <1>4 DEF SameCon
  <2>5. /\ LedgerRefs(con, f, left)[x] = SumRefs(f, con.addr, x) + left.refs[x]
        /\ SumRefs(f, con.addr, x) \in Nat /\ left.refs[x] \in Nat /\ One(x \in v.synced) \in Nat
    BY <1>2, SumsType, OneType DEF LedgerRefs, LeftType
  <2> QED
    BY <2>1, <2>2, <2>3, <2>4, <2>5
<1>8. LedgerRefs(con, f, left) = LedgerRefs(con', g, left')
  BY <1>7 DEF LedgerRefs
<1>9. /\ LedgerPromisc(con, f, left) = LedgerPromisc(con', g, left')
      /\ LedgerAllmulti(f, left) = LedgerAllmulti(g, left')
  <2>1. /\ SumPromisc(g) = SumPromisc(f) + One(IFF_PROMISC(g[u])) - One(IFF_PROMISC(f[u]))
        /\ SumAllmulti(g) = SumAllmulti(f) + One(g[u].allmulti) - One(f[u].allmulti)
    BY <1>5, SumFlagsOfOne
  <2>2. /\ One(IFF_PROMISC(g[u])) = 0 /\ One(g[u].allmulti) = 0
        /\ One(IFF_PROMISC(f[u])) = One(IFF_PROMISC(v)) /\ One(f[u].allmulti) = One(v.allmulti)
    BY <1>4, <1>5, AbsentType, OneType
  <2>3. /\ left'.promisc = left.promisc + One(IFF_PROMISC(v))
        /\ left'.allmulti = left.allmulti + One(v.allmulti) /\ con'.dsa = con.dsa
    BY <1>1, <1>4 DEF SameCon
  <2>4. /\ SumPromisc(f) \in Nat /\ SumAllmulti(f) \in Nat /\ left.promisc \in Nat
        /\ left.allmulti \in Nat /\ One(IFF_PROMISC(v)) \in Nat /\ One(v.allmulti) \in Nat
        /\ One(con.dsa) \in Nat
    BY <1>2, SumsType, OneType DEF LeftType
  <2> QED
    BY <2>1, <2>2, <2>3, <2>4 DEF LedgerPromisc, LedgerAllmulti
<1>10. user' = g
  BY <1>1 DEF g
<1>11. Ledger(con', user', left')
  BY <1>4, <1>8, <1>9, <1>10 DEF Ledger
<1>12. UserTypes'
  BY <1>1, <1>4, <1>5, <1>6, <1>10, AbsentType DEF UserInv, UserTypes, UsersType, Books
<1>13. UserPhases' /\ Synced'
  BY <1>1, <1>4, <1>5, <1>10, AbsentType DEF UserInv, UserPhases, Synced, SameCon
<1> QED
  BY <1>1, <1>4, <1>11, <1>12, <1>13 DEF UserInv

LEMMA CreateInv ==
  ASSUME UserInv, ~moved, NEW u \in Users, dsa_user_create(u)
  PROVE  UserInv'
<1> DEFINE w == [Absent EXCEPT !.there = TRUE, !.addr = con.addr]
           g == [user EXCEPT ![u] = w]
<1>1. /\ tree.phase = "users" /\ ~user[u].there /\ user' = g /\ tree' = tree /\ con' = con
      /\ left' = left /\ moved' = moved
  BY DEF dsa_user_create
<1>2. UsersType(user) /\ LeftType(left) /\ ConType(con) /\ user[u] = Absent /\ con.addr \in Addrs
  BY <1>1 DEF UserInv, UserTypes, UserPhases, ConType
<1>3. /\ UserType(w) /\ w.there /\ ~w.up /\ w.synced = {} /\ ~IFF_PROMISC(w) /\ ~w.allmulti
  BY <1>2, AbsentType DEF UserType, IFF_PROMISC
<1>4. /\ g[u] = w /\ (\A v \in Users \ {u} : g[v] = user[v]) /\ g = [v \in Users |-> g[v]]
  BY <1>2 DEF UsersType
<1> HIDE DEF g, w
<1>5. \A v \in Users : /\ IFF_PROMISC(g[v]) = IFF_PROMISC(user[v]) /\ g[v].allmulti = user[v].allmulti
                       /\ \A x \in Listed : Share(g[v], con.addr, x) = Share(user[v], con.addr, x)
  <2>1. /\ IFF_PROMISC(w) = IFF_PROMISC(Absent) /\ w.allmulti = Absent.allmulti
    BY <1>3, AbsentType DEF UserType, IFF_PROMISC
  <2>2. \A x \in Listed : Share(w, con.addr, x) = Share(Absent, con.addr, x)
    BY <1>3, AbsentType, AbsentShare
  <2> QED
    BY <1>2, <1>4, <2>1, <2>2
<1>6. /\ SumPromisc(g) = SumPromisc(user) /\ SumAllmulti(g) = SumAllmulti(user)
      /\ \A x \in Listed : SumRefs(g, con.addr, x) = SumRefs(user, con.addr, x)
  BY <1>5, SumsAlike
<1>7. LedgerRefs(con, g, left) = LedgerRefs(con, user, left)
  BY <1>6 DEF LedgerRefs
<1>8. Ledger(con', user', left')
  BY <1>1, <1>6, <1>7 DEF UserInv, Ledger, LedgerPromisc, LedgerAllmulti
<1>9. UserTypes'
  BY <1>1, <1>3, <1>4 DEF UserInv, UserTypes, UsersType
<1>10. UserPhases' /\ Synced'
  BY <1>1, <1>3, <1>4 DEF UserInv, UserPhases, Synced
<1> QED
  BY <1>1, <1>8, <1>9, <1>10 DEF UserInv

(* The address of the conduit matters to none but the users that are open. *)
LEMMA ConduitMacInv ==
  ASSUME UserInv, ~moved, NEW a \in Addrs, ax_net_set_mac_addr(a)
  PROVE  UserInv'
<1>1. /\ ~con.up /\ con' = [con EXCEPT !.addr = a] /\ tree' = tree /\ user' = user /\ left' = left
      /\ moved' = (moved \/ \E u \in Users : user[u].up)
  BY DEF ax_net_set_mac_addr
<1>2. moved' \in BOOLEAN /\ (~moved' => \A u \in Users : ~user[u].up)
  BY <1>1, Zenon
<1>3. /\ ConType(con') /\ con'.addr = a /\ ~con'.up /\ con'.dsa = con.dsa /\ con'.refs = con.refs
      /\ con'.promisc = con.promisc /\ con'.ucp = con.ucp /\ con'.allmulti = con.allmulti
  BY <1>1 DEF UserInv, UserTypes, ConType
<1>4. UserTypes' /\ UserPhases' /\ Synced' /\ Tuned(con')
  BY <1>1, <1>2, <1>3 DEF UserInv, UserTypes, UserPhases, Synced, Tuned
<1>5. ASSUME ~moved' PROVE Ledger(con', user', left')
  <2>1. \A u \in Users, x \in Listed : Share(user[u], a, x) = Share(user[u], con.addr, x)
    BY <1>2, <1>5 DEF Share, Owns
  <2>2. \A x \in Listed : SumRefs(user, a, x) = SumRefs(user, con.addr, x)
    BY <2>1, SumsAlike
  <2>3. LedgerRefs(con', user, left) = LedgerRefs(con, user, left)
    BY <1>3, <2>2 DEF LedgerRefs
  <2>4. LedgerPromisc(con', user, left) = LedgerPromisc(con, user, left)
    BY <1>3 DEF LedgerPromisc
  <2> QED
    BY <1>1, <1>3, <2>3, <2>4 DEF UserInv, Ledger, Books
<1> QED
  BY <1>3, <1>4, <1>5 DEF UserInv

LEMMA TreeInv ==
  ASSUME UserInv, ~moved,
         OpenConduit \/ StartTree \/ dsa_conduit_setup \/ dsa_conduit_teardown \/ TreeGone
  PROVE  UserInv'
<1> DEFINE Rs == LedgerRefs(con, user, left)
           Pn == LedgerPromisc(con, user, left)
           An == LedgerAllmulti(user, left)
<1>1. LeftType(left) /\ Books(con, Rs, Pn, An) /\ Pn \in Nat /\ An \in Nat
  BY LedgerType DEF UserInv, UserTypes, Ledger
<1>2. user' = user /\ left' = left /\ moved' = moved
  BY DEF OpenConduit, StartTree, dsa_conduit_setup, dsa_conduit_teardown, TreeGone
<1>3. Pn = SumPromisc(user) + One(con.dsa) + left.promisc /\ SumPromisc(user) \in Nat /\ left.promisc \in Nat
  BY <1>1, SumsType DEF LedgerPromisc, LeftType
<1> HIDE DEF Rs, Pn, An
<1>4. CASE OpenConduit
  <2>1. Books(con', Rs, Pn, An) /\ con'.addr = con.addr /\ con'.dsa = con.dsa /\ Tuned(con') /\ tree' = tree
    BY <1>1, <1>4, OpenBooks DEF OpenConduit
  <2>2. UserTypes' /\ UserPhases'
    BY <1>2, <2>1 DEF UserInv, UserTypes, UserPhases, Books
  <2> QED
    BY <1>2, <1>3, <2>1, <2>2, ConduitInv DEF Rs, An
<1>5. CASE StartTree \/ TreeGone
  <2>1. /\ con' = con /\ UserTypes' /\ UserPhases'
    BY <1>2, <1>5 DEF StartTree, TreeGone, UserInv, UserTypes, UserPhases
  <2> QED
    BY <1>1, <1>2, <1>3, <2>1, ConduitInv DEF Rs, An, UserInv
<1>6. CASE dsa_conduit_setup
  <2> DEFINE e == [con EXCEPT !.dsa = TRUE]
  <2>1. con' = dev_set_promiscuity(e, 1, 0) /\ tree.phase = "users" /\ tree' = [tree EXCEPT !.phase = "up"]
    BY <1>6 DEF dsa_conduit_setup
  <2>2. Books(e, Rs, Pn, An) /\ e.addr = con.addr /\ e.dsa /\ ~con.dsa
    BY <1>1, <2>1 DEF Books, ConType, UserInv, UserPhases
  <2> HIDE DEF e
  <2>3. 1 \in Nat /\ 0 \in Nat /\ 0 <= Pn + 1
    BY <1>1
  <2>4. Books(con', Rs, Pn + 1 - 0, An) /\ SameCon(e, con') /\ Tuned(con')
    BY <1>1, <2>1, <2>2, <2>3, PromiscBooks, Zenon
  <2>5. Pn + 1 - 0 = SumPromisc(user) + One(con'.dsa) + left.promisc
    BY <1>3, <2>2, <2>4 DEF SameCon, One
  <2>6. UserTypes' /\ UserPhases'
    BY <1>2, <2>1, <2>2, <2>4 DEF UserInv, UserTypes, UserPhases, Books, SameCon
  <2> QED
    BY <1>2, <2>2, <2>4, <2>5, <2>6, ConduitInv DEF Rs, An, SameCon
<1>7. CASE dsa_conduit_teardown
  <2> DEFINE e == dev_set_promiscuity(con, 0, 1)
  <2>1. con' = [e EXCEPT !.dsa = FALSE] /\ tree.phase = "up" /\ tree' = [tree EXCEPT !.phase = "gone"]
    BY <1>7 DEF dsa_conduit_teardown
  <2>2. con.dsa
    BY <2>1 DEF UserInv, UserPhases
  <2>3. 1 \in Nat /\ 0 \in Nat /\ 1 <= Pn + 0
    BY <1>1, <1>3, <2>2 DEF One
  <2>4. Books(e, Rs, Pn + 0 - 1, An) /\ SameCon(con, e) /\ Tuned(e)
    BY <1>1, <2>3, PromiscBooks, Zenon
  <2> HIDE DEF e
  <2>5. Books(con', Rs, Pn + 0 - 1, An) /\ con'.addr = con.addr /\ ~con'.dsa /\ Tuned(con')
    BY <2>1, <2>4 DEF Books, ConType, SameCon, Tuned
  <2>6. Pn + 0 - 1 = SumPromisc(user) + One(con'.dsa) + left.promisc
    BY <1>3, <2>2, <2>5 DEF One
  <2>7. UserTypes' /\ UserPhases'
    BY <1>2, <2>1, <2>5 DEF UserInv, UserTypes, UserPhases, Books
  <2> QED
    BY <1>2, <2>5, <2>6, <2>7, ConduitInv DEF Rs, An
<1> QED
  BY <1>4, <1>5, <1>6, <1>7

LEMMA UserStepInv == UserInv /\ [UserNext]_userVars => UserInv'
<1> SUFFICES ASSUME UserInv, [UserNext]_userVars PROVE UserInv'
  OBVIOUS
<1>1. CASE UNCHANGED userVars
  BY <1>1 DEF userVars, UserInv, UserTypes, UserPhases, Synced
<1>2. CASE Reprobe
  <2>1. con.addr \in Addrs
    BY DEF UserInv, UserTypes, ConType
  <2>2. UserInit'
    BY <1>2, <2>1 DEF Reprobe, UserInit
  <2> QED
    BY <2>2, UserInitNext
<1>3. CASE ~moved /\ \E u \in Users : dsa_user_create(u) \/ dsa_user_destroy(u) \/ dsa_user_open(u)
  BY <1>3, CreateInv, DestroyInv, OpenInv
<1>4. CASE ~moved /\ \E u \in Users : dsa_user_close(u)
  <2>1. PICK u \in Users : dsa_user_close(u)
    BY <1>4
  <2> QED
    BY <1>4, <2>1, CloseInv DEF dsa_user_close
<1>5. CASE ~moved /\ \E u \in Users, a \in Addrs : dsa_user_set_mac_address(u, a)
  BY <1>5, SetMacInv
<1>6. CASE ~moved /\ \E u \in Users, x \in Extra : ListChange(u, x)
  BY <1>6, ListChangeInv
<1>7. CASE ~moved /\ \E u \in Users : \E promisc, allmulti \in BOOLEAN : FlagChange(u, promisc, allmulti)
  BY <1>7, FlagChangeInv
<1>8. CASE ~moved /\ \E a \in Addrs : ax_net_set_mac_addr(a)
  BY <1>8, ConduitMacInv
<1>9. CASE ~moved /\ CloseConduit
  <2> DEFINE us == IF con.dsa THEN Users ELSE {}
  <2>1. us \in SUBSET Users
    OBVIOUS
  <2>2. con' = [Closed(con, us) EXCEPT !.up = FALSE] /\ user' = Down(us) /\ UNCHANGED <<tree, left, moved>>
    BY <1>9 DEF CloseConduit
  <2> HIDE DEF us
  <2> QED
    BY <1>9, <2>1, <2>2, CloseInv
<1>10. CASE ~moved /\ (OpenConduit \/ StartTree \/ dsa_conduit_setup \/ dsa_conduit_teardown \/ TreeGone)
  BY <1>10, TreeInv
<1> QED
  BY <1>1, <1>2, <1>3, <1>4, <1>5, <1>6, <1>7, <1>8, <1>9, <1>10 DEF UserNext

(* The reference counts of the conduit's lists, its promiscuous and its     *)
(* all-groups counts are exactly what its user interfaces, its tree and the *)
(* destroyed users put there (dsa_user_open, _close, _set_mac_address,      *)
(* _change_rx_flags, _set_rx_mode, dsa_conduit_set_promiscuity), for any    *)
(* number of ports, addresses and groups and any sequence of calls.         *)
THEOREM ConduitBalanced == UserSpec => []FiltersBalanced
<1>1. UserInv => FiltersBalanced
  <2> SUFFICES ASSUME UserInv, ~moved
               PROVE  /\ \A x \in Listed :
                           con.refs[x] = Total([u \in Users |-> Asks(u, x)]) + left.refs[x]
                      /\ con.promisc = Total([u \in Users |-> One(IFF_PROMISC(user[u]))])
                                       + One(con.dsa) + One(con.ucp) + left.promisc
                      /\ con.allmulti = Total([u \in Users |-> One(user[u].allmulti)]) + left.allmulti
    BY DEF FiltersBalanced
  <2>1. Ledger(con, user, left) /\ LeftType(left)
    BY DEF UserInv, UserTypes
  <2>2. ASSUME NEW x \in Listed
        PROVE  con.refs[x] = Total([u \in Users |-> Asks(u, x)]) + left.refs[x]
    <3>1. \A u \in Users : Asks(u, x) = Share(user[u], con.addr, x)
      <4>1. \A u \in Users : (user[u].up /\ OwnEntry(con, user[u])[x] = 1) = Owns(user[u], con.addr, x)
        BY OwnEntryOf DEF Owns
      <4> QED
        BY <4>1, Zenon DEF Asks, Share
    <3>2. [u \in Users |-> Asks(u, x)] = [u \in Users |-> Share(user[u], con.addr, x)]
      BY <3>1, Zenon
    <3>3. Total([u \in Users |-> Asks(u, x)]) = SumRefs(user, con.addr, x)
      BY <3>2, Zenon DEF SumRefs
    <3> QED
      BY <2>1, <3>3 DEF Ledger, Books, LedgerRefs
  <2>3. con.promisc = SumPromisc(user) + One(con.dsa) + left.promisc + One(con.ucp)
    BY <2>1 DEF Ledger, Books, LedgerPromisc
  <2>4. SumPromisc(user) \in Nat /\ One(con.dsa) \in Nat /\ left.promisc \in Nat /\ One(con.ucp) \in Nat
    BY <2>1, SumsType, OneType DEF LeftType
  <2>5. con.promisc = SumPromisc(user) + One(con.dsa) + One(con.ucp) + left.promisc
    BY <2>3, <2>4
  <2>6. con.allmulti = SumAllmulti(user) + left.allmulti
    BY <2>1 DEF Ledger, Books, LedgerAllmulti
  <2> QED
    BY <2>2, <2>5, <2>6, Zenon DEF SumPromisc, SumAllmulti
<1> QED
  BY <1>1, UserInitInv, UserStepInv, PTL DEF UserSpec

(* While the conduit is up, its filter (ax_net_set_multicast) lets through  *)
(* what every open user interface listens to and everything for a complete  *)
(* tree, and is back to the conduit's own address when nobody asks for      *)
(* anything, for any number of ports, addresses and groups.                 *)
THEOREM ConduitHears == UserSpec => []HearsItsUsers
<1>1. UserInv => HearsItsUsers
  <2> SUFFICES ASSUME UserInv, con.up
               PROVE  /\ con.dsa => con.mode = "all"
                      /\ \A u \in Users : user[u].up /\ ~moved =>
                            /\ user[u].synced = user[u].want
                            /\ \A x \in user[u].want \cup {user[u].addr} : Passes(x)
                            /\ user[u].promisc => con.mode = "all"
                            /\ user[u].allmulti => con.mode \in {"all", "all groups"}
                      /\ left = Nothing /\ ~moved /\ tree.phase = "none" => con.mode = "dir"
    BY DEF HearsItsUsers
  <2> DEFINE Rs == LedgerRefs(con, user, left)
             Pn == LedgerPromisc(con, user, left)
             An == LedgerAllmulti(user, left)
  <2>1. /\ ~moved /\ LeftType(left) /\ ConType(con) /\ UsersType(user)
        /\ con.refs = Rs /\ con.promisc = Pn + One(con.ucp) /\ con.allmulti = An
    BY DEF UserInv, UserTypes, Ledger, Books
  <2>2. Rs \in [Listed -> Nat] /\ Pn \in Nat /\ An \in Nat /\ One(con.ucp) \in Nat
    BY <2>1, LedgerType, OneType
  <2>3. /\ (con.ucp <=> \E a \in Addrs : con.refs[a] > 0)
        /\ con.promisc > 0 => con.mode = "all"
        /\ con.allmulti > 0 => con.mode \in {"all", "all groups"}
        /\ \A g \in Groups : con.refs[g] > 0 => con.mode \in {"all", "all groups"} \/ g \in con.filter
        /\ (con.promisc = 0 /\ con.allmulti = 0 /\ \A g \in Groups : con.refs[g] = 0) => con.mode = "dir"
    BY DEF UserInv, Tuned
  <2> DEFINE n == One(con.ucp)
  <2>4. /\ Pn > 0 \/ n > 0 => con.mode = "all"
        /\ Pn = 0 /\ n = 0 => con.promisc = 0
        /\ An > 0 => con.mode \in {"all", "all groups"}
    <3>1. con.promisc = Pn + n /\ con.allmulti = An /\ Pn \in Nat /\ n \in Nat /\ An \in Nat
      BY <2>1, <2>2
    <3> HIDE DEF Pn, n, An
    <3>2. (Pn > 0 \/ n > 0 => con.promisc > 0) /\ (Pn = 0 /\ n = 0 => con.promisc = 0)
      BY <3>1
    <3>3. con.promisc > 0 => con.mode = "all"
      BY <2>3
    <3>4. con.allmulti > 0 => con.mode \in {"all", "all groups"}
      BY <2>3
    <3> QED
      BY <3>1, <3>2, <3>3, <3>4
  <2>5. con.dsa => con.mode = "all"
    <3>1. SumPromisc(user) \in Nat /\ left.promisc \in Nat
      BY <2>1, SumsType DEF LeftType
    <3>2. con.dsa => Pn > 0
      BY <3>1 DEF LedgerPromisc, One
    <3> QED
      BY <2>4, <3>2
  <2>6. ASSUME NEW x \in Listed, con.refs[x] > 0 PROVE Passes(x)
    <3>1. CASE x \in Addrs
      <4>1. con.ucp
        BY <2>3, <2>6, <3>1
      <4>2. n > 0
        BY <4>1 DEF One
      <4> QED
        BY <2>4, <4>2 DEF Passes
    <3>2. CASE x \in Groups
      BY <2>3, <2>6, <3>2 DEF Passes
    <3> QED
      BY <3>1, <3>2 DEF Listed
  <2>7. ASSUME NEW u \in Users, user[u].up
        PROVE  /\ user[u].synced = user[u].want
               /\ \A x \in user[u].want \cup {user[u].addr} : Passes(x)
               /\ user[u].promisc => con.mode = "all"
               /\ user[u].allmulti => con.mode \in {"all", "all groups"}
    <3>1. user[u].synced = user[u].want /\ UserType(user[u])
      BY <2>1, <2>7 DEF UserInv, Synced, UsersType
    <3>2. /\ One(IFF_PROMISC(user[u])) <= Pn /\ One(user[u].allmulti) <= An
          /\ \A x \in Listed : Share(user[u], con.addr, x) <= Rs[x]
      BY <2>1, LedgerHas
    <3> HIDE DEF Rs, Pn, An, n
    <3>3. ASSUME NEW x \in user[u].want PROVE Passes(x)
      <4>1. x \in Listed /\ x \in user[u].synced
        BY <3>1 DEF UserType
      <4>2. Share(user[u], con.addr, x) >= 1
        BY <4>1, OneType DEF Share, One
      <4>3. con.refs[x] > 0
        BY <2>1, <2>2, <3>2, <4>1, <4>2, ShareType
      <4> QED
        BY <2>6, <4>1, <4>3
    <3>4. Passes(user[u].addr)
      <4>1. user[u].addr \in Listed
        BY <3>1 DEF UserType, Listed
      <4>2. CASE user[u].addr = con.addr
        BY <4>2 DEF Passes
      <4>3. CASE user[u].addr # con.addr
        <5>1. Owns(user[u], con.addr, user[u].addr)
          BY <2>7, <4>3 DEF Owns
        <5>2. Share(user[u], con.addr, user[u].addr) >= 1
          BY <5>1, OneType DEF Share, One
        <5>3. con.refs[user[u].addr] > 0
          BY <2>1, <2>2, <3>2, <4>1, <5>2, ShareType
        <5> QED
          BY <2>6, <4>1, <5>3
      <4> QED
        BY <4>2, <4>3
    <3>5. ASSUME user[u].promisc PROVE con.mode = "all"
      <4>1. One(IFF_PROMISC(user[u])) = 1
        BY <3>5 DEF IFF_PROMISC, One
      <4>2. Pn > 0
        BY <2>2, <3>2, <4>1
      <4> QED
        BY <2>4, <4>2
    <3>6. ASSUME user[u].allmulti PROVE con.mode \in {"all", "all groups"}
      <4>1. One(user[u].allmulti) = 1
        BY <3>6 DEF One
      <4>2. An > 0
        BY <2>2, <3>2, <4>1
      <4> QED
        BY <2>4, <4>2
    <3> QED
      BY <3>1, <3>3, <3>4, <3>5, <3>6
  <2>8. ASSUME left = Nothing, tree.phase = "none" PROVE con.mode = "dir"
    <3>1. ~con.dsa /\ \A u \in Users : user[u] = Absent
      BY <2>8 DEF UserInv, UserPhases
    <3>2. /\ left.promisc = 0 /\ left.allmulti = 0 /\ \A x \in Listed : left.refs[x] = 0
      BY <2>8 DEF Nothing
    <3> DEFINE Z == [u \in Users |-> 0]
    <3>3. Z \in Sums /\ \A u \in Users : Z[u] = 0
      BY DEF Sums
    <3>4. Total(Z) = 0
      BY <3>3, TotalOfNone
    <3>5. \A x \in Listed : [u \in Users |-> Share(user[u], con.addr, x)] = Z
      BY <3>1, AbsentShare, AbsentType
    <3>6. [u \in Users |-> One(IFF_PROMISC(user[u]))] = Z /\ [u \in Users |-> One(user[u].allmulti)] = Z
      <4>1. \A u \in Users : One(IFF_PROMISC(user[u])) = 0 /\ One(user[u].allmulti) = 0
        BY <3>1, AbsentType, OneType
      <4> QED
        BY <4>1
    <3> HIDE DEF Z
    <3>7. Pn = 0 /\ An = 0 /\ \A x \in Listed : Rs[x] = 0
      BY <3>1, <3>2, <3>4, <3>5, <3>6
      DEF LedgerPromisc, LedgerAllmulti, LedgerRefs, SumPromisc, SumAllmulti, SumRefs, One
    <3> HIDE DEF Rs, Pn, An
    <3>8. \A x \in Addrs \cup Groups : con.refs[x] = 0
      BY <2>1, <3>7 DEF Listed
    <3>9. ~con.ucp
      <4>1. \A a \in Addrs : ~(con.refs[a] > 0)
        BY <3>8
      <4> QED
        BY <2>3, <4>1
    <3>10. n = 0
      BY <3>9 DEF One
    <3>11. con.promisc = 0 /\ con.allmulti = 0 /\ \A g \in Groups : con.refs[g] = 0
      BY <2>1, <2>4, <3>7, <3>8, <3>10
    <3> QED
      BY <2>3, <3>11
  <2> QED
    BY <2>1, <2>5, <2>7, <2>8
<1> QED
  BY <1>1, UserInitInv, UserStepInv, PTL DEF UserSpec

-----------------------------------------------------------------------------
(***************************************************************************)
(* DsaBridge.  First, what the newest item of a queue is when the queue    *)
(* grows and when its oldest item is taken.                                *)
(***************************************************************************)
LEMMA GreatestNat ==
  ASSUME NEW n \in Nat, NEW S \in SUBSET (1 .. n), S # {}
  PROVE  \E k \in S : \A l \in S : l <= k
<1> DEFINE R == OpToRel(<, Nat)
           D == {n - k : k \in S}
<1>1. IsWellFoundedOn(R, Nat)
  BY NatLessThanWellFounded
<1>2. \A x, y \in Nat : y < x => <<y, x>> \in R
  BY DEF OpToRel
<1>3. D \in SUBSET Nat /\ D # {}
  <2>1. \A k \in S : n - k \in Nat
    OBVIOUS
  <2>2. PICK k : k \in S
    OBVIOUS
  <2>3. n - k \in D
    BY <2>2
  <2> QED
    BY <2>1, <2>3
<1> HIDE DEF R
<1>4. \E x \in D : \A y \in D : ~(<<y, x>> \in R)
  <2> HIDE DEF D
  <2> QED
    BY <1>1, <1>3, WFMin
<1>5. PICK x \in D : \A y \in D : ~(<<y, x>> \in R)
  BY <1>4
<1>6. PICK k \in S : x = n - k
  BY <1>5
<1>7. ASSUME NEW l \in S PROVE l <= k
  <2>1. n - l \in D /\ n - l \in Nat /\ x \in Nat
    BY <1>3
  <2>2. ~(n - l < x)
    BY <1>2, <1>5, <2>1
  <2> QED
    BY <1>6, <2>2
<1> QED
  BY <1>7

News == BrPorts \X StpStates
NoNews(q, p) == \A k \in 1 .. Len(q) : q[k][1] # p
Newest(q, p, k) ==
  /\ k \in 1 .. Len(q) /\ q[k][1] = p
  /\ \A l \in 1 .. Len(q) : q[l][1] = p => l <= k

LEMMA NewestOrNone ==
  ASSUME NEW q \in Seq(News), NEW p
  PROVE  NoNews(q, p) \/ \E k : Newest(q, p, k)
<1> DEFINE mine == {k \in 1 .. Len(q) : q[k][1] = p}
<1>1. mine \in SUBSET (1 .. Len(q)) /\ Len(q) \in Nat
  OBVIOUS
<1>2. CASE mine = {}
  BY <1>2 DEF NoNews
<1>3. CASE mine # {}
  <2>1. \E k \in mine : \A l \in mine : l <= k
    <3> HIDE DEF mine
    <3> QED
      BY <1>1, <1>3, GreatestNat
  <2> QED
    BY <2>1 DEF Newest
<1> QED
  BY <1>2, <1>3

LEMMA LatestIs ==
  ASSUME NEW q \in Seq(News), NEW p, NEW s
  PROVE  /\ NoNews(q, p) => Latest(q, p, s) = s
         /\ \A k : Newest(q, p, k) => Latest(q, p, s) = q[k][2]
<1> DEFINE mine == {k \in 1 .. Len(q) : q[k][1] = p}
<1>1. NoNews(q, p) => Latest(q, p, s) = s
  <2>1. NoNews(q, p) => mine = {}
    BY DEF NoNews
  <2> QED
    BY <2>1 DEF Latest
<1>2. ASSUME NEW k, Newest(q, p, k) PROVE Latest(q, p, s) = q[k][2]
  <2>1. k \in mine /\ (\A l \in mine : l <= k) /\ mine # {} /\ mine \subseteq Nat
    BY <1>2 DEF Newest
  <2>2. Latest(q, p, s) = q[CHOOSE m \in mine : \A l \in mine : l <= m][2]
    BY <2>1 DEF Latest
  <2> HIDE DEF mine
  <2>3. \A m \in mine : (\A l \in mine : l <= m) => m = k
    BY <2>1
  <2>4. (CHOOSE m \in mine : \A l \in mine : l <= m) = k
    BY <2>1, <2>3
  <2> QED
    BY <2>2, <2>4
<1> QED
  BY <1>1, <1>2

LEMMA LatestAppend ==
  ASSUME NEW q \in Seq(News), NEW e \in News, NEW p, NEW s
  PROVE  /\ Append(q, e) \in Seq(News)
         /\ e[1] = p => Latest(Append(q, e), p, s) = e[2]
         /\ e[1] # p => Latest(Append(q, e), p, s) = Latest(q, p, s)
         /\ e[1] # p /\ NoNews(q, p) => NoNews(Append(q, e), p)
<1> DEFINE r == Append(q, e)
<1>1. /\ r \in Seq(News) /\ Len(r) = Len(q) + 1 /\ Len(q) \in Nat /\ r[Len(q) + 1] = e
      /\ \A k \in 1 .. Len(q) : r[k] = q[k]
  OBVIOUS
<1> HIDE DEF r
<1>2. e[1] = p => Newest(r, p, Len(q) + 1)
  BY <1>1 DEF Newest
<1>3. e[1] # p /\ NoNews(q, p) => NoNews(r, p)
  BY <1>1 DEF NoNews
<1>4. \A k : e[1] # p /\ Newest(q, p, k) => Newest(r, p, k) /\ r[k] = q[k]
  BY <1>1 DEF Newest
<1>5. e[1] = p => Latest(r, p, s) = e[2]
  BY <1>1, <1>2, LatestIs
<1>6. e[1] # p => Latest(r, p, s) = Latest(q, p, s)
  BY <1>1, <1>3, <1>4, LatestIs, NewestOrNone
<1> QED
  BY <1>1, <1>3, <1>5, <1>6 DEF r

LEMMA LatestTail ==
  ASSUME NEW q \in Seq(News), q # <<>>, NEW p, NEW s
  PROVE  /\ Tail(q) \in Seq(News)
         /\ Head(q)[1] = p => Latest(q, p, s) = Latest(Tail(q), p, Head(q)[2])
         /\ Head(q)[1] # p => Latest(q, p, s) = Latest(Tail(q), p, s)
         /\ NoNews(q, p) => NoNews(Tail(q), p)
<1> DEFINE r == Tail(q)
<1>1. /\ r \in Seq(News) /\ Len(q) = Len(r) + 1 /\ Len(r) \in Nat /\ q[1] = Head(q)
      /\ \A k \in 1 .. Len(r) : r[k] = q[k + 1]
  OBVIOUS
<1> HIDE DEF r
<1>2. NoNews(q, p) => NoNews(r, p)
  BY <1>1 DEF NoNews
<1>3. ASSUME NEW k, Newest(r, p, k) PROVE Newest(q, p, k + 1) /\ q[k + 1] = r[k]
  <2>1. k \in 1 .. Len(r) /\ r[k] = q[k + 1]
    BY <1>1, <1>3 DEF Newest
  <2>2. ASSUME NEW l \in 1 .. Len(q), q[l][1] = p PROVE l <= k + 1
    <3>1. CASE l = 1
      BY <2>1, <3>1
    <3>2. CASE l # 1
      <4>1. l - 1 \in 1 .. Len(r) /\ r[l - 1] = q[l]
        BY <1>1, <3>2
      <4> QED
        BY <1>3, <2>1, <2>2, <4>1 DEF Newest
    <3> QED
      BY <3>1, <3>2
  <2> QED
    BY <1>1, <1>3, <2>1, <2>2 DEF Newest
<1>4. ASSUME NoNews(r, p), NEW l \in 1 .. Len(q), q[l][1] = p PROVE l = 1
  <2>1. l # 1 => l - 1 \in 1 .. Len(r) /\ r[l - 1] = q[l]
    BY <1>1
  <2> QED
    BY <1>4, <2>1 DEF NoNews
<1>5. NoNews(r, p) /\ Head(q)[1] = p => Newest(q, p, 1)
  BY <1>1, <1>4 DEF Newest
<1>6. NoNews(r, p) /\ Head(q)[1] # p => NoNews(q, p)
  BY <1>1, <1>4 DEF NoNews
<1>7. CASE NoNews(r, p)
  <2>1. \A t : Latest(r, p, t) = t
    BY <1>1, <1>7, LatestIs
  <2>2. Head(q)[1] = p => Latest(q, p, s) = Head(q)[2]
    BY <1>1, <1>5, <1>7, LatestIs
  <2>3. Head(q)[1] # p => Latest(q, p, s) = s
    BY <1>6, <1>7, LatestIs
  <2> QED
    BY <1>1, <1>2, <2>1, <2>2, <2>3 DEF r
<1>8. CASE \E k : Newest(r, p, k)
  <2>1. PICK k : Newest(r, p, k)
    BY <1>8
  <2>2. \A t : Latest(r, p, t) = r[k][2]
    BY <1>1, <2>1, LatestIs
  <2>3. Latest(q, p, s) = r[k][2]
    BY <1>3, <2>1, LatestIs
  <2> QED
    BY <1>1, <1>2, <2>2, <2>3 DEF r
<1> QED
  BY <1>1, <1>7, <1>8, NewestOrNone

(***************************************************************************)
(* The invariant.  A port outside any bridge has no news under way and the *)
(* bridge's side of it is disabled, so that a bridge it joins starts from  *)
(* the state that the port is put into.                                    *)
(***************************************************************************)
BridgeTypes ==
  /\ dp \in [BrPorts -> [up : BOOLEAN, stp : StpStates, bridge : Bridges \cup {NoBridge}]]
  /\ member \in [BrPorts -> [of : Bridges \cup {NoBridge}, state : StpStates]]
  /\ pend \in Seq(News) /\ shared \in [Bridges -> Nat]
Follows(p) ==
  /\ dp[p].bridge # NoBridge =>
       dp[p].bridge = member[p].of /\ Latest(pend, p, dp[p].stp) = member[p].state
  /\ member[p].of = NoBridge => NoNews(pend, p) /\ member[p].state = "disabled"
  /\ dp[p].bridge = NoBridge /\ dp[p].up /\ p \notin refused => dp[p].stp = "forwarding"
On(b) == {p \in BrPorts : dp[p].bridge = b}
References == \A b \in Bridges : shared[b] = Cardinality(On(b))
BridgeInv == BridgeTypes /\ (\A p \in BrPorts : Follows(p)) /\ References

LEMMA BridgeInitInv == BridgeInit => BridgeInv
<1> SUFFICES ASSUME BridgeInit PROVE BridgeInv
  OBVIOUS
<1>1. BridgeTypes
  BY DEF BridgeInit, BridgeTypes, Standalone, StpStates
<1>2. \A p \in BrPorts : Follows(p)
  BY DEF BridgeInit, Follows, Standalone, NoNews
<1>3. \A b \in Bridges : On(b) = {}
  BY DsaBridgeAssumption DEF BridgeInit, On
<1>4. References
  BY <1>3, FS_EmptySet DEF BridgeInit, References
<1> QED
  BY <1>1, <1>2, <1>4 DEF BridgeInv

LEMMA SameReferences ==
  ASSUME References, shared' = shared, \A q \in BrPorts : dp'[q].bridge = dp[q].bridge
  PROVE  References'
<1>1. \A b : On(b)' = On(b)
  BY DEF On
<1> QED
  BY <1>1 DEF References

(* Opening and closing a port, and the bridge's timers. *)
LEMMA PortStepInv ==
  ASSUME BridgeInv, NEW p \in BrPorts,
         dsa_port_enable_rt(p) \/ dsa_port_disable_rt(p) \/ \E s \in StpStates : StpTimer(p, s)
  PROVE  BridgeInv'
<1> USE DEF dsa_port_set_state
<1>0. BridgeTypes /\ (\A q \in BrPorts : Follows(q)) /\ References
  BY DEF BridgeInv
<1>1. CASE dsa_port_enable_rt(p)
  <2>1. /\ member' = member /\ pend' = pend /\ shared' = shared /\ refused' = refused
        /\ (\A q \in BrPorts \ {p} : dp'[q] = dp[q])
        /\ dp' \in [BrPorts -> [up : BOOLEAN, stp : StpStates, bridge : Bridges \cup {NoBridge}]]
        /\ dp'[p].bridge = dp[p].bridge
        /\ dp[p].bridge # NoBridge => dp'[p].stp = dp[p].stp
        /\ dp[p].bridge = NoBridge => dp'[p].stp = "forwarding"
    BY <1>0, <1>1 DEF dsa_port_enable_rt, BridgeTypes, StpStates
  <2>2. ASSUME NEW q \in BrPorts PROVE Follows(q)'
    BY <1>0, <2>1 DEF Follows
  <2>3. References'
    BY <1>0, <2>1, SameReferences
  <2> QED
    BY <1>0, <2>1, <2>2, <2>3 DEF BridgeInv, BridgeTypes
<1>2. CASE dsa_port_disable_rt(p)
  <2> DEFINE e == <<p, "disabled">>
  <2>1. /\ shared' = shared /\ refused' = refused \ {p}
        /\ (\A q \in BrPorts \ {p} : dp'[q] = dp[q] /\ member'[q] = member[q])
        /\ dp' \in [BrPorts -> [up : BOOLEAN, stp : StpStates, bridge : Bridges \cup {NoBridge}]]
        /\ member' \in [BrPorts -> [of : Bridges \cup {NoBridge}, state : StpStates]]
        /\ dp'[p].bridge = dp[p].bridge /\ ~dp'[p].up
        /\ dp[p].bridge # NoBridge => dp'[p].stp = dp[p].stp
        /\ member'[p].of = member[p].of /\ member'[p].state = "disabled"
    BY <1>0, <1>2 DEF dsa_port_disable_rt, BridgeTypes, StpStates
  <2>2. \/ member[p].state = "disabled" /\ pend' = pend
        \/ member[p].state # "disabled" /\ pend' = Append(pend, e)
    BY <1>2 DEF dsa_port_disable_rt
  <2>3. e \in News /\ e[1] = p /\ e[2] = "disabled"
    BY DEF News, StpStates
  <2> HIDE DEF e
  <2>4. pend \in Seq(News)
    BY <1>0 DEF BridgeTypes
  <2>5. /\ pend' \in Seq(News)
        /\ \A q \in BrPorts \ {p} : /\ NoNews(pend, q) => NoNews(pend', q)
                                    /\ \A s : Latest(pend', q, s) = Latest(pend, q, s)
        /\ \A s : member[p].state # "disabled" => Latest(pend', p, s) = "disabled"
        /\ member[p].state = "disabled" => pend' = pend
    <3>1. CASE member[p].state = "disabled" /\ pend' = pend
      BY <2>4, <3>1
    <3>2. CASE member[p].state # "disabled" /\ pend' = Append(pend, e)
      BY <2>3, <2>4, <3>2, LatestAppend
    <3> QED
      BY <2>2, <3>1, <3>2
  <2>6. ASSUME NEW q \in BrPorts PROVE Follows(q)'
    <3>1. CASE q = p
      BY <1>0, <2>1, <2>5, <3>1 DEF Follows
    <3>2. CASE q # p
      BY <1>0, <2>1, <2>5, <3>2 DEF Follows
    <3> QED
      BY <3>1, <3>2
  <2>7. References'
    BY <1>0, <2>1, SameReferences
  <2> QED
    BY <1>0, <2>1, <2>5, <2>6, <2>7 DEF BridgeInv, BridgeTypes
<1>3. CASE \E s \in StpStates : StpTimer(p, s)
  <2>1. PICK s \in StpStates : StpTimer(p, s)
    BY <1>3
  <2> DEFINE e == <<p, s>>
  <2>2. /\ shared' = shared /\ refused' = refused /\ dp' = dp /\ pend' = Append(pend, e)
        /\ member[p].of # NoBridge
        /\ (\A q \in BrPorts \ {p} : member'[q] = member[q])
        /\ member' \in [BrPorts -> [of : Bridges \cup {NoBridge}, state : StpStates]]
        /\ member'[p].of = member[p].of /\ member'[p].state = s
    BY <1>0, <2>1 DEF StpTimer, BridgeTypes
  <2>3. e \in News /\ e[1] = p /\ e[2] = s
    BY DEF News
  <2> HIDE DEF e
  <2>4. pend \in Seq(News)
    BY <1>0 DEF BridgeTypes
  <2>5. /\ pend' \in Seq(News)
        /\ \A q \in BrPorts \ {p} : /\ NoNews(pend, q) => NoNews(pend', q)
                                    /\ \A t : Latest(pend', q, t) = Latest(pend, q, t)
        /\ \A t : Latest(pend', p, t) = s
    BY <2>2, <2>3, <2>4, LatestAppend
  <2>6. ASSUME NEW q \in BrPorts PROVE Follows(q)'
    <3>1. CASE q = p
      BY <1>0, <2>2, <2>5, <3>1 DEF Follows
    <3>2. CASE q # p
      BY <1>0, <2>2, <2>5, <3>2 DEF Follows
    <3> QED
      BY <3>1, <3>2
  <2>7. References'
    BY <1>0, <2>2, SameReferences
  <2> QED
    BY <1>0, <2>2, <2>5, <2>6, <2>7 DEF BridgeInv, BridgeTypes
<1> QED
  BY <1>1, <1>2, <1>3

(* A piece of news arrives. *)
LEMMA DeferredInv ==
  ASSUME BridgeInv, Deferred
  PROVE  BridgeInv'
<1>0. BridgeTypes /\ (\A q \in BrPorts : Follows(q)) /\ References
  BY DEF BridgeInv
<1> DEFINE h == Head(pend)
<1>1. /\ pend # <<>> /\ pend' = Tail(pend) /\ pend \in Seq(News) /\ h \in News
      /\ member' = member /\ shared' = shared /\ refused' = refused
      /\ dp' = [p \in BrPorts |-> dsa_user_port_attr_set(dp[p], h, p)]
  BY <1>0 DEF Deferred, BridgeTypes
<1> HIDE DEF h
<1>2. ASSUME NEW q \in BrPorts
      PROVE  /\ dp'[q] \in [up : BOOLEAN, stp : StpStates, bridge : Bridges \cup {NoBridge}]
             /\ dp'[q].bridge = dp[q].bridge /\ dp'[q].up = dp[q].up
             /\ dp[q].bridge = NoBridge \/ h[1] # q => dp'[q].stp = dp[q].stp
             /\ dp[q].bridge # NoBridge /\ h[1] = q => dp'[q].stp = h[2]
  <2>1. h[2] \in StpStates
    BY <1>1 DEF News
  <2> QED
    BY <1>0, <1>1, <2>1 DEF BridgeTypes, dsa_user_port_attr_set, dsa_port_set_state
<1>3. ASSUME NEW q \in BrPorts, NEW s
      PROVE  /\ h[1] = q => Latest(pend, q, s) = Latest(pend', q, h[2])
             /\ h[1] # q => Latest(pend, q, s) = Latest(pend', q, s)
             /\ NoNews(pend, q) => NoNews(pend', q)
  BY <1>1, LatestTail DEF h
<1>4. pend' \in Seq(News)
  BY <1>1, LatestTail
<1>5. ASSUME NEW q \in BrPorts PROVE Follows(q)'
  <2>1. CASE h[1] = q
    BY <1>0, <1>1, <1>2, <1>3, <2>1 DEF Follows
  <2>2. CASE h[1] # q
    BY <1>0, <1>1, <1>2, <1>3, <2>2 DEF Follows
  <2> QED
    BY <2>1, <2>2
<1>6. References'
  BY <1>0, <1>1, <1>2, SameReferences
<1>7. dp' \in [BrPorts -> [up : BOOLEAN, stp : StpStates, bridge : Bridges \cup {NoBridge}]]
  BY <1>1, <1>2
<1> QED
  BY <1>0, <1>1, <1>4, <1>5, <1>6, <1>7 DEF BridgeInv, BridgeTypes

LEMMA JoinInv ==
  ASSUME BridgeInv, NEW p \in BrPorts, NEW b \in Bridges, dsa_port_bridge_join(p, b)
  PROVE  BridgeInv'
<1> USE DEF dsa_port_set_state, dsa_port_switchdev_sync_attrs, dsa_port_bridge_create,
            dsa_port_bridge_destroy
<1>0. BridgeTypes /\ (\A q \in BrPorts : Follows(q)) /\ References
  BY DEF BridgeInv
<1>1. member[p].of = NoBridge /\ pend' = pend /\ pend \in Seq(News) /\ b # NoBridge
  BY <1>0, DsaBridgeAssumption DEF dsa_port_bridge_join, BridgeTypes
<1>2. dp[p].bridge = NoBridge /\ NoNews(pend, p) /\ member[p].state = "disabled"
  BY <1>0, <1>1 DEF Follows
<1>3. CASE /\ dp' = dp /\ member' = [member EXCEPT ![p].of = b] /\ shared' = shared
           /\ refused' = refused
  <2>1. \A q \in BrPorts : Follows(q)'
    BY <1>0, <1>1, <1>2, <1>3 DEF Follows, BridgeTypes
  <2>2. References'
    BY <1>0, <1>3, SameReferences
  <2> QED
    BY <1>0, <1>1, <1>3, <2>1, <2>2 DEF BridgeInv, BridgeTypes
<1>4. CASE /\ dp' = [dp EXCEPT ![p] = dsa_port_switchdev_sync_attrs(dsa_port_bridge_create(dp[p], b))]
           /\ member' = [member EXCEPT ![p].of = b] /\ shared' = refcount_inc(b)
           /\ refused' = refused \ {p}
  <2>1. /\ dp' \in [BrPorts -> [up : BOOLEAN, stp : StpStates, bridge : Bridges \cup {NoBridge}]]
        /\ (\A q \in BrPorts \ {p} : dp'[q] = dp[q] /\ member'[q] = member[q])
        /\ dp'[p].stp = "disabled" /\ dp'[p].bridge = b
        /\ member' \in [BrPorts -> [of : Bridges \cup {NoBridge}, state : StpStates]]
        /\ member'[p].of = b /\ member'[p].state = "disabled"
    <3> DEFINE T == [up : BOOLEAN, stp : StpStates, bridge : Bridges \cup {NoBridge}]
               M == [of : Bridges \cup {NoBridge}, state : StpStates]
               d == dsa_port_switchdev_sync_attrs(dsa_port_bridge_create(dp[p], b))
               m == [member[p] EXCEPT !.of = b]
    <3>1. dp \in [BrPorts -> T] /\ dp[p] \in T /\ member \in [BrPorts -> M] /\ member[p] \in M
      BY <1>0 DEF BridgeTypes
    <3>2. d \in T /\ d.stp = "disabled" /\ d.bridge = b
      BY <3>1 DEF StpStates
    <3>3. m \in M /\ m.of = b /\ m.state = member[p].state
      BY <3>1
    <3>4. dp' = [dp EXCEPT ![p] = d] /\ member' = [member EXCEPT ![p] = m]
      BY <1>4
    <3> HIDE DEF d, m, T, M
    <3>5. dp' \in [BrPorts -> T] /\ dp'[p] = d /\ \A q \in BrPorts \ {p} : dp'[q] = dp[q]
      BY <3>1, <3>2, <3>4
    <3>6. member' \in [BrPorts -> M] /\ member'[p] = m /\ \A q \in BrPorts \ {p} : member'[q] = member[q]
      BY <3>1, <3>3, <3>4
    <3>7. dp'[p].stp = "disabled" /\ dp'[p].bridge = b /\ member'[p].of = b /\ member'[p].state = "disabled"
      BY <1>2, <3>2, <3>3, <3>5, <3>6
    <3>8. (\A q \in BrPorts \ {p} : dp'[q] = dp[q] /\ member'[q] = member[q])
      BY <3>5, <3>6
    <3> QED
      BY <3>5, <3>6, <3>7, <3>8 DEF T, M
  <2>2. Latest(pend, p, "disabled") = "disabled"
    BY <1>1, <1>2, LatestIs
  <2>3. ASSUME NEW q \in BrPorts PROVE Follows(q)'
    <3>1. CASE q = p
      BY <1>1, <2>1, <2>2, <3>1 DEF Follows
    <3>2. CASE q # p
      BY <1>0, <1>1, <1>4, <2>1, <3>2 DEF Follows
    <3> QED
      BY <3>1, <3>2
  <2>4. \A c \in Bridges : /\ c # b => On(c)' = On(c)
                           /\ c = b => On(c)' = On(c) \cup {p}
    BY <1>1, <1>2, <2>1, DsaBridgeAssumption DEF On
  <2>5. p \notin On(b) /\ IsFiniteSet(On(b))
    BY <1>1, <1>2, DsaBridgeAssumption, FS_Subset DEF On
  <2>6. Cardinality(On(b) \cup {p}) = Cardinality(On(b)) + 1
    BY <2>5, FS_AddElement
  <2>7. /\ shared' \in [Bridges -> Nat] /\ shared'[b] = shared[b] + 1
        /\ \A c \in Bridges \ {b} : shared'[c] = shared[c]
    BY <1>0, <1>4 DEF refcount_inc, BridgeTypes
  <2>8. References'
    BY <1>0, <2>4, <2>6, <2>7 DEF References
  <2> QED
    BY <1>1, <2>1, <2>3, <2>7, <2>8 DEF BridgeInv, BridgeTypes
<1>5. CASE /\ dp' = [dp EXCEPT ![p] = dsa_port_bridge_destroy(
                        dsa_port_switchdev_sync_attrs(dsa_port_bridge_create(dp[p], b)))]
           /\ refused' = refused \cup {p} /\ member' = member /\ shared' = shared
  <2>1. /\ dp' \in [BrPorts -> [up : BOOLEAN, stp : StpStates, bridge : Bridges \cup {NoBridge}]]
        /\ (\A q \in BrPorts \ {p} : dp'[q] = dp[q])
        /\ dp'[p].bridge = NoBridge
    <3> DEFINE d == dsa_port_switchdev_sync_attrs(dsa_port_bridge_create(dp[p], b))
               T == [up : BOOLEAN, stp : StpStates, bridge : Bridges \cup {NoBridge}]
    <3>1. dp \in [BrPorts -> T] /\ dp[p] \in T
      BY <1>0 DEF BridgeTypes
    <3>2. d \in T
      BY <3>1 DEF StpStates
    <3>3. dp' = [dp EXCEPT ![p] = dsa_port_bridge_destroy(d)]
      BY <1>5
    <3> HIDE DEF d
    <3>4. dsa_port_bridge_destroy(d) \in T /\ dsa_port_bridge_destroy(d).bridge = NoBridge
      BY <3>2
    <3> HIDE DEF T, dsa_port_bridge_destroy
    <3>5. dp' \in [BrPorts -> T] /\ (\A q \in BrPorts \ {p} : dp'[q] = dp[q])
          /\ dp'[p].bridge = NoBridge
      BY <3>1, <3>3, <3>4
    <3> QED
      BY <3>5 DEF T
  <2>2. ASSUME NEW q \in BrPorts PROVE Follows(q)'
    BY <1>0, <1>1, <1>5, <2>1 DEF Follows
  <2>3. References'
    BY <1>0, <1>2, <1>5, <2>1, SameReferences
  <2> QED
    BY <1>0, <1>1, <1>5, <2>1, <2>2, <2>3 DEF BridgeInv, BridgeTypes
<1>6. \/ /\ dp' = IF b \in MstBridges THEN dp
                  ELSE [dp EXCEPT ![p] = dsa_port_switchdev_sync_attrs(dsa_port_bridge_create(dp[p], b))]
         /\ member' = [member EXCEPT ![p].of = b]
         /\ shared' = IF b \in MstBridges THEN shared ELSE refcount_inc(b)
         /\ refused' = IF b \in MstBridges THEN refused ELSE refused \ {p}
      \/ /\ dp' = [dp EXCEPT ![p] = dsa_port_bridge_destroy(
                        dsa_port_switchdev_sync_attrs(dsa_port_bridge_create(dp[p], b)))]
         /\ refused' = refused \cup {p} /\ member' = member /\ shared' = shared
  BY Zenon DEF dsa_port_bridge_join
<1> HIDE DEF dsa_port_set_state, dsa_port_switchdev_sync_attrs, dsa_port_bridge_create,
             dsa_port_bridge_destroy
<1> QED
  BY <1>3, <1>4, <1>5, <1>6

(* The queue is worked off, news for other ports included. *)
LEMMA AttrSetAllIs ==
  ASSUME NEW d \in [up : BOOLEAN, stp : StpStates, bridge : Bridges \cup {NoBridge}],
         NEW q \in Seq(News), NEW p, NEW r, r = AttrSetAll(d, q, p)
  PROVE  /\ r \in [up : BOOLEAN, stp : StpStates, bridge : Bridges \cup {NoBridge}]
         /\ r.up = d.up /\ r.bridge = d.bridge
         /\ d.bridge # NoBridge => r.stp = Latest(q, p, d.stp)
         /\ d.bridge = NoBridge => r = d
<1>1. Latest(q, p, d.stp) \in StpStates
  <2>1. CASE NoNews(q, p)
    BY <2>1, LatestIs
  <2>2. CASE \E k : Newest(q, p, k)
    <3>1. PICK k : Newest(q, p, k)
      BY <2>2
    <3>2. Latest(q, p, d.stp) = q[k][2] /\ k \in 1 .. Len(q)
      BY <3>1, LatestIs DEF Newest
    <3>3. q[k] \in News
      BY <3>2
    <3> QED
      BY <3>2, <3>3 DEF News
  <2> QED
    BY <2>1, <2>2, NewestOrNone
<1> QED
  BY <1>1 DEF AttrSetAll, dsa_port_set_state

LEMMA LeaveInv ==
  ASSUME BridgeInv, NEW p \in BrPorts, LeaveBridge(p)
  PROVE  BridgeInv'
<1> DEFINE T == [up : BOOLEAN, stp : StpStates, bridge : Bridges \cup {NoBridge}]
           e == <<p, "disabled">>
           all == IF member[p].state = "disabled" THEN pend ELSE Append(pend, e)
           heard(q) == AttrSetAll(dp[q], all, q)
<1>0. BridgeTypes /\ (\A q \in BrPorts : Follows(q)) /\ References
  BY DEF BridgeInv
<1>1. /\ member' = [member EXCEPT ![p] = Standalone] /\ pend' = <<>> /\ refused' = refused
      /\ dp' = [q \in BrPorts |-> IF q = p THEN dsa_port_bridge_leave(heard(q)) ELSE heard(q)]
      /\ shared' = refcount_dec(dp[p].bridge)
  BY DEF LeaveBridge
<1>2. e \in News /\ e[1] = p /\ e[2] = "disabled"
  BY DEF News, StpStates
<1> HIDE DEF e
<1>3. /\ all \in Seq(News)
      /\ \A q \in BrPorts \ {p} : \A s : Latest(all, q, s) = Latest(pend, q, s)
  <2>1. pend \in Seq(News)
    BY <1>0 DEF BridgeTypes
  <2>2. CASE member[p].state = "disabled"
    BY <2>1, <2>2
  <2>3. CASE member[p].state # "disabled"
    BY <1>2, <2>1, <2>3, LatestAppend
  <2> QED
    BY <2>2, <2>3
<1> HIDE DEF all
<1>4. ASSUME NEW q \in BrPorts
      PROVE  /\ heard(q) \in T /\ heard(q).up = dp[q].up /\ heard(q).bridge = dp[q].bridge
             /\ dp[q].bridge # NoBridge => heard(q).stp = Latest(all, q, dp[q].stp)
             /\ dp[q].bridge = NoBridge => heard(q) = dp[q]
  <2>1. dp[q] \in T
    BY <1>0 DEF BridgeTypes
  <2> QED
    BY <1>3, <2>1, AttrSetAllIs
<1> HIDE DEF heard
<1>5. /\ \A q \in BrPorts \ {p} : dp'[q] = heard(q)
      /\ dp'[p] = dsa_port_bridge_leave(heard(p))
  BY <1>1
<1>6. /\ dp'[p] \in T /\ dp'[p].bridge = NoBridge /\ dp'[p].up = dp[p].up
      /\ dp[p].bridge # NoBridge => dp'[p].stp = "forwarding"
      /\ dp[p].bridge = NoBridge => dp'[p] = dp[p]
  BY <1>4, <1>5 DEF dsa_port_bridge_leave, dsa_port_switchdev_unsync_attrs,
                    dsa_port_bridge_destroy, dsa_port_set_state, StpStates
<1>7. dp' \in [BrPorts -> T]
  <2>1. \A q \in BrPorts : dp'[q] \in T
    BY <1>4, <1>5, <1>6
  <2> HIDE DEF T
  <2> QED
    BY <1>1, <2>1
<1>8. /\ (\A q \in BrPorts \ {p} : member'[q] = member[q]) /\ member'[p].of = NoBridge
      /\ member'[p].state = "disabled"
      /\ member' \in [BrPorts -> [of : Bridges \cup {NoBridge}, state : StpStates]]
  BY <1>0, <1>1 DEF BridgeTypes, Standalone, StpStates
<1>9. \A q, s : NoNews(<<>>, q) /\ Latest(<<>>, q, s) = s
  <2>1. \A q : NoNews(<<>>, q)
    BY DEF NoNews
  <2>2. <<>> \in Seq(News)
    OBVIOUS
  <2> QED
    BY <2>1, <2>2, LatestIs, Zenon
<1>10. ASSUME NEW q \in BrPorts PROVE Follows(q)'
  <2>1. CASE q = p
    BY <1>0, <1>1, <1>6, <1>8, <1>9, <2>1 DEF Follows
  <2>2. CASE q # p
    <3>1. dp'[q] = heard(q) /\ member'[q] = member[q]
      BY <1>5, <1>8, <2>2
    <3>2. dp[q].bridge # NoBridge => dp'[q].stp = member[q].state
      BY <1>0, <1>3, <1>4, <2>2, <3>1 DEF Follows
    <3> QED
      BY <1>0, <1>1, <1>4, <1>9, <3>1, <3>2 DEF Follows
  <2> QED
    BY <2>1, <2>2
<1>11. References' /\ shared' \in [Bridges -> Nat]
  <2>1. \A q \in BrPorts \ {p} : dp'[q].bridge = dp[q].bridge
    BY <1>4, <1>5
  <2>2. CASE dp[p].bridge = NoBridge
    <3>1. \A q \in BrPorts : dp'[q].bridge = dp[q].bridge
      BY <1>6, <2>1, <2>2
    <3>2. shared' = shared
      BY <1>1, <2>2 DEF refcount_dec
    <3> QED
      BY <1>0, <3>1, <3>2, SameReferences DEF BridgeTypes
  <2>3. CASE dp[p].bridge # NoBridge
    <3> DEFINE b == dp[p].bridge
    <3>1. b \in Bridges
      BY <1>0, <2>3 DEF BridgeTypes
    <3>2. \A c \in Bridges : /\ c # b => On(c)' = On(c)
                             /\ c = b => On(c)' = On(c) \ {p}
      BY <1>6, <2>1, DsaBridgeAssumption DEF On
    <3>3. p \in On(b) /\ IsFiniteSet(On(b))
      BY DsaBridgeAssumption, FS_Subset DEF On
    <3>4. Cardinality(On(b) \ {p}) = Cardinality(On(b)) - 1 /\ Cardinality(On(b)) # 0
          /\ Cardinality(On(b)) \in Nat
      BY <3>3, FS_RemoveElement, FS_EmptySet, FS_CardinalityType
    <3>5. shared' = [shared EXCEPT ![b] = @ - 1]
      BY <1>1, <2>3 DEF refcount_dec
    <3>6. shared[b] = Cardinality(On(b)) /\ shared \in [Bridges -> Nat]
      BY <1>0, <3>1 DEF References, BridgeTypes
    <3> HIDE DEF b
    <3>7. /\ shared' \in [Bridges -> Nat] /\ shared'[b] = shared[b] - 1
          /\ \A c \in Bridges \ {b} : shared'[c] = shared[c]
      BY <3>1, <3>4, <3>5, <3>6
    <3> QED
      BY <1>0, <3>2, <3>4, <3>6, <3>7 DEF References
  <2> QED
    BY <2>2, <2>3
<1>12. pend' \in Seq(News)
  BY <1>1
<1> QED
  BY <1>7, <1>8, <1>10, <1>11, <1>12 DEF BridgeInv, BridgeTypes

LEMMA BridgeStepInv == BridgeInv /\ [BridgeNext]_bridgeVars => BridgeInv'
<1> SUFFICES ASSUME BridgeInv, [BridgeNext]_bridgeVars PROVE BridgeInv'
  OBVIOUS
<1>1. CASE UNCHANGED bridgeVars
  BY <1>1 DEF bridgeVars, BridgeInv, BridgeTypes, Follows, References, On
<1>2. CASE BridgeNext
  BY <1>2, PortStepInv, DeferredInv, JoinInv, LeaveInv DEF BridgeNext
<1> QED
  BY <1>1, <1>2

(* A port that offloads a bridge is in the state the bridge has for it once *)
(* the news under way has arrived, no news outlives the membership, a port  *)
(* on its own forwards while it is open unless a join was refused late, and *)
(* a dsa_bridge has as many references as ports (dsa_port_bridge_join,      *)
(* _leave, dsa_port_enable_rt, dsa_user_port_attr_set), for any number of   *)
(* ports and bridges and any queue.                                         *)
THEOREM PortsFollow == BridgeSpec => []PortFollowsBridge
<1>1. BridgeInv => PortFollowsBridge
  BY DEF BridgeInv, PortFollowsBridge, Follows, References, On, NoNews
<1> QED
  BY <1>1, BridgeInitInv, BridgeStepInv, PTL DEF BridgeSpec
-----------------------------------------------------------------------------
(***************************************************************************)
(* SdsaTag.  A buffer is read byte by byte: what the operations on it      *)
(* leave at every offset.                                                  *)
(***************************************************************************)
Bytes == Seq(Nat)
Skbs  == [buf : Bytes, data : Nat]

(* r is s followed by t. *)
Joined(r, s, t) ==
  /\ r \in Bytes /\ Len(r) = Len(s) + Len(t)
  /\ \A k \in 1 .. Len(s) : r[k] = s[k]
  /\ \A k \in 1 .. Len(t) : r[Len(s) + k] = t[k]

LEMMA CatIs ==
  ASSUME NEW s \in Bytes, NEW t \in Bytes
  PROVE  Joined(s \o t, s, t)
<1>1. /\ s \o t \in Bytes
      /\ Len(s \o t) = Len(s) + Len(t)
      /\ \A k \in 1 .. Len(s) + Len(t) :
            (s \o t)[k] = IF k <= Len(s) THEN s[k] ELSE t[k - Len(s)]
  BY ConcatProperties DEF Bytes
<1>2. Len(s) \in Nat /\ Len(t) \in Nat
  BY DEF Bytes
<1>3. ASSUME NEW k \in 1 .. Len(s)
      PROVE  (s \o t)[k] = s[k]
  BY <1>1, <1>2
<1>4. ASSUME NEW k \in 1 .. Len(t)
      PROVE  (s \o t)[Len(s) + k] = t[k]
  <2>1. Len(s) + k \in 1 .. Len(s) + Len(t) /\ ~(Len(s) + k <= Len(s)) /\ (Len(s) + k) - Len(s) = k
    BY <1>2
  <2> QED
    BY <1>1, <2>1
<1> QED
  BY <1>1, <1>3, <1>4 DEF Joined

LEMMA SubSeqIs ==
  ASSUME NEW s \in Bytes, NEW m \in 1 .. Len(s) + 1, NEW n \in 0 .. Len(s), m <= n + 1
  PROVE  /\ SubSeq(s, m, n) \in Bytes
         /\ Len(SubSeq(s, m, n)) = n - m + 1
         /\ \A k \in 1 .. n - m + 1 : SubSeq(s, m, n)[k] = s[m + k - 1]
<1>1. Len(s) \in Nat /\ m \in Int /\ n \in Int
  BY DEF Bytes
<1>2. \A k \in m .. n : s[k] \in Nat
  BY <1>1, ElementOfSeq DEF Bytes
<1>3. /\ SubSeq(s, m, n) \in Bytes
      /\ Len(SubSeq(s, m, n)) = IF m <= n THEN n - m + 1 ELSE 0
      /\ \A k \in 1 .. n - m + 1 : SubSeq(s, m, n)[k] = s[m + k - 1]
  BY <1>1, <1>2, SubSeqProperties DEF Bytes
<1> QED
  BY <1>1, <1>3

(* Two byte strings are equal when all their bytes are. *)
LEMMA SameBytes ==
  ASSUME NEW s \in Bytes, NEW t \in Bytes, Len(s) = Len(t),
         \A k \in 1 .. Len(s) : s[k] = t[k]
  PROVE  s = t
BY SeqEqual DEF Bytes

(* r is s with the bytes written at offset o. *)
Written(r, s, o, bytes) ==
  /\ r \in Skbs /\ r.data = s.data /\ Len(r.buf) = Len(s.buf)
  /\ \A k \in 1 .. Len(s.buf) :
        r.buf[k] = IF s.data + o < k /\ k <= s.data + o + Len(bytes)
                   THEN bytes[k - (s.data + o)] ELSE s.buf[k]

LEMMA PutIs ==
  ASSUME NEW s \in Skbs, NEW o \in Nat, NEW bytes \in Bytes
  PROVE  Written(Put(s, o, bytes), s, o, bytes)
<1>1. s.buf \in Bytes /\ s.data \in Nat /\ s = [buf |-> s.buf, data |-> s.data]
  BY DEF Skbs
<1>2. Len(s.buf) \in Nat /\ DOMAIN s.buf = 1 .. Len(s.buf) /\ Len(bytes) \in Nat
      /\ DOMAIN bytes = 1 .. Len(bytes)
  BY <1>1 DEF Bytes
<1> DEFINE b == [k \in 1 .. Len(s.buf) |->
                   IF k - (s.data + o) \in 1 .. Len(bytes) THEN bytes[k - (s.data + o)] ELSE s.buf[k]]
<1>3. Put(s, o, bytes) = [buf |-> b, data |-> s.data]
  BY <1>1, <1>2, SMTT(40) DEF Put
<1>4. ASSUME NEW k \in 1 .. Len(s.buf)
      PROVE  b[k] = IF s.data + o < k /\ k <= s.data + o + Len(bytes)
                    THEN bytes[k - (s.data + o)] ELSE s.buf[k]
  BY <1>1, <1>2
<1>5. ASSUME NEW k \in 1 .. Len(s.buf)
      PROVE  b[k] \in Nat
  <2>1. s.buf[k] \in Nat
    BY <1>1, <1>2, ElementOfSeq DEF Bytes
  <2>2. \A m \in 1 .. Len(bytes) : bytes[m] \in Nat
    BY <1>2, ElementOfSeq DEF Bytes
  <2> QED
    BY <2>1, <2>2
<1>6. b \in Bytes /\ Len(b) = Len(s.buf)
  <2>1. b \in [1 .. Len(s.buf) -> Nat]
    BY <1>5
  <2> HIDE DEF b
  <2> QED
    BY <2>1, <1>2 DEF Bytes
<1> HIDE DEF b
<1> QED
  BY <1>1, <1>3, <1>4, <1>6 DEF Skbs, Written

LEMMA BytesOf ==
  ASSUME NEW n \in Nat, NEW z \in [1 .. n -> Nat]
  PROVE  z \in Bytes /\ Len(z) = n
BY DEF Bytes

(* r is s with n bytes moved; memmove reads the buffer as it was before. *)
Moved(r, s, to, from, back, n) ==
  /\ r \in Skbs /\ r.data = s.data /\ Len(r.buf) = Len(s.buf)
  /\ \A k \in 1 .. Len(s.buf) :
        r.buf[k] = IF s.data - back + to < k /\ k <= s.data - back + to + n
                   THEN s.buf[k - to + from] ELSE s.buf[k]

LEMMA MoveIs ==
  ASSUME NEW s \in Skbs, NEW to \in Nat, NEW from \in Nat, NEW back \in Nat, NEW n \in Nat,
         back <= s.data, s.data - back + from + n <= Len(s.buf)
  PROVE  Moved(memmove(s, to, from, back, n), s, to, from, back, n)
<1>1. s.buf \in Bytes /\ s.data \in Nat /\ s = [buf |-> s.buf, data |-> s.data]
      /\ Len(s.buf) \in Nat
  BY DEF Skbs, Bytes
<1> DEFINE base  == [s EXCEPT !.data = @ - back]
           piece == [k \in 1 .. n |-> ByteAt(base, from + k - 1)]
           r     == Put(base, to, piece)
<1>2. base = [buf |-> s.buf, data |-> s.data - back] /\ s.data - back \in Nat
  BY <1>1
<1>3. base \in Skbs /\ base.buf = s.buf /\ base.data = s.data - back
  BY <1>1, <1>2 DEF Skbs
<1>4. memmove(s, to, from, back, n) = [r EXCEPT !.data = s.data]
  BY DEF memmove
<1> HIDE DEF base
<1>5. \A k \in 1 .. n : piece[k] = s.buf[s.data - back + from + k]
  <2>1. ASSUME NEW k \in 1 .. n
        PROVE  base.data + (from + k - 1) + 1 = s.data - back + from + k
    BY <1>1, <1>3
  <2> QED
    BY <1>3, <2>1 DEF ByteAt
<1>6. piece \in Bytes /\ Len(piece) = n
  <2>1. ASSUME NEW k \in 1 .. n
        PROVE  piece[k] \in Nat
    <3>1. s.data - back + from + k \in 1 .. Len(s.buf)
      BY <1>1
    <3> HIDE DEF piece
    <3> QED
      BY <1>1, <1>5, <3>1, ElementOfSeq DEF Bytes
  <2>2. piece \in [1 .. n -> Nat]
    BY <2>1
  <2> HIDE DEF piece
  <2> QED
    BY <2>2 DEF Bytes
<1> HIDE DEF piece
<1>7. /\ r \in Skbs
      /\ Len(r.buf) = Len(s.buf)
      /\ \A k \in 1 .. Len(s.buf) :
            r.buf[k] = IF s.data - back + to < k /\ k <= s.data - back + to + n
                       THEN piece[k - (s.data - back + to)] ELSE s.buf[k]
  <2>1. /\ r \in Skbs
        /\ Len(r.buf) = Len(base.buf)
        /\ \A k \in 1 .. Len(base.buf) :
              r.buf[k] = IF base.data + to < k /\ k <= base.data + to + Len(piece)
                         THEN piece[k - (base.data + to)] ELSE base.buf[k]
    BY <1>3, <1>6, PutIs DEF Written
  <2> HIDE DEF r
  <2> QED
    BY <1>3, <1>6, <2>1
<1> HIDE DEF r
<1>8. [r EXCEPT !.data = s.data] = [buf |-> r.buf, data |-> s.data] /\ r.buf \in Bytes
  <2>1. r.buf \in Bytes /\ r = [buf |-> r.buf, data |-> r.data]
    BY <1>7 DEF Skbs
  <2> QED
    BY <2>1
<1>9. ASSUME NEW k \in 1 .. Len(s.buf)
      PROVE  r.buf[k] = IF s.data - back + to < k /\ k <= s.data - back + to + n
                        THEN s.buf[k - to + from] ELSE s.buf[k]
  <2>1. CASE s.data - back + to < k /\ k <= s.data - back + to + n
    <3>1. k - (s.data - back + to) \in 1 .. n
      BY <1>1, <2>1
    <3>2. s.data - back + from + (k - (s.data - back + to)) = k - to + from
      BY <1>1
    <3> QED
      BY <1>5, <1>7, <2>1, <3>1, <3>2
  <2>2. CASE ~(s.data - back + to < k /\ k <= s.data - back + to + n)
    BY <1>7, <2>2
  <2> QED
    BY <2>1, <2>2
<1>10. /\ memmove(s, to, from, back, n).buf = r.buf
       /\ memmove(s, to, from, back, n).data = s.data
       /\ memmove(s, to, from, back, n) \in Skbs
  BY <1>1, <1>4, <1>8 DEF Skbs
<1> QED
  BY <1>7, <1>9, <1>10 DEF Moved

LEMMA PushIs ==
  ASSUME NEW s \in Skbs, NEW n \in Nat
  PROVE  /\ n <= s.data => skb_push(s, n) = [buf |-> s.buf, data |-> s.data - n]
                           /\ skb_push(s, n) \in Skbs
         /\ skb_pull(s, n) = [buf |-> s.buf, data |-> s.data + n] /\ skb_pull(s, n) \in Skbs
<1>1. s.buf \in Bytes /\ s.data \in Nat /\ s = [buf |-> s.buf, data |-> s.data]
  BY DEF Skbs
<1>2. s.data + n \in Nat /\ (n <= s.data => s.data - n \in Nat)
  BY <1>1
<1> QED
  BY <1>1, <1>2 DEF Skbs, skb_push, skb_pull

LEMMA DataIs ==
  ASSUME NEW s \in Skbs, s.data <= Len(s.buf)
  PROVE  /\ Data(s) \in Bytes
         /\ Len(Data(s)) = Len(s.buf) - s.data
         /\ \A k \in 1 .. Len(s.buf) - s.data : Data(s)[k] = s.buf[s.data + k]
<1>1. s.buf \in Bytes /\ s.data \in Nat /\ Len(s.buf) \in Nat
  BY DEF Skbs, Bytes
<1> DEFINE m == s.data + 1
           n == Len(s.buf)
<1>2. m \in 1 .. Len(s.buf) + 1 /\ n \in 0 .. Len(s.buf) /\ m <= n + 1
      /\ n - m + 1 = Len(s.buf) - s.data
  BY <1>1
<1>3. \A k \in 1 .. Len(s.buf) - s.data : m + k - 1 = s.data + k
  BY <1>1
<1>4. Data(s) = SubSeq(s.buf, m, n)
  BY DEF Data
<1> HIDE DEF m, n
<1>5. /\ SubSeq(s.buf, m, n) \in Bytes
      /\ Len(SubSeq(s.buf, m, n)) = n - m + 1
      /\ \A k \in 1 .. n - m + 1 : SubSeq(s.buf, m, n)[k] = s.buf[m + k - 1]
  BY <1>1, <1>2, SubSeqIs
<1> QED
  BY <1>2, <1>3, <1>4, <1>5

LEMMA BufferIs ==
  ASSUME NEW f \in Bytes
  PROVE  /\ Buffer(f) \in Skbs /\ Buffer(f).data = 16
         /\ Len(Buffer(f).buf) = 16 + Len(f)
         /\ \A k \in 1 .. Len(f) : Buffer(f).buf[16 + k] = f[k]
         /\ Data(Buffer(f)) = f
<1> DEFINE z == [k \in 1 .. 16 |-> 0]
<1>1. z \in Bytes /\ Len(z) = 16
  <2>1. z \in [1 .. 16 -> Nat] /\ 16 \in Nat
    OBVIOUS
  <2> HIDE DEF z
  <2> QED
    BY <2>1, BytesOf
<1>2. Buffer(f) = [buf |-> z \o f, data |-> 16]
  BY DEF Buffer
<1> HIDE DEF z
<1>3. /\ z \o f \in Bytes
      /\ Len(z \o f) = 16 + Len(f)
      /\ \A k \in 1 .. Len(f) : (z \o f)[16 + k] = f[k]
  <2>1. Joined(z \o f, z, f)
    BY <1>1, CatIs, Zenon
  <2> QED
    BY <1>1, <2>1, Zenon DEF Joined
<1>4. /\ Buffer(f) \in Skbs /\ Buffer(f).data = 16
      /\ Len(Buffer(f).buf) = 16 + Len(f)
      /\ \A k \in 1 .. Len(f) : Buffer(f).buf[16 + k] = f[k]
  BY <1>2, <1>3 DEF Skbs
<1>5. Len(f) \in Nat /\ 16 <= 16 + Len(f) /\ (16 + Len(f)) - 16 = Len(f)
  BY DEF Bytes
<1>6. /\ Data(Buffer(f)) \in Bytes /\ Len(Data(Buffer(f))) = Len(f)
      /\ \A k \in 1 .. Len(f) : Data(Buffer(f))[k] = Buffer(f).buf[16 + k]
  <2> DEFINE e == Buffer(f)
  <2>1. e \in Skbs /\ e.data <= Len(e.buf) /\ e.data = 16 /\ Len(e.buf) - e.data = Len(f)
    BY <1>4, <1>5
  <2> HIDE DEF e
  <2>2. /\ Data(e) \in Bytes /\ Len(Data(e)) = Len(f)
        /\ \A k \in 1 .. Len(f) : Data(e)[k] = e.buf[16 + k]
    BY <2>1, DataIs
  <2> QED
    BY <2>2 DEF e
<1>7. Data(Buffer(f)) = f
  BY <1>4, <1>6, SameBytes
<1> QED
  BY <1>4, <1>7

(* sdsa_xmit: room for n bytes is made behind the addresses, and the tag   *)
(* put there.                                                              *)
WithTag(d, f, n, tag) ==
  /\ d \in Bytes /\ Len(d) = Len(f) + n
  /\ \A k \in 1 .. 12 : d[k] = f[k]
  /\ \A k \in 1 .. Len(tag) : d[12 + k] = tag[k]
  /\ \A k \in 13 + Len(tag) .. Len(f) + n : d[k] = f[k - n]

LEMMA TaggedIs ==
  ASSUME NEW f \in Bytes, NEW n \in 0 .. 16, NEW tag \in Bytes,
         Len(f) >= 12, n <= 12 + Len(tag), Len(tag) <= Len(f) - 12 + n,
         NEW d, d = Data(Put(memmove(skb_push(Buffer(f), n), 0, n, 0, 12), 12, tag))
  PROVE  WithTag(d, f, n, tag)
<1> DEFINE z  == 0
           a  == 12
           s0 == Buffer(f)
           s1 == skb_push(s0, n)
           s2 == memmove(s1, z, n, z, a)
           s3 == Put(s2, a, tag)
<1>1. Len(f) \in Nat /\ Len(tag) \in Nat /\ n \in Nat
  BY DEF Bytes
<1>2. /\ s0 \in Skbs /\ s0.data = 16 /\ Len(s0.buf) = 16 + Len(f)
      /\ \A k \in 1 .. Len(f) : s0.buf[16 + k] = f[k]
  BY BufferIs
<1>d. d = Data(s3)
  OBVIOUS
<1>a. z \in Nat /\ a \in Nat /\ z = 0 /\ a = 12
  OBVIOUS
<1> HIDE DEF s0, a, z
<1>3. s1 \in Skbs /\ s1.data = 16 - n /\ s1.buf = s0.buf
  <2>1. n <= s0.data
    BY <1>1, <1>2
  <2>2. s1 = [buf |-> s0.buf, data |-> s0.data - n] /\ s1 \in Skbs
    BY <1>1, <1>2, <2>1, PushIs
  <2> QED
    BY <1>2, <2>2
<1> HIDE DEF s1
<1>4. /\ s2 \in Skbs /\ s2.data = 16 - n /\ Len(s2.buf) = 16 + Len(f)
      /\ \A k \in 1 .. 16 + Len(f) :
            s2.buf[k] = IF 16 - n < k /\ k <= 28 - n THEN s0.buf[k + n] ELSE s0.buf[k]
  <2>1. z <= s1.data /\ s1.data - z + n + a <= Len(s1.buf)
    BY <1>a, <1>1, <1>2, <1>3
  <2>2. /\ s2 \in Skbs /\ s2.data = s1.data /\ Len(s2.buf) = Len(s1.buf)
        /\ \A k \in 1 .. Len(s1.buf) :
              s2.buf[k] = IF s1.data - z + z < k /\ k <= s1.data - z + z + a
                          THEN s1.buf[k - z + n] ELSE s1.buf[k]
    <3>1. Moved(s2, s1, z, n, z, a)
      BY <1>a, <1>1, <1>3, <2>1, MoveIs, Zenon
    <3> QED
      BY <3>1, Zenon DEF Moved
  <2> HIDE DEF s2
  <2>3. s1.data - z + z = 16 - n /\ s1.data - z + z + a = 28 - n /\ Len(s1.buf) = 16 + Len(f)
    BY <1>a, <1>1, <1>2, <1>3
  <2>4. ASSUME NEW k \in 1 .. 16 + Len(f)
        PROVE  s2.buf[k] = IF 16 - n < k /\ k <= 28 - n THEN s0.buf[k + n] ELSE s0.buf[k]
    <3>1. k - z + n = k + n
      BY <1>a, <1>1
    <3> QED
      BY <1>3, <2>2, <2>3, <3>1, Zenon
  <2> QED
    BY <1>3, <2>2, <2>3, <2>4
<1> HIDE DEF s2
<1>5. /\ s3 \in Skbs /\ s3.data = 16 - n /\ Len(s3.buf) = 16 + Len(f)
      /\ \A k \in 1 .. 16 + Len(f) :
            s3.buf[k] = IF 28 - n < k /\ k <= 28 - n + Len(tag)
                        THEN tag[k - (28 - n)] ELSE s2.buf[k]
  <2>1. /\ s3 \in Skbs /\ s3.data = s2.data /\ Len(s3.buf) = Len(s2.buf)
        /\ \A k \in 1 .. Len(s2.buf) :
              s3.buf[k] = IF s2.data + a < k /\ k <= s2.data + a + Len(tag)
                          THEN tag[k - (s2.data + a)] ELSE s2.buf[k]
    <3>1. Written(s3, s2, a, tag)
      BY <1>a, <1>4, PutIs, Zenon
    <3> QED
      BY <3>1, Zenon DEF Written
  <2> HIDE DEF s3
  <2>2. s2.data + a = 28 - n
    BY <1>a, <1>1, <1>4
  <2> QED
    BY <1>4, <2>1, <2>2
<1> HIDE DEF s3
<1>6. /\ d \in Bytes /\ Len(d) = Len(f) + n
      /\ \A k \in 1 .. Len(f) + n : d[k] = s3.buf[16 - n + k]
  <2>1. s3.data <= Len(s3.buf) /\ Len(s3.buf) - s3.data = Len(f) + n
    BY <1>1, <1>5
  <2>2. /\ Data(s3) \in Bytes
        /\ Len(Data(s3)) = Len(s3.buf) - s3.data
        /\ \A k \in 1 .. Len(s3.buf) - s3.data : Data(s3)[k] = s3.buf[s3.data + k]
    BY <1>5, <2>1, DataIs
  <2> QED
    BY <1>d, <1>5, <2>1, <2>2
<1>7. ASSUME NEW k \in 1 .. 12
      PROVE  d[k] = f[k]
  <2>1. k \in 1 .. Len(f) + n /\ k \in 1 .. Len(f) /\ 16 - n + k \in 1 .. 16 + Len(f)
        /\ ~(28 - n < 16 - n + k) /\ 16 - n < 16 - n + k /\ 16 - n + k <= 28 - n
        /\ (16 - n + k) + n = 16 + k
    BY <1>1
  <2>2. d[k] = s3.buf[16 - n + k] /\ s0.buf[16 + k] = f[k]
    BY <1>2, <1>6, <2>1
  <2>3. s3.buf[16 - n + k] = s2.buf[16 - n + k]
    BY <1>5, <2>1, Zenon
  <2>4. s2.buf[16 - n + k] = s0.buf[16 + k]
    BY <1>4, <2>1, Zenon
  <2> QED
    BY <2>2, <2>3, <2>4
<1>8. ASSUME NEW k \in 1 .. Len(tag)
      PROVE  d[12 + k] = tag[k]
  <2>1. 12 + k \in 1 .. Len(f) + n /\ 16 - n + (12 + k) \in 1 .. 16 + Len(f)
        /\ 28 - n < 16 - n + (12 + k) /\ 16 - n + (12 + k) <= 28 - n + Len(tag)
        /\ (16 - n + (12 + k)) - (28 - n) = k
    BY <1>1
  <2> QED
    BY <1>5, <1>6, <2>1
<1>9. ASSUME NEW k \in 13 + Len(tag) .. Len(f) + n
      PROVE  d[k] = f[k - n]
  <2>1. k \in 1 .. Len(f) + n /\ 16 - n + k \in 1 .. 16 + Len(f)
        /\ ~(16 - n + k <= 28 - n + Len(tag)) /\ ~(16 - n + k <= 28 - n)
        /\ k - n \in 1 .. Len(f) /\ 16 - n + k = 16 + (k - n)
    BY <1>1
  <2>2. d[k] = s0.buf[16 - n + k]
    BY <1>4, <1>5, <1>6, <2>1
  <2> QED
    BY <1>2, <2>1, <2>2
<1> QED
  BY <1>6, <1>7, <1>8, <1>9 DEF WithTag

(* The ethertype of a frame. *)
LEMMA EthertypeIs ==
  ASSUME NEW f \in Bytes, Len(f) >= 14, NEW x \in Nat, NEW y \in Nat
  PROVE  SubSeq(f, 13, 14) = <<x, y>> <=> f[13] = x /\ f[14] = y
<1> DEFINE t == SubSeq(f, 13, 14)
<1>1. /\ t \in Bytes /\ Len(t) = 2 /\ t[1] = f[13] /\ t[2] = f[14]
  <2>1. Len(f) \in Nat
    BY DEF Bytes
  <2>2. 13 \in 1 .. Len(f) + 1 /\ 14 \in 0 .. Len(f) /\ 13 <= 14 + 1
    BY <2>1
  <2>3. /\ t \in Bytes /\ Len(t) = 14 - 13 + 1
        /\ \A k \in 1 .. 14 - 13 + 1 : t[k] = f[13 + k - 1]
    BY <2>2, SubSeqIs
  <2> HIDE DEF t
  <2> QED
    BY <2>3
<1> HIDE DEF t
<1>2. <<x, y>> \in Bytes /\ Len(<<x, y>>) = 2 /\ <<x, y>>[1] = x /\ <<x, y>>[2] = y
  BY DEF Bytes
<1>3. ASSUME f[13] = x, f[14] = y
      PROVE  t = <<x, y>>
  <2> DEFINE u == <<x, y>>
  <2>1. u \in Bytes /\ Len(u) = 2 /\ u[1] = x /\ u[2] = y
    BY <1>2
  <2> HIDE DEF u
  <2>2. \A k \in 1 .. Len(t) : t[k] = u[k]
    BY <1>1, <1>3, <2>1
  <2>3. t = u
    BY <1>1, <2>1, <2>2, SameBytes
  <2> QED
    BY <2>3 DEF u
<1>4. t = <<x, y>> => f[13] = x /\ f[14] = y
  BY <1>1, <1>2
<1> QED
  BY <1>3, <1>4 DEF t

LEMMA FrameIs ==
  ASSUME NEW f \in Frames
  PROVE  f \in Bytes /\ Len(f) \in Nat /\ Len(f) >= 18
<1>1. PICK q \in Payloads : f = Addresses \o q
  BY DEF Frames
<1>2. Addresses \in Bytes /\ Len(Addresses) = 12
  <2>1. Addresses \in [1 .. 12 -> Nat] /\ 12 \in Nat
    BY DEF Addresses
  <2> QED
    BY <2>1, BytesOf
<1>3. q \in Bytes /\ Len(q) \in Nat /\ Len(q) >= 6
  <2>1. q \in Seq(0 .. 255) /\ Len(q) >= 6
    BY TagAssumption
  <2>3. q \in [1 .. Len(q) -> Nat] /\ Len(q) \in Nat
    <3>1. Len(q) \in Nat /\ q \in [1 .. Len(q) -> 0 .. 255]
      BY <2>1, LenProperties
    <3>2. ASSUME NEW k \in 1 .. Len(q)
          PROVE  q[k] \in Nat
      <4>1. q[k] \in 0 .. 255
        BY <3>1, Zenon
      <4>2. \A m \in 0 .. 255 : m \in Nat
        OBVIOUS
      <4> QED
        BY <4>1, <4>2, Zenon
    <3>3. q = [k \in 1 .. Len(q) |-> q[k]]
      BY <3>1, Zenon
    <3> QED
      BY <3>1, <3>2, <3>3, Zenon
  <2> QED
    BY <2>1, <2>3, BytesOf
<1>4. Joined(Addresses \o q, Addresses, q)
  BY <1>2, <1>3, CatIs, Zenon
<1> QED
  BY <1>1, <1>2, <1>3, <1>4, SMTT(40) DEF Joined

(* The six bytes of a tag. *)
SixBytes(t, x, y) ==
  /\ t \in Bytes /\ Len(t) = 6
  /\ t[1] = 220 /\ t[2] = 220 /\ t[5] = x /\ t[6] = y

LEMMA SixBytesAre ==
  ASSUME NEW x \in Nat, NEW y \in Nat
  PROVE  SixBytes(ETH_P_SDSA \o <<0, 0, x, y>>, x, y)
<1> DEFINE u == ETH_P_SDSA
           v == <<0, 0, x, y>>
<1>1. u \in Bytes /\ Len(u) = 2 /\ u[1] = 220 /\ u[2] = 220
  BY DEF ETH_P_SDSA, Bytes
<1>2. v \in Bytes /\ Len(v) = 4 /\ v[3] = x /\ v[4] = y
  BY DEF Bytes
<1> HIDE DEF u, v
<1>3. Joined(u \o v, u, v)
  BY <1>1, <1>2, CatIs, Zenon
<1>4. (u \o v)[1] = u[1] /\ (u \o v)[2] = u[2] /\ (u \o v)[5] = v[3] /\ (u \o v)[6] = v[4]
  BY <1>1, <1>2, <1>3 DEF Joined
<1>5. SixBytes(u \o v, x, y)
  BY <1>1, <1>2, <1>3, <1>4 DEF SixBytes, Joined
<1> QED
  BY <1>5 DEF u, v

(* Two null bytes behind it. *)
LEMMA EightBytesAre ==
  ASSUME NEW t, NEW x, NEW y, SixBytes(t, x, y)
  PROVE  /\ t \o <<0, 0>> \in Bytes /\ Len(t \o <<0, 0>>) = 8
         /\ \A k \in 1 .. 6 : (t \o <<0, 0>>)[k] = t[k]
<1> DEFINE u == <<0, 0>>
<1>1. u \in Bytes /\ Len(u) = 2
  BY DEF Bytes
<1>2. t \in Bytes /\ Len(t) = 6
  BY DEF SixBytes
<1> HIDE DEF u
<1>3. Joined(t \o u, t, u)
  BY <1>1, <1>2, CatIs, Zenon
<1>4. t \o u \in Bytes /\ Len(t \o u) = 8 /\ \A k \in 1 .. 6 : (t \o u)[k] = t[k]
  BY <1>1, <1>2, <1>3 DEF Joined
<1> QED
  BY <1>4 DEF u

LEMMA TagIs ==
  ASSUME NEW type \in {64, 96}, NEW p \in 0 .. 31
  PROVE  \E x \in type .. type + 31 : SixBytes(Tag(type, p), x, p * 8)
<1> DEFINE x == type + (SwitchIndex % 1024) \div 32
<1>1. x \in type .. type + 31 /\ x \in Nat
  BY TagAssumption
<1>2. (p * 8) % 256 = p * 8 /\ p * 8 \in Nat
  OBVIOUS
<1>3. Tag(type, p) = ETH_P_SDSA \o <<0, 0, x, p * 8>>
  BY <1>2, SMTT(40) DEF Tag
<1> HIDE DEF x
<1>4. SixBytes(Tag(type, p), x, p * 8)
  BY <1>1, <1>2, <1>3, SixBytesAre
<1> QED
  BY <1>1, <1>4

(* What sdsa_xmit hands to the conduit for the frame f of port p. *)
Sent(d, p, f) ==
  LET n == IF IsVlan(f) THEN 4 ELSE 8
      w == IF IsVlan(f) THEN 96 ELSE 64
      m == IF IsVlan(f) THEN 15 ELSE 13
  IN  /\ d \in Bytes /\ Len(d) = Len(f) + n
      /\ \A k \in 1 .. 12 : d[k] = f[k]
      /\ d[13] = 220 /\ d[14] = 220 /\ d[17] \in w .. w + 31 /\ d[18] = p * 8
      /\ \A k \in m .. Len(f) : d[k + n] = f[k]

LEMMA XmitIs ==
  ASSUME NEW f \in Frames, NEW p \in 0 .. 31
  PROVE  Sent(Data(sdsa_xmit(Buffer(f), p)), p, f)
<1>1. f \in Bytes /\ Len(f) \in Nat /\ Len(f) >= 18 /\ Len(f) >= 12
  BY FrameIs
<1>2. IsVlan(Data(Buffer(f))) = IsVlan(f)
  BY <1>1, BufferIs
<1> DEFINE e == Data(sdsa_xmit(Buffer(f), p))
<1>3. CASE IsVlan(f)
  <2> DEFINE h == 4
             g == Tag(96, p)
  <2>1. PICK x \in 96 .. 127 : SixBytes(g, x, p * 8)
    <3>1. \E x \in 96 .. 96 + 31 : SixBytes(g, x, p * 8)
      BY TagIs
    <3> QED
      BY <3>1
  <2>2. e = Data(Put(memmove(skb_push(Buffer(f), h), 0, h, 0, 12), 12, g))
    BY <1>2, <1>3 DEF sdsa_xmit, DSA_HLEN
  <2>3. h \in 0 .. 16 /\ h = 4
    OBVIOUS
  <2>4. g \in Bytes /\ Len(g) = 6
    BY <2>1 DEF SixBytes
  <2> HIDE DEF h, g, e
  <2>5. h <= 12 + Len(g) /\ Len(g) <= Len(f) - 12 + h
    BY <1>1, <2>3, <2>4
  <2>6. /\ e \in Bytes /\ Len(e) = Len(f) + h
        /\ \A k \in 1 .. 12 : e[k] = f[k]
        /\ \A k \in 1 .. Len(g) : e[12 + k] = g[k]
        /\ \A k \in 13 + Len(g) .. Len(f) + h : e[k] = f[k - h]
    <3>1. WithTag(e, f, h, g)
      BY <1>1, <2>2, <2>3, <2>4, <2>5, TaggedIs, Zenon
    <3> QED
      BY <3>1, Zenon DEF WithTag
  <2>7. e[13] = 220 /\ e[14] = 220 /\ e[17] = x /\ e[18] = p * 8
    BY <2>1, <2>4, <2>6 DEF SixBytes
  <2>8. ASSUME NEW k \in 15 .. Len(f)
        PROVE  e[k + 4] = f[k]
    <3>1. k + 4 \in 13 + Len(g) .. Len(f) + h /\ (k + 4) - h = k
      BY <1>1, <2>3, <2>4
    <3> QED
      BY <2>6, <3>1
  <2> QED
    BY <1>3, <2>3, <2>6, <2>7, <2>8 DEF Sent, e
<1>4. CASE ~IsVlan(f)
  <2> DEFINE h == 8
             t == Tag(64, p)
             g == t \o <<0, 0>>
  <2>1. PICK x \in 64 .. 95 : SixBytes(t, x, p * 8)
    <3>1. \E x \in 64 .. 64 + 31 : SixBytes(t, x, p * 8)
      BY TagIs
    <3> QED
      BY <3>1
  <2>2. e = Data(Put(memmove(skb_push(Buffer(f), h), 0, h, 0, 12), 12, g))
    BY <1>2, <1>4 DEF sdsa_xmit, SDSA_HLEN
  <2>3. h \in 0 .. 16 /\ h = 8
    OBVIOUS
  <2> HIDE DEF t
  <2>4. g \in Bytes /\ Len(g) = 8 /\ \A k \in 1 .. 6 : g[k] = t[k]
    BY <2>1, EightBytesAre
  <2> HIDE DEF h, g, e
  <2>5. h <= 12 + Len(g) /\ Len(g) <= Len(f) - 12 + h
    BY <1>1, <2>3, <2>4
  <2>6. /\ e \in Bytes /\ Len(e) = Len(f) + h
        /\ \A k \in 1 .. 12 : e[k] = f[k]
        /\ \A k \in 1 .. Len(g) : e[12 + k] = g[k]
        /\ \A k \in 13 + Len(g) .. Len(f) + h : e[k] = f[k - h]
    <3>1. WithTag(e, f, h, g)
      BY <1>1, <2>2, <2>3, <2>4, <2>5, TaggedIs, Zenon
    <3> QED
      BY <3>1, Zenon DEF WithTag
  <2>7. e[13] = 220 /\ e[14] = 220 /\ e[17] = x /\ e[18] = p * 8
    BY <2>1, <2>4, <2>6 DEF SixBytes
  <2>8. ASSUME NEW k \in 13 .. Len(f)
        PROVE  e[k + 8] = f[k]
    <3>1. k + 8 \in 13 + Len(g) .. Len(f) + h /\ (k + 8) - h = k
      BY <1>1, <2>3, <2>4
    <3> QED
      BY <2>6, <3>1
  <2> QED
    BY <1>4, <2>3, <2>6, <2>7, <2>8, SMTT(40) DEF Sent, e
<1> QED
  BY <1>3, <1>4

LEMMA FrameOf ==
  ASSUME NEW f \in Bytes, NEW x \in Bytes, NEW y \in Bytes,
         Len(x) = 12, Len(y) = Len(f) - 12, Len(f) >= 12,
         \A k \in 1 .. 12 : x[k] = f[k], \A k \in 13 .. Len(f) : y[k - 12] = f[k]
  PROVE  x \o y = f
<1> DEFINE u == x \o y
<1>1. Joined(u, x, y)
  BY CatIs, Zenon
<1>2. Len(f) \in Nat
  BY DEF Bytes
<1> HIDE DEF u
<1>3. u \in Bytes /\ Len(u) = Len(f)
  BY <1>1, <1>2 DEF Joined
<1>4. ASSUME NEW k \in 1 .. Len(f)
      PROVE  u[k] = f[k]
  <2>1. CASE k <= 12
    <3>1. k \in 1 .. Len(x) /\ k \in 1 .. 12
      BY <1>2, <2>1
    <3>2. u[k] = x[k]
      BY <1>1, <3>1, Zenon DEF Joined
    <3> QED
      BY <3>1, <3>2
  <2>2. CASE k > 12
    <3>1. k - 12 \in 1 .. Len(y) /\ Len(x) + (k - 12) = k /\ k \in 13 .. Len(f)
      BY <1>2, <2>2
    <3>2. u[Len(x) + (k - 12)] = y[k - 12]
      BY <1>1, <3>1, Zenon DEF Joined
    <3> QED
      BY <3>1, <3>2
  <2> QED
    BY <1>2, <2>1, <2>2
<1>5. u = f
  BY <1>3, <1>4, SameBytes
<1> QED
  BY <1>5 DEF u

(* The switch finds port and frame in what it is sent. *)
LEMMA EgressIs ==
  ASSUME NEW f \in Frames, NEW p \in 0 .. 31, NEW d, Sent(d, p, f)
  PROVE  /\ SubSeq(d, 13, 14) = ETH_P_SDSA
         /\ d[17] \div 64 = 1
         /\ d[18] \div 8 = p
         /\ (d[17] \div 32) % 2 = 1 <=> IsVlan(f)
         /\ IsVlan(f)  => SubSeq(d, 1, 12) \o (ETH_P_8021Q \o SubSeq(d, 19, Len(d))) = f
         /\ ~IsVlan(f) => SubSeq(d, 1, 12) \o SubSeq(d, 21, Len(d)) = f
<1>1. f \in Bytes /\ Len(f) \in Nat /\ Len(f) >= 18
  BY FrameIs
<1> DEFINE h == IF IsVlan(f) THEN 4 ELSE 8
           w == IF IsVlan(f) THEN 96 ELSE 64
           o == IF IsVlan(f) THEN 15 ELSE 13
<1>2. /\ d \in Bytes /\ Len(d) = Len(f) + h
      /\ \A k \in 1 .. 12 : d[k] = f[k]
      /\ d[13] = 220 /\ d[14] = 220 /\ d[17] \in w .. w + 31 /\ d[18] = p * 8
      /\ \A k \in o .. Len(f) : d[k + h] = f[k]
  BY DEF Sent
<1>3. /\ IsVlan(f) => h = 4 /\ w = 96 /\ o = 15
      /\ ~IsVlan(f) => h = 8 /\ w = 64 /\ o = 13
  OBVIOUS
<1> HIDE DEF h, w, o
<1>t. d[13] = 220 /\ d[14] = 220 /\ d[17] \in w .. w + 31 /\ d[18] = p * 8
  BY <1>2, Zenon
<1>l. d \in Bytes /\ Len(d) = Len(f) + h
  BY <1>2, Zenon
<1>4. Len(d) \in Nat /\ Len(d) >= 22
  BY <1>1, <1>l, <1>3
<1>5. SubSeq(d, 13, 14) = ETH_P_SDSA
  <2>1. SubSeq(d, 13, 14) = <<220, 220>>
    <3>1. d \in Bytes /\ Len(d) >= 14 /\ 220 \in Nat
      BY <1>2, <1>4, SMTT(40)
    <3>2. SubSeq(d, 13, 14) = <<220, 220>> <=> d[13] = 220 /\ d[14] = 220
      BY <3>1, EthertypeIs
    <3> QED
      BY <1>t, <3>2, Zenon
  <2> QED
    BY <2>1 DEF ETH_P_SDSA
<1>6. d[17] \div 64 = 1 /\ d[18] \div 8 = p /\ ((d[17] \div 32) % 2 = 1 <=> IsVlan(f))
  <2>1. CASE IsVlan(f)
    <3>1. d[17] \in 96 .. 127
      BY <1>t, <1>3, <2>1
    <3>2. d[17] \div 64 = 1 /\ (d[17] \div 32) % 2 = 1
      BY <3>1
    <3>3. d[18] \div 8 = p
      BY <1>t
    <3> QED
      BY <2>1, <3>2, <3>3
  <2>2. CASE ~IsVlan(f)
    <3>1. d[17] \in 64 .. 95
      BY <1>t, <1>3, <2>2
    <3>2. d[17] \div 64 = 1 /\ (d[17] \div 32) % 2 = 0
      BY <3>1
    <3>3. d[18] \div 8 = p
      BY <1>t
    <3> QED
      BY <2>2, <3>2, <3>3
  <2> QED
    BY <2>1, <2>2
<1> DEFINE x == SubSeq(d, 1, 12)
<1>7. x \in Bytes /\ Len(x) = 12 /\ \A k \in 1 .. 12 : x[k] = f[k]
  <2>1. 1 \in 1 .. Len(d) + 1 /\ 12 \in 0 .. Len(d) /\ 1 <= 12 + 1 /\ d \in Bytes
    BY <1>2, <1>4
  <2>2. x \in Bytes /\ Len(x) = 12 - 1 + 1 /\ \A k \in 1 .. 12 - 1 + 1 : x[k] = d[1 + k - 1]
    BY <2>1, SubSeqIs
  <2> HIDE DEF x
  <2>3. Len(x) = 12 /\ \A k \in 1 .. 12 : x[k] = d[k]
    BY <2>2
  <2>4. \A k \in 1 .. 12 : d[k] = f[k]
    BY <1>2, Zenon
  <2> QED
    BY <2>2, <2>3, <2>4, Zenon
<1>8. ASSUME NEW m \in {19, 21}
      PROVE  /\ SubSeq(d, m, Len(d)) \in Bytes
             /\ Len(SubSeq(d, m, Len(d))) = Len(d) - m + 1
             /\ \A k \in 1 .. Len(d) - m + 1 : SubSeq(d, m, Len(d))[k] = d[m + k - 1]
  <2>1. m \in 1 .. Len(d) + 1 /\ Len(d) \in 0 .. Len(d) /\ m <= Len(d) + 1 /\ d \in Bytes
    BY <1>l, <1>4
  <2> QED
    BY <2>1, SubSeqIs
<1>9. ASSUME IsVlan(f)
      PROVE  SubSeq(d, 1, 12) \o (ETH_P_8021Q \o SubSeq(d, 19, Len(d))) = f
  <2> DEFINE v == SubSeq(d, 19, Len(d))
             u == ETH_P_8021Q
             y == u \o v
  <2>1. v \in Bytes /\ Len(v) = Len(d) - 19 + 1 /\ \A k \in 1 .. Len(d) - 19 + 1 : v[k] = d[19 + k - 1]
    BY <1>8
  <2>2. u \in Bytes /\ Len(u) = 2 /\ u[1] = 129 /\ u[2] = 0
    BY DEF ETH_P_8021Q, Bytes
  <2>3. f[13] = 129 /\ f[14] = 0
    BY <1>1, <1>9, EthertypeIs DEF IsVlan, ETH_P_8021Q
  <2>q. x \o y = f => SubSeq(d, 1, 12) \o (ETH_P_8021Q \o SubSeq(d, 19, Len(d))) = f
    OBVIOUS
  <2> HIDE DEF u, v, x
  <2>4. Joined(y, u, v)
    BY <2>1, <2>2, CatIs, Zenon
  <2> HIDE DEF y
  <2>5. y \in Bytes /\ Len(y) = Len(f) - 12
    BY <1>1, <1>2, <1>3, <1>9, <2>1, <2>2, <2>4 DEF Joined
  <2>6. ASSUME NEW k \in 13 .. Len(f)
        PROVE  y[k - 12] = f[k]
    <3>1. CASE k \in {13, 14}
      <4>1. y[1] = 129 /\ y[2] = 0
        BY <2>2, <2>4 DEF Joined
      <4> QED
        BY <2>3, <3>1, <4>1
    <3>2. CASE k \in 15 .. Len(f)
      <4>1. k - 14 \in 1 .. Len(v) /\ Len(u) + (k - 14) = k - 12 /\ 19 + (k - 14) - 1 = k + 4
            /\ k - 14 \in 1 .. Len(d) - 19 + 1
        BY <1>1, <1>2, <1>3, <1>9, <2>1, <2>2, <3>2
      <4>2. y[Len(u) + (k - 14)] = v[k - 14]
        BY <2>4, <4>1, Zenon DEF Joined
      <4>3. v[k - 14] = d[19 + (k - 14) - 1]
        BY <2>1, <4>1, Zenon
      <4>4. d[k + 4] = f[k]
        BY <1>2, <1>3, <1>9, <3>2
      <4> QED
        BY <4>1, <4>2, <4>3, <4>4
    <3> QED
      BY <1>1, <3>1, <3>2
  <2>7. x \o y = f
    <3>1. Len(f) >= 12
      BY <1>1
    <3> QED
      BY <1>1, <1>7, <2>5, <2>6, <3>1, FrameOf, Zenon
  <2> QED
    BY <2>7, <2>q
<1>10. ASSUME ~IsVlan(f)
       PROVE  SubSeq(d, 1, 12) \o SubSeq(d, 21, Len(d)) = f
  <2> DEFINE y == SubSeq(d, 21, Len(d))
  <2>1. y \in Bytes /\ Len(y) = Len(d) - 21 + 1 /\ \A k \in 1 .. Len(d) - 21 + 1 : y[k] = d[21 + k - 1]
    BY <1>8
  <2>q. x \o y = f => SubSeq(d, 1, 12) \o SubSeq(d, 21, Len(d)) = f
    OBVIOUS
  <2> HIDE DEF x, y
  <2>2. Len(y) = Len(f) - 12
    BY <1>1, <1>2, <1>3, <1>10, <2>1
  <2>3. ASSUME NEW k \in 13 .. Len(f)
        PROVE  y[k - 12] = f[k]
    <3>1. k - 12 \in 1 .. Len(d) - 21 + 1 /\ 21 + (k - 12) - 1 = k + 8
      BY <1>1, <1>2, <1>3, <1>10
    <3>2. y[k - 12] = d[21 + (k - 12) - 1]
      BY <2>1, <3>1, Zenon
    <3>3. d[k + 8] = f[k]
      BY <1>2, <1>3, <1>10
    <3> QED
      BY <3>1, <3>2, <3>3
  <2>4. x \o y = f
    <3>1. Len(f) >= 12
      BY <1>1
    <3> QED
      BY <1>1, <1>7, <2>1, <2>2, <2>3, <3>1, FrameOf, Zenon
  <2> QED
    BY <2>4, <2>q
<1> QED
  BY <1>5, <1>6, <1>9, <1>10

(* The switch puts a tag between the addresses and what follows them. *)
Inserted(g, f, t, m) ==
  /\ g \in Bytes /\ Len(g) = 12 + Len(t) + Len(f) - m + 1
  /\ \A k \in 1 .. 12 : g[k] = f[k]
  /\ \A k \in 1 .. Len(t) : g[12 + k] = t[k]
  /\ \A k \in m .. Len(f) : g[13 + Len(t) + k - m] = f[k]

LEMMA InsertedIs ==
  ASSUME NEW f \in Bytes, Len(f) >= 18, NEW t \in Bytes, NEW m \in 13 .. 15,
         NEW g, g = SubSeq(f, 1, 12) \o (t \o SubSeq(f, m, Len(f)))
  PROVE  Inserted(g, f, t, m)
<1> DEFINE x == SubSeq(f, 1, 12)
           v == SubSeq(f, m, Len(f))
           y == t \o v
<1>1. Len(f) \in Nat /\ Len(t) \in Nat /\ m \in Int
  BY DEF Bytes
<1>2. x \in Bytes /\ Len(x) = 12 /\ \A k \in 1 .. 12 : x[k] = f[k]
  <2>1. 1 \in 1 .. Len(f) + 1 /\ 12 \in 0 .. Len(f) /\ 1 <= 12 + 1
    BY <1>1
  <2>2. x \in Bytes /\ Len(x) = 12 - 1 + 1 /\ \A k \in 1 .. 12 - 1 + 1 : x[k] = f[1 + k - 1]
    BY <2>1, SubSeqIs
  <2> HIDE DEF x
  <2> QED
    BY <2>2
<1>3. v \in Bytes /\ Len(v) = Len(f) - m + 1 /\ \A k \in 1 .. Len(f) - m + 1 : v[k] = f[m + k - 1]
  <2>1. m \in 1 .. Len(f) + 1 /\ Len(f) \in 0 .. Len(f) /\ m <= Len(f) + 1
    BY <1>1
  <2> QED
    BY <2>1, SubSeqIs
<1>q. g = x \o y
  OBVIOUS
<1> HIDE DEF x, v
<1>4. Joined(y, t, v)
  BY <1>3, CatIs, Zenon
<1>5. y \in Bytes /\ Len(y) = Len(t) + Len(v)
      /\ (\A k \in 1 .. Len(t) : y[k] = t[k]) /\ \A k \in 1 .. Len(v) : y[Len(t) + k] = v[k]
  BY <1>4, Zenon DEF Joined
<1> HIDE DEF y
<1>6. Joined(g, x, y)
  BY <1>q, <1>2, <1>5, CatIs, Zenon
<1>7. g \in Bytes /\ Len(g) = Len(x) + Len(y)
      /\ (\A k \in 1 .. Len(x) : g[k] = x[k]) /\ \A k \in 1 .. Len(y) : g[Len(x) + k] = y[k]
  BY <1>6, Zenon DEF Joined
<1>8. Len(g) = 12 + Len(t) + Len(f) - m + 1
  BY <1>1, <1>2, <1>3, <1>5, <1>7
<1>9. \A k \in 1 .. 12 : g[k] = f[k]
  BY <1>2, <1>7, Zenon
<1>10. ASSUME NEW k \in 1 .. Len(t)
       PROVE  g[12 + k] = t[k]
  <2>1. k \in 1 .. Len(y)
    BY <1>1, <1>3, <1>5
  <2>2. g[Len(x) + k] = y[k] /\ y[k] = t[k]
    BY <1>5, <1>7, <2>1, Zenon
  <2> QED
    BY <1>2, <2>2, Zenon
<1>11. ASSUME NEW k \in m .. Len(f)
       PROVE  g[13 + Len(t) + k - m] = f[k]
  <2>1. k - m + 1 \in 1 .. Len(v) /\ k - m + 1 \in 1 .. Len(f) - m + 1 /\ m + (k - m + 1) - 1 = k
        /\ Len(t) + (k - m + 1) \in 1 .. Len(y)
        /\ Len(x) + (Len(t) + (k - m + 1)) = 13 + Len(t) + k - m
    BY <1>1, <1>2, <1>3, <1>5
  <2>2. v[k - m + 1] = f[m + (k - m + 1) - 1]
    BY <1>3, <2>1, Zenon
  <2>3. y[Len(t) + (k - m + 1)] = v[k - m + 1]
    BY <1>5, <2>1, Zenon
  <2>4. g[Len(x) + (Len(t) + (k - m + 1))] = y[Len(t) + (k - m + 1)]
    BY <1>7, <2>1, Zenon
  <2> QED
    BY <2>1, <2>2, <2>3, <2>4
<1> QED
  BY <1>7, <1>8, <1>9, <1>10, <1>11 DEF Inserted

(* What the switch hands to the CPU for a frame f that came in at port p. *)
Handed(g, type, p, f) ==
  LET n == IF IsVlan(f) THEN 4 ELSE 8
      w == IF IsVlan(f) THEN 32 ELSE 0
      m == IF IsVlan(f) THEN 15 ELSE 13
  IN  /\ g \in Bytes /\ Len(g) = Len(f) + n
      /\ \A k \in 1 .. 12 : g[k] = f[k]
      /\ g[17] = type + w + p \div 32 /\ g[18] = (p % 32) * 8
      /\ \A k \in m .. Len(f) : g[k + n] = f[k]

LEMMA ToCpuIs ==
  ASSUME NEW f \in Frames, NEW p \in 0 .. 1023, NEW type \in {0, 64, 128}
  PROVE  Handed(ToCpu(type, p, f), type, p, f)
<1>1. f \in Bytes /\ Len(f) \in Nat /\ Len(f) >= 18
  BY FrameIs
<1> DEFINE e == ToCpu(type, p, f)
<1>2. CASE IsVlan(f)
  <2> DEFINE x == type + 32 + p \div 32
             y == (p % 32) * 8
             t == ETH_P_SDSA \o <<0, 0, x, y>>
             o == 15
  <2>1. x \in Nat /\ y \in Nat
    OBVIOUS
  <2>2. e = SubSeq(f, 1, 12) \o (t \o SubSeq(f, o, Len(f)))
    BY <1>2 DEF ToCpu
  <2>3. x = type + 32 + p \div 32 /\ y = (p % 32) * 8 /\ o = 15 /\ o \in 13 .. 15
    OBVIOUS
  <2> HIDE DEF x, y, o, e
  <2>4. SixBytes(t, x, y)
    BY <2>1, SixBytesAre
  <2>5. t \in Bytes /\ Len(t) = 6 /\ t[5] = x /\ t[6] = y
    BY <2>4 DEF SixBytes
  <2> HIDE DEF t
  <2>6. /\ e \in Bytes /\ Len(e) = 12 + Len(t) + Len(f) - o + 1
        /\ \A k \in 1 .. 12 : e[k] = f[k]
        /\ \A k \in 1 .. Len(t) : e[12 + k] = t[k]
        /\ \A k \in o .. Len(f) : e[13 + Len(t) + k - o] = f[k]
    <3>1. Inserted(e, f, t, o)
      <4>1. o \in 13 .. 15 /\ t \in Bytes /\ f \in Bytes /\ Len(f) >= 18
        BY <1>1, <2>3, <2>5
      <4> QED
        BY <2>2, <4>1, InsertedIs, Zenon
    <3> QED
      BY <3>1, ZenonT(40) DEF Inserted
  <2>7. Len(e) = Len(f) + 4
    BY <1>1, <2>3, <2>5, <2>6
  <2>8. e[17] = x /\ e[18] = y
    BY <2>5, <2>6
  <2>9. ASSUME NEW k \in 15 .. Len(f)
        PROVE  e[k + 4] = f[k]
    <3>1. 13 + Len(t) + k - o = k + 4 /\ k \in o .. Len(f)
      BY <1>1, <2>3, <2>5
    <3>2. e[13 + Len(t) + k - o] = f[k]
      BY <2>6, <3>1, ZenonT(40)
    <3> QED
      BY <3>1, <3>2
  <2>10. Handed(e, type, p, f)
    BY <1>2, <2>3, <2>6, <2>7, <2>8, <2>9 DEF Handed
  <2> QED
    BY <2>10 DEF e
<1>3. CASE ~IsVlan(f)
  <2> DEFINE x == type + 0 + p \div 32
             y == (p % 32) * 8
             u == ETH_P_SDSA \o <<0, 0, x, y>>
             t == u \o <<0, 0>>
             o == 13
  <2>1. x \in Nat /\ y \in Nat
    OBVIOUS
  <2>2. e = SubSeq(f, 1, 12) \o (t \o SubSeq(f, o, Len(f)))
    BY <1>3 DEF ToCpu
  <2>3. x = type + 0 + p \div 32 /\ y = (p % 32) * 8 /\ o = 13 /\ o \in 13 .. 15
    OBVIOUS
  <2> HIDE DEF x, y, o, e
  <2>4. SixBytes(u, x, y)
    BY <2>1, SixBytesAre
  <2>c. u[5] = x /\ u[6] = y
    BY <2>4 DEF SixBytes
  <2> HIDE DEF u
  <2>d. t \in Bytes /\ Len(t) = 8 /\ \A k \in 1 .. 6 : t[k] = u[k]
    BY <2>4, EightBytesAre
  <2>5. t \in Bytes /\ Len(t) = 8 /\ t[5] = x /\ t[6] = y
    BY <2>c, <2>d
  <2> HIDE DEF t
  <2>6. /\ e \in Bytes /\ Len(e) = 12 + Len(t) + Len(f) - o + 1
        /\ \A k \in 1 .. 12 : e[k] = f[k]
        /\ \A k \in 1 .. Len(t) : e[12 + k] = t[k]
        /\ \A k \in o .. Len(f) : e[13 + Len(t) + k - o] = f[k]
    <3>1. Inserted(e, f, t, o)
      <4>1. o \in 13 .. 15 /\ t \in Bytes /\ f \in Bytes /\ Len(f) >= 18
        BY <1>1, <2>3, <2>5
      <4> QED
        BY <2>2, <4>1, InsertedIs, Zenon
    <3> QED
      BY <3>1, ZenonT(40) DEF Inserted
  <2>7. Len(e) = Len(f) + 8
    BY <1>1, <2>3, <2>5, <2>6
  <2>8. e[17] = x /\ e[18] = y
    BY <2>5, <2>6
  <2>9. ASSUME NEW k \in 13 .. Len(f)
        PROVE  e[k + 8] = f[k]
    <3>1. 13 + Len(t) + k - o = k + 8 /\ k \in o .. Len(f)
      BY <1>1, <2>3, <2>5
    <3>2. e[13 + Len(t) + k - o] = f[k]
      BY <2>6, <3>1, Zenon
    <3> QED
      BY <3>1, <3>2
  <2>10. Handed(e, type, p, f)
    BY <1>3, <2>3, <2>6, <2>7, <2>8, <2>9 DEF Handed
  <2> QED
    BY <2>10 DEF e
<1> QED
  BY <1>2, <1>3

(* sdsa_rcv: n bytes behind the addresses go, the header is there again. *)
Shortened(d, s, n) ==
  /\ d \in Bytes /\ Len(d) = Len(s.buf) - 16 - n
  /\ \A k \in 1 .. 12 : d[k] = s.buf[16 + k]
  /\ \A k \in 13 .. Len(s.buf) - 16 - n : d[k] = s.buf[16 + n + k]

LEMMA ShortenedIs ==
  ASSUME NEW s \in Skbs, NEW n \in Nat, s.data = 30, Len(s.buf) >= 30 + n
  PROVE  Shortened(Data(skb_push(memmove(skb_pull(s, n), n, 0, 14 + n, 12), 14)), s, n)
<1> DEFINE d  == Data(skb_push(memmove(skb_pull(s, n), n, 0, 14 + n, 12), 14))
           z  == 0
           a  == 12
           b  == 14 + n
           h  == 14
           s1 == skb_pull(s, n)
           s2 == memmove(s1, n, z, b, a)
           s3 == skb_push(s2, h)
<1>1. s.buf \in Bytes /\ Len(s.buf) \in Nat
  BY DEF Skbs, Bytes
<1>d. d = Data(s3)
  OBVIOUS
<1>a. z \in Nat /\ a \in Nat /\ b \in Nat /\ h \in Nat /\ z = 0 /\ a = 12 /\ b = 14 + n /\ h = 14
  OBVIOUS
<1> HIDE DEF z, a, b, h, d
<1>2. s1 \in Skbs /\ s1.data = 30 + n /\ s1.buf = s.buf
  <2>1. s1 = [buf |-> s.buf, data |-> s.data + n] /\ s1 \in Skbs
    BY PushIs
  <2> QED
    BY <2>1
<1> HIDE DEF s1
<1>3. /\ s2 \in Skbs /\ s2.data = 30 + n /\ Len(s2.buf) = Len(s.buf)
      /\ \A k \in 1 .. Len(s.buf) :
            s2.buf[k] = IF 16 + n < k /\ k <= 28 + n THEN s.buf[k - n] ELSE s.buf[k]
  <2>1. b <= s1.data /\ s1.data - b + z + a <= Len(s1.buf)
    BY <1>a, <1>1, <1>2
  <2>2. Moved(s2, s1, n, z, b, a)
    BY <1>a, <1>2, <2>1, MoveIs, Zenon
  <2>3. s1.data - b + n = 16 + n /\ s1.data - b + n + a = 28 + n
    BY <1>a, <1>2
  <2> HIDE DEF s2
  <2>4. ASSUME NEW k \in 1 .. Len(s.buf)
        PROVE  s2.buf[k] = IF 16 + n < k /\ k <= 28 + n THEN s.buf[k - n] ELSE s.buf[k]
    <3>1. k - n + z = k - n
      BY <1>a
    <3>2. s2.buf[k] = IF s1.data - b + n < k /\ k <= s1.data - b + n + a
                      THEN s1.buf[k - n + z] ELSE s1.buf[k]
      BY <1>2, <2>2, Zenon DEF Moved
    <3> QED
      BY <1>2, <2>3, <3>1, <3>2, Zenon
  <2>5. s2 \in Skbs /\ s2.data = 30 + n /\ Len(s2.buf) = Len(s.buf)
    BY <1>2, <2>2, Zenon DEF Moved
  <2> QED
    BY <2>4, <2>5, Zenon
<1> HIDE DEF s2
<1>4. s3 \in Skbs /\ s3.data = 16 + n /\ s3.buf = s2.buf
  <2>1. h <= s2.data
    BY <1>a, <1>3
  <2>2. s3 = [buf |-> s2.buf, data |-> s2.data - h] /\ s3 \in Skbs
    BY <1>a, <1>3, <2>1, PushIs
  <2> QED
    BY <1>a, <1>3, <2>2
<1> HIDE DEF s3
<1>5. /\ d \in Bytes /\ Len(d) = Len(s.buf) - 16 - n
      /\ \A k \in 1 .. Len(s.buf) - 16 - n : d[k] = s2.buf[16 + n + k]
  <2>1. s3.data <= Len(s3.buf) /\ Len(s3.buf) - s3.data = Len(s.buf) - 16 - n
    BY <1>1, <1>3, <1>4
  <2>2. /\ Data(s3) \in Bytes
        /\ Len(Data(s3)) = Len(s3.buf) - s3.data
        /\ \A k \in 1 .. Len(s3.buf) - s3.data : Data(s3)[k] = s3.buf[s3.data + k]
    BY <1>4, <2>1, DataIs
  <2> QED
    BY <1>d, <1>4, <2>1, <2>2
<1>6. ASSUME NEW k \in 1 .. 12
      PROVE  d[k] = s.buf[16 + k]
  <2>1. k \in 1 .. Len(s.buf) - 16 - n /\ 16 + n + k \in 1 .. Len(s.buf)
        /\ 16 + n < 16 + n + k /\ 16 + n + k <= 28 + n /\ (16 + n + k) - n = 16 + k
    BY <1>1
  <2>2. d[k] = s2.buf[16 + n + k]
    BY <1>5, <2>1, Zenon
  <2>3. s2.buf[16 + n + k] = s.buf[(16 + n + k) - n]
    BY <1>3, <2>1, Zenon
  <2> QED
    BY <2>1, <2>2, <2>3
<1>7. ASSUME NEW k \in 13 .. Len(s.buf) - 16 - n
      PROVE  d[k] = s.buf[16 + n + k]
  <2>1. k \in 1 .. Len(s.buf) - 16 - n /\ 16 + n + k \in 1 .. Len(s.buf) /\ ~(16 + n + k <= 28 + n)
    BY <1>1
  <2>2. d[k] = s2.buf[16 + n + k]
    BY <1>5, <2>1, Zenon
  <2>3. s2.buf[16 + n + k] = s.buf[16 + n + k]
    BY <1>3, <2>1, Zenon
  <2> QED
    BY <2>2, <2>3
<1> QED
  BY <1>5, <1>6, <1>7 DEF Shortened, d

(* A frame from the switch as the packet type handler gets it. *)
Arrived(s, g) ==
  /\ s \in Skbs /\ s.data = 30 /\ Len(s.buf) = 16 + Len(g)
  /\ \A k \in 1 .. Len(g) : s.buf[16 + k] = g[k]

LEMMA ArrivedIs ==
  ASSUME NEW g \in Bytes
  PROVE  Arrived(skb_pull(Buffer(g), ETH_HLEN), g)
<1> DEFINE s0 == Buffer(g)
           s1 == skb_pull(s0, ETH_HLEN)
<1>1. /\ s0 \in Skbs /\ s0.data = 16 /\ Len(s0.buf) = 16 + Len(g)
      /\ \A k \in 1 .. Len(g) : s0.buf[16 + k] = g[k]
  BY BufferIs
<1> HIDE DEF s0
<1>2. s1 = [buf |-> s0.buf, data |-> s0.data + ETH_HLEN] /\ s1 \in Skbs
  <2>1. ETH_HLEN \in Nat
    BY DEF ETH_HLEN
  <2> QED
    BY <1>1, <2>1, PushIs
<1> HIDE DEF s1
<1>3. s1.buf = s0.buf /\ s1.data = 30
  BY <1>1, <1>2 DEF ETH_HLEN
<1>4. Arrived(s1, g)
  BY <1>1, <1>2, <1>3 DEF Arrived
<1> QED
  BY <1>4 DEF s0, s1

(* The fields sdsa_rcv reads. *)
Header(s, g, type, p, f) ==
  /\ Len(Data(s)) >= SDSA_HLEN
  /\ ByteAt(s, 2) \div 64 = 0 <=> type = 0
  /\ SourcePort(s) = p
  /\ (ByteAt(s, 2) \div 32) % 2 = 1 <=> IsVlan(f)
  /\ ByteAt(s, 4) = g[19] /\ ByteAt(s, 5) = g[20]

LEMMA HeaderIs ==
  ASSUME NEW f \in Frames, NEW p \in 0 .. 1023, NEW type \in {0, 64, 128},
         NEW g, Handed(g, type, p, f), NEW s, Arrived(s, g)
  PROVE  Header(s, g, type, p, f)
<1>1. f \in Bytes /\ Len(f) \in Nat /\ Len(f) >= 18
  BY FrameIs
<1> DEFINE h == IF IsVlan(f) THEN 4 ELSE 8
           w == IF IsVlan(f) THEN 32 ELSE 0
<1>2. g \in Bytes /\ Len(g) = Len(f) + h /\ g[17] = type + w + p \div 32 /\ g[18] = (p % 32) * 8
  BY Zenon DEF Handed
<1>3. h \in {4, 8} /\ w \in {0, 32} /\ (w = 32 <=> IsVlan(f))
  OBVIOUS
<1> HIDE DEF h, w
<1>4. Len(g) \in Nat /\ Len(g) >= 22
  BY <1>1, <1>2, <1>3
<1>5. s \in Skbs /\ s.data = 30 /\ Len(s.buf) = 16 + Len(g)
      /\ \A k \in 1 .. Len(g) : s.buf[16 + k] = g[k]
  BY Zenon DEF Arrived
<1>6. ASSUME NEW o \in 2 .. 5
      PROVE  ByteAt(s, o) = g[15 + o]
  <2>1. s.data + o + 1 = 16 + (15 + o) /\ 15 + o \in 1 .. Len(g)
    BY <1>4, <1>5
  <2>2. s.buf[16 + (15 + o)] = g[15 + o]
    BY <1>5, <2>1, Zenon
  <2> QED
    BY <2>1, <2>2 DEF ByteAt
<1>7. ByteAt(s, 2) = g[17] /\ ByteAt(s, 3) = g[18] /\ ByteAt(s, 4) = g[19] /\ ByteAt(s, 5) = g[20]
  BY <1>6
<1>8. Len(Data(s)) >= SDSA_HLEN
  <2>1. s.data <= Len(s.buf)
    BY <1>4, <1>5
  <2>2. Len(Data(s)) = Len(s.buf) - s.data
    BY <1>5, <2>1, DataIs
  <2> QED
    BY <1>4, <1>5, <2>2 DEF SDSA_HLEN
<1> DEFINE c == p \div 32
           m == p % 32
<1>9. c \in 0 .. 31 /\ m \in 0 .. 31 /\ p = c * 32 + m
  OBVIOUS
<1>10. g[17] = type + w + c /\ g[18] = m * 8
  BY <1>2
<1> HIDE DEF c, m
<1>11. (g[17] \div 64 = 0 <=> type = 0) /\ ((g[17] \div 32) % 2 = 1 <=> w = 32)
  BY <1>3, <1>9, <1>10
<1>12. g[17] % 32 = c /\ g[18] \div 8 = m
  BY <1>3, <1>9, <1>10
<1>13. SourcePort(s) = p
  BY <1>7, <1>9, <1>12 DEF SourcePort
<1> QED
  BY <1>3, <1>7, <1>8, <1>11, <1>13 DEF Header

(* What sdsa_rcv hands to the user device is the frame as it came in. *)
LEMMA UntagIs ==
  ASSUME NEW f \in Frames, NEW p \in 0 .. 1023, NEW type \in {0, 64, 128},
         NEW g, Handed(g, type, p, f), NEW s, Arrived(s, g)
  PROVE  Data(skb_push(Untag(s), ETH_HLEN)) = f
<1>1. f \in Bytes /\ Len(f) \in Nat /\ Len(f) >= 18
  BY FrameIs
<1>2. s \in Skbs /\ s.data = 30 /\ Len(s.buf) = 16 + Len(g)
      /\ \A k \in 1 .. Len(g) : s.buf[16 + k] = g[k]
  BY Zenon DEF Arrived
<1>3. g \in Bytes /\ \A k \in 1 .. 12 : g[k] = f[k]
  BY Zenon DEF Handed
<1>4. /\ (ByteAt(s, 2) \div 32) % 2 = 1 <=> IsVlan(f)
      /\ ByteAt(s, 4) = g[19] /\ ByteAt(s, 5) = g[20]
  <2>1. Header(s, g, type, p, f)
    BY HeaderIs, SMTT(40)
  <2> QED
    BY <2>1, Zenon DEF Header
<1> DEFINE e == Data(skb_push(Untag(s), ETH_HLEN))
<1>6. CASE IsVlan(f)
  <2>1. Len(g) = Len(f) + 4 /\ \A k \in 15 .. Len(f) : g[k + 4] = f[k]
    BY <1>6 DEF Handed
  <2> DEFINE t  == ETH_P_8021Q \o <<ByteAt(s, 4), ByteAt(s, 5)>>
             o0 == 2
             v  == Put(s, o0, t)
             n0 == DSA_HLEN
  <2>2. e = Data(skb_push(memmove(skb_pull(v, n0), n0, 0, 14 + n0, 12), 14))
    BY <1>4, <1>6 DEF Untag, ETH_HLEN
  <2>3. n0 \in Nat /\ n0 = 4 /\ o0 \in Nat /\ o0 = 2
    BY DEF DSA_HLEN
  <2>4. t \in Bytes /\ Len(t) = 4 /\ t[1] = 129 /\ t[2] = 0 /\ t[3] = g[19] /\ t[4] = g[20]
    <3> DEFINE x1 == ETH_P_8021Q
               y1 == <<ByteAt(s, 4), ByteAt(s, 5)>>
    <3>1. x1 \in Bytes /\ Len(x1) = 2 /\ x1[1] = 129 /\ x1[2] = 0
      BY DEF ETH_P_8021Q, Bytes
    <3>2. g[19] \in Nat /\ g[20] \in Nat
      <4>1. 19 \in 1 .. Len(g) /\ 20 \in 1 .. Len(g)
        BY <1>1, <2>1
      <4>2. g \in Seq(Nat)
        BY <1>3, Zenon DEF Bytes
      <4> QED
        BY <4>1, <4>2, ElementOfSeq
    <3>3. y1 = <<g[19], g[20]>>
      BY <1>4
    <3>4. y1 \in Bytes /\ Len(y1) = 2 /\ y1[1] = g[19] /\ y1[2] = g[20]
      BY <3>2, <3>3 DEF Bytes
    <3> HIDE DEF x1, y1
    <3>5. Joined(x1 \o y1, x1, y1)
      BY <3>1, <3>4, CatIs, Zenon
    <3> DEFINE r1 == x1 \o y1
    <3>6. r1 \in Bytes /\ Len(r1) = Len(x1) + Len(y1)
          /\ (\A k \in 1 .. Len(x1) : r1[k] = x1[k]) /\ \A k \in 1 .. Len(y1) : r1[Len(x1) + k] = y1[k]
      BY <3>5, Zenon DEF Joined
    <3> HIDE DEF r1
    <3>7. r1 \in Bytes /\ Len(r1) = 4 /\ r1[1] = 129 /\ r1[2] = 0 /\ r1[3] = g[19] /\ r1[4] = g[20]
      BY <3>1, <3>4, <3>6
    <3> QED
      BY <3>7 DEF r1, x1, y1
  <2> HIDE DEF t, n0, o0, e
  <2>5. Written(v, s, o0, t)
    BY <1>2, <2>3, <2>4, PutIs, ZenonT(40)
  <2> HIDE DEF v
  <2>6. /\ v \in Skbs /\ v.data = 30 /\ Len(v.buf) = 16 + Len(g)
        /\ \A k \in 1 .. Len(s.buf) :
              v.buf[k] = IF s.data + o0 < k /\ k <= s.data + o0 + Len(t)
                         THEN t[k - (s.data + o0)] ELSE s.buf[k]
    BY <1>2, <2>5, Zenon DEF Written
  <2>w. \A k \in 1 .. 16 + Len(g) :
            v.buf[k] = IF 32 < k /\ k <= 36 THEN t[k - 32] ELSE s.buf[k]
    <3>1. s.data + o0 = 32 /\ s.data + o0 + Len(t) = 36 /\ Len(s.buf) = 16 + Len(g)
      BY <1>2, <2>3, <2>4
    <3> QED
      BY <2>6, <3>1
  <2>7. Shortened(e, v, n0)
    <3>1. v \in Skbs /\ v.data = 30 /\ Len(v.buf) >= 30 + n0
      BY <1>1, <2>1, <2>3, <2>6
    <3> QED
      BY <2>2, <2>3, <3>1, ShortenedIs
  <2>8. /\ e \in Bytes /\ Len(e) = Len(v.buf) - 16 - n0
        /\ \A k \in 1 .. 12 : e[k] = v.buf[16 + k]
        /\ \A k \in 13 .. Len(v.buf) - 16 - n0 : e[k] = v.buf[16 + n0 + k]
    BY <2>7, Zenon DEF Shortened
  <2>9. Len(e) = Len(f) /\ Len(v.buf) - 16 - n0 = Len(f)
    BY <1>1, <2>1, <2>3, <2>6, <2>8
  <2>10. f[13] = 129 /\ f[14] = 0
    <3>1. SubSeq(f, 13, 14) = <<129, 0>>
      BY <1>6 DEF IsVlan, ETH_P_8021Q
    <3>2. 129 \in Nat /\ 0 \in Nat /\ Len(f) >= 14
      BY <1>1
    <3> QED
      BY <1>1, <3>1, <3>2, EthertypeIs
  <2>11. ASSUME NEW k \in 1 .. Len(f)
         PROVE  e[k] = f[k]
    <3>1. CASE k \in 1 .. 12
      <4>1. 16 + k \in 1 .. 16 + Len(g) /\ ~(32 < 16 + k) /\ k \in 1 .. Len(g)
        BY <1>1, <2>1, <3>1, SMTT(40)
      <4>2. e[k] = v.buf[16 + k]
        BY <2>8, <3>1, Zenon
      <4>3. v.buf[16 + k] = s.buf[16 + k]
        BY <2>w, <4>1, Zenon
      <4>4. s.buf[16 + k] = g[k] /\ g[k] = f[k]
        BY <1>2, <1>3, <3>1, <4>1, Zenon
      <4> QED
        BY <4>2, <4>3, <4>4
    <3>2. CASE k \in 13 .. Len(f)
      <4>1. 16 + n0 + k = 20 + k /\ 20 + k \in 1 .. 16 + Len(g) /\ 32 < 20 + k
            /\ k \in 13 .. Len(v.buf) - 16 - n0
        BY <1>1, <2>1, <2>3, <2>9, <3>2
      <4>2. e[k] = v.buf[20 + k]
        BY <2>8, <4>1, ZenonT(40)
      <4>3. CASE k \in 13 .. 16
        <5>1. 20 + k <= 36 /\ (20 + k) - 32 = k - 12
          BY <4>3
        <5>2. v.buf[20 + k] = t[(20 + k) - 32]
          BY <2>w, <4>1, <5>1, ZenonT(40)
        <5>3. k \in {13, 14} => t[k - 12] = f[k]
          BY <2>4, <2>10
        <5>4. g[19] = f[15] /\ g[20] = f[16]
          BY <1>1, <2>1, SMTT(40)
        <5>5. k \in {15, 16} => t[k - 12] = f[k]
          BY <2>4, <5>4
        <5>6. k \in {13, 14, 15, 16}
          BY <4>3
        <5> QED
          BY <4>2, <5>1, <5>2, <5>3, <5>5, <5>6
      <4>4. CASE k \in 17 .. Len(f)
        <5>1. ~(20 + k <= 36) /\ 20 + k = 16 + (k + 4) /\ k + 4 \in 1 .. Len(g) /\ k \in 15 .. Len(f)
          BY <1>1, <2>1, <4>4
        <5>2. v.buf[20 + k] = s.buf[20 + k]
          BY <2>w, <4>1, <5>1, ZenonT(40)
        <5>3. s.buf[16 + (k + 4)] = g[k + 4] /\ g[k + 4] = f[k]
          BY <1>2, <2>1, <5>1, Zenon
        <5> QED
          BY <4>2, <5>1, <5>2, <5>3
      <4> QED
        BY <1>1, <3>2, <4>3, <4>4
    <3>3. k \in 1 .. 12 \/ k \in 13 .. Len(f)
      BY <1>1
    <3> QED
      BY <3>1, <3>2, <3>3, Zenon
  <2>12. e = f
    BY <1>1, <2>8, <2>9, <2>11, SameBytes
  <2> QED
    BY <2>12 DEF e
<1>7. CASE ~IsVlan(f)
  <2>1. Len(g) = Len(f) + 8 /\ \A k \in 13 .. Len(f) : g[k + 8] = f[k]
    BY <1>7 DEF Handed
  <2> DEFINE n0 == SDSA_HLEN
  <2>2. e = Data(skb_push(memmove(skb_pull(s, n0), n0, 0, 14 + n0, 12), 14))
    BY <1>4, <1>7 DEF Untag, ETH_HLEN
  <2>3. n0 \in Nat /\ n0 = 8
    BY DEF SDSA_HLEN
  <2> HIDE DEF n0, e
  <2>7. Shortened(e, s, n0)
    <3>1. s \in Skbs /\ s.data = 30 /\ Len(s.buf) >= 30 + n0
      BY <1>1, <1>2, <2>1, <2>3
    <3> QED
      BY <2>2, <2>3, <3>1, ShortenedIs
  <2>8. /\ e \in Bytes /\ Len(e) = Len(s.buf) - 16 - n0
        /\ \A k \in 1 .. 12 : e[k] = s.buf[16 + k]
        /\ \A k \in 13 .. Len(s.buf) - 16 - n0 : e[k] = s.buf[16 + n0 + k]
    BY <2>7, Zenon DEF Shortened
  <2>9. Len(e) = Len(f) /\ Len(s.buf) - 16 - n0 = Len(f)
    BY <1>1, <1>2, <2>1, <2>3, <2>8
  <2>11. ASSUME NEW k \in 1 .. Len(f)
         PROVE  e[k] = f[k]
    <3>1. CASE k \in 1 .. 12
      <4>1. k \in 1 .. Len(g)
        BY <1>1, <2>1, <3>1
      <4>2. e[k] = s.buf[16 + k] /\ s.buf[16 + k] = g[k] /\ g[k] = f[k]
        BY <1>2, <1>3, <2>8, <3>1, <4>1, Zenon
      <4> QED
        BY <4>2
    <3>2. CASE k \in 13 .. Len(f)
      <4>1. 16 + n0 + k = 16 + (k + 8) /\ k + 8 \in 1 .. Len(g)
            /\ k \in 13 .. Len(s.buf) - 16 - n0
        BY <1>1, <2>1, <2>3, <2>9, <3>2
      <4>2. e[k] = s.buf[16 + (k + 8)]
        <5>1. e[k] = s.buf[16 + n0 + k]
          BY <2>8, <4>1, Zenon
        <5> QED
          BY <4>1, <5>1
      <4>3. s.buf[16 + (k + 8)] = g[k + 8] /\ g[k + 8] = f[k]
        BY <1>2, <2>1, <3>2, <4>1, Zenon
      <4> QED
        BY <4>2, <4>3
    <3>3. k \in 1 .. 12 \/ k \in 13 .. Len(f)
      BY <1>1
    <3> QED
      BY <3>1, <3>2, <3>3, Zenon
  <2>12. e = f
    BY <1>1, <2>8, <2>9, <2>11, SameBytes
  <2> QED
    BY <2>12 DEF e
<1> QED
  BY <1>6, <1>7

(* A frame cut off after its header. *)
LEMMA RuntIs ==
  Len(Data(skb_pull(Buffer(Addresses \o ETH_P_SDSA \o <<0, 0>>), ETH_HLEN))) = 2
<1> DEFINE x1 == Addresses
           y1 == ETH_P_SDSA
           z1 == <<0, 0>>
           g  == (x1 \o y1) \o z1
           s1 == skb_pull(Buffer(g), ETH_HLEN)
<1>1. x1 \in Bytes /\ Len(x1) = 12
  <2>1. Addresses \in [1 .. 12 -> Nat] /\ 12 \in Nat
    BY DEF Addresses
  <2> QED
    BY <2>1, BytesOf
<1>2. y1 \in Bytes /\ Len(y1) = 2 /\ z1 \in Bytes /\ Len(z1) = 2
  BY DEF ETH_P_SDSA, Bytes
<1> HIDE DEF x1, y1, z1
<1>3. Joined(x1 \o y1, x1, y1)
  BY <1>1, <1>2, CatIs, Zenon
<1>4. x1 \o y1 \in Bytes /\ Len(x1 \o y1) = 14
  BY <1>1, <1>2, <1>3 DEF Joined
<1> DEFINE w1 == x1 \o y1
<1>5. w1 \in Bytes /\ Len(w1) = 14 /\ g = w1 \o z1
  BY <1>4
<1> HIDE DEF w1, g
<1>6. Joined(g, w1, z1)
  BY <1>2, <1>5, CatIs, Zenon
<1>7. g \in Bytes /\ Len(g) = 16
  BY <1>2, <1>5, <1>6 DEF Joined
<1>8. Arrived(s1, g)
  BY <1>7, ArrivedIs
<1> HIDE DEF s1
<1>9. s1 \in Skbs /\ s1.data = 30 /\ Len(s1.buf) = 32
  BY <1>7, <1>8 DEF Arrived
<1>10. Len(Data(s1)) = Len(s1.buf) - s1.data
  <2>1. s1.data <= Len(s1.buf)
    BY <1>9
  <2> QED
    BY <1>9, <2>1, DataIs, Zenon
<1>11. Len(Data(s1)) = 2
  BY <1>9, <1>10
<1> QED
  BY <1>11 DEF s1, g, w1, x1, y1, z1

(* s holds the frame f, that came in at port o or is not for a user port. *)
Delivered(s, o, f) ==
  \E p \in 0 .. 1023, type \in {0, 64, 128} :
     o = (IF type = 0 THEN p ELSE 1024) /\ \E g : Handed(g, type, p, f) /\ Arrived(s, g)

TagInv ==
  /\ users \subseteq UserPorts
  /\ at \in {"idle", "tagged", "sent", "wire", "received"}
  /\ at = "tagged" => port \in UserPorts /\ frame \in Frames /\ Sent(Data(skb), port, frame)
  /\ at = "wire" =>
       \/ frame \in Frames /\ Delivered(skb, port, frame)
       \/ port = 1024 /\ Len(Data(skb)) < SDSA_HLEN
  /\ FramesIntact

(* dsa_switch_rcv takes a frame from a port with a user device, no other. *)
Accepted(s, p, type) ==
  (sdsa_accepts(s) <=> type = 0 /\ p \in users) /\ SourcePort(s) = p

LEMMA AcceptsIs ==
  ASSUME users \subseteq UserPorts, NEW f \in Frames, NEW p \in 0 .. 1023, NEW type \in {0, 64, 128},
         NEW g, Handed(g, type, p, f), NEW s, Arrived(s, g)
  PROVE  Accepted(s, p, type)
<1>1. Header(s, g, type, p, f)
  BY HeaderIs, SMTT(40)
<1>2. Len(Data(s)) >= SDSA_HLEN /\ (ByteAt(s, 2) \div 64 = 0 <=> type = 0) /\ SourcePort(s) = p
  BY <1>1, Zenon DEF Header
<1>3. dsa_conduit_find_user(p) # 1024 <=> p \in users
  BY DEF dsa_conduit_find_user
<1>4. sdsa_accepts(s) <=> Len(Data(s)) >= SDSA_HLEN /\ ByteAt(s, 2) \div 64 = 0
                           /\ dsa_conduit_find_user(SourcePort(s)) # 1024
  BY DEF sdsa_accepts
<1>5. dsa_conduit_find_user(SourcePort(s)) = dsa_conduit_find_user(p)
  BY <1>2, Zenon
<1> QED
  BY <1>2, <1>3, <1>4, <1>5 DEF Accepted

LEMMA TagRcv ==
  ASSUME TagInv, dsa_switch_rcv
  PROVE  TagInv'
<1>1. at = "wire" /\ at' = "received" /\ UNCHANGED <<port, frame, skb, users, dsa>>
  BY DEF dsa_switch_rcv
<1>2. \/ out' = (IF dsa /\ sdsa_accepts(skb)
                 THEN [port |-> SourcePort(skb), frame |-> Data(skb_push(Untag(skb), ETH_HLEN))]
                 ELSE Dropped)
      \/ out' = Dropped /\ lost' = TRUE
  BY DEF dsa_switch_rcv
<1>3. users \subseteq UserPorts /\ users \subseteq 0 .. 31
  BY TagAssumption DEF TagInv
<1> SUFFICES /\ out' # Dropped => out' = [port |-> port, frame |-> frame] /\ port \in users
             /\ ~lost' /\ dsa /\ port \in users => out' # Dropped
  <2>1. /\ at' \in {"idle", "tagged", "sent", "wire", "received"}
        /\ ~(at' = "tagged") /\ ~(at' = "wire") /\ ~(at' = "sent")
    BY <1>1
  <2>2. users' \subseteq UserPorts
    BY <1>1, <1>3
  <2>3. port' = port /\ frame' = frame /\ users' = users /\ dsa' = dsa
    BY <1>1
  <2>4. FramesIntact'
    BY <2>1, <2>3 DEF FramesIntact
  <2> QED
    BY <2>1, <2>2, <2>4, Zenon DEF TagInv
<1>4. CASE frame \in Frames /\ Delivered(skb, port, frame)
  <2>1. PICK p \in 0 .. 1023, type \in {0, 64, 128} :
           port = (IF type = 0 THEN p ELSE 1024)
           /\ \E g : Handed(g, type, p, frame) /\ Arrived(skb, g)
    BY <1>4, Zenon DEF Delivered
  <2>2. PICK g : Handed(g, type, p, frame) /\ Arrived(skb, g)
    BY <2>1
  <2>3. (sdsa_accepts(skb) <=> type = 0 /\ p \in users) /\ SourcePort(skb) = p
    <3>1. Accepted(skb, p, type)
      BY <1>3, <1>4, <2>2, AcceptsIs, SMTT(40)
    <3> QED
      BY <3>1, Zenon DEF Accepted
  <2>4. Data(skb_push(Untag(skb), ETH_HLEN)) = frame
    BY <1>4, <2>2, UntagIs, SMTT(40)
  <2> DEFINE r0 == [port |-> p, frame |-> frame]
  <2>5. r0 # Dropped
    <3>1. r0.port = p /\ Dropped.port = 1024
      BY DEF Dropped
    <3>2. p # 1024
      OBVIOUS
    <3> HIDE DEF r0
    <3> QED
      BY <3>1, <3>2
  <2>8. 1024 \notin users
    BY <1>3
  <2>6. type = 0 => port = p
    BY <2>1
  <2>7. type # 0 => port = 1024
    BY <2>1
  <2>9. \/ out' = (IF dsa /\ type = 0 /\ p \in users THEN r0 ELSE Dropped)
        \/ out' = Dropped /\ lost' = TRUE
    BY <1>2, <2>3, <2>4, ZenonT(40)
  <2> HIDE DEF r0
  <2>10. CASE type = 0
    <3>1. r0 = [port |-> port, frame |-> frame] /\ port = p
      BY <2>6, <2>10 DEF r0
    <3> QED
      BY <2>5, <2>9, <2>10, <3>1, Zenon
  <2>11. CASE type # 0
    <3>1. port \notin users
      BY <2>7, <2>8, <2>11
    <3>2. out' = Dropped
      BY <2>9, <2>11
    <3> QED
      BY <3>1, <3>2
  <2> QED
    BY <2>10, <2>11
<1>5. CASE port = 1024 /\ Len(Data(skb)) < SDSA_HLEN
  <2>1. ~sdsa_accepts(skb)
    <3>1. SDSA_HLEN = 8
      BY DEF SDSA_HLEN
    <3>2. ~(Len(Data(skb)) >= SDSA_HLEN)
      BY <1>5, <3>1
    <3> QED
      BY <3>2, Zenon DEF sdsa_accepts
  <2>2. port \notin users
    BY <1>3, <1>5
  <2> QED
    BY <1>2, <2>1, <2>2, Zenon
<1> QED
  BY <1>1, <1>4, <1>5, ZenonT(40) DEF TagInv

LEMMA TagEgress ==
  ASSUME TagInv, SwitchEgress
  PROVE  TagInv'
<1> DEFINE e == Data(skb)
           fromCpu == SubSeq(e, 13, 14) = ETH_P_SDSA /\ e[17] \div 64 = 1
           vlan == (e[17] \div 32) % 2 = 1
<1>1. at = "tagged" /\ at' = "sent" /\ UNCHANGED <<port, frame, users>>
  BY DEF SwitchEgress
<1>2. out' = IF ~fromCpu THEN Dropped
             ELSE [port |-> e[18] \div 8,
                   frame |-> SubSeq(e, 1, 12)
                             \o (IF vlan THEN ETH_P_8021Q \o SubSeq(e, 19, Len(e))
                                         ELSE SubSeq(e, 21, Len(e)))]
  BY Zenon DEF SwitchEgress
<1>3. port \in 0 .. 31 /\ frame \in Frames /\ Sent(e, port, frame) /\ users \subseteq UserPorts
  <2>1. port \in UserPorts /\ frame \in Frames /\ Sent(e, port, frame) /\ users \subseteq UserPorts
    BY <1>1, Zenon DEF TagInv
  <2>2. UserPorts \subseteq 0 .. 31
    BY TagAssumption, Zenon
  <2> QED
    BY <2>1, <2>2, Zenon
<1> HIDE DEF e
<1>4. /\ fromCpu
      /\ e[18] \div 8 = port
      /\ vlan <=> IsVlan(frame)
      /\ IsVlan(frame)  => SubSeq(e, 1, 12) \o (ETH_P_8021Q \o SubSeq(e, 19, Len(e))) = frame
      /\ ~IsVlan(frame) => SubSeq(e, 1, 12) \o SubSeq(e, 21, Len(e)) = frame
  BY <1>3, EgressIs, ZenonT(40)
<1> HIDE DEF fromCpu, vlan
<1>5. out' = [port |-> port, frame |-> frame]
  BY <1>2, <1>4, Zenon
<1> QED
  BY <1>1, <1>3, <1>5 DEF TagInv, FramesIntact

LEMMA TagStep ==
  ASSUME TagInv, [TagNext]_tagVars
  PROVE  TagInv'
<1>1. ASSUME NEW p \in UserPorts, NEW f \in Frames, dsa_user_xmit(p, f)
      PROVE  TagInv'
  <2>1. p \in 0 .. 31 /\ users \subseteq UserPorts
    BY TagAssumption DEF TagInv
  <2>2. port' = p /\ frame' = f /\ users' = users
    BY <1>1 DEF dsa_user_xmit
  <2>3. CASE at' = "tagged" /\ skb' = sdsa_xmit(Buffer(f), p)
    <3>1. Sent(Data(skb'), p, f)
      BY <2>1, <2>3, XmitIs
    <3> QED
      BY <2>1, <2>2, <2>3, <3>1 DEF TagInv, FramesIntact
  <2>4. CASE at' = "sent" /\ lost' = TRUE
    BY <2>1, <2>2, <2>4 DEF TagInv, FramesIntact
  <2> QED
    BY <1>1, <2>3, <2>4 DEF dsa_user_xmit
<1>2. ASSUME NEW p \in UserPorts \cup OtherPorts, NEW f \in Frames, NEW type \in {0, 64, 128},
             SwitchIngress(p, f, type)
      PROVE  TagInv'
  <2>1. p \in 0 .. 1023 /\ users \subseteq UserPorts
    BY TagAssumption DEF TagInv
  <2>2. /\ at' = "wire" /\ frame' = f /\ users' = users
        /\ port' = (IF type = 0 THEN p ELSE 1024)
        /\ skb' = skb_pull(Buffer(ToCpu(type, p, f)), ETH_HLEN)
    BY <1>2 DEF SwitchIngress
  <2> DEFINE g0 == ToCpu(type, p, f)
  <2>3. Handed(g0, type, p, f)
    BY <2>1, ToCpuIs, SMTT(40)
  <2>4. g0 \in Bytes
    BY <2>3, Zenon DEF Handed
  <2>5. Arrived(skb', g0)
    BY <2>2, <2>4, ArrivedIs
  <2> HIDE DEF g0
  <2>6. Delivered(skb', port', frame')
    BY <2>1, <2>2, <2>3, <2>5, ZenonT(40) DEF Delivered
  <2> QED
    BY <2>1, <2>2, <2>6 DEF TagInv, FramesIntact
<1>3. CASE Runt
  <2>1. at' = "wire" /\ port' = 1024 /\ users' = users
        /\ skb' = skb_pull(Buffer(Addresses \o ETH_P_SDSA \o <<0, 0>>), ETH_HLEN)
    BY <1>3 DEF Runt
  <2>2. Len(Data(skb')) < SDSA_HLEN
    <3>1. Len(Data(skb')) = 2
      BY <2>1, RuntIs, Zenon
    <3> QED
      BY <3>1 DEF SDSA_HLEN
  <2> QED
    BY <2>1, <2>2 DEF TagInv, FramesIntact
<1>4. CASE SwitchEgress
  BY <1>4, TagEgress
<1>5. CASE dsa_switch_rcv
  BY <1>5, TagRcv
<1>6. CASE Conduit
  BY <1>6 DEF Conduit, TagInv, FramesIntact
<1>7. CASE Again
  BY <1>7 DEF Again, TagInv, FramesIntact
<1>8. ASSUME NEW p \in UserPorts, UserDevice(p)
      PROVE  TagInv'
  BY <1>8 DEF UserDevice, TagInv, FramesIntact
<1>9. CASE UNCHANGED tagVars
  BY <1>9 DEF tagVars, TagInv, FramesIntact
<1> QED
  BY <1>1, <1>2, <1>3, <1>4, <1>5, <1>6, <1>7, <1>8, <1>9 DEF TagNext

(***************************************************************************)
(* Frames pass the tag whole, whatever the ports, the payloads and the     *)
(* switch's index: what sdsa_xmit writes leaves the switch at the port of  *)
(* its user device as it was sent, and what sdsa_rcv delivers is what came *)
(* in at the port of the user device that gets it (FramesIntact).          *)
(***************************************************************************)
THEOREM FramesPass == TagSpec => []FramesIntact
<1>1. TagInit => TagInv
  BY DEF TagInit, TagInv, FramesIntact
<1>2. TagInv /\ [TagNext]_tagVars => TagInv'
  BY TagStep
<1>3. TagInv => FramesIntact
  BY DEF TagInv
<1> QED
  BY <1>1, <1>2, <1>3, PTL DEF TagSpec
-----------------------------------------------------------------------------
(***************************************************************************)
(* DsaVlan.  Calls made one after another (Each): the states the switch    *)
(* goes through are a function on 0 .. n, which exists by induction.       *)
(***************************************************************************)
LEMMA LeastNat ==
  ASSUME NEW T \in SUBSET Nat, T # {}
  PROVE  \E x \in T : \A y \in T : x <= y
<1> DEFINE R == OpToRel(<, Nat)
<1>1. IsWellFoundedOn(R, Nat)
  BY NatLessThanWellFounded
<1>2. \A x, y \in Nat : y < x => <<y, x>> \in R
  BY DEF OpToRel
<1> HIDE DEF R
<1>3. PICK x \in T : \A y \in T : ~(<<y, x>> \in R)
  BY <1>1, WFMin
<1>4. ASSUME NEW y \in T
      PROVE  x <= y
  <2>1. x \in Nat /\ y \in Nat /\ ~(y < x)
    BY <1>2, <1>3
  <2> QED
    BY <2>1
<1> QED
  BY <1>4

LEMMA UpTo ==
  ASSUME NEW n \in Nat, NEW G, 0 \in G, \A k \in 0 .. n - 1 : k \in G => k + 1 \in G
  PROVE  \A k \in 0 .. n : k \in G
<1> SUFFICES ASSUME ~\A k \in 0 .. n : k \in G PROVE FALSE
  OBVIOUS
<1> DEFINE T == {k \in 0 .. n : k \notin G}
<1>1. T \in SUBSET Nat /\ T # {}
  OBVIOUS
<1>2. PICK x \in T : \A y \in T : x <= y
  BY <1>1, LeastNat
<1>3. x # 0 /\ x \in 0 .. n /\ x \notin G
  BY <1>2
<1>4. x - 1 \in 0 .. n - 1 /\ x - 1 \in 0 .. n /\ (x - 1) + 1 = x
  BY <1>3
<1>5. x - 1 \notin T
  <2>1. ~(x <= x - 1)
    BY <1>3
  <2> QED
    BY <1>2, <2>1
<1>6. x - 1 \in G
  BY <1>4, <1>5
<1> QED
  BY <1>3, <1>4, <1>6

Runs(n, R, r0, step) ==
  \E run \in [0 .. n -> R] :
     run[0] = r0 /\ \A k \in 1 .. n : run[k] = step[<<k, run[k - 1]>>]

LEMMA RunExists ==
  ASSUME NEW n \in Nat, NEW R, NEW r0 \in R, NEW step \in [(1 .. n) \X R -> R]
  PROVE  Runs(n, R, r0, step)
<1> DEFINE Goes(g, m) == g \in [0 .. m -> R] /\ g[0] = r0
                         /\ \A k \in 1 .. m : g[k] = step[<<k, g[k - 1]>>]
           G == {m \in 0 .. n : \E g : Goes(g, m)}
<1>1. 0 \in G
  <2> DEFINE g0 == [k \in 0 .. 0 |-> r0]
  <2>1. Goes(g0, 0) /\ 0 \in 0 .. n
    OBVIOUS
  <2> HIDE DEF Goes, g0
  <2> QED
    BY <2>1
<1>2. ASSUME NEW m \in 0 .. n - 1, m \in G
      PROVE  m + 1 \in G
  <2>1. PICK g : Goes(g, m)
    BY <1>2
  <2> DEFINE g0 == [k \in 0 .. m + 1 |-> IF k = m + 1 THEN step[<<m + 1, g[m]>>] ELSE g[k]]
  <2>2. m + 1 \in 1 .. n /\ g[m] \in R
    BY <2>1
  <2>3. step[<<m + 1, g[m]>>] \in R
    BY <2>2
  <2>4. g0 \in [0 .. m + 1 -> R]
    BY <2>1, <2>3
  <2>5. g0[0] = r0
    BY <2>1
  <2>6. ASSUME NEW k \in 1 .. m + 1
        PROVE  g0[k] = step[<<k, g0[k - 1]>>]
    <3>1. k - 1 \in 0 .. m + 1 /\ k - 1 # m + 1 /\ k \in 0 .. m + 1
      OBVIOUS
    <3>2. g0[k - 1] = g[k - 1]
      BY <3>1
    <3>3. CASE k = m + 1
      <4>1. k - 1 = m /\ g0[k] = step[<<m + 1, g[m]>>]
        BY <3>1, <3>3
      <4> QED
        BY <3>2, <3>3, <4>1
    <3>4. CASE k # m + 1
      <4>1. k \in 1 .. m /\ g0[k] = g[k]
        BY <3>1, <3>4
      <4> QED
        BY <2>1, <3>2, <4>1
    <3> QED
      BY <3>3, <3>4
  <2>7. Goes(g0, m + 1)
    BY <2>4, <2>5, <2>6
  <2> HIDE DEF Goes, g0
  <2>8. m + 1 \in 0 .. n
    BY <2>2
  <2> QED
    BY <2>7, <2>8
<1>3. n \in G
  <2> HIDE DEF G
  <2>1. \A k \in 0 .. n : k \in G
    BY <1>1, <1>2, UpTo
  <2> QED
    BY <2>1
<1> QED
  BY <1>3 DEF Runs

Results == [s : SwitchState, ok : BOOLEAN]

Ran(run, op, s, seq) ==
  /\ run[0] = Ok(s)
  /\ \A k \in 1 .. Len(seq) :
       run[k] = IF run[k - 1].ok THEN op[<<run[k - 1].s, seq[k]>>] ELSE run[k - 1]

LEMMA EachRuns ==
  ASSUME NEW E, NEW seq \in Seq(E), NEW op \in [SwitchState \X E -> Results], NEW s \in SwitchState
  PROVE  \E run \in [0 .. Len(seq) -> Results] : Ran(run, op, s, seq)
<1> DEFINE len == Len(seq)
           Step(k, r) == IF r.ok THEN op[<<r.s, seq[k]>>] ELSE r
           stp == [x \in (1 .. len) \X Results |-> Step(x[1], x[2])]
<1>1. len \in Nat /\ \A k \in 1 .. len : seq[k] \in E
  BY ElementOfSeq
<1>2. Ok(s) \in Results
  BY DEF Ok, Results
<1>3. ASSUME NEW k \in 1 .. len, NEW r \in Results
      PROVE  Step(k, r) \in Results
  <2>1. r.s \in SwitchState /\ seq[k] \in E
    BY <1>1 DEF Results
  <2>2. <<r.s, seq[k]>> \in SwitchState \X E
    BY <2>1
  <2> QED
    BY <2>2
<1> HIDE DEF Step
<1>4. stp \in [(1 .. len) \X Results -> Results]
  BY <1>3
<1>5. \A k \in 1 .. len, r \in Results : stp[<<k, r>>] = Step(k, r)
  OBVIOUS
<1> HIDE DEF stp, len
<1>6. PICK run \in [0 .. len -> Results] : run[0] = Ok(s) /\ \A k \in 1 .. len : run[k] = stp[<<k, run[k - 1]>>]
  <2>1. \E g \in [0 .. len -> Results] :
           g[0] = Ok(s) /\ \A k \in 1 .. len : g[k] = stp[<<k, g[k - 1]>>]
    <3>1. Runs(len, Results, Ok(s), stp)
      BY <1>1, <1>2, <1>4, RunExists
    <3> QED
      BY <3>1, Zenon DEF Runs
  <2> QED
    BY <2>1
<1>7. ASSUME NEW k \in 1 .. len
      PROVE  run[k] = Step(k, run[k - 1])
  <2>1. k - 1 \in 0 .. len
    BY <1>1
  <2>2. run[k - 1] \in Results
    BY <2>1
  <2> QED
    BY <1>5, <1>6, <2>2
<1> QED
  BY <1>6, <1>7 DEF Step, len, Ran

-----------------------------------------------------------------------------
(* What the calls do to the switch. *)

(* The CPU port is in the VLANs with references and in no other, all of    *)
(* them in the table, and the conduit admits each as often as it is held.  *)
Sound(t) ==
  /\ t \in SwitchState
  /\ \A v \in Vids : t.cond[v] >= t.ref[v] /\ (t.ref[v] > 0 => v \in Table)
  /\ \A v \in Table : Cpu \in t.mem[v] <=> t.ref[v] > 0

(* Nothing changes for the user ports. *)
SamePorts(t, u) ==
  /\ u.feat = t.feat /\ u.filt = t.filt
  /\ \A q \in VlanPorts, v \in Table : q \in u.mem[v] <=> q \in t.mem[v]

LEMMA StateIs ==
  ASSUME NEW t \in SwitchState
  PROVE  /\ t = [mem |-> t.mem, ref |-> t.ref, cond |-> t.cond,
                 filt |-> t.filt, feat |-> t.feat, oob |-> t.oob]
         /\ t.mem \in [Table -> SUBSET (VlanPorts \cup {Cpu})]
         /\ t.ref \in [Vids -> Nat] /\ t.cond \in [Vids -> Nat]
         /\ t.filt \in SUBSET VlanPorts /\ t.feat \in SUBSET VlanPorts
         /\ t.oob \in {"never", "undo", "other"}
BY DEF SwitchState

LEMMA StateOf ==
  ASSUME NEW m \in [Table -> SUBSET (VlanPorts \cup {Cpu})],
         NEW r \in [Vids -> Nat], NEW c \in [Vids -> Nat],
         NEW fi \in SUBSET VlanPorts, NEW fe \in SUBSET VlanPorts,
         NEW o \in {"never", "undo", "other"}
  PROVE  [mem |-> m, ref |-> r, cond |-> c, filt |-> fi, feat |-> fe, oob |-> o] \in SwitchState
BY DEF SwitchState

LEMMA ResultIs ==
  /\ \A t : Ok(t).s = t /\ Ok(t).ok = TRUE /\ Err(t).s = t /\ Err(t).ok = FALSE
  /\ \A t \in SwitchState : Ok(t) \in Results /\ Err(t) \in Results
BY DEF Ok, Err, Results

(* The driver. *)
LEMMA PortAddIs ==
  ASSUME NEW t \in SwitchState, NEW q \in VlanPorts \cup {Cpu}, NEW v \in Vids
  PROVE  /\ v \notin Table => dsa_loop_port_vlan_add(t, q, v) = Err(t)
         /\ v \in Table => dsa_loop_port_vlan_add(t, q, v) =
              Ok([mem |-> [t.mem EXCEPT ![v] = @ \cup {q}], ref |-> t.ref, cond |-> t.cond,
                  filt |-> t.filt, feat |-> t.feat, oob |-> t.oob])
         /\ dsa_loop_port_vlan_add(t, q, v) \in Results
<1>1. /\ t = [mem |-> t.mem, ref |-> t.ref, cond |-> t.cond,
              filt |-> t.filt, feat |-> t.feat, oob |-> t.oob]
      /\ t.mem \in [Table -> SUBSET (VlanPorts \cup {Cpu})]
  BY StateIs
<1> DEFINE u == [t EXCEPT !.mem[v] = @ \cup {q}]
           w == [mem |-> [t.mem EXCEPT ![v] = @ \cup {q}], ref |-> t.ref, cond |-> t.cond,
                 filt |-> t.filt, feat |-> t.feat, oob |-> t.oob]
<1>2. u = w
  BY <1>1
<1>3. v \in Table => w \in SwitchState
  <2>1. v \in Table => [t.mem EXCEPT ![v] = @ \cup {q}] \in [Table -> SUBSET (VlanPorts \cup {Cpu})]
    BY <1>1
  <2> QED
    BY <2>1, StateIs, StateOf
<1>4. dsa_loop_port_vlan_add(t, q, v) = IF v \in Table THEN Ok(u) ELSE Err(t)
  BY DEF dsa_loop_port_vlan_add
<1> HIDE DEF u, w
<1>5. dsa_loop_port_vlan_add(t, q, v) \in Results
  BY <1>2, <1>3, <1>4, ResultIs
<1> QED
  BY <1>2, <1>4, <1>5 DEF w

LEMMA PortDelIs ==
  ASSUME NEW t \in SwitchState, NEW q \in VlanPorts \cup {Cpu}, NEW v \in Vids,
         NEW how \in {"undo", "other"}
  PROVE  /\ v \notin Table => dsa_loop_port_vlan_del(t, q, v, how) =
              Ok([mem |-> t.mem, ref |-> t.ref, cond |-> t.cond,
                  filt |-> t.filt, feat |-> t.feat, oob |-> how])
         /\ v \in Table => dsa_loop_port_vlan_del(t, q, v, how) =
              Ok([mem |-> [t.mem EXCEPT ![v] = @ \ {q}], ref |-> t.ref, cond |-> t.cond,
                  filt |-> t.filt, feat |-> t.feat, oob |-> t.oob])
         /\ dsa_loop_port_vlan_del(t, q, v, how) \in Results
<1>1. /\ t = [mem |-> t.mem, ref |-> t.ref, cond |-> t.cond,
              filt |-> t.filt, feat |-> t.feat, oob |-> t.oob]
      /\ t.mem \in [Table -> SUBSET (VlanPorts \cup {Cpu})]
  BY StateIs
<1> DEFINE u == [t EXCEPT !.mem[v] = @ \ {q}]
           w == [mem |-> [t.mem EXCEPT ![v] = @ \ {q}], ref |-> t.ref, cond |-> t.cond,
                 filt |-> t.filt, feat |-> t.feat, oob |-> t.oob]
           u2 == [t EXCEPT !.oob = how]
           w2 == [mem |-> t.mem, ref |-> t.ref, cond |-> t.cond,
                  filt |-> t.filt, feat |-> t.feat, oob |-> how]
<1>2. u = w /\ u2 = w2
  <2> DEFINE m1 == t.mem
             r1 == t.ref
             c1 == t.cond
             fi1 == t.filt
             fe1 == t.feat
             o1 == t.oob
  <2>1. t = [mem |-> m1, ref |-> r1, cond |-> c1, filt |-> fi1, feat |-> fe1, oob |-> o1]
    BY <1>1
  <2> HIDE DEF m1, r1, c1, fi1, fe1, o1
  <2>2. [t EXCEPT !.oob = how]
        = [mem |-> m1, ref |-> r1, cond |-> c1, filt |-> fi1, feat |-> fe1, oob |-> how]
    BY <2>1
  <2>3. [t EXCEPT !.mem[v] = @ \ {q}]
        = [mem |-> [m1 EXCEPT ![v] = @ \ {q}], ref |-> r1, cond |-> c1,
           filt |-> fi1, feat |-> fe1, oob |-> o1]
    BY <2>1
  <2> QED
    BY <2>2, <2>3 DEF m1, r1, c1, fi1, fe1, o1
<1>3. (v \in Table => w \in SwitchState) /\ w2 \in SwitchState
  <2>1. v \in Table => [t.mem EXCEPT ![v] = @ \ {q}] \in [Table -> SUBSET (VlanPorts \cup {Cpu})]
    BY <1>1
  <2> QED
    BY <2>1, StateIs, StateOf
<1>4. dsa_loop_port_vlan_del(t, q, v, how) = IF v \in Table THEN Ok(u) ELSE Ok(u2)
  BY DEF dsa_loop_port_vlan_del
<1> HIDE DEF u, w, u2, w2
<1>5. dsa_loop_port_vlan_del(t, q, v, how) \in Results
  BY <1>2, <1>3, <1>4, ResultIs
<1> QED
  BY <1>2, <1>4, <1>5 DEF w, w2

(* t with other members, counts and deletions; the user ports' flags stay. *)
With(t, m, r, c, o) ==
  [mem |-> m, ref |-> r, cond |-> c, filt |-> t.filt, feat |-> t.feat, oob |-> o]

LEMMA WithIs ==
  ASSUME NEW t \in SwitchState, NEW m \in [Table -> SUBSET (VlanPorts \cup {Cpu})],
         NEW r \in [Vids -> Nat], NEW c \in [Vids -> Nat], NEW o \in {"never", "undo", "other"}
  PROVE  With(t, m, r, c, o) \in SwitchState
BY StateIs, StateOf DEF With

(* The CPU port. *)
LEMMA HostAddIs ==
  ASSUME NEW t \in SwitchState, NEW v \in Vids, NEW changed \in BOOLEAN
  PROVE  /\ changed => dsa_port_host_vlan_add(t, v, changed)
              = Ok(With(t, t.mem, t.ref, [t.cond EXCEPT ![v] = @ + 1], t.oob))
         /\ ~changed /\ t.ref[v] > 0 => dsa_port_host_vlan_add(t, v, changed)
              = Ok(With(t, t.mem, [t.ref EXCEPT ![v] = @ + 1], [t.cond EXCEPT ![v] = @ + 1], t.oob))
         /\ ~changed /\ ~(t.ref[v] > 0) /\ v \in Table => dsa_port_host_vlan_add(t, v, changed)
              = Ok(With(t, [t.mem EXCEPT ![v] = @ \cup {Cpu}], [t.ref EXCEPT ![v] = 1],
                        [t.cond EXCEPT ![v] = @ + 1], t.oob))
         /\ ~changed /\ ~(t.ref[v] > 0) /\ v \notin Table => dsa_port_host_vlan_add(t, v, changed) = Err(t)
         /\ dsa_port_host_vlan_add(t, v, changed) \in Results
<1> DEFINE c1 == [t.cond EXCEPT ![v] = @ + 1]
           r1 == [t.ref EXCEPT ![v] = @ + 1]
           r2 == [t.ref EXCEPT ![v] = 1]
           m2 == [t.mem EXCEPT ![v] = @ \cup {Cpu}]
           n  == [t EXCEPT !.cond[v] = @ + 1]
           r  == dsa_loop_port_vlan_add(n, Cpu, v)
<1>1. /\ t.mem \in [Table -> SUBSET (VlanPorts \cup {Cpu})]
      /\ t.ref \in [Vids -> Nat] /\ t.cond \in [Vids -> Nat]
      /\ t.oob \in {"never", "undo", "other"}
  BY StateIs
<1>2. c1 \in [Vids -> Nat] /\ r1 \in [Vids -> Nat] /\ r2 \in [Vids -> Nat]
  BY <1>1
<1>3. v \in Table => m2 \in [Table -> SUBSET (VlanPorts \cup {Cpu})]
  BY <1>1
<1>4. n = With(t, t.mem, t.ref, c1, t.oob)
  <2>1. t = With(t, t.mem, t.ref, t.cond, t.oob)
    BY StateIs DEF With
  <2> DEFINE m0 == t.mem
             r0 == t.ref
             c0 == t.cond
             fi0 == t.filt
             fe0 == t.feat
             o0 == t.oob
  <2>2. t = [mem |-> m0, ref |-> r0, cond |-> c0, filt |-> fi0, feat |-> fe0, oob |-> o0]
    BY StateIs
  <2> HIDE DEF m0, r0, c0, fi0, fe0, o0
  <2>3. [t EXCEPT !.cond[v] = @ + 1]
        = [mem |-> m0, ref |-> r0, cond |-> [c0 EXCEPT ![v] = @ + 1],
           filt |-> fi0, feat |-> fe0, oob |-> o0]
    BY <2>2
  <2> QED
    BY <2>3 DEF m0, r0, c0, fi0, fe0, o0, With
<1>5. n \in SwitchState
  <2> HIDE DEF c1, n
  <2> QED
    BY <1>1, <1>2, <1>4, WithIs
<1>6. [n EXCEPT !.ref[v] = @ + 1] = With(t, t.mem, r1, c1, t.oob)
  <2> DEFINE m0 == t.mem
             r0 == t.ref
             fi0 == t.filt
             fe0 == t.feat
             o0 == t.oob
  <2>1. n = [mem |-> m0, ref |-> r0, cond |-> c1, filt |-> fi0, feat |-> fe0, oob |-> o0]
    BY <1>4 DEF With
  <2> HIDE DEF m0, r0, c1, fi0, fe0, o0, n
  <2>2. [n EXCEPT !.ref[v] = @ + 1]
        = [mem |-> m0, ref |-> [r0 EXCEPT ![v] = @ + 1], cond |-> c1,
           filt |-> fi0, feat |-> fe0, oob |-> o0]
    BY <2>1
  <2> QED
    BY <2>2 DEF m0, r0, fi0, fe0, o0, With
<1>7. /\ v \in Table => r = Ok(With(t, m2, t.ref, c1, t.oob))
      /\ v \notin Table => r = Err(n)
      /\ r \in Results
  <2> HIDE DEF n, c1
  <2>1. Cpu \in VlanPorts \cup {Cpu}
    OBVIOUS
  <2>2. /\ v \notin Table => r = Err(n)
        /\ v \in Table => r = Ok([mem |-> [n.mem EXCEPT ![v] = @ \cup {Cpu}], ref |-> n.ref, cond |-> n.cond,
                                  filt |-> n.filt, feat |-> n.feat, oob |-> n.oob])
        /\ r \in Results
    BY <1>5, <2>1, PortAddIs
  <2>3. n.mem = t.mem /\ n.ref = t.ref /\ n.cond = c1 /\ n.filt = t.filt /\ n.feat = t.feat /\ n.oob = t.oob
    BY <1>4 DEF With
  <2> QED
    BY <2>2, <2>3, Zenon DEF With
<1>8. v \in Table => r.ok /\ [r.s EXCEPT !.ref[v] = 1] = With(t, m2, r2, c1, t.oob)
  <2> SUFFICES ASSUME v \in Table
               PROVE  r.ok /\ [r.s EXCEPT !.ref[v] = 1] = With(t, m2, r2, c1, t.oob)
    OBVIOUS
  <2> DEFINE r0 == t.ref
             fi0 == t.filt
             fe0 == t.feat
             o0 == t.oob
             w0 == With(t, m2, t.ref, c1, t.oob)
  <2>1. r.ok = TRUE /\ r.s = w0
    BY <1>7, ResultIs, Zenon
  <2>2. w0 = [mem |-> m2, ref |-> r0, cond |-> c1, filt |-> fi0, feat |-> fe0, oob |-> o0]
    BY DEF With
  <2> HIDE DEF m2, r0, c1, fi0, fe0, o0, w0, r
  <2>3. [w0 EXCEPT !.ref[v] = 1]
        = [mem |-> m2, ref |-> [r0 EXCEPT ![v] = 1], cond |-> c1,
           filt |-> fi0, feat |-> fe0, oob |-> o0]
    BY <2>2
  <2>4. [w0 EXCEPT !.ref[v] = 1] = With(t, m2, r2, c1, t.oob)
    BY <2>3 DEF r0, fi0, fe0, o0, With
  <2> QED
    BY <2>1, <2>4
<1>9. v \notin Table => ~r.ok
  <2> HIDE DEF r, n
  <2> QED
    BY <1>7, ResultIs
<1>10. dsa_port_host_vlan_add(t, v, changed)
       = CASE changed -> Ok(n)
           [] ~changed /\ t.ref[v] > 0 -> Ok([n EXCEPT !.ref[v] = @ + 1])
           [] OTHER -> IF r.ok THEN Ok([r.s EXCEPT !.ref[v] = 1]) ELSE Err(t)
  BY DEF dsa_port_host_vlan_add
<1> DEFINE h == dsa_port_host_vlan_add(t, v, changed)
           a1 == [n EXCEPT !.ref[v] = @ + 1]
           a2 == [r.s EXCEPT !.ref[v] = 1]
<1> HIDE DEF n, r, h, a1, a2, c1, r1, r2, m2
<1>11. changed => h = Ok(n)
  BY <1>10 DEF h
<1>12. ~changed /\ t.ref[v] > 0 => h = Ok(a1)
  BY <1>10 DEF h, a1
<1>13. ~changed /\ ~(t.ref[v] > 0) /\ r.ok => h = Ok(a2)
  BY <1>10 DEF h, a2
<1>14. ~changed /\ ~(t.ref[v] > 0) /\ ~r.ok => h = Err(t)
  BY <1>10 DEF h
<1>15. a1 = With(t, t.mem, r1, c1, t.oob) /\ (v \in Table => a2 = With(t, m2, r2, c1, t.oob))
  BY <1>6, <1>8 DEF a1, a2
<1>16. a1 \in SwitchState /\ (v \in Table => a2 \in SwitchState)
  BY <1>1, <1>2, <1>3, <1>15, WithIs, SMTT(40)
<1>17. h \in Results
  BY <1>5, <1>8, <1>9, <1>11, <1>12, <1>13, <1>14, <1>16, ResultIs, Zenon
<1> QED
  BY <1>4, <1>8, <1>9, <1>11, <1>12, <1>13, <1>14, <1>15, <1>17, Zenon DEF h, c1, r1, r2, m2

LEMMA HostDelIs ==
  ASSUME NEW t \in SwitchState, NEW v \in Vids, NEW how \in {"undo", "other"},
         NEW c1, c1 = [t.cond EXCEPT ![v] = IF @ > 0 THEN @ - 1 ELSE 0]
  PROVE  /\ c1 \in [Vids -> Nat]
         /\ t.ref[v] = 0 => dsa_port_host_vlan_del(t, v, how) = Err(t)
         /\ t.ref[v] = 1 /\ v \in Table => dsa_port_host_vlan_del(t, v, how)
              = Ok(With(t, [t.mem EXCEPT ![v] = @ \ {Cpu}], [t.ref EXCEPT ![v] = @ - 1], c1, t.oob))
         /\ t.ref[v] > 1 => dsa_port_host_vlan_del(t, v, how)
              = Ok(With(t, t.mem, [t.ref EXCEPT ![v] = @ - 1], c1, t.oob))
         /\ dsa_port_host_vlan_del(t, v, how) \in Results
<1> DEFINE r1 == [t.ref EXCEPT ![v] = @ - 1]
           m2 == [t.mem EXCEPT ![v] = @ \ {Cpu}]
           n  == [t EXCEPT !.ref[v] = @ - 1, !.cond[v] = IF @ > 0 THEN @ - 1 ELSE 0]
           r  == dsa_loop_port_vlan_del(n, Cpu, v, how)
           h  == dsa_port_host_vlan_del(t, v, how)
<1>1. /\ t.mem \in [Table -> SUBSET (VlanPorts \cup {Cpu})]
      /\ t.ref \in [Vids -> Nat] /\ t.cond \in [Vids -> Nat]
      /\ t.oob \in {"never", "undo", "other"} /\ t.ref[v] \in Nat
  BY StateIs
<1>2. c1 \in [Vids -> Nat] /\ (t.ref[v] # 0 => r1 \in [Vids -> Nat])
  BY <1>1
<1>3. v \in Table => m2 \in [Table -> SUBSET (VlanPorts \cup {Cpu})]
  BY <1>1
<1>4. n = With(t, t.mem, r1, c1, t.oob)
  <2> DEFINE m0 == t.mem
             r0 == t.ref
             c0 == t.cond
             fi0 == t.filt
             fe0 == t.feat
             o0 == t.oob
  <2>2. t = [mem |-> m0, ref |-> r0, cond |-> c0, filt |-> fi0, feat |-> fe0, oob |-> o0]
    BY StateIs
  <2>c. c1 = [c0 EXCEPT ![v] = IF @ > 0 THEN @ - 1 ELSE 0]
    OBVIOUS
  <2>r. r1 = [r0 EXCEPT ![v] = @ - 1]
    OBVIOUS
  <2> HIDE DEF m0, r0, c0, fi0, fe0, o0
  <2>3. [t EXCEPT !.ref[v] = @ - 1, !.cond[v] = IF @ > 0 THEN @ - 1 ELSE 0]
        = [mem |-> m0, ref |-> [r0 EXCEPT ![v] = @ - 1],
           cond |-> [c0 EXCEPT ![v] = IF @ > 0 THEN @ - 1 ELSE 0],
           filt |-> fi0, feat |-> fe0, oob |-> o0]
    <3> DEFINE x1 == r0[v] - 1
               y1 == IF c0[v] > 0 THEN c0[v] - 1 ELSE 0
    <3>1. t.ref = r0 /\ t.cond = c0 /\ t.ref[v] - 1 = x1
          /\ (IF t.cond[v] > 0 THEN t.cond[v] - 1 ELSE 0) = y1
      BY <2>2
    <3>2. [t EXCEPT !.ref[v] = @ - 1, !.cond[v] = IF @ > 0 THEN @ - 1 ELSE 0]
          = [t EXCEPT !.ref[v] = x1, !.cond[v] = y1]
      BY <3>1
    <3>3. [r0 EXCEPT ![v] = @ - 1] = [r0 EXCEPT ![v] = x1]
          /\ [c0 EXCEPT ![v] = IF @ > 0 THEN @ - 1 ELSE 0] = [c0 EXCEPT ![v] = y1]
      OBVIOUS
    <3> HIDE DEF x1, y1
    <3>4. [t EXCEPT !.ref[v] = x1, !.cond[v] = y1]
          = [mem |-> m0, ref |-> [r0 EXCEPT ![v] = x1], cond |-> [c0 EXCEPT ![v] = y1],
             filt |-> fi0, feat |-> fe0, oob |-> o0]
      <4> DEFINE t1 == [t EXCEPT !.ref[v] = x1]
                 r2 == [r0 EXCEPT ![v] = x1]
      <4>1. t1 = [mem |-> m0, ref |-> r2, cond |-> c0, filt |-> fi0, feat |-> fe0, oob |-> o0]
        BY <2>2
      <4>2. [t EXCEPT !.ref[v] = x1, !.cond[v] = y1] = [t1 EXCEPT !.cond[v] = y1]
        OBVIOUS
      <4> HIDE DEF t1, r2
      <4>3. [t1 EXCEPT !.cond[v] = y1]
            = [mem |-> m0, ref |-> r2, cond |-> [c0 EXCEPT ![v] = y1],
               filt |-> fi0, feat |-> fe0, oob |-> o0]
        BY <4>1
      <4> QED
        BY <4>2, <4>3 DEF r2
    <3> QED
      BY <3>2, <3>3, <3>4
  <2>4. n = [mem |-> m0, ref |-> r1, cond |-> c1, filt |-> fi0, feat |-> fe0, oob |-> o0]
    BY <2>3, <2>c, <2>r
  <2> HIDE DEF r1, n
  <2> QED
    BY <2>4 DEF m0, fi0, fe0, o0, With
<1>5. t.ref[v] # 0 => n \in SwitchState
  <2> HIDE DEF r1, n
  <2> QED
    BY <1>1, <1>2, <1>4, WithIs
<1>7. t.ref[v] # 0 =>
      /\ v \in Table => r = Ok(With(t, m2, r1, c1, t.oob))
      /\ r \in Results
  <2> SUFFICES ASSUME t.ref[v] # 0
               PROVE  (v \in Table => r = Ok(With(t, m2, r1, c1, t.oob))) /\ r \in Results
    OBVIOUS
  <2> HIDE DEF n, r1
  <2>1. Cpu \in VlanPorts \cup {Cpu}
    OBVIOUS
  <2>2. /\ v \in Table => r = Ok([mem |-> [n.mem EXCEPT ![v] = @ \ {Cpu}], ref |-> n.ref, cond |-> n.cond,
                                  filt |-> n.filt, feat |-> n.feat, oob |-> n.oob])
        /\ r \in Results
    BY <1>5, <2>1, PortDelIs
  <2>3. n.mem = t.mem /\ n.ref = r1 /\ n.cond = c1 /\ n.filt = t.filt /\ n.feat = t.feat /\ n.oob = t.oob
    BY <1>4 DEF With
  <2> QED
    BY <2>2, <2>3, Zenon DEF With
<1>10. h = CASE t.ref[v] = 0 -> Err(t) [] t.ref[v] = 1 -> r [] OTHER -> Ok(n)
  BY DEF dsa_port_host_vlan_del
<1> HIDE DEF n, r, h, r1, m2
<1>11. t.ref[v] = 0 => h = Err(t)
  BY <1>10
<1>12. t.ref[v] = 1 => h = r
  BY <1>10
<1>13. t.ref[v] > 1 => h = Ok(n)
  BY <1>10
<1>14. t.ref[v] = 0 \/ t.ref[v] = 1 \/ t.ref[v] > 1
  BY <1>1
<1>15. (t.ref[v] = 1 => t.ref[v] # 0) /\ (t.ref[v] > 1 => t.ref[v] # 0)
  BY <1>1
<1>16. h \in Results
  BY <1>5, <1>7, <1>11, <1>12, <1>13, <1>14, <1>15, ResultIs, Zenon
<1> QED
  BY <1>2, <1>4, <1>7, <1>11, <1>12, <1>13, <1>15, <1>16, Zenon DEF h, r1, m2

(* u is t with the references c and as it was for the user ports. *)
Counts(t, u, c) == Sound(u) /\ SamePorts(t, u) /\ u.oob = t.oob /\ u.ref = c

LEMMA HostAddCounts ==
  ASSUME NEW t, Sound(t), NEW v \in Table
  PROVE  /\ dsa_port_host_vlan_add(t, v, FALSE).ok
         /\ Counts(t, dsa_port_host_vlan_add(t, v, FALSE).s, [t.ref EXCEPT ![v] = @ + 1])
<1>1. t \in SwitchState /\ v \in Vids
  BY DsaVlanAssumption DEF Sound
<1>2. /\ t.mem \in [Table -> SUBSET (VlanPorts \cup {Cpu})]
      /\ t.ref \in [Vids -> Nat] /\ t.cond \in [Vids -> Nat]
      /\ t.oob \in {"never", "undo", "other"} /\ t.ref[v] \in Nat /\ t.cond[v] \in Nat
  BY <1>1, StateIs
<1> DEFINE c1 == [t.cond EXCEPT ![v] = @ + 1]
           r1 == [t.ref EXCEPT ![v] = @ + 1]
           m1 == IF t.ref[v] > 0 THEN t.mem ELSE [t.mem EXCEPT ![v] = @ \cup {Cpu}]
           u  == With(t, m1, r1, c1, t.oob)
<1>3. dsa_port_host_vlan_add(t, v, FALSE) = Ok(u)
  <2>1. CASE t.ref[v] > 0
    BY <1>1, <2>1, HostAddIs
  <2>2. CASE ~(t.ref[v] > 0)
    <3>1. [t.ref EXCEPT ![v] = 1] = r1
      BY <1>2, <2>2
    <3> HIDE DEF r1
    <3> QED
      BY <1>1, <2>2, <3>1, HostAddIs
  <2> QED
    BY <2>1, <2>2
<1>4. m1 \in [Table -> SUBSET (VlanPorts \cup {Cpu})] /\ r1 \in [Vids -> Nat] /\ c1 \in [Vids -> Nat]
  BY <1>1, <1>2
<1>5. u \in SwitchState
  <2> HIDE DEF m1, r1, c1
  <2> QED
    BY <1>1, <1>2, <1>4, WithIs
<1>6. u.mem = m1 /\ u.ref = r1 /\ u.cond = c1 /\ u.feat = t.feat /\ u.filt = t.filt /\ u.oob = t.oob
  BY DEF With
<1>7. \A w \in Vids : c1[w] >= r1[w] /\ (r1[w] > 0 => w \in Table)
  BY <1>1, <1>2 DEF Sound
<1>8. \A w \in Table : Cpu \in m1[w] <=> r1[w] > 0
  <2>1. \A w \in Table : Cpu \in t.mem[w] <=> t.ref[w] > 0
    BY DEF Sound
  <2>2. Table \subseteq Vids
    BY DsaVlanAssumption
  <2> QED
    BY <1>1, <1>2, <2>1, <2>2
<1>9. \A q \in VlanPorts, w \in Table : q \in m1[w] <=> q \in t.mem[w]
  BY <1>1, <1>2, DsaVlanAssumption
<1> HIDE DEF u, m1, r1, c1
<1>10. Sound(u)
  BY <1>5, <1>6, <1>7, <1>8 DEF Sound
<1>11. Counts(t, u, r1)
  BY <1>6, <1>9, <1>10 DEF Counts, SamePorts
<1> QED
  BY <1>3, <1>11, ResultIs DEF r1

LEMMA HostChangedCounts ==
  ASSUME NEW t, Sound(t), NEW v \in Vids
  PROVE  /\ dsa_port_host_vlan_add(t, v, TRUE).ok
         /\ Counts(t, dsa_port_host_vlan_add(t, v, TRUE).s, t.ref)
<1>1. t \in SwitchState
  BY DEF Sound
<1>2. /\ t.mem \in [Table -> SUBSET (VlanPorts \cup {Cpu})]
      /\ t.ref \in [Vids -> Nat] /\ t.cond \in [Vids -> Nat]
      /\ t.oob \in {"never", "undo", "other"}
  BY <1>1, StateIs
<1> DEFINE c1 == [t.cond EXCEPT ![v] = @ + 1]
           u  == With(t, t.mem, t.ref, c1, t.oob)
<1>3. dsa_port_host_vlan_add(t, v, TRUE) = Ok(u)
  BY <1>1, HostAddIs
<1>4. c1 \in [Vids -> Nat]
  BY <1>2
<1>5. u \in SwitchState
  <2> HIDE DEF c1
  <2> QED
    BY <1>1, <1>2, <1>4, WithIs
<1>6. u.mem = t.mem /\ u.ref = t.ref /\ u.cond = c1 /\ u.feat = t.feat /\ u.filt = t.filt /\ u.oob = t.oob
  BY DEF With
<1>7. \A w \in Vids : c1[w] >= t.ref[w]
  BY <1>2 DEF Sound
<1> HIDE DEF u, c1
<1>8. Sound(u)
  BY <1>5, <1>6, <1>7 DEF Sound
<1>9. Counts(t, u, t.ref)
  BY <1>6, <1>8 DEF Counts, SamePorts
<1> QED
  BY <1>3, <1>9, ResultIs

LEMMA HostDelCounts ==
  ASSUME NEW t, Sound(t), NEW v \in Vids, NEW how \in {"undo", "other"}
  PROVE  /\ t.ref[v] = 0 => dsa_port_host_vlan_del(t, v, how) = Err(t)
         /\ t.ref[v] > 0 =>
              /\ dsa_port_host_vlan_del(t, v, how).ok
              /\ Counts(t, dsa_port_host_vlan_del(t, v, how).s, [t.ref EXCEPT ![v] = @ - 1])
<1>1. t \in SwitchState /\ Table \subseteq Vids
  BY DsaVlanAssumption DEF Sound
<1>2. /\ t.mem \in [Table -> SUBSET (VlanPorts \cup {Cpu})]
      /\ t.ref \in [Vids -> Nat] /\ t.cond \in [Vids -> Nat]
      /\ t.oob \in {"never", "undo", "other"} /\ t.ref[v] \in Nat /\ t.cond[v] \in Nat
  BY <1>1, StateIs
<1>3. t.ref[v] = 0 => dsa_port_host_vlan_del(t, v, how) = Err(t)
  BY <1>1, HostDelIs
<1> SUFFICES ASSUME t.ref[v] > 0
             PROVE  /\ dsa_port_host_vlan_del(t, v, how).ok
                    /\ Counts(t, dsa_port_host_vlan_del(t, v, how).s, [t.ref EXCEPT ![v] = @ - 1])
  BY <1>3
<1>v. v \in Table
  BY DEF Sound
<1> DEFINE c1 == [t.cond EXCEPT ![v] = IF @ > 0 THEN @ - 1 ELSE 0]
           r1 == [t.ref EXCEPT ![v] = @ - 1]
           m1 == IF t.ref[v] > 1 THEN t.mem ELSE [t.mem EXCEPT ![v] = @ \ {Cpu}]
           u  == With(t, m1, r1, c1, t.oob)
<1>4. dsa_port_host_vlan_del(t, v, how) = Ok(u)
  <2>1. CASE t.ref[v] > 1
    BY <1>1, <2>1, HostDelIs
  <2>2. CASE ~(t.ref[v] > 1)
    <3>1. t.ref[v] = 1
      BY <1>2, <2>2
    <3> QED
      BY <1>1, <1>v, <2>2, <3>1, HostDelIs
  <2> QED
    BY <2>1, <2>2
<1>5. m1 \in [Table -> SUBSET (VlanPorts \cup {Cpu})] /\ r1 \in [Vids -> Nat] /\ c1 \in [Vids -> Nat]
  <2>1. m1 \in [Table -> SUBSET (VlanPorts \cup {Cpu})]
    BY <1>2, <1>v
  <2>2. r1 \in [Vids -> Nat]
    BY <1>2
  <2>3. c1 \in [Vids -> Nat]
    BY <1>2
  <2> QED
    BY <2>1, <2>2, <2>3
<1>6. u \in SwitchState
  <2> HIDE DEF m1, r1, c1
  <2> QED
    BY <1>1, <1>2, <1>5, WithIs
<1>7. u.mem = m1 /\ u.ref = r1 /\ u.cond = c1 /\ u.feat = t.feat /\ u.filt = t.filt /\ u.oob = t.oob
  BY DEF With
<1>8. \A w \in Vids : c1[w] >= r1[w] /\ (r1[w] > 0 => w \in Table)
  BY <1>1, <1>2 DEF Sound
<1>9. \A w \in Table : Cpu \in m1[w] <=> r1[w] > 0
  <2>1. \A w \in Table : Cpu \in t.mem[w] <=> t.ref[w] > 0
    BY DEF Sound
  <2> QED
    BY <1>1, <1>2, <1>v, <2>1
<1>10. \A q \in VlanPorts, w \in Table : q \in m1[w] <=> q \in t.mem[w]
  BY <1>1, <1>2, DsaVlanAssumption
<1> HIDE DEF u, m1, r1, c1
<1>11. Sound(u)
  BY <1>6, <1>7, <1>8, <1>9 DEF Sound
<1>12. Counts(t, u, r1)
  BY <1>7, <1>10, <1>11 DEF Counts, SamePorts
<1> QED
  BY <1>4, <1>12, ResultIs DEF r1

(* The user port p is put into the VLANs V, or taken out of them. *)
Plus(t, u, p, V) ==
  /\ u.feat = t.feat /\ u.filt = t.filt
  /\ \A q \in VlanPorts, v \in Table : q \in u.mem[v] <=> q \in t.mem[v] \/ (q = p /\ v \in V)
Minus(t, u, p, V) ==
  /\ u.feat = t.feat /\ u.filt = t.filt
  /\ \A q \in VlanPorts, v \in Table : q \in u.mem[v] <=> q \in t.mem[v] /\ ~(q = p /\ v \in V)

LEMMA PortAddPlus ==
  ASSUME NEW t, Sound(t), NEW p \in VlanPorts, NEW v \in Table,
         NEW u, u = dsa_loop_port_vlan_add(t, p, v).s
  PROVE  /\ dsa_loop_port_vlan_add(t, p, v).ok
         /\ Sound(u) /\ Plus(t, u, p, {v}) /\ u.oob = t.oob /\ u.ref = t.ref
<1>1. t \in SwitchState /\ Table \subseteq Vids
  BY DsaVlanAssumption DEF Sound
<1>2. /\ t.mem \in [Table -> SUBSET (VlanPorts \cup {Cpu})]
      /\ t.ref \in [Vids -> Nat] /\ t.cond \in [Vids -> Nat]
      /\ t.oob \in {"never", "undo", "other"}
  BY <1>1, StateIs
<1> DEFINE m1 == [t.mem EXCEPT ![v] = @ \cup {p}]
<1>3. dsa_loop_port_vlan_add(t, p, v) = Ok(With(t, m1, t.ref, t.cond, t.oob))
  BY <1>1, PortAddIs DEF With
<1>4. m1 \in [Table -> SUBSET (VlanPorts \cup {Cpu})]
  BY <1>2
<1>5. \A q \in VlanPorts \cup {Cpu}, w \in Table : q \in m1[w] <=> q \in t.mem[w] \/ (q = p /\ w \in {v})
  BY <1>2
<1> HIDE DEF m1
<1>6. u = With(t, m1, t.ref, t.cond, t.oob) /\ dsa_loop_port_vlan_add(t, p, v).ok = TRUE
  BY <1>3, ResultIs, Zenon
<1>7. u \in SwitchState
  BY <1>1, <1>2, <1>4, <1>6, WithIs
<1>8. u.mem = m1 /\ u.ref = t.ref /\ u.cond = t.cond /\ u.feat = t.feat /\ u.filt = t.filt /\ u.oob = t.oob
  BY <1>6 DEF With
<1>9. Cpu # p
  BY DsaVlanAssumption
<1>10. Sound(u)
  BY <1>5, <1>7, <1>8, <1>9 DEF Sound
<1>11. Plus(t, u, p, {v})
  BY <1>5, <1>8 DEF Plus
<1> QED
  BY <1>6, <1>8, <1>10, <1>11

LEMMA PortDelMinus ==
  ASSUME NEW t, Sound(t), NEW p \in VlanPorts, NEW v \in Vids, NEW how \in {"undo", "other"},
         NEW u, u = dsa_loop_port_vlan_del(t, p, v, how).s
  PROVE  /\ dsa_loop_port_vlan_del(t, p, v, how).ok
         /\ Sound(u) /\ Minus(t, u, p, {v}) /\ u.ref = t.ref
         /\ v \in Table => u.oob = t.oob
         /\ v \notin Table => u.oob = how
<1>1. t \in SwitchState /\ Table \subseteq Vids
  BY DsaVlanAssumption DEF Sound
<1>2. /\ t.mem \in [Table -> SUBSET (VlanPorts \cup {Cpu})]
      /\ t.ref \in [Vids -> Nat] /\ t.cond \in [Vids -> Nat]
      /\ t.oob \in {"never", "undo", "other"}
  BY <1>1, StateIs
<1> DEFINE m1 == IF v \in Table THEN [t.mem EXCEPT ![v] = @ \ {p}] ELSE t.mem
           o1 == IF v \in Table THEN t.oob ELSE how
<1>3. dsa_loop_port_vlan_del(t, p, v, how) = Ok(With(t, m1, t.ref, t.cond, o1))
  <2>1. CASE v \in Table
    BY <1>1, <2>1, PortDelIs DEF With
  <2>2. CASE v \notin Table
    BY <1>1, <2>2, PortDelIs DEF With
  <2> QED
    BY <2>1, <2>2
<1>4. m1 \in [Table -> SUBSET (VlanPorts \cup {Cpu})] /\ o1 \in {"never", "undo", "other"}
  BY <1>2
<1>5. \A q \in VlanPorts \cup {Cpu}, w \in Table : q \in m1[w] <=> q \in t.mem[w] /\ ~(q = p /\ w \in {v})
  BY <1>2
<1>o. o1 = IF v \in Table THEN t.oob ELSE how
  OBVIOUS
<1> HIDE DEF m1, o1
<1>6. u = With(t, m1, t.ref, t.cond, o1) /\ dsa_loop_port_vlan_del(t, p, v, how).ok = TRUE
  BY <1>3, ResultIs, Zenon
<1>7. u \in SwitchState
  BY <1>1, <1>2, <1>4, <1>6, WithIs
<1>8. u.mem = m1 /\ u.ref = t.ref /\ u.cond = t.cond /\ u.feat = t.feat /\ u.filt = t.filt /\ u.oob = o1
  BY <1>6 DEF With
<1>9. Cpu # p
  BY DsaVlanAssumption
<1>10. Sound(u)
  BY <1>5, <1>7, <1>8, <1>9 DEF Sound
<1>11. Minus(t, u, p, {v})
  BY <1>5, <1>8 DEF Minus
<1> QED
  BY <1>o, <1>6, <1>8, <1>10, <1>11

LEMMA RxTypes ==
  ASSUME NEW t \in SwitchState, NEW p \in VlanPorts, NEW v \in Vids, NEW how \in {"undo", "other"}
  PROVE  /\ dsa_user_vlan_rx_add_vid(t, p, v) \in Results
         /\ dsa_user_vlan_rx_kill_vid(t, p, v, how) \in Results
<1> DEFINE a == dsa_loop_port_vlan_add(t, p, v)
           d == dsa_loop_port_vlan_del(t, p, v, how)
<1>1. a \in Results /\ d \in Results
  BY PortAddIs, PortDelIs
<1>2. a.s \in SwitchState /\ d.s \in SwitchState
  <2> HIDE DEF a, d
  <2> QED
    BY <1>1 DEF Results
<1>3. dsa_user_vlan_rx_add_vid(t, p, v) = IF a.ok THEN dsa_port_host_vlan_add(a.s, v, FALSE) ELSE a
  BY DEF dsa_user_vlan_rx_add_vid
<1>4. dsa_user_vlan_rx_kill_vid(t, p, v, how) = dsa_port_host_vlan_del(d.s, v, how)
  BY DEF dsa_user_vlan_rx_kill_vid
<1> HIDE DEF a, d
<1>5. dsa_port_host_vlan_add(a.s, v, FALSE) \in Results
  BY <1>2, HostAddIs
<1>6. dsa_port_host_vlan_del(d.s, v, how) \in Results
  BY <1>2, HostDelIs
<1> QED
  BY <1>1, <1>3, <1>4, <1>5, <1>6

(* u is t with the references c, the port p put into the VLANs V. *)
Added(t, u, c, p, V) == Sound(u) /\ Plus(t, u, p, V) /\ u.oob = t.oob /\ u.ref = c
(* With p taken out of them, and the deletion outside the table on behalf of o. *)
Deleted(t, u, c, p, V, o) == Sound(u) /\ Minus(t, u, p, V) /\ u.oob = o /\ u.ref = c

LEMMA PortAddAdds ==
  ASSUME NEW t, Sound(t), NEW p \in VlanPorts, NEW v \in Table,
         NEW k, k = dsa_loop_port_vlan_add(t, p, v)
  PROVE  k.ok /\ Added(t, k.s, t.ref, p, {v})
<1> DEFINE d == dsa_loop_port_vlan_add(t, p, v).s
<1>1. /\ dsa_loop_port_vlan_add(t, p, v).ok
      /\ Sound(d) /\ Plus(t, d, p, {v}) /\ d.oob = t.oob /\ d.ref = t.ref
  BY PortAddPlus
<1>2. k.s = d
  OBVIOUS
<1> HIDE DEF d
<1> QED
  BY <1>1, <1>2 DEF Added

LEMMA PortDelDeletes ==
  ASSUME NEW t, Sound(t), NEW p \in VlanPorts, NEW v \in Table, NEW how \in {"undo", "other"},
         NEW k, k = dsa_loop_port_vlan_del(t, p, v, how)
  PROVE  k.ok /\ Deleted(t, k.s, t.ref, p, {v}, t.oob)
<1> DEFINE d == dsa_loop_port_vlan_del(t, p, v, how).s
<1>1. v \in Vids
  BY DsaVlanAssumption
<1>2. /\ dsa_loop_port_vlan_del(t, p, v, how).ok
      /\ Sound(d) /\ Minus(t, d, p, {v}) /\ d.ref = t.ref
      /\ v \in Table => d.oob = t.oob
  BY <1>1, PortDelMinus
<1>3. k.s = d
  OBVIOUS
<1> HIDE DEF d
<1> QED
  BY <1>2, <1>3 DEF Deleted

LEMMA RxAddIs ==
  ASSUME NEW t, Sound(t), NEW p \in VlanPorts, NEW v \in Vids
  PROVE  /\ v \notin Table => dsa_user_vlan_rx_add_vid(t, p, v) = Err(t)
         /\ v \in Table =>
              /\ dsa_user_vlan_rx_add_vid(t, p, v).ok
              /\ Added(t, dsa_user_vlan_rx_add_vid(t, p, v).s, [t.ref EXCEPT ![v] = @ + 1], p, {v})
<1> DEFINE a == dsa_loop_port_vlan_add(t, p, v)
           h == dsa_port_host_vlan_add(a.s, v, FALSE)
<1>1. dsa_user_vlan_rx_add_vid(t, p, v) = IF a.ok THEN h ELSE a
  BY DEF dsa_user_vlan_rx_add_vid
<1>2. t \in SwitchState /\ p \in VlanPorts \cup {Cpu}
  BY DEF Sound
<1>3. CASE v \notin Table
  <2>1. a = Err(t)
    BY <1>2, <1>3, PortAddIs
  <2> HIDE DEF a, h
  <2>2. a.ok = FALSE
    BY <2>1, ResultIs
  <2> QED
    BY <1>1, <1>3, <2>1, <2>2
<1>4. CASE v \in Table
  <2>1. a.ok /\ Sound(a.s) /\ Plus(t, a.s, p, {v}) /\ a.s.oob = t.oob /\ a.s.ref = t.ref
    BY <1>4, PortAddPlus
  <2> HIDE DEF a
  <2>2. h.ok /\ Counts(a.s, h.s, [a.s.ref EXCEPT ![v] = @ + 1])
    BY <1>4, <2>1, HostAddCounts
  <2> HIDE DEF h
  <2>3. dsa_user_vlan_rx_add_vid(t, p, v) = h
    BY <1>1, <2>1
  <2>4. Plus(t, h.s, p, {v})
    BY <2>1, <2>2 DEF Counts, SamePorts, Plus
  <2>5. Added(t, h.s, [t.ref EXCEPT ![v] = @ + 1], p, {v})
    BY <2>1, <2>2, <2>4 DEF Added, Counts
  <2> QED
    BY <1>4, <2>2, <2>3, <2>5
<1> QED
  BY <1>3, <1>4

LEMMA RxKillIs ==
  ASSUME NEW t, Sound(t), NEW p \in VlanPorts, NEW v \in Vids, NEW how \in {"undo", "other"},
         NEW k, k = dsa_user_vlan_rx_kill_vid(t, p, v, how)
  PROVE  /\ v \notin Table => ~k.ok /\ Deleted(t, k.s, t.ref, p, {}, how)
         /\ t.ref[v] > 0 => k.ok /\ Deleted(t, k.s, [t.ref EXCEPT ![v] = @ - 1], p, {v}, t.oob)
<1> DEFINE d == dsa_loop_port_vlan_del(t, p, v, how).s
           h == dsa_port_host_vlan_del(d, v, how)
<1>1. k = h
  BY DEF dsa_user_vlan_rx_kill_vid
<1>2. /\ Sound(d) /\ Minus(t, d, p, {v}) /\ d.ref = t.ref
      /\ v \in Table => d.oob = t.oob
      /\ v \notin Table => d.oob = how
  BY PortDelMinus, SMTT(40)
<1>t. t.ref[v] \in Nat /\ (t.ref[v] > 0 => v \in Table)
  BY StateIs DEF Sound
<1> HIDE DEF d
<1>3. /\ d.ref[v] = 0 => h = Err(d)
      /\ d.ref[v] > 0 => h.ok /\ Counts(d, h.s, [d.ref EXCEPT ![v] = @ - 1])
  BY <1>2, HostDelCounts
<1> HIDE DEF h
<1>4. ASSUME v \notin Table
      PROVE  ~k.ok /\ Deleted(t, k.s, t.ref, p, {}, how)
  <2>1. t.ref[v] = 0
    BY <1>t, <1>4
  <2>2. h = Err(d)
    BY <1>2, <1>3, <2>1
  <2>3. h.s = d /\ h.ok = FALSE
    BY <2>2, ResultIs
  <2>4. Minus(t, d, p, {})
    BY <1>2, <1>4 DEF Minus
  <2>5. d.oob = how
    BY <1>2, <1>4
  <2> QED
    BY <1>1, <1>2, <2>3, <2>4, <2>5 DEF Deleted
<1>5. ASSUME t.ref[v] > 0
      PROVE  k.ok /\ Deleted(t, k.s, [t.ref EXCEPT ![v] = @ - 1], p, {v}, t.oob)
  <2>1. h.ok /\ Counts(d, h.s, [t.ref EXCEPT ![v] = @ - 1])
    BY <1>2, <1>3, <1>5
  <2>2. Minus(t, h.s, p, {v})
    BY <1>2, <2>1 DEF Counts, SamePorts, Minus
  <2>3. h.s.oob = t.oob
    BY <1>2, <1>t, <1>5, <2>1 DEF Counts
  <2> QED
    BY <1>1, <2>1, <2>2, <2>3 DEF Deleted, Counts
<1> QED
  BY <1>4, <1>5


(* The calls of every Each, in turn. *)
LEMMA RestoreRuns ==
  ASSUME NEW t \in SwitchState, NEW p \in VlanPorts, uppers[p] \in Seq(Vids)
  PROVE  \E run \in [0 .. Len(uppers[p]) -> Results] :
            /\ run[0] = Ok(t)
            /\ \A k \in 1 .. Len(uppers[p]) :
                 run[k] = IF run[k - 1].ok
                          THEN dsa_user_vlan_rx_add_vid(run[k - 1].s, p, uppers[p][k])
                          ELSE run[k - 1]
            /\ run[Len(uppers[p])] = Restore(t, p)
<1> DEFINE sq == uppers[p]
           E0 == Vids
           Op(u, x) == dsa_user_vlan_rx_add_vid(u, p, x)
           op == [y \in SwitchState \X E0 |-> Op(y[1], y[2])]
           F(g) == [n \in 0 .. Len(sq) |->
                      IF n = 0 THEN Ok(t)
                      ELSE IF g[n - 1].ok THEN Op(g[n - 1].s, sq[n]) ELSE g[n - 1]]
           c == CHOOSE g : g = F(g)
<1>1. sq \in Seq(E0)
  OBVIOUS
<1>2. \A u \in SwitchState, x \in E0 : Op(u, x) \in Results
  BY RxTypes
<1>3. Restore(t, p) = c[Len(sq)]
  BY DEF Restore, Each
<1> HIDE DEF sq, E0, Op
<1>4. op \in [SwitchState \X E0 -> Results] /\ \A u \in SwitchState, x \in E0 : op[<<u, x>>] = Op(u, x)
  BY <1>2
<1>5. Len(sq) \in Nat /\ \A k \in 1 .. Len(sq) : sq[k] \in E0
  BY <1>1, ElementOfSeq
<1> HIDE DEF op
<1>e. PICK run \in [0 .. Len(sq) -> Results] : Ran(run, op, t, sq)
  BY <1>1, <1>4, EachRuns
<1>6. /\ run[0] = Ok(t)
      /\ \A k \in 1 .. Len(sq) :
            run[k] = IF run[k - 1].ok THEN op[<<run[k - 1].s, sq[k]>>] ELSE run[k - 1]
  BY <1>e DEF Ran
<1>7. ASSUME NEW k \in 1 .. Len(sq)
      PROVE  run[k] = IF run[k - 1].ok THEN Op(run[k - 1].s, sq[k]) ELSE run[k - 1]
  <2>1. k - 1 \in 0 .. Len(sq)
    BY <1>5
  <2>2. run[k - 1].s \in SwitchState
    BY <2>1 DEF Results
  <2>3. op[<<run[k - 1].s, sq[k]>>] = Op(run[k - 1].s, sq[k])
    BY <1>4, <1>5, <2>2
  <2> QED
    BY <1>6, <2>3, Zenon
<1>8. run = F(run)
  <2>1. \A n \in 0 .. Len(sq) : run[n] = F(run)[n]
    BY <1>5, <1>6, <1>7
  <2> QED
    BY <2>1
<1>9. c = F(c)
  <2> HIDE DEF F
  <2> QED
    BY <1>8
<1> HIDE DEF c
<1>10. /\ c[0] = Ok(t)
       /\ \A k \in 1 .. Len(sq) : c[k] = IF c[k - 1].ok THEN Op(c[k - 1].s, sq[k]) ELSE c[k - 1]
  BY <1>5, <1>9
<1> HIDE DEF F
<1>11. c[Len(sq)] = run[Len(sq)]
  <2> DEFINE G == {k \in 0 .. Len(sq) : c[k] = run[k]}
  <2>1. 0 \in G
    BY <1>5, <1>6, <1>10
  <2>2. ASSUME NEW k \in 0 .. Len(sq) - 1, k \in G
        PROVE  k + 1 \in G
    <3>1. k + 1 \in 1 .. Len(sq) /\ k + 1 \in 0 .. Len(sq) /\ (k + 1) - 1 = k
      BY <1>5
    <3>2. c[k] = run[k]
      BY <2>2
    <3>3. run[k + 1] = IF run[k].ok THEN Op(run[k].s, sq[k + 1]) ELSE run[k]
      <4>1. run[k + 1] = IF run[(k + 1) - 1].ok THEN Op(run[(k + 1) - 1].s, sq[k + 1]) ELSE run[(k + 1) - 1]
        BY <1>7, <3>1, Zenon
      <4> QED
        BY <3>1, <4>1, Zenon
    <3>4. c[k + 1] = IF c[k].ok THEN Op(c[k].s, sq[k + 1]) ELSE c[k]
      <4>1. c[k + 1] = IF c[(k + 1) - 1].ok THEN Op(c[(k + 1) - 1].s, sq[k + 1]) ELSE c[(k + 1) - 1]
        BY <1>10, <3>1, Zenon
      <4> QED
        BY <3>1, <4>1, Zenon
    <3>5. c[k + 1] = run[k + 1]
      BY <3>2, <3>3, <3>4
    <3> QED
      BY <3>1, <3>5
  <2>3. \A k \in 0 .. Len(sq) : k \in G
    <3> HIDE DEF G
    <3> QED
      BY <1>5, <2>1, <2>2, UpTo
  <2> QED
    BY <1>5, <2>3
<1> QED
  BY <1>3, <1>6, <1>7, <1>11 DEF sq, Op
(* Every element of S once. *)
Orders(g, S) ==
  /\ g \in Seq(S) /\ Len(g) = Cardinality(S) /\ IsInjective(g)
  /\ S = {g[k] : k \in 1 .. Len(g)}

LEMMA OrderOf ==
  ASSUME NEW S, IsFiniteSet(S), NEW g \in [1 .. Cardinality(S) -> S], IsInjective(g)
  PROVE  Orders(g, S)
<1> DEFINE n == Cardinality(S)
<1>1. n \in Nat
  BY FS_CardinalityType
<1>2. IsFiniteSet(1 .. n) /\ Cardinality(1 .. n) = n
  <2>1. IsFiniteSet(1 .. n) /\ Cardinality(1 .. n) = IF 1 > n THEN 0 ELSE n - 1 + 1
    BY <1>1, FS_Interval
  <2> QED
    BY <1>1, <2>1
<1> HIDE DEF n
<1>3. g \in Injection(1 .. n, S)
  BY Zenon DEF Injection, n
<1>4. g \in Surjection(1 .. n, S)
  <2>1. Cardinality(1 .. n) = Cardinality(S)
    BY <1>2 DEF n
  <2> QED
    BY <1>3, <2>1, FS_Injection
<1>5. g \in [1 .. n -> S] /\ \A x \in S : \E k \in 1 .. n : g[k] = x
  BY <1>4, Zenon DEF Surjection
<1>6. g \in Seq(S) /\ Len(g) = n
  BY <1>1, <1>5
<1>7. S = {g[k] : k \in 1 .. n}
  BY <1>5
<1> QED
  BY <1>6, <1>7 DEF Orders, n

LEMMA SetSeq ==
  ASSUME NEW S, IsFiniteSet(S)
  PROVE  Orders(SetToSeq(S), S)
<1> DEFINE n == Cardinality(S)
           g == SetToSeq(S)
<1>1. PICK f \in Bijection(1 .. n, S) : TRUE
  <2>1. Bijection(1 .. n, S) # {}
    BY FS_CardinalityType, Zenon DEF ExistsBijection
  <2> QED
    BY <2>1
<1>2. f \in [1 .. n -> S] /\ IsInjective(f)
  BY Zenon DEF Bijection, Injection
<1>3. g \in [1 .. n -> S] /\ IsInjective(g)
  BY <1>2, Zenon DEF SetToSeq
<1> HIDE DEF g
<1>4. Orders(g, S)
  BY <1>3, OrderOf
<1> QED
  BY <1>4 DEF g

LEMMA SetSeqs ==
  ASSUME NEW S, IsFiniteSet(S), NEW g \in SetToSeqs(S)
  PROVE  Orders(g, S)
<1>1. g \in [1 .. Cardinality(S) -> S]
  BY Zenon DEF SetToSeqs
<1>2. \A a, b \in 1 .. Cardinality(S) : a # b => g[a] # g[b]
  BY Zenon DEF SetToSeqs
<1>3. DOMAIN g = 1 .. Cardinality(S)
  BY <1>1
<1>4. IsInjective(g)
  BY <1>2, <1>3, Zenon DEF IsInjective
<1> QED
  BY <1>1, <1>4, OrderOf

LEMMA ClearRuns ==
  ASSUME NEW t \in SwitchState, NEW p \in VlanPorts, uppers[p] \in Seq(Vids), NEW how \in {"undo", "other"}
  PROVE  \E run \in [0 .. Len(uppers[p]) -> Results] :
            /\ run[0] = Ok(t)
            /\ \A k \in 1 .. Len(uppers[p]) :
                 run[k] = IF run[k - 1].ok
                          THEN dsa_user_vlan_rx_kill_vid(run[k - 1].s, p, uppers[p][k], how)
                          ELSE run[k - 1]
            /\ run[Len(uppers[p])] = Clear(t, p, how)
<1> DEFINE sq == uppers[p]
           E0 == Vids
           Op(u, x) == dsa_user_vlan_rx_kill_vid(u, p, x, how)
           op == [y \in SwitchState \X E0 |-> Op(y[1], y[2])]
           F(g) == [n \in 0 .. Len(sq) |->
                      IF n = 0 THEN Ok(t)
                      ELSE IF g[n - 1].ok THEN Op(g[n - 1].s, sq[n]) ELSE g[n - 1]]
           c == CHOOSE g : g = F(g)
<1>1. sq \in Seq(E0)
  OBVIOUS
<1>2. \A u \in SwitchState, x \in E0 : Op(u, x) \in Results
  BY RxTypes
<1>3. Clear(t, p, how) = c[Len(sq)]
  BY DEF Clear, Each
<1> HIDE DEF sq, E0, Op
<1>4. op \in [SwitchState \X E0 -> Results] /\ \A u \in SwitchState, x \in E0 : op[<<u, x>>] = Op(u, x)
  BY <1>2
<1>5. Len(sq) \in Nat /\ \A k \in 1 .. Len(sq) : sq[k] \in E0
  BY <1>1, ElementOfSeq
<1> HIDE DEF op
<1>e. PICK run \in [0 .. Len(sq) -> Results] : Ran(run, op, t, sq)
  BY <1>1, <1>4, EachRuns
<1>6. /\ run[0] = Ok(t)
      /\ \A k \in 1 .. Len(sq) :
            run[k] = IF run[k - 1].ok THEN op[<<run[k - 1].s, sq[k]>>] ELSE run[k - 1]
  BY <1>e DEF Ran
<1>7. ASSUME NEW k \in 1 .. Len(sq)
      PROVE  run[k] = IF run[k - 1].ok THEN Op(run[k - 1].s, sq[k]) ELSE run[k - 1]
  <2>1. k - 1 \in 0 .. Len(sq)
    BY <1>5
  <2>2. run[k - 1].s \in SwitchState
    BY <2>1 DEF Results
  <2>3. op[<<run[k - 1].s, sq[k]>>] = Op(run[k - 1].s, sq[k])
    BY <1>4, <1>5, <2>2
  <2> QED
    BY <1>6, <2>3, Zenon
<1>8. run = F(run)
  <2>1. \A n \in 0 .. Len(sq) : run[n] = F(run)[n]
    BY <1>5, <1>6, <1>7
  <2> QED
    BY <2>1
<1>9. c = F(c)
  <2> HIDE DEF F
  <2> QED
    BY <1>8
<1> HIDE DEF c
<1>10. /\ c[0] = Ok(t)
       /\ \A k \in 1 .. Len(sq) : c[k] = IF c[k - 1].ok THEN Op(c[k - 1].s, sq[k]) ELSE c[k - 1]
  BY <1>5, <1>9
<1> HIDE DEF F
<1>11. c[Len(sq)] = run[Len(sq)]
  <2> DEFINE G == {k \in 0 .. Len(sq) : c[k] = run[k]}
  <2>1. 0 \in G
    BY <1>5, <1>6, <1>10
  <2>2. ASSUME NEW k \in 0 .. Len(sq) - 1, k \in G
        PROVE  k + 1 \in G
    <3>1. k + 1 \in 1 .. Len(sq) /\ k + 1 \in 0 .. Len(sq) /\ (k + 1) - 1 = k
      BY <1>5
    <3>2. c[k] = run[k]
      BY <2>2
    <3>3. run[k + 1] = IF run[k].ok THEN Op(run[k].s, sq[k + 1]) ELSE run[k]
      <4>1. run[k + 1] = IF run[(k + 1) - 1].ok THEN Op(run[(k + 1) - 1].s, sq[k + 1]) ELSE run[(k + 1) - 1]
        BY <1>7, <3>1, Zenon
      <4> QED
        BY <3>1, <4>1, Zenon
    <3>4. c[k + 1] = IF c[k].ok THEN Op(c[k].s, sq[k + 1]) ELSE c[k]
      <4>1. c[k + 1] = IF c[(k + 1) - 1].ok THEN Op(c[(k + 1) - 1].s, sq[k + 1]) ELSE c[(k + 1) - 1]
        BY <1>10, <3>1, Zenon
      <4> QED
        BY <3>1, <4>1, Zenon
    <3>5. c[k + 1] = run[k + 1]
      BY <3>2, <3>3, <3>4
    <3> QED
      BY <3>1, <3>5
  <2>3. \A k \in 0 .. Len(sq) : k \in G
    <3> HIDE DEF G
    <3> QED
      BY <1>5, <2>1, <2>2, UpTo
  <2> QED
    BY <1>5, <2>3
<1> QED
  BY <1>3, <1>6, <1>7, <1>11 DEF sq, Op


LEMMA ReplayRuns ==
  ASSUME NEW t \in SwitchState, SetToSeq(bv) \in Seq(Vids)
  PROVE  \E run \in [0 .. Len(SetToSeq(bv)) -> Results] :
            /\ run[0] = Ok(t)
            /\ \A k \in 1 .. Len(SetToSeq(bv)) :
                 run[k] = IF run[k - 1].ok
                          THEN dsa_port_host_vlan_add(run[k - 1].s, SetToSeq(bv)[k], FALSE)
                          ELSE run[k - 1]
            /\ run[Len(SetToSeq(bv))] = Replay(t)
<1> DEFINE sq == SetToSeq(bv)
           E0 == Vids
           Op(u, x) == dsa_port_host_vlan_add(u, x, FALSE)
           op == [y \in SwitchState \X E0 |-> Op(y[1], y[2])]
           F(g) == [n \in 0 .. Len(sq) |->
                      IF n = 0 THEN Ok(t)
                      ELSE IF g[n - 1].ok THEN Op(g[n - 1].s, sq[n]) ELSE g[n - 1]]
           c == CHOOSE g : g = F(g)
<1>1. sq \in Seq(E0)
  OBVIOUS
<1>2. \A u \in SwitchState, x \in E0 : Op(u, x) \in Results
  BY HostAddIs
<1>3. Replay(t) = c[Len(sq)]
  BY DEF Replay, Each
<1> HIDE DEF sq, E0, Op
<1>4. op \in [SwitchState \X E0 -> Results] /\ \A u \in SwitchState, x \in E0 : op[<<u, x>>] = Op(u, x)
  BY <1>2
<1>5. Len(sq) \in Nat /\ \A k \in 1 .. Len(sq) : sq[k] \in E0
  BY <1>1, ElementOfSeq
<1> HIDE DEF op
<1>e. PICK run \in [0 .. Len(sq) -> Results] : Ran(run, op, t, sq)
  BY <1>1, <1>4, EachRuns
<1>6. /\ run[0] = Ok(t)
      /\ \A k \in 1 .. Len(sq) :
            run[k] = IF run[k - 1].ok THEN op[<<run[k - 1].s, sq[k]>>] ELSE run[k - 1]
  BY <1>e DEF Ran
<1>7. ASSUME NEW k \in 1 .. Len(sq)
      PROVE  run[k] = IF run[k - 1].ok THEN Op(run[k - 1].s, sq[k]) ELSE run[k - 1]
  <2>1. k - 1 \in 0 .. Len(sq)
    BY <1>5
  <2>2. run[k - 1].s \in SwitchState
    BY <2>1 DEF Results
  <2>3. op[<<run[k - 1].s, sq[k]>>] = Op(run[k - 1].s, sq[k])
    BY <1>4, <1>5, <2>2
  <2> QED
    BY <1>6, <2>3, Zenon
<1>8. run = F(run)
  <2>1. \A n \in 0 .. Len(sq) : run[n] = F(run)[n]
    BY <1>5, <1>6, <1>7
  <2> QED
    BY <2>1
<1>9. c = F(c)
  <2> HIDE DEF F
  <2> QED
    BY <1>8
<1> HIDE DEF c
<1>10. /\ c[0] = Ok(t)
       /\ \A k \in 1 .. Len(sq) : c[k] = IF c[k - 1].ok THEN Op(c[k - 1].s, sq[k]) ELSE c[k - 1]
  BY <1>5, <1>9
<1> HIDE DEF F
<1>11. c[Len(sq)] = run[Len(sq)]
  <2> DEFINE G == {k \in 0 .. Len(sq) : c[k] = run[k]}
  <2>1. 0 \in G
    BY <1>5, <1>6, <1>10
  <2>2. ASSUME NEW k \in 0 .. Len(sq) - 1, k \in G
        PROVE  k + 1 \in G
    <3>1. k + 1 \in 1 .. Len(sq) /\ k + 1 \in 0 .. Len(sq) /\ (k + 1) - 1 = k
      BY <1>5
    <3>2. c[k] = run[k]
      BY <2>2
    <3>3. run[k + 1] = IF run[k].ok THEN Op(run[k].s, sq[k + 1]) ELSE run[k]
      <4>1. run[k + 1] = IF run[(k + 1) - 1].ok THEN Op(run[(k + 1) - 1].s, sq[k + 1]) ELSE run[(k + 1) - 1]
        BY <1>7, <3>1, Zenon
      <4> QED
        BY <3>1, <4>1, Zenon
    <3>4. c[k + 1] = IF c[k].ok THEN Op(c[k].s, sq[k + 1]) ELSE c[k]
      <4>1. c[k + 1] = IF c[(k + 1) - 1].ok THEN Op(c[(k + 1) - 1].s, sq[k + 1]) ELSE c[(k + 1) - 1]
        BY <1>10, <3>1, Zenon
      <4> QED
        BY <3>1, <4>1, Zenon
    <3>5. c[k + 1] = run[k + 1]
      BY <3>2, <3>3, <3>4
    <3> QED
      BY <3>1, <3>5
  <2>3. \A k \in 0 .. Len(sq) : k \in G
    <3> HIDE DEF G
    <3> QED
      BY <1>5, <2>1, <2>2, UpTo
  <2> QED
    BY <1>5, <2>3
<1> QED
  BY <1>3, <1>6, <1>7, <1>11 DEF sq, Op


LEMMA UnreplayRuns ==
  ASSUME NEW t \in SwitchState, SetToSeq(bv) \in Seq(Vids)
  PROVE  \E run \in [0 .. Len(SetToSeq(bv)) -> Results] :
            /\ run[0] = Ok(t)
            /\ \A k \in 1 .. Len(SetToSeq(bv)) :
                 run[k] = IF run[k - 1].ok
                          THEN dsa_port_host_vlan_del(run[k - 1].s, SetToSeq(bv)[k], "other")
                          ELSE run[k - 1]
            /\ run[Len(SetToSeq(bv))] = Unreplay(t)
<1> DEFINE sq == SetToSeq(bv)
           E0 == Vids
           Op(u, x) == dsa_port_host_vlan_del(u, x, "other")
           op == [y \in SwitchState \X E0 |-> Op(y[1], y[2])]
           F(g) == [n \in 0 .. Len(sq) |->
                      IF n = 0 THEN Ok(t)
                      ELSE IF g[n - 1].ok THEN Op(g[n - 1].s, sq[n]) ELSE g[n - 1]]
           c == CHOOSE g : g = F(g)
<1>1. sq \in Seq(E0)
  OBVIOUS
<1>2. \A u \in SwitchState, x \in E0 : Op(u, x) \in Results
  BY HostDelIs
<1>3. Unreplay(t) = c[Len(sq)]
  BY DEF Unreplay, Each
<1> HIDE DEF sq, E0, Op
<1>4. op \in [SwitchState \X E0 -> Results] /\ \A u \in SwitchState, x \in E0 : op[<<u, x>>] = Op(u, x)
  BY <1>2
<1>5. Len(sq) \in Nat /\ \A k \in 1 .. Len(sq) : sq[k] \in E0
  BY <1>1, ElementOfSeq
<1> HIDE DEF op
<1>e. PICK run \in [0 .. Len(sq) -> Results] : Ran(run, op, t, sq)
  BY <1>1, <1>4, EachRuns
<1>6. /\ run[0] = Ok(t)
      /\ \A k \in 1 .. Len(sq) :
            run[k] = IF run[k - 1].ok THEN op[<<run[k - 1].s, sq[k]>>] ELSE run[k - 1]
  BY <1>e DEF Ran
<1>7. ASSUME NEW k \in 1 .. Len(sq)
      PROVE  run[k] = IF run[k - 1].ok THEN Op(run[k - 1].s, sq[k]) ELSE run[k - 1]
  <2>1. k - 1 \in 0 .. Len(sq)
    BY <1>5
  <2>2. run[k - 1].s \in SwitchState
    BY <2>1 DEF Results
  <2>3. op[<<run[k - 1].s, sq[k]>>] = Op(run[k - 1].s, sq[k])
    BY <1>4, <1>5, <2>2
  <2> QED
    BY <1>6, <2>3, Zenon
<1>8. run = F(run)
  <2>1. \A n \in 0 .. Len(sq) : run[n] = F(run)[n]
    BY <1>5, <1>6, <1>7
  <2> QED
    BY <2>1
<1>9. c = F(c)
  <2> HIDE DEF F
  <2> QED
    BY <1>8
<1> HIDE DEF c
<1>10. /\ c[0] = Ok(t)
       /\ \A k \in 1 .. Len(sq) : c[k] = IF c[k - 1].ok THEN Op(c[k - 1].s, sq[k]) ELSE c[k - 1]
  BY <1>5, <1>9
<1> HIDE DEF F
<1>11. c[Len(sq)] = run[Len(sq)]
  <2> DEFINE G == {k \in 0 .. Len(sq) : c[k] = run[k]}
  <2>1. 0 \in G
    BY <1>5, <1>6, <1>10
  <2>2. ASSUME NEW k \in 0 .. Len(sq) - 1, k \in G
        PROVE  k + 1 \in G
    <3>1. k + 1 \in 1 .. Len(sq) /\ k + 1 \in 0 .. Len(sq) /\ (k + 1) - 1 = k
      BY <1>5
    <3>2. c[k] = run[k]
      BY <2>2
    <3>3. run[k + 1] = IF run[k].ok THEN Op(run[k].s, sq[k + 1]) ELSE run[k]
      <4>1. run[k + 1] = IF run[(k + 1) - 1].ok THEN Op(run[(k + 1) - 1].s, sq[k + 1]) ELSE run[(k + 1) - 1]
        BY <1>7, <3>1, Zenon
      <4> QED
        BY <3>1, <4>1, Zenon
    <3>4. c[k + 1] = IF c[k].ok THEN Op(c[k].s, sq[k + 1]) ELSE c[k]
      <4>1. c[k + 1] = IF c[(k + 1) - 1].ok THEN Op(c[(k + 1) - 1].s, sq[k + 1]) ELSE c[(k + 1) - 1]
        BY <1>10, <3>1, Zenon
      <4> QED
        BY <3>1, <4>1, Zenon
    <3>5. c[k + 1] = run[k + 1]
      BY <3>2, <3>3, <3>4
    <3> QED
      BY <3>1, <3>5
  <2>3. \A k \in 0 .. Len(sq) : k \in G
    <3> HIDE DEF G
    <3> QED
      BY <1>5, <2>1, <2>2, UpTo
  <2> QED
    BY <1>5, <2>3
<1> QED
  BY <1>3, <1>6, <1>7, <1>11 DEF sq, Op


LEMMA FlushRuns ==
  ASSUME NEW t \in SwitchState, NEW p \in VlanPorts, SetToSeq(pv[p]) \in Seq(Vids)
  PROVE  \E run \in [0 .. Len(SetToSeq(pv[p])) -> Results] :
            /\ run[0] = Ok(t)
            /\ \A k \in 1 .. Len(SetToSeq(pv[p])) :
                 run[k] = IF run[k - 1].ok
                          THEN dsa_loop_port_vlan_del(run[k - 1].s, p, SetToSeq(pv[p])[k], "other")
                          ELSE run[k - 1]
            /\ run[Len(SetToSeq(pv[p]))] = Flush(t, p)
<1> DEFINE sq == SetToSeq(pv[p])
           E0 == Vids
           Op(u, x) == dsa_loop_port_vlan_del(u, p, x, "other")
           op == [y \in SwitchState \X E0 |-> Op(y[1], y[2])]
           F(g) == [n \in 0 .. Len(sq) |->
                      IF n = 0 THEN Ok(t)
                      ELSE IF g[n - 1].ok THEN Op(g[n - 1].s, sq[n]) ELSE g[n - 1]]
           c == CHOOSE g : g = F(g)
<1>1. sq \in Seq(E0)
  OBVIOUS
<1>2. \A u \in SwitchState, x \in E0 : Op(u, x) \in Results
  BY PortDelIs
<1>3. Flush(t, p) = c[Len(sq)]
  BY DEF Flush, Each
<1> HIDE DEF sq, E0, Op
<1>4. op \in [SwitchState \X E0 -> Results] /\ \A u \in SwitchState, x \in E0 : op[<<u, x>>] = Op(u, x)
  BY <1>2
<1>5. Len(sq) \in Nat /\ \A k \in 1 .. Len(sq) : sq[k] \in E0
  BY <1>1, ElementOfSeq
<1> HIDE DEF op
<1>e. PICK run \in [0 .. Len(sq) -> Results] : Ran(run, op, t, sq)
  BY <1>1, <1>4, EachRuns
<1>6. /\ run[0] = Ok(t)
      /\ \A k \in 1 .. Len(sq) :
            run[k] = IF run[k - 1].ok THEN op[<<run[k - 1].s, sq[k]>>] ELSE run[k - 1]
  BY <1>e DEF Ran
<1>7. ASSUME NEW k \in 1 .. Len(sq)
      PROVE  run[k] = IF run[k - 1].ok THEN Op(run[k - 1].s, sq[k]) ELSE run[k - 1]
  <2>1. k - 1 \in 0 .. Len(sq)
    BY <1>5
  <2>2. run[k - 1].s \in SwitchState
    BY <2>1 DEF Results
  <2>3. op[<<run[k - 1].s, sq[k]>>] = Op(run[k - 1].s, sq[k])
    BY <1>4, <1>5, <2>2
  <2> QED
    BY <1>6, <2>3, Zenon
<1>8. run = F(run)
  <2>1. \A n \in 0 .. Len(sq) : run[n] = F(run)[n]
    BY <1>5, <1>6, <1>7
  <2> QED
    BY <2>1
<1>9. c = F(c)
  <2> HIDE DEF F
  <2> QED
    BY <1>8
<1> HIDE DEF c
<1>10. /\ c[0] = Ok(t)
       /\ \A k \in 1 .. Len(sq) : c[k] = IF c[k - 1].ok THEN Op(c[k - 1].s, sq[k]) ELSE c[k - 1]
  BY <1>5, <1>9
<1> HIDE DEF F
<1>11. c[Len(sq)] = run[Len(sq)]
  <2> DEFINE G == {k \in 0 .. Len(sq) : c[k] = run[k]}
  <2>1. 0 \in G
    BY <1>5, <1>6, <1>10
  <2>2. ASSUME NEW k \in 0 .. Len(sq) - 1, k \in G
        PROVE  k + 1 \in G
    <3>1. k + 1 \in 1 .. Len(sq) /\ k + 1 \in 0 .. Len(sq) /\ (k + 1) - 1 = k
      BY <1>5
    <3>2. c[k] = run[k]
      BY <2>2
    <3>3. run[k + 1] = IF run[k].ok THEN Op(run[k].s, sq[k + 1]) ELSE run[k]
      <4>1. run[k + 1] = IF run[(k + 1) - 1].ok THEN Op(run[(k + 1) - 1].s, sq[k + 1]) ELSE run[(k + 1) - 1]
        BY <1>7, <3>1, Zenon
      <4> QED
        BY <3>1, <4>1, Zenon
    <3>4. c[k + 1] = IF c[k].ok THEN Op(c[k].s, sq[k + 1]) ELSE c[k]
      <4>1. c[k + 1] = IF c[(k + 1) - 1].ok THEN Op(c[(k + 1) - 1].s, sq[k + 1]) ELSE c[(k + 1) - 1]
        BY <1>10, <3>1, Zenon
      <4> QED
        BY <3>1, <4>1, Zenon
    <3>5. c[k + 1] = run[k + 1]
      BY <3>2, <3>3, <3>4
    <3> QED
      BY <3>1, <3>5
  <2>3. \A k \in 0 .. Len(sq) : k \in G
    <3> HIDE DEF G
    <3> QED
      BY <1>5, <2>1, <2>2, UpTo
  <2> QED
    BY <1>5, <2>3
<1> QED
  BY <1>3, <1>6, <1>7, <1>11 DEF sq, Op


LEMMA HostAddAllRuns ==
  ASSUME NEW t \in SwitchState, NEW v \in Vids, NEW changed \in BOOLEAN, SetToSeq(inBr) \in Seq(VlanPorts)
  PROVE  \E run \in [0 .. Len(SetToSeq(inBr)) -> Results] :
            /\ run[0] = Ok(t)
            /\ \A k \in 1 .. Len(SetToSeq(inBr)) :
                 run[k] = IF run[k - 1].ok
                          THEN dsa_port_host_vlan_add(run[k - 1].s, v, changed)
                          ELSE run[k - 1]
            /\ run[Len(SetToSeq(inBr))] = HostAddAll(t, v, changed)
<1> DEFINE sq == SetToSeq(inBr)
           E0 == VlanPorts
           Op(u, x) == dsa_port_host_vlan_add(u, v, changed)
           op == [y \in SwitchState \X E0 |-> Op(y[1], y[2])]
           F(g) == [n \in 0 .. Len(sq) |->
                      IF n = 0 THEN Ok(t)
                      ELSE IF g[n - 1].ok THEN Op(g[n - 1].s, sq[n]) ELSE g[n - 1]]
           c == CHOOSE g : g = F(g)
<1>1. sq \in Seq(E0)
  OBVIOUS
<1>2. \A u \in SwitchState, x \in E0 : Op(u, x) \in Results
  BY HostAddIs
<1>3. HostAddAll(t, v, changed) = c[Len(sq)]
  BY DEF HostAddAll, Each
<1> HIDE DEF sq, E0, Op
<1>4. op \in [SwitchState \X E0 -> Results] /\ \A u \in SwitchState, x \in E0 : op[<<u, x>>] = Op(u, x)
  BY <1>2
<1>5. Len(sq) \in Nat /\ \A k \in 1 .. Len(sq) : sq[k] \in E0
  BY <1>1, ElementOfSeq
<1> HIDE DEF op
<1>e. PICK run \in [0 .. Len(sq) -> Results] : Ran(run, op, t, sq)
  BY <1>1, <1>4, EachRuns
<1>6. /\ run[0] = Ok(t)
      /\ \A k \in 1 .. Len(sq) :
            run[k] = IF run[k - 1].ok THEN op[<<run[k - 1].s, sq[k]>>] ELSE run[k - 1]
  BY <1>e DEF Ran
<1>7. ASSUME NEW k \in 1 .. Len(sq)
      PROVE  run[k] = IF run[k - 1].ok THEN Op(run[k - 1].s, sq[k]) ELSE run[k - 1]
  <2>1. k - 1 \in 0 .. Len(sq)
    BY <1>5
  <2>2. run[k - 1].s \in SwitchState
    BY <2>1 DEF Results
  <2>3. op[<<run[k - 1].s, sq[k]>>] = Op(run[k - 1].s, sq[k])
    BY <1>4, <1>5, <2>2
  <2> QED
    BY <1>6, <2>3, Zenon
<1>8. run = F(run)
  <2>1. \A n \in 0 .. Len(sq) : run[n] = F(run)[n]
    BY <1>5, <1>6, <1>7
  <2> QED
    BY <2>1
<1>9. c = F(c)
  <2> HIDE DEF F
  <2> QED
    BY <1>8
<1> HIDE DEF c
<1>10. /\ c[0] = Ok(t)
       /\ \A k \in 1 .. Len(sq) : c[k] = IF c[k - 1].ok THEN Op(c[k - 1].s, sq[k]) ELSE c[k - 1]
  BY <1>5, <1>9
<1> HIDE DEF F
<1>11. c[Len(sq)] = run[Len(sq)]
  <2> DEFINE G == {k \in 0 .. Len(sq) : c[k] = run[k]}
  <2>1. 0 \in G
    BY <1>5, <1>6, <1>10
  <2>2. ASSUME NEW k \in 0 .. Len(sq) - 1, k \in G
        PROVE  k + 1 \in G
    <3>1. k + 1 \in 1 .. Len(sq) /\ k + 1 \in 0 .. Len(sq) /\ (k + 1) - 1 = k
      BY <1>5
    <3>2. c[k] = run[k]
      BY <2>2
    <3>3. run[k + 1] = IF run[k].ok THEN Op(run[k].s, sq[k + 1]) ELSE run[k]
      <4>1. run[k + 1] = IF run[(k + 1) - 1].ok THEN Op(run[(k + 1) - 1].s, sq[k + 1]) ELSE run[(k + 1) - 1]
        BY <1>7, <3>1, Zenon
      <4> QED
        BY <3>1, <4>1, Zenon
    <3>4. c[k + 1] = IF c[k].ok THEN Op(c[k].s, sq[k + 1]) ELSE c[k]
      <4>1. c[k + 1] = IF c[(k + 1) - 1].ok THEN Op(c[(k + 1) - 1].s, sq[k + 1]) ELSE c[(k + 1) - 1]
        BY <1>10, <3>1, Zenon
      <4> QED
        BY <3>1, <4>1, Zenon
    <3>5. c[k + 1] = run[k + 1]
      BY <3>2, <3>3, <3>4
    <3> QED
      BY <3>1, <3>5
  <2>3. \A k \in 0 .. Len(sq) : k \in G
    <3> HIDE DEF G
    <3> QED
      BY <1>5, <2>1, <2>2, UpTo
  <2> QED
    BY <1>5, <2>3
<1> QED
  BY <1>3, <1>6, <1>7, <1>11 DEF sq, Op


LEMMA HostDelAllRuns ==
  ASSUME NEW t \in SwitchState, NEW v \in Vids, SetToSeq(inBr) \in Seq(VlanPorts)
  PROVE  \E run \in [0 .. Len(SetToSeq(inBr)) -> Results] :
            /\ run[0] = Ok(t)
            /\ \A k \in 1 .. Len(SetToSeq(inBr)) :
                 run[k] = IF run[k - 1].ok
                          THEN dsa_port_host_vlan_del(run[k - 1].s, v, "other")
                          ELSE run[k - 1]
            /\ run[Len(SetToSeq(inBr))] = HostDelAll(t, v)
<1> DEFINE sq == SetToSeq(inBr)
           E0 == VlanPorts
           Op(u, x) == dsa_port_host_vlan_del(u, v, "other")
           op == [y \in SwitchState \X E0 |-> Op(y[1], y[2])]
           F(g) == [n \in 0 .. Len(sq) |->
                      IF n = 0 THEN Ok(t)
                      ELSE IF g[n - 1].ok THEN Op(g[n - 1].s, sq[n]) ELSE g[n - 1]]
           c == CHOOSE g : g = F(g)
<1>1. sq \in Seq(E0)
  OBVIOUS
<1>2. \A u \in SwitchState, x \in E0 : Op(u, x) \in Results
  BY HostDelIs
<1>3. HostDelAll(t, v) = c[Len(sq)]
  BY DEF HostDelAll, Each
<1> HIDE DEF sq, E0, Op
<1>4. op \in [SwitchState \X E0 -> Results] /\ \A u \in SwitchState, x \in E0 : op[<<u, x>>] = Op(u, x)
  BY <1>2
<1>5. Len(sq) \in Nat /\ \A k \in 1 .. Len(sq) : sq[k] \in E0
  BY <1>1, ElementOfSeq
<1> HIDE DEF op
<1>e. PICK run \in [0 .. Len(sq) -> Results] : Ran(run, op, t, sq)
  BY <1>1, <1>4, EachRuns
<1>6. /\ run[0] = Ok(t)
      /\ \A k \in 1 .. Len(sq) :
            run[k] = IF run[k - 1].ok THEN op[<<run[k - 1].s, sq[k]>>] ELSE run[k - 1]
  BY <1>e DEF Ran
<1>7. ASSUME NEW k \in 1 .. Len(sq)
      PROVE  run[k] = IF run[k - 1].ok THEN Op(run[k - 1].s, sq[k]) ELSE run[k - 1]
  <2>1. k - 1 \in 0 .. Len(sq)
    BY <1>5
  <2>2. run[k - 1].s \in SwitchState
    BY <2>1 DEF Results
  <2>3. op[<<run[k - 1].s, sq[k]>>] = Op(run[k - 1].s, sq[k])
    BY <1>4, <1>5, <2>2
  <2> QED
    BY <1>6, <2>3, Zenon
<1>8. run = F(run)
  <2>1. \A n \in 0 .. Len(sq) : run[n] = F(run)[n]
    BY <1>5, <1>6, <1>7
  <2> QED
    BY <2>1
<1>9. c = F(c)
  <2> HIDE DEF F
  <2> QED
    BY <1>8
<1> HIDE DEF c
<1>10. /\ c[0] = Ok(t)
       /\ \A k \in 1 .. Len(sq) : c[k] = IF c[k - 1].ok THEN Op(c[k - 1].s, sq[k]) ELSE c[k - 1]
  BY <1>5, <1>9
<1> HIDE DEF F
<1>11. c[Len(sq)] = run[Len(sq)]
  <2> DEFINE G == {k \in 0 .. Len(sq) : c[k] = run[k]}
  <2>1. 0 \in G
    BY <1>5, <1>6, <1>10
  <2>2. ASSUME NEW k \in 0 .. Len(sq) - 1, k \in G
        PROVE  k + 1 \in G
    <3>1. k + 1 \in 1 .. Len(sq) /\ k + 1 \in 0 .. Len(sq) /\ (k + 1) - 1 = k
      BY <1>5
    <3>2. c[k] = run[k]
      BY <2>2
    <3>3. run[k + 1] = IF run[k].ok THEN Op(run[k].s, sq[k + 1]) ELSE run[k]
      <4>1. run[k + 1] = IF run[(k + 1) - 1].ok THEN Op(run[(k + 1) - 1].s, sq[k + 1]) ELSE run[(k + 1) - 1]
        BY <1>7, <3>1, Zenon
      <4> QED
        BY <3>1, <4>1, Zenon
    <3>4. c[k + 1] = IF c[k].ok THEN Op(c[k].s, sq[k + 1]) ELSE c[k]
      <4>1. c[k + 1] = IF c[(k + 1) - 1].ok THEN Op(c[(k + 1) - 1].s, sq[k + 1]) ELSE c[(k + 1) - 1]
        BY <1>10, <3>1, Zenon
      <4> QED
        BY <3>1, <4>1, Zenon
    <3>5. c[k + 1] = run[k + 1]
      BY <3>2, <3>3, <3>4
    <3> QED
      BY <3>1, <3>5
  <2>3. \A k \in 0 .. Len(sq) : k \in G
    <3> HIDE DEF G
    <3> QED
      BY <1>5, <2>1, <2>2, UpTo
  <2> QED
    BY <1>5, <2>3
<1> QED
  BY <1>3, <1>6, <1>7, <1>11 DEF sq, Op
-----------------------------------------------------------------------------
(* The first m elements of a sequence, and one more reference, or one less, *)
(* on every VLAN of V.                                                      *)
Leading(seq, m) == {seq[k] : k \in 1 .. m}
RefUp(c, V)   == [v \in Vids |-> IF v \in V THEN c[v] + 1 ELSE c[v]]
RefDown(c, V) == [v \in Vids |-> IF v \in V THEN c[v] - 1 ELSE c[v]]

LEMMA FirstNext ==
  ASSUME NEW E, NEW seq \in Seq(E), IsInjective(seq), NEW m \in 0 .. Len(seq) - 1
  PROVE  /\ Leading(seq, m + 1) = Leading(seq, m) \cup {seq[m + 1]}
         /\ seq[m + 1] \notin Leading(seq, m) /\ seq[m + 1] \in E
<1>1. Len(seq) \in Nat /\ DOMAIN seq = 1 .. Len(seq) /\ \A k \in 1 .. Len(seq) : seq[k] \in E
  BY ElementOfSeq, LenProperties
<1>2. m + 1 \in 1 .. Len(seq) /\ m \in Nat
  BY <1>1
<1>3. \A k : k \in 1 .. m + 1 <=> k \in 1 .. m \/ k = m + 1
  BY <1>2
<1>4. Leading(seq, m + 1) = Leading(seq, m) \cup {seq[m + 1]}
  BY <1>3 DEF Leading
<1>5. \A k \in 1 .. m : k \in DOMAIN seq /\ k # m + 1
  BY <1>1, <1>2
<1>6. \A k \in 1 .. m : seq[k] # seq[m + 1]
  BY <1>1, <1>2, <1>5, Zenon DEF IsInjective
<1>7. seq[m + 1] \notin Leading(seq, m)
  BY <1>6 DEF Leading
<1> QED
  BY <1>1, <1>2, <1>4, <1>7

LEMMA FirstIs ==
  ASSUME NEW E, NEW seq \in Seq(E)
  PROVE  /\ Leading(seq, 0) = {} /\ Leading(seq, Len(seq)) = ToSet(seq)
         /\ \A m \in 0 .. Len(seq) : Leading(seq, m) \subseteq ToSet(seq) /\ Leading(seq, m) \subseteq E
         /\ \A k \in 1 .. Len(seq), m \in 0 .. Len(seq) : k <= m => seq[k] \in Leading(seq, m)
<1>1. Len(seq) \in Nat /\ DOMAIN seq = 1 .. Len(seq) /\ \A k \in 1 .. Len(seq) : seq[k] \in E
  BY ElementOfSeq, LenProperties
<1>2. Leading(seq, 0) = {}
  BY DEF Leading
<1>3. Leading(seq, Len(seq)) = ToSet(seq)
  BY <1>1, Zenon DEF Leading, ToSet
<1>4. \A m \in 0 .. Len(seq) : \A k \in 1 .. m : k \in 1 .. Len(seq)
  BY <1>1
<1>5. \A m \in 0 .. Len(seq) : Leading(seq, m) \subseteq ToSet(seq) /\ Leading(seq, m) \subseteq E
  BY <1>1, <1>4 DEF Leading, ToSet
<1>6. \A k \in 1 .. Len(seq), m \in 0 .. Len(seq) : k <= m => seq[k] \in Leading(seq, m)
  <2>1. \A k \in 1 .. Len(seq), m \in 0 .. Len(seq) : k <= m => k \in 1 .. m
    BY <1>1
  <2> QED
    BY <2>1 DEF Leading
<1> QED
  BY <1>2, <1>3, <1>5, <1>6

LEMMA RefUpIs ==
  ASSUME NEW c \in [Vids -> Nat], NEW V \in SUBSET Vids, NEW v \in Vids, v \notin V
  PROVE  /\ RefUp(c, {}) = c
         /\ RefUp(c, V) \in [Vids -> Nat]
         /\ [RefUp(c, V) EXCEPT ![v] = @ + 1] = RefUp(c, V \cup {v})
         /\ RefUp(c, V)[v] = c[v]
<1>1. RefUp(c, {}) = c
  BY DEF RefUp
<1>2. RefUp(c, V) \in [Vids -> Nat] /\ RefUp(c, V)[v] = c[v]
  BY DEF RefUp
<1>3. [RefUp(c, V) EXCEPT ![v] = @ + 1] = RefUp(c, V \cup {v})
  BY DEF RefUp
<1> QED
  BY <1>1, <1>2, <1>3

LEMMA RefDownIs ==
  ASSUME NEW c \in [Vids -> Nat], NEW V \in SUBSET Vids, NEW v \in Vids, v \notin V
  PROVE  /\ RefDown(c, {}) = c
         /\ [RefDown(c, V) EXCEPT ![v] = @ - 1] = RefDown(c, V \cup {v})
         /\ RefDown(c, V)[v] = c[v]
BY DEF RefDown

LEMMA AddedMore ==
  ASSUME NEW t, Sound(t), NEW u, NEW w, NEW p \in VlanPorts, NEW V \in SUBSET Vids, NEW v \in Vids, v \notin V,
         Added(t, u, RefUp(t.ref, V), p, V), Added(u, w, [u.ref EXCEPT ![v] = @ + 1], p, {v})
  PROVE  Added(t, w, RefUp(t.ref, V \cup {v}), p, V \cup {v})
<1>1. t.ref \in [Vids -> Nat]
  BY StateIs DEF Sound
<1>2. w.ref = RefUp(t.ref, V \cup {v})
  <2>1. u.ref = RefUp(t.ref, V) /\ w.ref = [u.ref EXCEPT ![v] = @ + 1]
    BY DEF Added
  <2>2. [RefUp(t.ref, V) EXCEPT ![v] = @ + 1] = RefUp(t.ref, V \cup {v})
    BY <1>1, RefUpIs
  <2> QED
    BY <2>1, <2>2
<1>3. Plus(t, w, p, V \cup {v})
  BY DEF Added, Plus
<1> QED
  BY <1>2, <1>3 DEF Added

LEMMA DeletedMore ==
  ASSUME NEW t, Sound(t), NEW u, NEW w, NEW p \in VlanPorts, NEW V \in SUBSET Vids, NEW v \in Vids, v \notin V,
         NEW o, Deleted(t, u, RefDown(t.ref, V), p, V, o), Deleted(u, w, [u.ref EXCEPT ![v] = @ - 1], p, {v}, u.oob)
  PROVE  Deleted(t, w, RefDown(t.ref, V \cup {v}), p, V \cup {v}, o)
<1>1. t.ref \in [Vids -> Nat]
  BY StateIs DEF Sound
<1>2. w.ref = RefDown(t.ref, V \cup {v})
  <2>1. u.ref = RefDown(t.ref, V) /\ w.ref = [u.ref EXCEPT ![v] = @ - 1]
    BY DEF Deleted
  <2>2. [RefDown(t.ref, V) EXCEPT ![v] = @ - 1] = RefDown(t.ref, V \cup {v})
    BY <1>1 DEF RefDown
  <2> QED
    BY <2>1, <2>2
<1>3. Minus(t, w, p, V \cup {v})
  BY DEF Deleted, Minus
<1> QED
  BY <1>2, <1>3 DEF Deleted
(* After n of the uppers, the first m of them have been added. *)
Restored(t, r, p, m, n) ==
  /\ r \in Results
  /\ Added(t, r.s, RefUp(t.ref, Leading(uppers[p], m)), p, Leading(uppers[p], m))
  /\ Leading(uppers[p], m) \subseteq Table
  /\ r.ok = (m = n)
  /\ m < n => uppers[p][m + 1] \notin Table

LEMMA RestoreStarts ==
  ASSUME NEW t, Sound(t), NEW p \in VlanPorts, uppers[p] \in Seq(Vids)
  PROVE  Restored(t, Ok(t), p, 0, 0)
<1>1. Leading(uppers[p], 0) = {}
  BY FirstIs
<1>2. t \in SwitchState /\ t.ref \in [Vids -> Nat]
  BY StateIs DEF Sound
<1>3. RefUp(t.ref, {}) = t.ref
  BY <1>2 DEF RefUp
<1>4. Ok(t).s = t /\ Ok(t).ok = TRUE /\ Ok(t) \in Results
  BY <1>2, ResultIs
<1>5. Plus(t, t, p, {})
  BY DEF Plus
<1>6. Added(t, t, RefUp(t.ref, {}), p, {})
  BY <1>3, <1>5 DEF Added
<1>7. ~(0 < 0)
  OBVIOUS
<1> QED
  BY <1>1, <1>4, <1>6, <1>7, Zenon DEF Restored

LEMMA RestoreGoesOn ==
  ASSUME NEW t, Sound(t), NEW p \in VlanPorts, uppers[p] \in Seq(Vids), IsInjective(uppers[p]),
         NEW n \in 0 .. Len(uppers[p]) - 1, NEW m \in 0 .. n, NEW r, Restored(t, r, p, m, n),
         NEW r2, r2 = IF r.ok THEN dsa_user_vlan_rx_add_vid(r.s, p, uppers[p][n + 1]) ELSE r
  PROVE  \E m2 \in 0 .. n + 1 : Restored(t, r2, p, m2, n + 1)
<1> DEFINE sq == uppers[p]
           v  == sq[n + 1]
           V  == Leading(sq, n)
<1>1. Len(sq) \in Nat /\ n \in Nat /\ m \in Nat /\ m \in 0 .. n + 1 /\ n + 1 \in 0 .. n + 1
  OBVIOUS
<1>2. CASE m # n
  <2>1. ~r.ok /\ r2 = r
    BY <1>2 DEF Restored
  <2>2. m < n /\ m < n + 1 /\ m # n + 1
    BY <1>1, <1>2
  <2>3. Restored(t, r2, p, m, n + 1)
    BY <1>2, <2>1, <2>2 DEF Restored
  <2> QED
    BY <1>1, <2>3
<1>3. CASE m = n
  <2>1. Leading(sq, n + 1) = V \cup {v} /\ v \notin V /\ v \in Vids
    BY FirstNext
  <2>2. V \in SUBSET Vids
    <3>1. n \in 0 .. Len(sq)
      BY <1>1
    <3> QED
      BY <3>1, FirstIs
  <2> HIDE DEF sq
  <2>3. Sound(r.s) /\ Added(t, r.s, RefUp(t.ref, V), p, V) /\ V \subseteq Table /\ r.ok /\ r \in Results
    BY <1>3 DEF Restored, Added, sq
  <2>4. r2 = dsa_user_vlan_rx_add_vid(r.s, p, v)
    BY <2>3 DEF sq
  <2>5. CASE v \notin Table
    <3>1. r2 = Err(r.s)
      BY <2>1, <2>3, <2>4, <2>5, RxAddIs
    <3>2. r2.s = r.s /\ r2.ok = FALSE /\ r2 \in Results
      <4>1. r.s \in SwitchState
        BY <2>3 DEF Results
      <4> QED
        BY <3>1, <4>1, ResultIs
    <3>3. n < n + 1 /\ n # n + 1
      BY <1>1
    <3>4. Restored(t, r2, p, n, n + 1)
      BY <2>3, <2>5, <3>2, <3>3 DEF Restored, sq
    <3> QED
      BY <1>1, <1>3, <3>4
  <2>6. CASE v \in Table
    <3>1. r2.ok /\ Added(r.s, r2.s, [r.s.ref EXCEPT ![v] = @ + 1], p, {v})
      BY <2>1, <2>3, <2>4, <2>6, RxAddIs
    <3>2. r2 \in Results
      <4>1. r.s \in SwitchState
        BY <2>3 DEF Results
      <4> QED
        BY <2>1, <2>4, <4>1, RxTypes
    <3>3. Added(t, r2.s, RefUp(t.ref, V \cup {v}), p, V \cup {v})
      <4> HIDE DEF v, V
      <4> QED
        BY <2>1, <2>2, <2>3, <3>1, AddedMore
    <3>4. r2.ok = TRUE
      BY <3>1, <3>2 DEF Results
    <3>5. Restored(t, r2, p, n + 1, n + 1)
      <4>1. ~(n + 1 < n + 1)
        BY <1>1
      <4> HIDE DEF v, V
      <4> QED
        BY <2>1, <2>3, <2>6, <3>2, <3>3, <3>4, <4>1 DEF Restored, sq
    <3> QED
      BY <1>1, <3>5
  <2> QED
    BY <2>5, <2>6
<1> QED
  BY <1>2, <1>3

LEMMA RestoreIs ==
  ASSUME NEW t, Sound(t), NEW p \in VlanPorts, uppers[p] \in Seq(Vids), IsInjective(uppers[p])
  PROVE  \E m \in 0 .. Len(uppers[p]) : Restored(t, Restore(t, p), p, m, Len(uppers[p]))
<1> DEFINE len == Len(uppers[p])
<1>1. t \in SwitchState /\ len \in Nat
  BY DEF Sound
<1>2. PICK run \in [0 .. len -> Results] :
         /\ run[0] = Ok(t)
         /\ \A k \in 1 .. len :
              run[k] = IF run[k - 1].ok THEN dsa_user_vlan_rx_add_vid(run[k - 1].s, p, uppers[p][k])
                       ELSE run[k - 1]
         /\ run[len] = Restore(t, p)
  BY <1>1, RestoreRuns
<1> DEFINE G == {n \in 0 .. len : \E m \in 0 .. n : Restored(t, run[n], p, m, n)}
<1>3. 0 \in G
  BY <1>1, <1>2, RestoreStarts
<1>4. ASSUME NEW n \in 0 .. len - 1, n \in G
      PROVE  n + 1 \in G
  <2>1. PICK m \in 0 .. n : Restored(t, run[n], p, m, n)
    BY <1>4
  <2>2. n + 1 \in 1 .. len /\ n + 1 \in 0 .. len /\ (n + 1) - 1 = n
    BY <1>1
  <2>3. run[n + 1] = IF run[n].ok THEN dsa_user_vlan_rx_add_vid(run[n].s, p, uppers[p][n + 1]) ELSE run[n]
    BY <1>2, <2>2
  <2>4. \E m2 \in 0 .. n + 1 : Restored(t, run[n + 1], p, m2, n + 1)
    BY <2>1, <2>3, RestoreGoesOn
  <2> QED
    BY <2>2, <2>4
<1>5. len \in G
  <2> HIDE DEF G, len
  <2>1. \A n \in 0 .. len : n \in G
    BY <1>1, <1>3, <1>4, UpTo
  <2> QED
    BY <1>1, <2>1
<1> QED
  BY <1>2, <1>5

(* Of the uppers the first m are held, and the next one is not in the table: *)
(* n deletions end at that one.                                              *)
Held(t, p, m) ==
  /\ \A v \in Leading(uppers[p], m) : t.ref[v] > 0
  /\ m < Len(uppers[p]) => uppers[p][m + 1] \notin Table

Cleared(t, r, p, m, n, how) ==
  /\ r \in Results
  /\ n <= m => r.ok /\ Deleted(t, r.s, RefDown(t.ref, Leading(uppers[p], n)), p, Leading(uppers[p], n), t.oob)
  /\ ~(n <= m) => ~r.ok /\ Deleted(t, r.s, RefDown(t.ref, Leading(uppers[p], m)), p, Leading(uppers[p], m), how)

LEMMA ClearStarts ==
  ASSUME NEW t, Sound(t), NEW p \in VlanPorts, uppers[p] \in Seq(Vids),
         NEW m \in 0 .. Len(uppers[p]), NEW how
  PROVE  Cleared(t, Ok(t), p, m, 0, how)
<1>1. Leading(uppers[p], 0) = {}
  BY FirstIs
<1>2. t \in SwitchState /\ t.ref \in [Vids -> Nat]
  BY StateIs DEF Sound
<1>3. RefDown(t.ref, {}) = t.ref
  BY <1>2 DEF RefDown
<1>4. Ok(t).s = t /\ Ok(t).ok = TRUE /\ Ok(t) \in Results
  BY <1>2, ResultIs
<1>5. Minus(t, t, p, {})
  BY DEF Minus
<1>6. Deleted(t, t, RefDown(t.ref, {}), p, {}, t.oob)
  BY <1>3, <1>5 DEF Deleted
<1>7. 0 <= m
  OBVIOUS
<1> QED
  BY <1>1, <1>4, <1>6, <1>7, Zenon DEF Cleared

LEMMA ClearGoesOn ==
  ASSUME NEW t, Sound(t), NEW p \in VlanPorts, uppers[p] \in Seq(Vids), IsInjective(uppers[p]),
         NEW how \in {"undo", "other"}, NEW m \in 0 .. Len(uppers[p]), Held(t, p, m),
         NEW n \in 0 .. Len(uppers[p]) - 1, NEW r, Cleared(t, r, p, m, n, how),
         NEW r2, r2 = IF r.ok THEN dsa_user_vlan_rx_kill_vid(r.s, p, uppers[p][n + 1], how) ELSE r
  PROVE  Cleared(t, r2, p, m, n + 1, how)
<1> DEFINE sq == uppers[p]
           v  == sq[n + 1]
           V  == Leading(sq, n)
<1>1. Len(sq) \in Nat /\ n \in Nat /\ m \in Nat /\ n \in 0 .. Len(sq) /\ n + 1 \in 1 .. Len(sq)
  OBVIOUS
<1>2. Leading(sq, n + 1) = V \cup {v} /\ v \notin V /\ v \in Vids /\ V \in SUBSET Vids
  BY <1>1, FirstNext, FirstIs
<1>3. t.ref \in [Vids -> Nat]
  BY StateIs DEF Sound
<1>4. r2 \in Results
  <2>1. r \in Results /\ r.s \in SwitchState
    BY DEF Cleared, Results
  <2> QED
    BY <1>2, <2>1, RxTypes
<1>5. CASE ~(n <= m)
  <2>1. ~(n + 1 <= m)
    BY <1>1, <1>5
  <2>2. ~r.ok /\ r2 = r
    BY <1>5 DEF Cleared
  <2> QED
    BY <1>5, <2>1, <2>2 DEF Cleared
<1>6. CASE n <= m
  <2>1. r.ok /\ Deleted(t, r.s, RefDown(t.ref, V), p, V, t.oob) /\ Sound(r.s)
    BY <1>6 DEF Cleared, Deleted
  <2>2. r2 = dsa_user_vlan_rx_kill_vid(r.s, p, v, how)
    BY <2>1
  <2>3. r.s.ref[v] = t.ref[v] /\ r.s.ref = RefDown(t.ref, V) /\ r.s.oob = t.oob
    <3>1. r.s.ref = RefDown(t.ref, V) /\ r.s.oob = t.oob
      BY <2>1 DEF Deleted
    <3> HIDE DEF v, V, sq
    <3>2. RefDown(t.ref, V)[v] = t.ref[v]
      BY <1>2, <1>3 DEF RefDown
    <3> QED
      BY <3>1, <3>2
  <2> HIDE DEF v, V, sq
  <2>4. CASE n + 1 <= m
    <3>1. t.ref[v] > 0
      <4>1. m \in 0 .. Len(sq)
        BY DEF sq
      <4>2. v \in Leading(sq, m)
        BY <1>1, <2>4, <4>1, FirstIs DEF v, sq
      <4> QED
        BY <4>2 DEF Held, sq
    <3>2. r2.ok /\ Deleted(r.s, r2.s, [r.s.ref EXCEPT ![v] = @ - 1], p, {v}, r.s.oob)
      BY <1>2, <2>1, <2>2, <2>3, <3>1, RxKillIs
    <3>3. Deleted(t, r2.s, RefDown(t.ref, V \cup {v}), p, V \cup {v}, t.oob)
      BY <1>2, <2>1, <3>2, DeletedMore
    <3> QED
      BY <1>2, <1>4, <2>4, <3>2, <3>3 DEF Cleared, sq
  <2>5. CASE ~(n + 1 <= m)
    <3>1. n = m /\ m < Len(sq)
      BY <1>1, <1>6, <2>5
    <3>2. v \notin Table
      BY <3>1 DEF Held, v, sq
    <3>3. ~r2.ok /\ Deleted(r.s, r2.s, r.s.ref, p, {}, how)
      BY <1>2, <2>1, <2>2, <3>2, RxKillIs
    <3>4. Deleted(t, r2.s, RefDown(t.ref, V), p, V, how)
      <4>1. Minus(t, r2.s, p, V)
        BY <2>1, <3>3 DEF Deleted, Minus
      <4> QED
        BY <2>3, <3>3, <4>1 DEF Deleted
    <3>5. V = Leading(uppers[p], m)
      BY <3>1 DEF V, sq
    <3> QED
      BY <1>4, <2>5, <3>3, <3>4, <3>5 DEF Cleared
  <2> QED
    BY <2>4, <2>5
<1> QED
  BY <1>5, <1>6

LEMMA ClearIs ==
  ASSUME NEW t, Sound(t), NEW p \in VlanPorts, uppers[p] \in Seq(Vids), IsInjective(uppers[p]),
         NEW how \in {"undo", "other"}, NEW m \in 0 .. Len(uppers[p]), Held(t, p, m)
  PROVE  Cleared(t, Clear(t, p, how), p, m, Len(uppers[p]), how)
<1> DEFINE len == Len(uppers[p])
<1>1. t \in SwitchState /\ len \in Nat
  BY DEF Sound
<1>2. PICK run \in [0 .. len -> Results] :
         /\ run[0] = Ok(t)
         /\ \A k \in 1 .. len :
              run[k] = IF run[k - 1].ok THEN dsa_user_vlan_rx_kill_vid(run[k - 1].s, p, uppers[p][k], how)
                       ELSE run[k - 1]
         /\ run[len] = Clear(t, p, how)
  BY <1>1, ClearRuns
<1> DEFINE G == {n \in 0 .. len : Cleared(t, run[n], p, m, n, how)}
<1>3. 0 \in G
  BY <1>1, <1>2, ClearStarts
<1>4. ASSUME NEW n \in 0 .. len - 1, n \in G
      PROVE  n + 1 \in G
  <2>1. Cleared(t, run[n], p, m, n, how)
    BY <1>4
  <2>2. n + 1 \in 1 .. len /\ n + 1 \in 0 .. len /\ (n + 1) - 1 = n
    BY <1>1
  <2>3. run[n + 1] = IF run[n].ok THEN dsa_user_vlan_rx_kill_vid(run[n].s, p, uppers[p][n + 1], how) ELSE run[n]
    BY <1>2, <2>2
  <2>4. Cleared(t, run[n + 1], p, m, n + 1, how)
    BY <2>1, <2>3, ClearGoesOn
  <2> QED
    BY <2>2, <2>4
<1>5. len \in G
  <2> HIDE DEF G, len
  <2>1. \A n \in 0 .. len : n \in G
    BY <1>1, <1>3, <1>4, UpTo
  <2> QED
    BY <1>1, <2>1
<1> QED
  BY <1>2, <1>5

LEMMA CountsMore ==
  ASSUME NEW t, NEW u, NEW w, NEW c, NEW d, Counts(t, u, c), Counts(u, w, d)
  PROVE  Counts(t, w, d)
BY DEF Counts, SamePorts

LEMMA CountsSame ==
  ASSUME NEW t, Sound(t)
  PROVE  Counts(t, t, t.ref) /\ t.ref \in [Vids -> Nat] /\ t \in SwitchState
<1>1. t \in SwitchState
  BY DEF Sound
<1>2. t.ref \in [Vids -> Nat]
  BY <1>1, StateIs
<1> QED
  BY <1>1, <1>2 DEF Counts, SamePorts


LEMMA ReplayIs ==
  ASSUME NEW t, Sound(t), bv \subseteq Table
  PROVE  Replay(t).ok /\ Counts(t, Replay(t).s, RefUp(t.ref, bv))
<1> DEFINE sq == SetToSeq(bv)
           len == Len(sq)
           Done(r, n) == r.ok /\ Counts(t, r.s, RefUp(t.ref, Leading(sq, n)))
<1>0. Orders(sq, bv) /\ bv \subseteq Vids /\ IsFiniteSet(bv)
  <2>1. IsFiniteSet(bv) /\ bv \subseteq Vids
    BY DsaVlanAssumption, FS_Subset
  <2> QED
    BY <2>1, SetSeq
<1>1. /\ sq \in Seq(Vids) /\ len \in Nat /\ len = Cardinality(bv) /\ sq \in Seq(bv) /\ IsInjective(sq)
      /\ t \in SwitchState
  BY <1>0 DEF Orders, Sound
<1>2. PICK run \in [0 .. len -> Results] :
         /\ run[0] = Ok(t)
         /\ \A k \in 1 .. len :
              run[k] = IF run[k - 1].ok THEN dsa_port_host_vlan_add(run[k - 1].s, sq[k], FALSE) ELSE run[k - 1]
         /\ run[len] = Replay(t)
  BY <1>1, ReplayRuns
<1> HIDE DEF sq, len
<1> DEFINE G == {n \in 0 .. len : Done(run[n], n)}
<1>3. 0 \in G
  <2>1. Ok(t).s = t /\ Ok(t).ok = TRUE
    BY <1>1, ResultIs
  <2>2. RefUp(t.ref, Leading(sq, 0)) = t.ref
    <3>1. t.ref \in [Vids -> Nat] /\ Leading(sq, 0) = {}
      BY <1>1, CountsSame, FirstIs
    <3> QED
      BY <3>1 DEF RefUp
  <2>3. Counts(t, t, t.ref)
    BY CountsSame
  <2>4. Done(run[0], 0)
    BY <1>2, <2>1, <2>2, <2>3
  <2> QED
    BY <1>1, <2>4
<1>4. ASSUME NEW n \in 0 .. len - 1, n \in G
      PROVE  n + 1 \in G
  <2>1. run[n].ok /\ Done(run[n], n)
    BY <1>4
  <2>2. n + 1 \in 1 .. len /\ n + 1 \in 0 .. len /\ (n + 1) - 1 = n /\ n \in 0 .. len /\ n \in Nat
    BY <1>1
  <2>3. run[n + 1] = dsa_port_host_vlan_add(run[n].s, sq[n + 1], FALSE)
    BY <1>2, <2>1, <2>2
  <2>4. Done(run[n + 1], n + 1)
    <3> DEFINE v == sq[n + 1]
               V == Leading(sq, n)
    <3>1. Leading(sq, n + 1) = V \cup {v} /\ v \notin V /\ v \in bv /\ V \in SUBSET Vids
      BY <1>1, <2>2, FirstNext, FirstIs DEF len
    <3>2. Counts(t, run[n].s, RefUp(t.ref, V)) /\ Sound(run[n].s) /\ run[n].s.ref = RefUp(t.ref, V)
      BY <2>1 DEF Counts
    <3> HIDE DEF v, V
    <3>3. v \in Table /\ v \in Vids
      BY <3>1, DsaVlanAssumption
    <3>4. run[n + 1].ok /\ Counts(run[n].s, run[n + 1].s, [run[n].s.ref EXCEPT ![v] = @ + 1])
      BY <2>3, <3>2, <3>3, HostAddCounts DEF v
    <3>5. [RefUp(t.ref, V) EXCEPT ![v] = @ + 1] = RefUp(t.ref, V \cup {v})
      BY <3>1, <3>3, CountsSame, RefUpIs
    <3>6. Counts(run[n].s, run[n + 1].s, RefUp(t.ref, V \cup {v}))
      BY <3>2, <3>4, <3>5
    <3>7. Counts(t, run[n + 1].s, RefUp(t.ref, V \cup {v}))
      BY <3>2, <3>6, CountsMore
    <3> QED
      BY <3>1, <3>4, <3>7
  <2> QED
    BY <2>2, <2>4
<1>5. len \in G
  <2> HIDE DEF G
  <2>1. \A n \in 0 .. len : n \in G
    BY <1>1, <1>3, <1>4, UpTo
  <2> QED
    BY <1>1, <2>1
<1>6. Leading(sq, len) = bv
  BY <1>0 DEF Leading, Orders, len
<1> QED
  BY <1>2, <1>5, <1>6


LEMMA UnreplayIs ==
  ASSUME NEW t, Sound(t), bv \subseteq Table, \A v \in bv : t.ref[v] > 0
  PROVE  Unreplay(t).ok /\ Counts(t, Unreplay(t).s, RefDown(t.ref, bv))
<1> DEFINE sq == SetToSeq(bv)
           len == Len(sq)
           Done(r, n) == r.ok /\ Counts(t, r.s, RefDown(t.ref, Leading(sq, n)))
<1>0. Orders(sq, bv) /\ bv \subseteq Vids /\ IsFiniteSet(bv)
  <2>1. IsFiniteSet(bv) /\ bv \subseteq Vids
    BY DsaVlanAssumption, FS_Subset
  <2> QED
    BY <2>1, SetSeq
<1>1. /\ sq \in Seq(Vids) /\ len \in Nat /\ len = Cardinality(bv) /\ sq \in Seq(bv) /\ IsInjective(sq)
      /\ t \in SwitchState
  BY <1>0 DEF Orders, Sound
<1>2. PICK run \in [0 .. len -> Results] :
         /\ run[0] = Ok(t)
         /\ \A k \in 1 .. len :
              run[k] = IF run[k - 1].ok THEN dsa_port_host_vlan_del(run[k - 1].s, sq[k], "other") ELSE run[k - 1]
         /\ run[len] = Unreplay(t)
  BY <1>1, UnreplayRuns
<1> HIDE DEF sq, len
<1> DEFINE G == {n \in 0 .. len : Done(run[n], n)}
<1>3. 0 \in G
  <2>1. Ok(t).s = t /\ Ok(t).ok = TRUE
    BY <1>1, ResultIs
  <2>2. RefDown(t.ref, Leading(sq, 0)) = t.ref
    <3>1. t.ref \in [Vids -> Nat] /\ Leading(sq, 0) = {}
      BY <1>1, CountsSame, FirstIs
    <3> QED
      BY <3>1 DEF RefDown
  <2>3. Counts(t, t, t.ref)
    BY CountsSame
  <2>4. Done(run[0], 0)
    BY <1>2, <2>1, <2>2, <2>3
  <2> QED
    BY <1>1, <2>4
<1>4. ASSUME NEW n \in 0 .. len - 1, n \in G
      PROVE  n + 1 \in G
  <2>1. run[n].ok /\ Done(run[n], n)
    BY <1>4
  <2>2. n + 1 \in 1 .. len /\ n + 1 \in 0 .. len /\ (n + 1) - 1 = n /\ n \in 0 .. len /\ n \in Nat
    BY <1>1
  <2>3. run[n + 1] = dsa_port_host_vlan_del(run[n].s, sq[n + 1], "other")
    BY <1>2, <2>1, <2>2
  <2>4. Done(run[n + 1], n + 1)
    <3> DEFINE v == sq[n + 1]
               V == Leading(sq, n)
    <3>1. Leading(sq, n + 1) = V \cup {v} /\ v \notin V /\ v \in bv /\ V \in SUBSET Vids
      BY <1>1, <2>2, FirstNext, FirstIs DEF len
    <3>2. Counts(t, run[n].s, RefDown(t.ref, V)) /\ Sound(run[n].s) /\ run[n].s.ref = RefDown(t.ref, V)
      BY <2>1 DEF Counts
    <3> HIDE DEF v, V
    <3>3. v \in Table /\ v \in Vids /\ t.ref \in [Vids -> Nat] /\ t.ref[v] > 0
      BY <3>1, DsaVlanAssumption, CountsSame
    <3>4. RefDown(t.ref, V)[v] = t.ref[v]
      BY <3>1, <3>3 DEF RefDown
    <3>5. run[n + 1].ok /\ Counts(run[n].s, run[n + 1].s, [run[n].s.ref EXCEPT ![v] = @ - 1])
      BY <2>3, <3>2, <3>3, <3>4, HostDelCounts DEF v
    <3>6. [RefDown(t.ref, V) EXCEPT ![v] = @ - 1] = RefDown(t.ref, V \cup {v})
      BY <3>1, <3>3 DEF RefDown
    <3>7. Counts(run[n].s, run[n + 1].s, RefDown(t.ref, V \cup {v}))
      BY <3>2, <3>5, <3>6
    <3>8. Counts(t, run[n + 1].s, RefDown(t.ref, V \cup {v}))
      BY <3>2, <3>7, CountsMore
    <3> QED
      BY <3>1, <3>5, <3>8
  <2> QED
    BY <2>2, <2>4
<1>5. len \in G
  <2> HIDE DEF G
  <2>1. \A n \in 0 .. len : n \in G
    BY <1>1, <1>3, <1>4, UpTo
  <2> QED
    BY <1>1, <2>1
<1>6. Leading(sq, len) = bv
  BY <1>0 DEF Leading, Orders, len
<1> QED
  BY <1>2, <1>5, <1>6

LEMMA FlushIs ==
  ASSUME NEW t, Sound(t), NEW p \in VlanPorts, pv[p] \subseteq Table
  PROVE  Deleted(t, Flush(t, p).s, t.ref, p, pv[p], t.oob)
<1> DEFINE sq == SetToSeq(pv[p])
           len == Len(sq)
           Done(r, n) == r.ok /\ Deleted(t, r.s, t.ref, p, Leading(sq, n), t.oob)
<1>0. Orders(sq, pv[p]) /\ pv[p] \subseteq Vids /\ IsFiniteSet(pv[p])
  <2>1. IsFiniteSet(pv[p]) /\ pv[p] \subseteq Vids
    BY DsaVlanAssumption, FS_Subset
  <2> QED
    BY <2>1, SetSeq
<1>1. /\ sq \in Seq(Vids) /\ len \in Nat /\ len = Cardinality(pv[p]) /\ sq \in Seq(pv[p]) /\ IsInjective(sq)
      /\ t \in SwitchState
  BY <1>0 DEF Orders, Sound
<1>2. PICK run \in [0 .. len -> Results] :
         /\ run[0] = Ok(t)
         /\ \A k \in 1 .. len :
              run[k] = IF run[k - 1].ok THEN dsa_loop_port_vlan_del(run[k - 1].s, p, sq[k], "other") ELSE run[k - 1]
         /\ run[len] = Flush(t, p)
  BY <1>1, FlushRuns
<1> HIDE DEF sq, len
<1> DEFINE G == {n \in 0 .. len : Done(run[n], n)}
<1>3. 0 \in G
  <2>1. Ok(t).s = t /\ Ok(t).ok = TRUE
    BY <1>1, ResultIs
  <2>2. Deleted(t, t, t.ref, p, Leading(sq, 0), t.oob)
    <3>1. Leading(sq, 0) = {}
      BY <1>1, FirstIs
    <3> QED
      BY <3>1 DEF Deleted, Minus
  <2>3. Done(run[0], 0)
    BY <1>2, <2>1, <2>2
  <2> QED
    BY <1>1, <2>3
<1>4. ASSUME NEW n \in 0 .. len - 1, n \in G
      PROVE  n + 1 \in G
  <2>1. run[n].ok /\ Done(run[n], n)
    BY <1>4
  <2>2. n + 1 \in 1 .. len /\ n + 1 \in 0 .. len /\ (n + 1) - 1 = n /\ n \in 0 .. len /\ n \in Nat
    BY <1>1
  <2>3. run[n + 1] = dsa_loop_port_vlan_del(run[n].s, p, sq[n + 1], "other")
    BY <1>2, <2>1, <2>2
  <2>4. Done(run[n + 1], n + 1)
    <3> DEFINE v == sq[n + 1]
               V == Leading(sq, n)
    <3>1. Leading(sq, n + 1) = V \cup {v} /\ v \in pv[p]
      BY <1>1, <2>2, FirstNext DEF len
    <3>2. Deleted(t, run[n].s, t.ref, p, V, t.oob) /\ Sound(run[n].s)
      BY <2>1 DEF Deleted
    <3> HIDE DEF v, V
    <3>3. v \in Table /\ v \in Vids
      BY <3>1, DsaVlanAssumption
    <3>4. /\ run[n + 1].ok /\ Sound(run[n + 1].s) /\ Minus(run[n].s, run[n + 1].s, p, {v})
          /\ run[n + 1].s.ref = run[n].s.ref /\ run[n + 1].s.oob = run[n].s.oob
      <4> DEFINE o == "other"
      <4>1. run[n + 1] = dsa_loop_port_vlan_del(run[n].s, p, v, o) /\ o \in {"undo", "other"}
        BY <2>3 DEF v
      <4> HIDE DEF o
      <4>2. run[n + 1].ok /\ Deleted(run[n].s, run[n + 1].s, run[n].s.ref, p, {v}, run[n].s.oob)
        BY <3>2, <3>3, <4>1, PortDelDeletes
      <4> QED
        BY <4>2 DEF Deleted
    <3>5. Minus(t, run[n + 1].s, p, V \cup {v})
      BY <3>2, <3>4 DEF Deleted, Minus
    <3>6. Deleted(t, run[n + 1].s, t.ref, p, V \cup {v}, t.oob)
      BY <3>2, <3>4, <3>5 DEF Deleted
    <3> QED
      BY <3>1, <3>4, <3>6
  <2> QED
    BY <2>2, <2>4
<1>5. len \in G
  <2> HIDE DEF G
  <2>1. \A n \in 0 .. len : n \in G
    BY <1>1, <1>3, <1>4, UpTo
  <2> QED
    BY <1>1, <2>1
<1>6. Leading(sq, len) = pv[p]
  BY <1>0 DEF Leading, Orders, len
<1> QED
  BY <1>2, <1>5, <1>6


LEMMA HostAddAllIs ==
  ASSUME NEW t, Sound(t), NEW v \in Table, inBr \subseteq VlanPorts
  PROVE  Counts(t, HostAddAll(t, v, FALSE).s, [t.ref EXCEPT ![v] = @ + Cardinality(inBr)])
<1> DEFINE sq == SetToSeq(inBr)
           len == Len(sq)
           Done(r, n) == r.ok /\ Counts(t, r.s, [t.ref EXCEPT ![v] = @ + n])
<1>0. Orders(sq, inBr) /\ inBr \subseteq VlanPorts /\ IsFiniteSet(inBr)
  <2>1. IsFiniteSet(inBr) /\ inBr \subseteq VlanPorts
    BY DsaVlanAssumption, FS_Subset
  <2> QED
    BY <2>1, SetSeq
<1>1. /\ sq \in Seq(VlanPorts) /\ len \in Nat /\ len = Cardinality(inBr) /\ sq \in Seq(inBr) /\ IsInjective(sq)
      /\ t \in SwitchState /\ v \in Vids
  BY <1>0, DsaVlanAssumption DEF Orders, Sound
<1>2. PICK run \in [0 .. len -> Results] :
         /\ run[0] = Ok(t)
         /\ \A k \in 1 .. len :
              run[k] = IF run[k - 1].ok THEN dsa_port_host_vlan_add(run[k - 1].s, v, FALSE) ELSE run[k - 1]
         /\ run[len] = HostAddAll(t, v, FALSE)
  BY <1>1, HostAddAllRuns
<1> HIDE DEF sq, len
<1> DEFINE G == {n \in 0 .. len : Done(run[n], n)}
<1>3. 0 \in G
  <2>1. Ok(t).s = t /\ Ok(t).ok = TRUE
    BY <1>1, ResultIs
  <2>2. Counts(t, t, [t.ref EXCEPT ![v] = @ + 0])
    <3>1. Counts(t, t, t.ref) /\ t.ref \in [Vids -> Nat]
      BY CountsSame
    <3>2. [t.ref EXCEPT ![v] = @ + 0] = t.ref
      BY <3>1
    <3> QED
      BY <3>1, <3>2
  <2>3. Done(run[0], 0)
    BY <1>2, <2>1, <2>2
  <2> QED
    BY <1>1, <2>3
<1>4. ASSUME NEW n \in 0 .. len - 1, n \in G
      PROVE  n + 1 \in G
  <2>1. run[n].ok /\ Done(run[n], n)
    BY <1>4
  <2>2. n + 1 \in 1 .. len /\ n + 1 \in 0 .. len /\ (n + 1) - 1 = n /\ n \in 0 .. len /\ n \in Nat
    BY <1>1
  <2>3. run[n + 1] = dsa_port_host_vlan_add(run[n].s, v, FALSE)
    BY <1>2, <2>1, <2>2
  <2>4. Done(run[n + 1], n + 1)
    <3> DEFINE c == [t.ref EXCEPT ![v] = @ + n]
    <3>1. t.ref \in [Vids -> Nat] /\ v \in Vids
      BY CountsSame, DsaVlanAssumption
    <3>2. Counts(t, run[n].s, c) /\ Sound(run[n].s) /\ run[n].s.ref = c
      BY <2>1 DEF Counts
    <3>3. [c EXCEPT ![v] = @ + 1] = [t.ref EXCEPT ![v] = @ + (n + 1)]
      BY <2>2, <3>1
    <3> HIDE DEF c
    <3>4. run[n + 1].ok /\ Counts(run[n].s, run[n + 1].s, [c EXCEPT ![v] = @ + 1])
      BY <2>3, <3>2, HostAddCounts
    <3>5. Counts(t, run[n + 1].s, [c EXCEPT ![v] = @ + 1])
      BY <3>2, <3>4, CountsMore
    <3> QED
      BY <3>3, <3>4, <3>5
  <2> QED
    BY <2>2, <2>4
<1>5. len \in G
  <2> HIDE DEF G
  <2>1. \A n \in 0 .. len : n \in G
    BY <1>1, <1>3, <1>4, UpTo
  <2> QED
    BY <1>1, <2>1
<1> QED
  BY <1>1, <1>2, <1>5


LEMMA HostChangedAllIs ==
  ASSUME NEW t, Sound(t), NEW v \in Table, inBr \subseteq VlanPorts
  PROVE  Counts(t, HostAddAll(t, v, TRUE).s, t.ref)
<1> DEFINE sq == SetToSeq(inBr)
           len == Len(sq)
           Done(r, n) == r.ok /\ Counts(t, r.s, t.ref)
<1>0. Orders(sq, inBr) /\ inBr \subseteq VlanPorts /\ IsFiniteSet(inBr)
  <2>1. IsFiniteSet(inBr) /\ inBr \subseteq VlanPorts
    BY DsaVlanAssumption, FS_Subset
  <2> QED
    BY <2>1, SetSeq
<1>1. /\ sq \in Seq(VlanPorts) /\ len \in Nat /\ len = Cardinality(inBr) /\ sq \in Seq(inBr) /\ IsInjective(sq)
      /\ t \in SwitchState /\ v \in Vids
  BY <1>0, DsaVlanAssumption DEF Orders, Sound
<1>2. PICK run \in [0 .. len -> Results] :
         /\ run[0] = Ok(t)
         /\ \A k \in 1 .. len :
              run[k] = IF run[k - 1].ok THEN dsa_port_host_vlan_add(run[k - 1].s, v, TRUE) ELSE run[k - 1]
         /\ run[len] = HostAddAll(t, v, TRUE)
  BY <1>1, HostAddAllRuns
<1> HIDE DEF sq, len
<1> DEFINE G == {n \in 0 .. len : Done(run[n], n)}
<1>3. 0 \in G
  <2>1. Ok(t).s = t /\ Ok(t).ok = TRUE
    BY <1>1, ResultIs
  <2>2. Counts(t, t, t.ref)
    BY CountsSame
  <2>3. Done(run[0], 0)
    BY <1>2, <2>1, <2>2
  <2> QED
    BY <1>1, <2>3
<1>4. ASSUME NEW n \in 0 .. len - 1, n \in G
      PROVE  n + 1 \in G
  <2>1. run[n].ok /\ Done(run[n], n)
    BY <1>4
  <2>2. n + 1 \in 1 .. len /\ n + 1 \in 0 .. len /\ (n + 1) - 1 = n /\ n \in 0 .. len /\ n \in Nat
    BY <1>1
  <2>3. run[n + 1] = dsa_port_host_vlan_add(run[n].s, v, TRUE)
    BY <1>2, <2>1, <2>2
  <2>4. Done(run[n + 1], n + 1)
    <3>1. Counts(t, run[n].s, t.ref) /\ Sound(run[n].s) /\ run[n].s.ref = t.ref
      BY <2>1 DEF Counts
    <3>2. run[n + 1].ok /\ Counts(run[n].s, run[n + 1].s, t.ref)
      BY <1>1, <2>3, <3>1, HostChangedCounts
    <3> QED
      BY <3>1, <3>2, CountsMore
  <2> QED
    BY <2>2, <2>4
<1>5. len \in G
  <2> HIDE DEF G
  <2>1. \A n \in 0 .. len : n \in G
    BY <1>1, <1>3, <1>4, UpTo
  <2> QED
    BY <1>1, <2>1
<1> QED
  BY <1>1, <1>2, <1>5


LEMMA HostDelAllIs ==
  ASSUME NEW t, Sound(t), NEW v \in Table, inBr \subseteq VlanPorts, t.ref[v] >= Cardinality(inBr)
  PROVE  Counts(t, HostDelAll(t, v).s, [t.ref EXCEPT ![v] = @ - Cardinality(inBr)])
<1> DEFINE sq == SetToSeq(inBr)
           len == Len(sq)
           Done(r, n) == r.ok /\ Counts(t, r.s, [t.ref EXCEPT ![v] = @ - n])
<1>0. Orders(sq, inBr) /\ inBr \subseteq VlanPorts /\ IsFiniteSet(inBr)
  <2>1. IsFiniteSet(inBr) /\ inBr \subseteq VlanPorts
    BY DsaVlanAssumption, FS_Subset
  <2> QED
    BY <2>1, SetSeq
<1>1. /\ sq \in Seq(VlanPorts) /\ len \in Nat /\ len = Cardinality(inBr) /\ sq \in Seq(inBr) /\ IsInjective(sq)
      /\ t \in SwitchState /\ v \in Vids
  BY <1>0, DsaVlanAssumption DEF Orders, Sound
<1>2. PICK run \in [0 .. len -> Results] :
         /\ run[0] = Ok(t)
         /\ \A k \in 1 .. len :
              run[k] = IF run[k - 1].ok THEN dsa_port_host_vlan_del(run[k - 1].s, v, "other") ELSE run[k - 1]
         /\ run[len] = HostDelAll(t, v)
  BY <1>1, HostDelAllRuns
<1> HIDE DEF sq, len
<1> DEFINE G == {n \in 0 .. len : Done(run[n], n)}
<1>3. 0 \in G
  <2>1. Ok(t).s = t /\ Ok(t).ok = TRUE
    BY <1>1, ResultIs
  <2>2. Counts(t, t, [t.ref EXCEPT ![v] = @ - 0])
    <3>1. Counts(t, t, t.ref) /\ t.ref \in [Vids -> Nat]
      BY CountsSame
    <3>2. [t.ref EXCEPT ![v] = @ - 0] = t.ref
      BY <3>1
    <3> QED
      BY <3>1, <3>2
  <2>3. Done(run[0], 0)
    BY <1>2, <2>1, <2>2
  <2> QED
    BY <1>1, <2>3
<1>4. ASSUME NEW n \in 0 .. len - 1, n \in G
      PROVE  n + 1 \in G
  <2>1. run[n].ok /\ Done(run[n], n)
    BY <1>4
  <2>2. n + 1 \in 1 .. len /\ n + 1 \in 0 .. len /\ (n + 1) - 1 = n /\ n \in 0 .. len /\ n \in Nat
    BY <1>1
  <2>3. run[n + 1] = dsa_port_host_vlan_del(run[n].s, v, "other")
    BY <1>2, <2>1, <2>2
  <2>4. Done(run[n + 1], n + 1)
    <3> DEFINE c == [t.ref EXCEPT ![v] = @ - n]
    <3>1. t.ref \in [Vids -> Nat] /\ v \in Vids
      BY CountsSame, DsaVlanAssumption
    <3>2. Counts(t, run[n].s, c) /\ Sound(run[n].s) /\ run[n].s.ref = c
      BY <2>1 DEF Counts
    <3>3. [c EXCEPT ![v] = @ - 1] = [t.ref EXCEPT ![v] = @ - (n + 1)]
      BY <2>2, <3>1
    <3>4. c[v] > 0
      BY <1>1, <2>2, <3>1
    <3> HIDE DEF c
    <3>5. run[n + 1].ok /\ Counts(run[n].s, run[n + 1].s, [c EXCEPT ![v] = @ - 1])
      BY <2>3, <3>1, <3>2, <3>4, HostDelCounts
    <3>6. Counts(t, run[n + 1].s, [c EXCEPT ![v] = @ - 1])
      BY <3>2, <3>5, CountsMore
    <3> QED
      BY <3>3, <3>5, <3>6
  <2> QED
    BY <2>2, <2>4
<1>5. len \in G
  <2> HIDE DEF G
  <2>1. \A n \in 0 .. len : n \in G
    BY <1>1, <1>3, <1>4, UpTo
  <2> QED
    BY <1>1, <2>1
<1> QED
  BY <1>1, <1>2, <1>5
-----------------------------------------------------------------------------
(* Filtering in hardware, turned on and off. *)
(* u is t with filt, or feat, F. *)
Filt(t, u, F) ==
  /\ Sound(u) /\ u.filt = F
  /\ u.mem = t.mem /\ u.ref = t.ref /\ u.feat = t.feat /\ u.oob = t.oob
Feat(t, u, F) ==
  /\ Sound(u) /\ u.feat = F
  /\ u.mem = t.mem /\ u.ref = t.ref /\ u.filt = t.filt /\ u.oob = t.oob

LEMMA FiltIs ==
  ASSUME NEW t, Sound(t), NEW F \in SUBSET VlanPorts, NEW u, u = [t EXCEPT !.filt = F]
  PROVE  Filt(t, u, F)
<1> DEFINE m0 == t.mem
           r0 == t.ref
           c0 == t.cond
           fi0 == t.filt
           fe0 == t.feat
           o0 == t.oob
<1>1. t = [mem |-> m0, ref |-> r0, cond |-> c0, filt |-> fi0, feat |-> fe0, oob |-> o0]
  BY StateIs DEF Sound
<1>2. [mem |-> m0, ref |-> r0, cond |-> c0, filt |-> F, feat |-> fe0, oob |-> o0] \in SwitchState
  BY StateIs, StateOf DEF Sound
<1> HIDE DEF m0, r0, c0, fi0, fe0, o0
<1>3. u = [mem |-> m0, ref |-> r0, cond |-> c0, filt |-> F, feat |-> fe0, oob |-> o0]
  BY <1>1
<1>4. u \in SwitchState
  BY <1>2, <1>3
<1>5. u.mem = m0 /\ u.ref = r0 /\ u.cond = c0 /\ u.filt = F /\ u.feat = fe0 /\ u.oob = o0
  BY <1>3
<1>6. Sound(u)
  BY <1>4, <1>5 DEF Sound, m0, r0, c0
<1> QED
  BY <1>5, <1>6 DEF Filt, m0, r0, fe0, o0

LEMMA FeatIs ==
  ASSUME NEW t, Sound(t), NEW F \in SUBSET VlanPorts, NEW u, u = [t EXCEPT !.feat = F]
  PROVE  Feat(t, u, F)
<1> DEFINE m0 == t.mem
           r0 == t.ref
           c0 == t.cond
           fi0 == t.filt
           fe0 == t.feat
           o0 == t.oob
<1>1. t = [mem |-> m0, ref |-> r0, cond |-> c0, filt |-> fi0, feat |-> fe0, oob |-> o0]
  BY StateIs DEF Sound
<1>2. [mem |-> m0, ref |-> r0, cond |-> c0, filt |-> fi0, feat |-> F, oob |-> o0] \in SwitchState
  BY StateIs, StateOf DEF Sound
<1> HIDE DEF m0, r0, c0, fi0, fe0, o0
<1>3. u = [mem |-> m0, ref |-> r0, cond |-> c0, filt |-> fi0, feat |-> F, oob |-> o0]
  BY <1>1
<1>4. u \in SwitchState
  BY <1>2, <1>3
<1>5. u.mem = m0 /\ u.ref = r0 /\ u.cond = c0 /\ u.filt = fi0 /\ u.feat = F /\ u.oob = o0
  BY <1>3
<1>6. Sound(u)
  BY <1>4, <1>5 DEF Sound, m0, r0, c0
<1> QED
  BY <1>5, <1>6 DEF Feat, m0, r0, fi0, o0

TurnedOn(t, u, p) ==
  /\ Sound(u) /\ u.feat = t.feat \cup {p} /\ u.filt = t.filt /\ u.oob = t.oob
  /\ Uppers(p) \subseteq Table /\ u.ref = RefUp(t.ref, Uppers(p))
  /\ \A q \in VlanPorts, v \in Table : q \in u.mem[v] <=> q \in t.mem[v] \/ (q = p /\ v \in Uppers(p))

NotTurnedOn(t, u, p) ==
  /\ Sound(u) /\ u.feat = t.feat \ {p} /\ u.filt = t.filt /\ u.oob = "undo"
  /\ u.ref = t.ref
  /\ \E V \in SUBSET Uppers(p) : \A q \in VlanPorts, v \in Table :
        q \in u.mem[v] <=> q \in t.mem[v] /\ ~(q = p /\ v \in V)

TurnedOff(t, u, p) ==
  /\ Sound(u) /\ u.feat = t.feat \ {p} /\ u.filt = t.filt /\ u.oob = t.oob
  /\ u.ref = RefDown(t.ref, Uppers(p))
  /\ \A q \in VlanPorts, v \in Table : q \in u.mem[v] <=> q \in t.mem[v] /\ ~(q = p /\ v \in Uppers(p))

UppersOK == \A p \in VlanPorts : uppers[p] \in Seq(Vids) /\ IsInjective(uppers[p])

LEMMA ManageOn ==
  ASSUME UppersOK, NEW t, Sound(t), NEW p \in VlanPorts,
         NEW r, r = dsa_user_manage_vlan_filtering(t, p, TRUE)
  PROVE  r \in Results /\ (r.ok => TurnedOn(t, r.s, p)) /\ (~r.ok => NotTurnedOn(t, r.s, p))
<1> DEFINE sq == uppers[p]
           x  == Restore(t, p)
           y  == Clear(x.s, p, "undo").s
<1>1. sq \in Seq(Vids) /\ IsInjective(sq) /\ Len(sq) \in Nat
  BY DEF UppersOK
<1>2. PICK m \in 0 .. Len(sq) : Restored(t, x, p, m, Len(sq))
  BY <1>1, RestoreIs
<1>3. r = IF x.ok THEN Ok([x.s EXCEPT !.feat = @ \cup {p}]) ELSE Err([y EXCEPT !.feat = @ \ {p}])
  BY DEF dsa_user_manage_vlan_filtering
<1> DEFINE V == Leading(sq, m)
<1>4. V \subseteq Uppers(p) /\ V \subseteq Vids /\ (m = Len(sq) => V = Uppers(p))
  BY <1>1, FirstIs DEF Uppers
<1> HIDE DEF x
<1>5. /\ Added(t, x.s, RefUp(t.ref, V), p, V) /\ Sound(x.s) /\ V \subseteq Table
      /\ x.ok = (m = Len(sq)) /\ (m < Len(sq) => sq[m + 1] \notin Table)
  BY <1>2 DEF Restored, Added
<1>6. t.feat \in SUBSET VlanPorts /\ t.ref \in [Vids -> Nat] /\ x.s.feat = t.feat
  <2>1. t.feat \in SUBSET VlanPorts /\ t.ref \in [Vids -> Nat]
    BY StateIs DEF Sound
  <2> QED
    BY <1>5, <2>1 DEF Added, Plus
<1>7. CASE x.ok
  <2> DEFINE F == x.s.feat \cup {p}
             u == [x.s EXCEPT !.feat = F]
  <2>f. F \in SUBSET VlanPorts
    BY <1>6
  <2>1. r = Ok(u) /\ V = Uppers(p)
    BY <1>3, <1>4, <1>5, <1>7
  <2> HIDE DEF F, V
  <2>2. /\ Sound(u) /\ u.feat = F
        /\ u.mem = x.s.mem /\ u.ref = x.s.ref /\ u.filt = x.s.filt /\ u.oob = x.s.oob
    <3>1. Feat(x.s, u, F)
      BY <1>5, <2>f, FeatIs
    <3> QED
      BY <3>1 DEF Feat
  <2> HIDE DEF u
  <2>3. r.s = u /\ r.ok = TRUE /\ r \in Results
    BY <2>1, <2>2, ResultIs DEF Sound
  <2>4. TurnedOn(t, u, p)
    BY <1>5, <1>6, <2>1, <2>2 DEF TurnedOn, Added, Plus, F
  <2> QED
    BY <2>3, <2>4
<1>8. CASE ~x.ok
  <2> DEFINE F == y.feat \ {p}
             u == [y EXCEPT !.feat = F]
  <2>1. r = Err(u)
    BY <1>3, <1>8
  <2>2. m < Len(sq) /\ ~(Len(sq) <= m) /\ sq[m + 1] \notin Table
    <3>1. m # Len(sq)
      BY <1>5, <1>8, Zenon
    <3>2. m < Len(sq) /\ ~(Len(sq) <= m)
      BY <1>1, <3>1
    <3> QED
      BY <1>5, <3>2
  <2>3. x.s.ref = RefUp(t.ref, V)
    BY <1>5 DEF Added
  <2>4. \A v \in V : x.s.ref[v] > 0
    BY <1>4, <1>6, <2>3 DEF RefUp
  <2>5. Held(x.s, p, m)
    BY <2>2, <2>4 DEF Held
  <2>6. Cleared(x.s, Clear(x.s, p, "undo"), p, m, Len(sq), "undo")
    BY <1>1, <1>5, <2>5, ClearIs
  <2> HIDE DEF V
  <2>7. Deleted(x.s, y, RefDown(x.s.ref, V), p, V, "undo")
    BY <2>2, <2>6 DEF Cleared, V
  <2>8. RefDown(x.s.ref, V) = t.ref
    BY <1>4, <1>6, <2>3 DEF RefUp, RefDown
  <2> HIDE DEF y, sq
  <2>9. Sound(y) /\ y.ref = t.ref /\ y.oob = "undo" /\ y.feat = t.feat /\ y.filt = t.filt
    BY <1>5, <2>7, <2>8 DEF Deleted, Minus, Added, Plus
  <2>10. F \in SUBSET VlanPorts
    BY <1>6, <2>9
  <2> HIDE DEF F
  <2>11. /\ Sound(u) /\ u.feat = F
         /\ u.mem = y.mem /\ u.ref = y.ref /\ u.filt = y.filt /\ u.oob = y.oob
    <3>1. Feat(y, u, F)
      BY <2>9, <2>10, FeatIs
    <3> QED
      BY <3>1 DEF Feat
  <2> HIDE DEF u
  <2>12. r.s = u /\ r.ok = FALSE /\ r \in Results
    BY <2>1, <2>11, ResultIs DEF Sound
  <2>13. \A q \in VlanPorts, v \in Table : q \in u.mem[v] <=> q \in t.mem[v] /\ ~(q = p /\ v \in V)
    <3>1. Plus(t, x.s, p, V) /\ Minus(x.s, y, p, V)
      BY <1>5, <2>7 DEF Added, Deleted
    <3> QED
      BY <2>11, <3>1 DEF Plus, Minus
  <2>14. NotTurnedOn(t, u, p)
    BY <1>4, <2>9, <2>11, <2>13 DEF NotTurnedOn, F
  <2> QED
    BY <2>12, <2>14
<1> QED
  BY <1>7, <1>8

LEMMA ManageOff ==
  ASSUME UppersOK, NEW t, Sound(t), NEW p \in VlanPorts, \A v \in Uppers(p) : t.ref[v] > 0,
         NEW r, r = dsa_user_manage_vlan_filtering(t, p, FALSE)
  PROVE  r \in Results /\ r.ok /\ TurnedOff(t, r.s, p)
<1> DEFINE sq == uppers[p]
           x  == Clear(t, p, "other")
           V  == Leading(sq, Len(sq))
<1>1. sq \in Seq(Vids) /\ IsInjective(sq) /\ Len(sq) \in Nat
  BY DEF UppersOK
<1>2. r = IF x.ok THEN Ok([x.s EXCEPT !.feat = @ \ {p}]) ELSE x
  BY DEF dsa_user_manage_vlan_filtering
<1>3. V = Uppers(p) /\ Len(sq) \in 0 .. Len(sq) /\ ~(Len(sq) < Len(sq)) /\ Len(sq) <= Len(sq)
  BY <1>1, FirstIs DEF Uppers
<1>4. Held(t, p, Len(sq))
  BY <1>3 DEF Held
<1>5. Cleared(t, x, p, Len(sq), Len(sq), "other")
  BY <1>1, <1>3, <1>4, ClearIs
<1> HIDE DEF x
<1>6. x.ok /\ Deleted(t, x.s, RefDown(t.ref, Uppers(p)), p, Uppers(p), t.oob)
  BY <1>3, <1>5 DEF Cleared
<1> DEFINE F == x.s.feat \ {p}
           u == [x.s EXCEPT !.feat = F]
<1>7. r = Ok(u)
  BY <1>2, <1>6
<1>8. Sound(x.s) /\ x.s.feat = t.feat /\ t.feat \in SUBSET VlanPorts
  <2>1. t.feat \in SUBSET VlanPorts
    BY StateIs DEF Sound
  <2> QED
    BY <1>6, <2>1 DEF Deleted, Minus
<1>9. F \in SUBSET VlanPorts
  BY <1>8
<1> HIDE DEF F
<1>10. /\ Sound(u) /\ u.feat = F
       /\ u.mem = x.s.mem /\ u.ref = x.s.ref /\ u.filt = x.s.filt /\ u.oob = x.s.oob
  <2>1. Feat(x.s, u, F)
    BY <1>8, <1>9, FeatIs
  <2> QED
    BY <2>1 DEF Feat
<1> HIDE DEF u
<1>11. r.s = u /\ r.ok = TRUE /\ r \in Results
  BY <1>7, <1>10, ResultIs DEF Sound
<1>12. TurnedOff(t, u, p)
  BY <1>6, <1>8, <1>10 DEF TurnedOff, Deleted, Minus, F
<1> QED
  BY <1>11, <1>12
LEMMA FieldTypes ==
  ASSUME NEW t \in SwitchState, NEW F \in SUBSET VlanPorts
  PROVE  [t EXCEPT !.filt = F] \in SwitchState /\ [t EXCEPT !.feat = F] \in SwitchState
BY DEF SwitchState

LEMMA ManageTypes ==
  ASSUME UppersOK, NEW t \in SwitchState, NEW p \in VlanPorts, NEW on \in BOOLEAN
  PROVE  dsa_user_manage_vlan_filtering(t, p, on) \in Results
<1> DEFINE x == Restore(t, p)
           y == Clear(x.s, p, "undo")
           z == Clear(t, p, "other")
<1>1. uppers[p] \in Seq(Vids) /\ Len(uppers[p]) \in 0 .. Len(uppers[p])
  BY DEF UppersOK
<1>2. x \in Results
  BY <1>1, RestoreRuns
<1>3. z \in Results
  BY <1>1, ClearRuns
<1>4. dsa_user_manage_vlan_filtering(t, p, on) =
         IF on THEN IF x.ok THEN Ok([x.s EXCEPT !.feat = @ \cup {p}])
                    ELSE Err([y.s EXCEPT !.feat = @ \ {p}])
         ELSE IF z.ok THEN Ok([z.s EXCEPT !.feat = @ \ {p}]) ELSE z
  BY DEF dsa_user_manage_vlan_filtering
<1> HIDE DEF x
<1>5. x.s \in SwitchState
  BY <1>2 DEF Results
<1>6. y \in Results
  BY <1>1, <1>5, ClearRuns
<1> HIDE DEF y, z
<1>7. y.s \in SwitchState /\ z.s \in SwitchState
  BY <1>3, <1>6 DEF Results
<1>8. x.s.feat \cup {p} \in SUBSET VlanPorts /\ y.s.feat \ {p} \in SUBSET VlanPorts
      /\ z.s.feat \ {p} \in SUBSET VlanPorts
  <2>1. x.s.feat \in SUBSET VlanPorts
    BY <1>5, StateIs
  <2>2. y.s.feat \in SUBSET VlanPorts
    BY <1>7, StateIs
  <2>3. z.s.feat \in SUBSET VlanPorts
    BY <1>7, StateIs
  <2> QED
    BY <2>1, <2>2, <2>3
<1>9. Ok([x.s EXCEPT !.feat = @ \cup {p}]) \in Results
  BY <1>5, <1>8, FieldTypes, ResultIs
<1>10. Err([y.s EXCEPT !.feat = @ \ {p}]) \in Results
  BY <1>7, <1>8, FieldTypes, ResultIs
<1>11. Ok([z.s EXCEPT !.feat = @ \ {p}]) \in Results
  BY <1>7, <1>8, FieldTypes, ResultIs
<1> QED
  BY <1>3, <1>4, <1>9, <1>10, <1>11, Zenon

Denied(p, on) == on /\ \E v \in Uppers(p) : BridgeHas(v)

(* With n, where the flag is set, and the result r of the uppers, d is *)
FilterCase(t, p, on, n, r, d) ==
  /\ r \in Results
  /\ n = [t EXCEPT !.filt = IF on THEN t.filt \cup {p} ELSE t.filt \ {p}]
  /\ (IF on THEN t.filt \cup {p} ELSE t.filt \ {p}) \in SUBSET VlanPorts
  /\ d = IF Denied(p, on) THEN Err(t)
         ELSE IF (p \in t.filt) = on THEN Ok(t)
         ELSE IF r.ok THEN r ELSE Err([r.s EXCEPT !.filt = t.filt])
  /\ d \in Results

LEMMA FilteringCases ==
  ASSUME UppersOK, NEW t \in SwitchState, NEW p \in VlanPorts, NEW on \in BOOLEAN,
         NEW n, n = [t EXCEPT !.filt = IF on THEN @ \cup {p} ELSE @ \ {p}],
         NEW r, r = dsa_user_manage_vlan_filtering(n, p, on)
  PROVE  FilterCase(t, p, on, n, r, dsa_port_vlan_filtering(t, p, on))
<1> DEFINE F == IF on THEN t.filt \cup {p} ELSE t.filt \ {p}
           d == dsa_port_vlan_filtering(t, p, on)
<1>1. t.filt \in SUBSET VlanPorts
  BY StateIs
<1>2. n = [t EXCEPT !.filt = F] /\ F \in SUBSET VlanPorts
  BY <1>1
<1>3. n \in SwitchState
  <2> HIDE DEF F
  <2> QED
    BY <1>2, FieldTypes
<1>4. r \in Results
  BY <1>3, ManageTypes
<1>5. d = CASE Denied(p, on) -> Err(t)
            [] ~Denied(p, on) /\ (p \in t.filt) = on -> Ok(t)
            [] OTHER -> IF r.ok THEN r ELSE Err([r.s EXCEPT !.filt = t.filt])
  BY Zenon DEF dsa_port_vlan_filtering, Denied
<1> HIDE DEF d, F
<1>6. d = IF Denied(p, on) THEN Err(t)
          ELSE IF (p \in t.filt) = on THEN Ok(t)
          ELSE IF r.ok THEN r ELSE Err([r.s EXCEPT !.filt = t.filt])
  BY <1>5
<1>7. d \in Results
  <2>1. r.s \in SwitchState
    BY <1>4 DEF Results
  <2>2. [r.s EXCEPT !.filt = t.filt] \in SwitchState
    BY <1>1, <2>1, FieldTypes
  <2>3. Err([r.s EXCEPT !.filt = t.filt]) \in Results /\ Err(t) \in Results /\ Ok(t) \in Results
    BY <2>2, ResultIs
  <2> QED
    BY <1>4, <1>6, <2>3, Zenon
<1> QED
  BY <1>2, <1>4, <1>6, <1>7 DEF d, F, FilterCase


LEMMA FilterAllRuns ==
  ASSUME NEW t \in SwitchState, UppersOK, aware \in BOOLEAN, NEW order \in Seq(VlanPorts)
  PROVE  \E run \in [0 .. Len(order) -> Results] :
            /\ run[0] = Ok(t)
            /\ \A k \in 1 .. Len(order) :
                 run[k] = IF run[k - 1].ok
                          THEN dsa_port_vlan_filtering(run[k - 1].s, order[k], ~aware)
                          ELSE run[k - 1]
            /\ run[Len(order)] = FilterAll(t, order)
<1> DEFINE sq == order
           E0 == VlanPorts
           Op(u, x) == dsa_port_vlan_filtering(u, x, ~aware)
           op == [y \in SwitchState \X E0 |-> Op(y[1], y[2])]
           F(g) == [n \in 0 .. Len(sq) |->
                      IF n = 0 THEN Ok(t)
                      ELSE IF g[n - 1].ok THEN Op(g[n - 1].s, sq[n]) ELSE g[n - 1]]
           c == CHOOSE g : g = F(g)
<1>1. sq \in Seq(E0)
  OBVIOUS
<1>2. \A u \in SwitchState, x \in E0 : Op(u, x) \in Results
  <2>1. (~aware) \in BOOLEAN
    OBVIOUS
  <2> QED
    BY <2>1, FilteringCases DEF FilterCase
<1>3. FilterAll(t, order) = c[Len(sq)]
  BY DEF FilterAll, Each
<1> HIDE DEF sq, E0, Op
<1>4. op \in [SwitchState \X E0 -> Results] /\ \A u \in SwitchState, x \in E0 : op[<<u, x>>] = Op(u, x)
  BY <1>2
<1>5. Len(sq) \in Nat /\ \A k \in 1 .. Len(sq) : sq[k] \in E0
  BY <1>1, ElementOfSeq
<1> HIDE DEF op
<1>e. PICK run \in [0 .. Len(sq) -> Results] : Ran(run, op, t, sq)
  BY <1>1, <1>4, EachRuns
<1>6. /\ run[0] = Ok(t)
      /\ \A k \in 1 .. Len(sq) :
            run[k] = IF run[k - 1].ok THEN op[<<run[k - 1].s, sq[k]>>] ELSE run[k - 1]
  BY <1>e DEF Ran
<1>7. ASSUME NEW k \in 1 .. Len(sq)
      PROVE  run[k] = IF run[k - 1].ok THEN Op(run[k - 1].s, sq[k]) ELSE run[k - 1]
  <2>1. k - 1 \in 0 .. Len(sq)
    BY <1>5
  <2>2. run[k - 1].s \in SwitchState
    BY <2>1 DEF Results
  <2>3. op[<<run[k - 1].s, sq[k]>>] = Op(run[k - 1].s, sq[k])
    BY <1>4, <1>5, <2>2
  <2> QED
    BY <1>6, <2>3, Zenon
<1>8. run = F(run)
  <2>1. \A n \in 0 .. Len(sq) : run[n] = F(run)[n]
    BY <1>5, <1>6, <1>7
  <2> QED
    BY <2>1
<1>9. c = F(c)
  <2> HIDE DEF F
  <2> QED
    BY <1>8
<1> HIDE DEF c
<1>10. /\ c[0] = Ok(t)
       /\ \A k \in 1 .. Len(sq) : c[k] = IF c[k - 1].ok THEN Op(c[k - 1].s, sq[k]) ELSE c[k - 1]
  BY <1>5, <1>9
<1> HIDE DEF F
<1>11. c[Len(sq)] = run[Len(sq)]
  <2> DEFINE G == {k \in 0 .. Len(sq) : c[k] = run[k]}
  <2>1. 0 \in G
    BY <1>5, <1>6, <1>10
  <2>2. ASSUME NEW k \in 0 .. Len(sq) - 1, k \in G
        PROVE  k + 1 \in G
    <3>1. k + 1 \in 1 .. Len(sq) /\ (k + 1) - 1 = k
      BY <1>5
    <3>2. c[k] = run[k]
      BY <2>2
    <3>3. run[k + 1] = IF run[k].ok THEN Op(run[k].s, sq[k + 1]) ELSE run[k]
      BY <1>7, <3>1
    <3>4. c[k + 1] = IF c[k].ok THEN Op(c[k].s, sq[k + 1]) ELSE c[k]
      BY <1>10, <3>1
    <3>5. c[k + 1] = run[k + 1]
      BY <3>2, <3>3, <3>4
    <3>6. k + 1 \in 0 .. Len(sq)
      BY <1>5, <3>1
    <3> QED
      BY <3>5, <3>6
  <2>3. \A k \in 0 .. Len(sq) : k \in G
    <3> HIDE DEF G
    <3> QED
      BY <1>5, <2>1, <2>2, UpTo
  <2> QED
    BY <1>5, <2>3
<1> QED
  BY <1>3, <1>6, <1>7, <1>11 DEF sq, Op
-----------------------------------------------------------------------------
(* The ports of F that want the VLAN v for an upper. *)
Wanting(F, v) == {q \in F : v \in Uppers(q)}

(* What holds of the switch between the calls too: h counts the references *)
(* of the bridge.                                                          *)
Good(t, h) ==
  /\ Sound(t) /\ t.filt = t.feat /\ t.oob # "other"
  /\ \A q \in t.feat : Uppers(q) \subseteq Table
  /\ \A v \in Vids : t.ref[v] = Cardinality(Wanting(t.feat, v)) + h[v]

(* The table holds the bridge VLANs f and the uppers of the filtering ports, *)
(* except for the pairs w.                                                   *)
Matches(t, f, w) ==
  \A q \in VlanPorts, v \in Table :
     <<q, v>> \notin w => (q \in t.mem[v] <=> v \in f[q] \/ (q \in t.feat /\ v \in Uppers(q)))

LEMMA WantingMore ==
  ASSUME NEW F \in SUBSET VlanPorts, NEW p \in VlanPorts, p \notin F, NEW v
  PROVE  /\ Cardinality(Wanting(F, v)) \in Nat /\ IsFiniteSet(Wanting(F, v))
         /\ v \in Uppers(p) => Cardinality(Wanting(F \cup {p}, v)) = Cardinality(Wanting(F, v)) + 1
         /\ v \notin Uppers(p) => Wanting(F \cup {p}, v) = Wanting(F, v)
<1>1. Wanting(F, v) \subseteq VlanPorts /\ p \notin Wanting(F, v)
  BY DEF Wanting
<1>2. IsFiniteSet(Wanting(F, v)) /\ Cardinality(Wanting(F, v)) \in Nat
  BY <1>1, DsaVlanAssumption, FS_Subset, FS_CardinalityType
<1>3. v \in Uppers(p) => Wanting(F \cup {p}, v) = Wanting(F, v) \cup {p}
  BY DEF Wanting
<1>4. v \notin Uppers(p) => Wanting(F \cup {p}, v) = Wanting(F, v)
  BY DEF Wanting
<1>5. Cardinality(Wanting(F, v) \cup {p}) = Cardinality(Wanting(F, v)) + 1
  BY <1>1, <1>2, FS_AddElement
<1> QED
  BY <1>2, <1>3, <1>4, <1>5

(* The step of a port, in or out. *)
Filtered(t, r, p, on, h) ==
  /\ r \in Results /\ Good(r.s, h)
  /\ r.ok /\ on => r.s.feat = t.feat \cup {p} /\ \A v \in Uppers(p) : ~BridgeHas(v)
  /\ ~on => r.ok /\ r.s.feat = t.feat \ {p}
  /\ ~r.ok => r.s.feat = t.feat

(* Bridge VLANs for which the step of the port p leaves the table right. *)
Apart(f, p, on) ==
  /\ on => \A v \in f[p] : BridgeHas(v)
  /\ ~on => f[p] \cap Uppers(p) = {}

LEMMA OnIsGood ==
  ASSUME NEW t, NEW h \in [Vids -> Nat], Good(t, h), NEW p \in VlanPorts, p \notin t.feat,
         NEW n, Filt(t, n, t.filt \cup {p}), NEW u, TurnedOn(n, u, p)
  PROVE  /\ Good(u, h) /\ u.feat = t.feat \cup {p}
         /\ \A f, w : Matches(t, f, w) => Matches(u, f, w)
<1>1. /\ u.feat = t.feat \cup {p} /\ u.filt = t.feat \cup {p} /\ u.oob = t.oob /\ Sound(u)
      /\ Uppers(p) \subseteq Table /\ u.ref = RefUp(t.ref, Uppers(p))
  BY DEF Filt, TurnedOn, Good
<1>2. t.feat \in SUBSET VlanPorts /\ t.ref \in [Vids -> Nat]
  BY StateIs DEF Good, Sound
<1>3. ASSUME NEW v \in Vids
      PROVE  u.ref[v] = Cardinality(Wanting(u.feat, v)) + h[v]
  <2>1. t.ref[v] = Cardinality(Wanting(t.feat, v)) + h[v] /\ h[v] \in Nat
    BY DEF Good
  <2>2. /\ Cardinality(Wanting(t.feat, v)) \in Nat
        /\ v \in Uppers(p) => Cardinality(Wanting(u.feat, v)) = Cardinality(Wanting(t.feat, v)) + 1
        /\ v \notin Uppers(p) => Cardinality(Wanting(u.feat, v)) = Cardinality(Wanting(t.feat, v))
    <3> DEFINE F == t.feat
    <3>1. F \in SUBSET VlanPorts /\ p \notin F
      BY <1>2
    <3> HIDE DEF F
    <3>2. /\ Cardinality(Wanting(F, v)) \in Nat
          /\ v \in Uppers(p) => Cardinality(Wanting(F \cup {p}, v)) = Cardinality(Wanting(F, v)) + 1
          /\ v \notin Uppers(p) => Wanting(F \cup {p}, v) = Wanting(F, v)
      BY <3>1, WantingMore
    <3>3. u.feat = F \cup {p}
      BY <1>1 DEF F
    <3> QED
      BY <3>2, <3>3 DEF F
  <2>3. u.ref[v] = IF v \in Uppers(p) THEN t.ref[v] + 1 ELSE t.ref[v]
    BY <1>1, <1>2 DEF RefUp
  <2> QED
    BY <2>1, <2>2, <2>3
<1>4. Good(u, h)
  BY <1>1, <1>3 DEF Good
<1>5. ASSUME NEW f, NEW w, Matches(t, f, w)
      PROVE  Matches(u, f, w)
  BY <1>1, <1>5 DEF Matches, TurnedOn, Filt
<1> QED
  BY <1>1, <1>4, <1>5

LEMMA OffIsGood ==
  ASSUME NEW t, NEW h \in [Vids -> Nat], Good(t, h), NEW p \in VlanPorts, p \in t.feat,
         NEW n, Filt(t, n, t.filt \ {p}), NEW u, TurnedOff(n, u, p)
  PROVE  /\ Good(u, h) /\ u.feat = t.feat \ {p}
         /\ \A f, w : Matches(t, f, w) /\ f[p] \cap Uppers(p) = {} => Matches(u, f, w)
<1>1. /\ u.feat = t.feat \ {p} /\ u.filt = t.feat \ {p} /\ u.oob = t.oob /\ Sound(u)
      /\ u.ref = RefDown(t.ref, Uppers(p))
  BY DEF Filt, TurnedOff, Good
<1>2. t.feat \in SUBSET VlanPorts /\ t.ref \in [Vids -> Nat]
  BY StateIs DEF Good, Sound
<1>3. u.feat \in SUBSET VlanPorts /\ p \notin u.feat /\ t.feat = u.feat \cup {p}
  BY <1>1, <1>2
<1>4. ASSUME NEW v \in Vids
      PROVE  u.ref[v] = Cardinality(Wanting(u.feat, v)) + h[v]
  <2>1. t.ref[v] = Cardinality(Wanting(t.feat, v)) + h[v] /\ h[v] \in Nat
    BY DEF Good
  <2>2. /\ Cardinality(Wanting(u.feat, v)) \in Nat
        /\ v \in Uppers(p) => Cardinality(Wanting(t.feat, v)) = Cardinality(Wanting(u.feat, v)) + 1
        /\ v \notin Uppers(p) => Cardinality(Wanting(t.feat, v)) = Cardinality(Wanting(u.feat, v))
    BY <1>3, WantingMore
  <2>3. u.ref[v] = IF v \in Uppers(p) THEN t.ref[v] - 1 ELSE t.ref[v]
    BY <1>1, <1>2 DEF RefDown
  <2> QED
    BY <2>1, <2>2, <2>3
<1>5. Good(u, h)
  BY <1>1, <1>4 DEF Good
<1>6. ASSUME NEW f, NEW w, Matches(t, f, w), f[p] \cap Uppers(p) = {}
      PROVE  Matches(u, f, w)
  BY <1>1, <1>6 DEF Matches, TurnedOff, Filt
<1> QED
  BY <1>1, <1>5, <1>6

LEMMA FailedIsGood ==
  ASSUME NEW t, NEW h \in [Vids -> Nat], Good(t, h), NEW p \in VlanPorts, p \notin t.feat,
         NEW n, NEW F, Filt(t, n, F), NEW x, NotTurnedOn(n, x, p), NEW u, Filt(x, u, t.filt)
  PROVE  /\ Good(u, h) /\ u.feat = t.feat
         /\ \A f, w : Matches(t, f, w) /\ f[p] \cap Uppers(p) = {} => Matches(u, f, w)
<1>1. u.feat = t.feat /\ u.filt = t.filt /\ u.oob = "undo" /\ Sound(u) /\ u.ref = t.ref
  BY DEF Filt, NotTurnedOn, Good
<1>2. Good(u, h)
  BY <1>1 DEF Good
<1>3. ASSUME NEW f, NEW w, Matches(t, f, w), f[p] \cap Uppers(p) = {}
      PROVE  Matches(u, f, w)
  <2>1. PICK V \in SUBSET Uppers(p) : \A q \in VlanPorts, v \in Table :
           q \in x.mem[v] <=> q \in n.mem[v] /\ ~(q = p /\ v \in V)
    BY DEF NotTurnedOn
  <2>2. n.mem = t.mem /\ u.mem = x.mem
    BY DEF Filt
  <2> QED
    BY <1>1, <1>3, <2>1, <2>2 DEF Matches
<1> QED
  BY <1>1, <1>2, <1>3

LEMMA FilteringIs ==
  ASSUME UppersOK, NEW t, NEW h \in [Vids -> Nat], Good(t, h), NEW p \in VlanPorts, NEW on \in BOOLEAN,
         NEW r, r = dsa_port_vlan_filtering(t, p, on)
  PROVE  /\ Filtered(t, r, p, on, h)
         /\ \A f, w : Matches(t, f, w) /\ Apart(f, p, on) => Matches(r.s, f, w)
<1> DEFINE n == [t EXCEPT !.filt = IF on THEN @ \cup {p} ELSE @ \ {p}]
           x == dsa_user_manage_vlan_filtering(n, p, on)
           F == IF on THEN t.filt \cup {p} ELSE t.filt \ {p}
           e == [x.s EXCEPT !.filt = t.filt]
<1>1. t \in SwitchState /\ Sound(t) /\ t.filt = t.feat
  BY DEF Good, Sound
<1>2. /\ x \in Results
      /\ n = [t EXCEPT !.filt = F]
      /\ F \in SUBSET VlanPorts
      /\ r = IF Denied(p, on) THEN Err(t)
             ELSE IF (p \in t.filt) = on THEN Ok(t)
             ELSE IF x.ok THEN x ELSE Err(e)
      /\ r \in Results
  <2>1. FilterCase(t, p, on, n, x, dsa_port_vlan_filtering(t, p, on))
    BY <1>1, FilteringCases
  <2> QED
    BY <2>1, Zenon DEF FilterCase
<1>x. x = dsa_user_manage_vlan_filtering(n, p, on) /\ e = [x.s EXCEPT !.filt = t.filt]
  OBVIOUS
<1>f. F = IF on THEN t.filt \cup {p} ELSE t.filt \ {p}
  OBVIOUS
<1> HIDE DEF n, x, F, e
<1>3. Filt(t, n, F)
  BY <1>1, <1>2, FiltIs
<1>4. Sound(n) /\ n.ref = t.ref
  BY <1>3 DEF Filt
<1>5. CASE Denied(p, on)
  <2>1. r.s = t /\ r.ok = FALSE /\ on
    BY <1>2, <1>5, ResultIs DEF Denied
  <2> QED
    BY <1>2, <2>1 DEF Filtered
<1>6. CASE ~Denied(p, on) /\ (p \in t.filt) = on
  <2>1. r.s = t /\ r.ok = TRUE
    BY <1>2, <1>6, ResultIs
  <2>2. on => p \in t.feat /\ \A v \in Uppers(p) : ~BridgeHas(v)
    BY <1>1, <1>6 DEF Denied
  <2>3. ~on => p \notin t.feat
    BY <1>1, <1>6
  <2> QED
    BY <1>2, <2>1, <2>2, <2>3 DEF Filtered
<1>7. CASE ~Denied(p, on) /\ (p \in t.filt) # on
  <2>0. r = IF x.ok THEN x ELSE Err(e)
    BY <1>2, <1>7, Zenon
  <2>1. CASE on
    <3>1. p \notin t.feat /\ F = t.filt \cup {p} /\ x = dsa_user_manage_vlan_filtering(n, p, TRUE)
      <4>1. on = TRUE
        BY <2>1
      <4>2. p \notin t.filt
        BY <1>7, <2>1
      <4> QED
        BY <1>1, <1>f, <1>x, <4>1, <4>2
    <3>2. (x.ok => TurnedOn(n, x.s, p)) /\ (~x.ok => NotTurnedOn(n, x.s, p))
      BY <1>4, <3>1, ManageOn
    <3>3. \A v \in Uppers(p) : ~BridgeHas(v)
      BY <1>7, <2>1 DEF Denied
    <3>4. CASE x.ok
      <4>1. r = x
        BY <2>0, <3>4
      <4>2. /\ Good(x.s, h) /\ x.s.feat = t.feat \cup {p}
            /\ \A f, w : Matches(t, f, w) => Matches(x.s, f, w)
        BY <1>3, <3>1, <3>2, <3>4, OnIsGood
      <4> QED
        BY <1>2, <2>1, <3>3, <3>4, <4>1, <4>2 DEF Filtered
    <3>5. CASE ~x.ok
      <4>1. r.s = e /\ r.ok = FALSE
        BY <2>0, <3>5, ResultIs
      <4>2. NotTurnedOn(n, x.s, p) /\ Sound(x.s) /\ t.filt \in SUBSET VlanPorts
        BY <1>1, <3>2, <3>5, StateIs DEF NotTurnedOn
      <4>3. Filt(x.s, e, t.filt)
        BY <1>x, <4>2, FiltIs
      <4>4. /\ Good(e, h) /\ e.feat = t.feat
            /\ \A f, w : Matches(t, f, w) /\ f[p] \cap Uppers(p) = {} => Matches(e, f, w)
        BY <1>3, <3>1, <4>2, <4>3, FailedIsGood
      <4>5. \A f : Apart(f, p, on) => f[p] \cap Uppers(p) = {}
        BY <2>1, <3>3 DEF Apart
      <4>6. \A f, w : Matches(t, f, w) /\ Apart(f, p, on) => Matches(r.s, f, w)
        BY <4>1, <4>4, <4>5
      <4> QED
        BY <1>2, <2>1, <4>1, <4>4, <4>6 DEF Filtered
    <3> QED
      BY <3>4, <3>5
  <2>2. CASE ~on
    <3>1. p \in t.feat /\ F = t.filt \ {p} /\ x = dsa_user_manage_vlan_filtering(n, p, FALSE)
      <4>1. on = FALSE
        BY <2>2
      <4>2. p \in t.filt
        BY <1>7, <2>2
      <4> QED
        BY <1>1, <1>f, <1>x, <4>1, <4>2
    <3>2. \A v \in Uppers(p) : n.ref[v] > 0
      <4> SUFFICES ASSUME NEW v \in Uppers(p) PROVE n.ref[v] > 0
        OBVIOUS
      <4>1. v \in Vids
        <5>1. v \in Table
          BY <3>1 DEF Good
        <5> QED
          BY <5>1, DsaVlanAssumption
      <4> DEFINE F0 == t.feat \ {p}
      <4>2. F0 \in SUBSET VlanPorts /\ p \notin F0 /\ t.feat = F0 \cup {p}
        BY <1>1, <3>1, StateIs
      <4> HIDE DEF F0
      <4>3. /\ Cardinality(Wanting(F0, v)) \in Nat
            /\ Cardinality(Wanting(F0 \cup {p}, v)) = Cardinality(Wanting(F0, v)) + 1
        BY <4>2, WantingMore
      <4>4. t.ref[v] = Cardinality(Wanting(t.feat, v)) + h[v] /\ h[v] \in Nat
        BY <4>1 DEF Good
      <4> QED
        BY <1>4, <4>2, <4>3, <4>4
    <3>3. x.ok /\ TurnedOff(n, x.s, p)
      BY <1>4, <3>1, <3>2, ManageOff
    <3>4. r = x
      BY <2>0, <3>3
    <3>5. /\ Good(x.s, h) /\ x.s.feat = t.feat \ {p}
          /\ \A f, w : Matches(t, f, w) /\ f[p] \cap Uppers(p) = {} => Matches(x.s, f, w)
      BY <1>3, <3>1, <3>3, OffIsGood
    <3>6. \A f : Apart(f, p, on) => f[p] \cap Uppers(p) = {}
      BY <2>2 DEF Apart
    <3> QED
      BY <1>2, <2>2, <3>3, <3>4, <3>5, <3>6 DEF Filtered
  <2> QED
    BY <2>1, <2>2
<1> QED
  BY <1>5, <1>6, <1>7

(* Every port of the bridge in turn, until one refuses. *)
Toggled(t, r, S, h) ==
  /\ r \in Results /\ Good(r.s, h)
  /\ r.ok /\ ~aware => r.s.feat = t.feat \cup S /\ \A p \in S : \A v \in Uppers(p) : ~BridgeHas(v)
  /\ r.ok /\ aware => r.s.feat = t.feat \ S
  /\ \A f, w : Matches(t, f, w) /\ (\A p \in inBr : Apart(f, p, ~aware)) => Matches(r.s, f, w)

LEMMA ToggleStep ==
  ASSUME UppersOK, aware \in BOOLEAN, inBr \subseteq VlanPorts,
         NEW t, NEW h \in [Vids -> Nat], NEW S, NEW x, Toggled(t, x, S, h), x.ok,
         NEW p \in inBr, NEW r, r = dsa_port_vlan_filtering(x.s, p, ~aware)
  PROVE  Toggled(t, r, S \cup {p}, h)
<1> DEFINE on == ~aware
           u  == x.s
<1>1. p \in VlanPorts /\ on \in BOOLEAN /\ r = dsa_port_vlan_filtering(u, p, on) /\ Good(u, h)
  BY DEF Toggled
<1>2. on <=> ~aware
  OBVIOUS
<1>3. /\ aware => u.feat = t.feat \ S
      /\ ~aware => u.feat = t.feat \cup S /\ \A q \in S : \A v \in Uppers(q) : ~BridgeHas(v)
  BY DEF Toggled
<1>4. ASSUME NEW f, NEW w, Matches(t, f, w), \A q \in inBr : Apart(f, q, ~aware)
      PROVE  Matches(u, f, w) /\ Apart(f, p, on)
  BY <1>4 DEF Toggled
<1> HIDE DEF on, u
<1>5. /\ Filtered(u, r, p, on, h)
      /\ \A f, w : Matches(u, f, w) /\ Apart(f, p, on) => Matches(r.s, f, w)
  BY <1>1, FilteringIs
<1>6. r \in Results /\ Good(r.s, h)
  BY <1>5 DEF Filtered
<1>7. ASSUME r.ok, ~aware
      PROVE  r.s.feat = t.feat \cup (S \cup {p}) /\ \A q \in S \cup {p} : \A v \in Uppers(q) : ~BridgeHas(v)
  <2>1. r.s.feat = u.feat \cup {p} /\ \A v \in Uppers(p) : ~BridgeHas(v)
    BY <1>2, <1>5, <1>7 DEF Filtered
  <2> QED
    BY <1>3, <1>7, <2>1
<1>8. ASSUME r.ok, aware
      PROVE  r.s.feat = t.feat \ (S \cup {p})
  <2>1. r.s.feat = u.feat \ {p}
    BY <1>2, <1>5, <1>8 DEF Filtered
  <2> QED
    BY <1>3, <1>8, <2>1
<1>9. ASSUME NEW f, NEW w, Matches(t, f, w), \A q \in inBr : Apart(f, q, ~aware)
      PROVE  Matches(r.s, f, w)
  BY <1>4, <1>5, <1>9
<1> QED
  BY <1>6, <1>7, <1>8, <1>9 DEF Toggled

LEMMA ToggleIs ==
  ASSUME UppersOK, aware \in BOOLEAN, inBr \subseteq VlanPorts,
         NEW t, NEW h \in [Vids -> Nat], Good(t, h), NEW order, Orders(order, inBr)
  PROVE  Toggled(t, FilterAll(t, order), inBr, h)
<1> DEFINE len == Len(order)
<1>1. order \in Seq(VlanPorts) /\ order \in Seq(inBr) /\ IsInjective(order) /\ len \in Nat /\ t \in SwitchState
  <2>0. order \in Seq(inBr) /\ IsInjective(order)
    BY Zenon DEF Orders
  <2>1. order \in Seq(inBr) /\ IsInjective(order) /\ len \in Nat
    BY <2>0
  <2>2. t \in SwitchState
    BY DEF Good, Sound
  <2>3. order \in Seq(VlanPorts)
    BY <2>1
  <2> QED
    BY <2>1, <2>2, <2>3
<1>2. PICK run \in [0 .. len -> Results] :
         /\ run[0] = Ok(t)
         /\ \A k \in 1 .. len :
              run[k] = IF run[k - 1].ok THEN dsa_port_vlan_filtering(run[k - 1].s, order[k], ~aware)
                       ELSE run[k - 1]
         /\ run[len] = FilterAll(t, order)
  BY <1>1, FilterAllRuns
<1> DEFINE G == {n \in 0 .. len : Toggled(t, run[n], Leading(order, n), h)}
<1>3. 0 \in G
  <2>1. Leading(order, 0) = {}
    BY <1>1, FirstIs
  <2>2. run[0].s = t /\ run[0].ok = TRUE /\ run[0] \in Results
    BY <1>1, <1>2, ResultIs
  <2>3. Toggled(t, run[0], {}, h)
    BY <2>2 DEF Toggled
  <2> QED
    BY <1>1, <2>1, <2>3, SMTT(40)
<1>4. ASSUME NEW n \in 0 .. len - 1, n \in G
      PROVE  n + 1 \in G
  <2>1. Toggled(t, run[n], Leading(order, n), h)
    BY <1>4
  <2>2. n + 1 \in 1 .. len /\ n + 1 \in 0 .. len /\ (n + 1) - 1 = n
    BY <1>1
  <2>3. run[n + 1] = IF run[n].ok THEN dsa_port_vlan_filtering(run[n].s, order[n + 1], ~aware) ELSE run[n]
    BY <1>2, <2>2
  <2>4. Leading(order, n + 1) = Leading(order, n) \cup {order[n + 1]} /\ order[n + 1] \in inBr
    BY <1>1, FirstNext
  <2>5. CASE run[n].ok
    <3>1. run[n + 1] = dsa_port_vlan_filtering(run[n].s, order[n + 1], ~aware)
      BY <2>3, <2>5
    <3>2. Toggled(t, run[n + 1], Leading(order, n) \cup {order[n + 1]}, h)
      BY <2>1, <2>4, <2>5, <3>1, ToggleStep
    <3> QED
      BY <2>2, <2>4, <3>2
  <2>6. CASE ~run[n].ok
    <3>1. run[n + 1] = run[n]
      BY <2>3, <2>6
    <3>2. Toggled(t, run[n + 1], Leading(order, n + 1), h)
      BY <2>1, <2>6, <3>1 DEF Toggled
    <3> QED
      BY <2>2, <3>2
  <2> QED
    BY <2>5, <2>6
<1>5. len \in G
  <2> HIDE DEF G, len
  <2>1. \A n \in 0 .. len : n \in G
    BY <1>1, <1>3, <1>4, UpTo
  <2> QED
    BY <1>1, <2>1
<1>6. Leading(order, len) = inBr
  BY DEF Leading, Orders
<1> QED
  BY <1>2, <1>5, <1>6

LEMMA CountsGood ==
  ASSUME NEW t, NEW h \in [Vids -> Nat], Good(t, h), NEW u, NEW c, Counts(t, u, c),
         NEW h2 \in [Vids -> Nat], \A v \in Vids : c[v] + h[v] = t.ref[v] + h2[v]
  PROVE  Good(u, h2) /\ u.feat = t.feat /\ \A f, w : Matches(t, f, w) => Matches(u, f, w)
<1>1. /\ u.feat = t.feat /\ u.filt = t.filt /\ Sound(u) /\ u.oob = t.oob /\ u.ref = c
      /\ \A q \in VlanPorts, v \in Table : q \in u.mem[v] <=> q \in t.mem[v]
  BY DEF Counts, SamePorts
<1>2. ASSUME NEW v \in Vids
      PROVE  u.ref[v] = Cardinality(Wanting(u.feat, v)) + h2[v]
  <2>1. t.ref[v] = Cardinality(Wanting(t.feat, v)) + h[v]
    BY DEF Good
  <2>2. t.ref[v] \in Nat /\ u.ref[v] \in Nat /\ h[v] \in Nat /\ h2[v] \in Nat
    BY <1>1, StateIs DEF Good, Sound
  <2>3. Cardinality(Wanting(t.feat, v)) \in Nat
    <3>1. Wanting(t.feat, v) \subseteq VlanPorts
      BY StateIs DEF Wanting, Good, Sound
    <3> QED
      BY <3>1, DsaVlanAssumption, FS_Subset, FS_CardinalityType
  <2>4. u.ref[v] + h[v] = t.ref[v] + h2[v] /\ u.feat = t.feat
    BY <1>1
  <2> QED
    BY <2>1, <2>2, <2>3, <2>4
<1>3. Good(u, h2)
  BY <1>1, <1>2 DEF Good
<1>4. \A f, w : Matches(t, f, w) => Matches(u, f, w)
  BY <1>1 DEF Matches
<1> QED
  BY <1>1, <1>3, <1>4
-----------------------------------------------------------------------------
(***************************************************************************)
(* The invariant: the switch is as Good says with one reference of the     *)
(* bridge per port of it, only VLANs of the table are bridge VLANs, of the *)
(* bridge's ports alone, and as long as every change reached all ports the *)
(* ports that filter are those of an aware bridge.                         *)
(***************************************************************************)
Host == [v \in Vids |-> IF v \in bv THEN Cardinality(inBr) ELSE 0]

VlanInv ==
  /\ VlanTypeOK /\ uppers \in [VlanPorts -> Seq(Vids)]
  /\ Good(sw, Host)
  /\ \A p \in VlanPorts : pv[p] \subseteq Table /\ (p \notin inBr => pv[p] = {})
  /\ \A p, v : <<p, v>> \in wiped => v \in pv[p]
  /\ ~split => sw.feat = (IF aware THEN inBr ELSE {})
  /\ ~split => Matches(sw, pv, wiped)
  /\ NoSharedVid

LEMMA VlanHolds ==
  ASSUME VlanInv
  PROVE  HostRefsBalanced /\ TableMatches
<1>1. VlanTypeOK /\ Good(sw, Host) /\ Sound(sw)
  BY DEF VlanInv, Good
<1>2. ASSUME NEW v \in Vids
      PROVE  /\ sw.ref[v] = Cardinality({p \in sw.feat : v \in Uppers(p)})
                            + (IF v \in bv THEN Cardinality(inBr) ELSE 0)
             /\ v \in Table => (Cpu \in sw.mem[v] <=> sw.ref[v] > 0)
             /\ sw.cond[v] >= sw.ref[v]
  BY <1>1 DEF Good, Sound, Wanting, Host
<1>3. HostRefsBalanced
  BY <1>1, <1>2 DEF HostRefsBalanced
<1>4. TableMatches
  BY <1>1 DEF TableMatches, Good, Matches, VlanInv
<1> QED
  BY <1>3, <1>4

LEMMA VlanStarts ==
  ASSUME VlanInit
  PROVE  VlanInv
<1> DEFINE m == [v \in Table |-> {}]
           c == [v \in Vids |-> 0]
<1>0. m \in [Table -> SUBSET (VlanPorts \cup {Cpu})] /\ c \in [Vids -> Nat]
      /\ (\A v \in Table : m[v] = {}) /\ (\A v \in Vids : c[v] = 0)
  OBVIOUS
<1>s. sw = [mem |-> m, ref |-> c, cond |-> c, filt |-> {}, feat |-> {}, oob |-> "never"]
  BY DEF VlanInit
<1>i. /\ uppers = [p \in VlanPorts |-> << >>] /\ inBr = {} /\ aware = FALSE
      /\ pv = [p \in VlanPorts |-> {}] /\ bv = {}
      /\ renotified = 0 /\ split = FALSE /\ wiped = {}
  BY DEF VlanInit
<1> HIDE DEF m, c
<1>1. sw \in SwitchState
  <2>1. {} \in SUBSET VlanPorts /\ "never" \in {"never", "undo", "other"}
    OBVIOUS
  <2> QED
    BY <1>0, <1>s, <2>1, StateOf, Zenon
<1>2. sw.mem = m /\ sw.ref = c /\ sw.cond = c /\ sw.filt = {} /\ sw.feat = {} /\ sw.oob = "never"
  BY <1>s
<1>3. Table \subseteq Vids
  BY DsaVlanAssumption
<1>4. Sound(sw)
  BY <1>0, <1>1, <1>2, <1>3 DEF Sound
<1>5. \A p \in VlanPorts : uppers[p] = << >>
  BY <1>i
<1>6. \A p \in VlanPorts : uppers[p] \in Seq(Vids) /\ IsInjective(uppers[p]) /\ Uppers(p) = {}
  <2>1. << >> \in Seq(Vids) /\ DOMAIN << >> = {}
    OBVIOUS
  <2> QED
    BY <1>5, <2>1 DEF IsInjective, Uppers, ToSet
<1>7. Good(sw, Host)
  <2>1. \A v \in Vids : Wanting({}, v) = {} /\ Host[v] = 0
    BY <1>i DEF Wanting, Host
  <2>2. Cardinality({}) = 0
    BY FS_EmptySet
  <2>3. \A v \in Vids : sw.ref[v] = Cardinality(Wanting(sw.feat, v)) + Host[v]
    <3> SUFFICES ASSUME NEW v \in Vids PROVE sw.ref[v] = Cardinality(Wanting(sw.feat, v)) + Host[v]
      OBVIOUS
    <3>1. sw.ref[v] = 0
      BY <1>0, <1>2
    <3>2. Cardinality(Wanting(sw.feat, v)) = 0
      BY <1>2, <2>1, <2>2
    <3> QED
      BY <2>1, <3>1, <3>2
  <2> QED
    BY <1>2, <1>4, <2>3 DEF Good
<1>8. VlanTypeOK
  <2>1. MaxRenotify \in Nat
    BY DsaVlanAssumption
  <2>2. pv \in [VlanPorts -> SUBSET Vids] /\ renotified \in 0 .. MaxRenotify
    BY <1>i, <2>1
  <2> QED
    BY <1>1, <1>6, <1>i, <2>2 DEF VlanTypeOK
<1>9. Matches(sw, pv, wiped)
  BY <1>0, <1>2, <1>i DEF Matches
<1>10. uppers \in [VlanPorts -> Seq(Vids)]
  BY <1>i
<1>11. NoSharedVid
  BY <1>i DEF NoSharedVid
<1> QED
  BY <1>2, <1>i, <1>7, <1>8, <1>9, <1>10, <1>11 DEF VlanInv

(* What a step may use. *)
LEMMA InvFacts ==
  ASSUME VlanInv
  PROVE  /\ UppersOK /\ Host \in [Vids -> Nat] /\ Good(sw, Host) /\ Sound(sw) /\ sw \in SwitchState
         /\ sw.ref \in [Vids -> Nat] /\ sw.feat \in SUBSET VlanPorts
         /\ inBr \subseteq VlanPorts /\ IsFiniteSet(inBr) /\ Cardinality(inBr) \in Nat
         /\ bv \subseteq Table /\ bv \subseteq Vids /\ aware \in BOOLEAN /\ split \in BOOLEAN
         /\ pv \in [VlanPorts -> SUBSET Vids] /\ wiped \subseteq VlanPorts \X Vids
         /\ renotified \in 0 .. MaxRenotify /\ Table \subseteq Vids /\ MaxRenotify \in Nat
<1>1. VlanTypeOK /\ Good(sw, Host) /\ Table \subseteq Vids /\ MaxRenotify \in Nat
  BY DsaVlanAssumption DEF VlanInv
<1>2. UppersOK
  BY <1>1 DEF VlanTypeOK, UppersOK
<1>3. inBr \subseteq VlanPorts /\ bv \subseteq Table
  BY <1>1 DEF VlanTypeOK
<1>4. IsFiniteSet(inBr) /\ Cardinality(inBr) \in Nat
  BY <1>3, DsaVlanAssumption, FS_Subset, FS_CardinalityType
<1>5. Host \in [Vids -> Nat]
  BY <1>4 DEF Host
<1>6. Sound(sw) /\ sw \in SwitchState
  BY <1>1 DEF Good, Sound
<1>7. sw.ref \in [Vids -> Nat] /\ sw.feat \in SUBSET VlanPorts
  BY <1>6, StateIs
<1> QED
  BY <1>1, <1>2, <1>3, <1>4, <1>5, <1>6, <1>7 DEF VlanTypeOK

(* A step that leaves the uppers alone, in terms of what it makes of the rest. *)
LEMMA Rebuilt ==
  ASSUME VlanInv, uppers' = uppers,
         aware' \in BOOLEAN, split' \in BOOLEAN, renotified' \in 0 .. MaxRenotify,
         inBr' \subseteq VlanPorts, bv' \subseteq Table, pv' \in [VlanPorts -> SUBSET Vids],
         wiped' \subseteq VlanPorts \X Vids,
         Good(sw', Host'),
         \A p \in VlanPorts : pv'[p] \subseteq Table /\ (p \notin inBr' => pv'[p] = {}),
         \A p, v : <<p, v>> \in wiped' => v \in pv'[p],
         ~split' => sw'.feat = (IF aware' THEN inBr' ELSE {}),
         ~split' => Matches(sw', pv', wiped'),
         aware' => \A p \in inBr' : Uppers(p) \cap pv'[p] = {}
  PROVE  VlanInv'
<1>1. \A q : Uppers(q)' = Uppers(q)
  BY DEF Uppers
<1>2. \A F, v : Wanting(F, v)' = Wanting(F, v)
  BY <1>1 DEF Wanting
<1>3. Good(sw, Host)'
  <2>1. Sound(sw)' /\ sw'.filt = sw'.feat /\ sw'.oob # "other"
    BY DEF Good, Sound
  <2>2. \A q \in sw'.feat : Uppers(q)' \subseteq Table
    BY <1>1 DEF Good
  <2>3. \A v \in Vids : sw'.ref[v] = Cardinality(Wanting(sw.feat, v)') + Host'[v]
    BY <1>1 DEF Good, Wanting
  <2> QED
    BY <2>1, <2>2, <2>3 DEF Good
<1>4. ~split' => Matches(sw, pv, wiped)'
  BY <1>1 DEF Matches
<1>5. NoSharedVid'
  BY <1>1 DEF NoSharedVid
<1>6. sw' \in SwitchState
  BY DEF Good, Sound
<1>7. VlanTypeOK'
  BY <1>6 DEF VlanTypeOK, VlanInv
<1>8. uppers' \in [VlanPorts -> Seq(Vids)]
  BY DEF VlanInv
<1> QED
  BY <1>3, <1>4, <1>5, <1>7, <1>8 DEF VlanInv

LEMMA HostAddStep ==
  ASSUME VlanInv, NEW v \in Table, dsa_user_host_vlan_add(v)
  PROVE  VlanInv'
<1>0. /\ (v \in bv => renotified < MaxRenotify)
      /\ sw' = HostAddAll(sw, v, v \in bv).s
      /\ bv' = bv \cup {v}
      /\ renotified' = IF v \in bv THEN renotified + 1 ELSE renotified
      /\ uppers' = uppers /\ inBr' = inBr /\ aware' = aware /\ pv' = pv /\ split' = split /\ wiped' = wiped
  BY DEF dsa_user_host_vlan_add
<1>1. /\ UppersOK /\ Host \in [Vids -> Nat] /\ Good(sw, Host) /\ Sound(sw) /\ v \in Vids
      /\ sw.ref \in [Vids -> Nat] /\ Cardinality(inBr) \in Nat /\ inBr \subseteq VlanPorts
      /\ bv \subseteq Table /\ renotified \in 0 .. MaxRenotify /\ MaxRenotify \in Nat
  BY InvFacts
<1>2. Host' \in [Vids -> Nat] /\ Host' = [w \in Vids |-> IF w \in bv \cup {v} THEN Cardinality(inBr) ELSE 0]
  BY <1>0, <1>1 DEF Host
<1>3. Good(sw', Host') /\ sw'.feat = sw.feat /\ \A f, w : Matches(sw, f, w) => Matches(sw', f, w)
  <2>1. CASE v \in bv
    <3>1. sw' = HostAddAll(sw, v, TRUE).s
      <4>1. (v \in bv) = TRUE
        BY <2>1
      <4> QED
        BY <1>0, <4>1
    <3>2. Counts(sw, sw', sw.ref)
      BY <1>1, <3>1, HostChangedAllIs
    <3>3. \A w \in Vids : sw.ref[w] + Host[w] = sw.ref[w] + Host'[w]
      BY <1>2, <2>1 DEF Host
    <3> QED
      BY <1>1, <1>2, <3>2, <3>3, CountsGood
  <2>2. CASE v \notin bv
    <3> DEFINE c == [sw.ref EXCEPT ![v] = @ + Cardinality(inBr)]
    <3>1. sw' = HostAddAll(sw, v, FALSE).s
      <4>1. (v \in bv) = FALSE
        BY <2>2
      <4> QED
        BY <1>0, <4>1
    <3>2. Counts(sw, sw', c)
      BY <1>1, <3>1, HostAddAllIs
    <3>3. \A w \in Vids : c[w] + Host[w] = sw.ref[w] + Host'[w]
      BY <1>1, <1>2, <2>2 DEF Host
    <3> HIDE DEF c
    <3> QED
      BY <1>1, <1>2, <3>2, <3>3, CountsGood
  <2> QED
    BY <2>1, <2>2
<1>4. bv' \subseteq Table /\ renotified' \in 0 .. MaxRenotify
  BY <1>0, <1>1
<1> QED
  BY <1>0, <1>1, <1>3, <1>4, InvFacts, Rebuilt DEF VlanInv, NoSharedVid

LEMMA HostDelStep ==
  ASSUME VlanInv, NEW v \in Table, dsa_user_host_vlan_del(v)
  PROVE  VlanInv'
<1>0. /\ v \in bv
      /\ sw' = HostDelAll(sw, v).s
      /\ bv' = bv \ {v}
      /\ uppers' = uppers /\ inBr' = inBr /\ aware' = aware /\ pv' = pv /\ split' = split /\ wiped' = wiped
      /\ renotified' = renotified
  BY DEF dsa_user_host_vlan_del
<1>1. /\ UppersOK /\ Host \in [Vids -> Nat] /\ Good(sw, Host) /\ Sound(sw) /\ v \in Vids
      /\ sw.ref \in [Vids -> Nat] /\ Cardinality(inBr) \in Nat /\ inBr \subseteq VlanPorts
      /\ bv \subseteq Table /\ sw.feat \in SUBSET VlanPorts
  BY InvFacts
<1>2. Host' \in [Vids -> Nat] /\ Host' = [w \in Vids |-> IF w \in bv \ {v} THEN Cardinality(inBr) ELSE 0]
  BY <1>0, <1>1 DEF Host
<1>3. sw.ref[v] >= Cardinality(inBr)
  <2>1. Host[v] = Cardinality(inBr)
    BY <1>0, <1>1 DEF Host
  <2>2. sw.ref[v] = Cardinality(Wanting(sw.feat, v)) + Host[v]
    BY <1>1 DEF Good
  <2>3. Cardinality(Wanting(sw.feat, v)) \in Nat
    <3>1. Wanting(sw.feat, v) \subseteq VlanPorts
      BY <1>1 DEF Wanting
    <3> QED
      BY <3>1, DsaVlanAssumption, FS_Subset, FS_CardinalityType
  <2> QED
    BY <1>1, <2>1, <2>2, <2>3
<1>4. Good(sw', Host') /\ sw'.feat = sw.feat /\ \A f, w : Matches(sw, f, w) => Matches(sw', f, w)
  <2> DEFINE c == [sw.ref EXCEPT ![v] = @ - Cardinality(inBr)]
  <2>1. Counts(sw, sw', c)
    BY <1>0, <1>1, <1>3, HostDelAllIs
  <2>2. \A w \in Vids : c[w] + Host[w] = sw.ref[w] + Host'[w]
    BY <1>0, <1>1, <1>2, <1>3 DEF Host
  <2> HIDE DEF c
  <2> QED
    BY <1>1, <1>2, <2>1, <2>2, CountsGood
<1>5. bv' \subseteq Table
  BY <1>0, <1>1
<1> QED
  BY <1>0, <1>1, <1>4, <1>5, InvFacts, Rebuilt DEF VlanInv, NoSharedVid

LEMMA ToggleKeeps ==
  ASSUME VlanInv, NEW order \in SetToSeqs(inBr), Toggle(order)
  PROVE  VlanInv'
<1> DEFINE r == FilterAll(sw, order)
<1>0. /\ sw' = r.s /\ aware' = (IF r.ok THEN ~aware ELSE aware)
      /\ split' = (split \/ (~r.ok /\ r.s.filt # sw.filt))
      /\ uppers' = uppers /\ inBr' = inBr /\ pv' = pv /\ bv' = bv /\ renotified' = renotified /\ wiped' = wiped
  BY DEF Toggle
<1>1. /\ UppersOK /\ Host \in [Vids -> Nat] /\ Good(sw, Host) /\ inBr \subseteq VlanPorts /\ IsFiniteSet(inBr)
      /\ aware \in BOOLEAN /\ split \in BOOLEAN
  BY InvFacts
<1>2. Orders(order, inBr)
  BY <1>1, SetSeqs
<1>3. Toggled(sw, r, inBr, Host)
  BY <1>1, <1>2, ToggleIs
<1> HIDE DEF r
<1>4. Host' = Host
  BY <1>0 DEF Host
<1>5. Good(sw', Host') /\ sw'.filt = sw'.feat /\ sw.filt = sw.feat
  BY <1>0, <1>1, <1>3, <1>4 DEF Toggled, Good
<1>6. aware' \in BOOLEAN /\ split' \in BOOLEAN
  <2>1. r.ok \in BOOLEAN
    BY <1>3 DEF Toggled, Results
  <2> QED
    BY <1>0, <1>1, <2>1
<1>7. \A p \in inBr : Apart(pv, p, ~aware)
  <2> SUFFICES ASSUME NEW p \in inBr PROVE Apart(pv, p, ~aware)
    OBVIOUS
  <2>1. \A v \in pv[p] : BridgeHas(v)
    BY DEF BridgeHas
  <2>2. aware => pv[p] \cap Uppers(p) = {}
    BY DEF VlanInv, NoSharedVid
  <2> QED
    BY <2>1, <2>2 DEF Apart
<1>8. ~split' => Matches(sw', pv', wiped')
  <2> SUFFICES ASSUME ~split' PROVE Matches(r.s, pv, wiped)
    BY <1>0
  <2>1. ~split
    BY <1>0
  <2> QED
    BY <1>3, <1>7, <2>1 DEF Toggled, VlanInv
<1>9. ~split' => sw'.feat = (IF aware' THEN inBr' ELSE {})
  <2> SUFFICES ASSUME ~split' PROVE r.s.feat = (IF aware' THEN inBr ELSE {})
    BY <1>0
  <2>1. ~split /\ sw.feat = (IF aware THEN inBr ELSE {})
    BY <1>0 DEF VlanInv
  <2>2. CASE ~r.ok
    BY <1>0, <1>5, <2>1, <2>2
  <2>3. CASE r.ok
    <3>1. aware' = ~aware
      BY <1>0, <2>3
    <3>2. CASE aware
      BY <1>3, <2>1, <2>3, <3>1, <3>2 DEF Toggled
    <3>3. CASE ~aware
      BY <1>3, <2>1, <2>3, <3>1, <3>3 DEF Toggled
    <3> QED
      BY <3>2, <3>3
  <2> QED
    BY <2>2, <2>3
<1>10. aware' => \A p \in inBr' : Uppers(p) \cap pv'[p] = {}
  <2> SUFFICES ASSUME aware', NEW p \in inBr PROVE Uppers(p) \cap pv[p] = {}
    BY <1>0
  <2>1. CASE ~r.ok
    BY <1>0, <2>1 DEF VlanInv, NoSharedVid
  <2>2. CASE r.ok
    <3>1. ~aware
      BY <1>0, <2>2
    <3>2. \A v \in Uppers(p) : ~BridgeHas(v)
      BY <1>3, <2>2, <3>1 DEF Toggled
    <3> QED
      BY <3>2 DEF BridgeHas
  <2> QED
    BY <2>1, <2>2
<1> QED
  BY <1>0, <1>5, <1>6, <1>8, <1>9, <1>10, InvFacts, Rebuilt DEF VlanInv

LEMMA JoinStep ==
  ASSUME VlanInv, NEW p \in VlanPorts, Join(p)
  PROVE  VlanInv'
<1> DEFINE t == Replay(sw).s
           r == dsa_port_vlan_filtering(t, p, aware)
           h == RefUp(Host, bv)
<1>0. /\ p \notin inBr
      /\ sw' = (IF r.ok THEN r.s ELSE Unreplay(r.s).s)
      /\ inBr' = (IF r.ok THEN inBr \cup {p} ELSE inBr)
      /\ uppers' = uppers /\ aware' = aware /\ pv' = pv /\ bv' = bv /\ renotified' = renotified
      /\ split' = split /\ wiped' = wiped
  BY DEF Join
<1>1. /\ UppersOK /\ Host \in [Vids -> Nat] /\ Good(sw, Host) /\ Sound(sw) /\ inBr \subseteq VlanPorts
      /\ sw.ref \in [Vids -> Nat] /\ IsFiniteSet(inBr) /\ Cardinality(inBr) \in Nat
      /\ bv \subseteq Table /\ bv \subseteq Vids /\ aware \in BOOLEAN
  BY InvFacts
<1>2. h \in [Vids -> Nat] /\ \A v \in Vids : h[v] = IF v \in bv THEN Host[v] + 1 ELSE Host[v]
  BY <1>1 DEF RefUp
<1>3. Good(t, h) /\ t.feat = sw.feat /\ \A f, w : Matches(sw, f, w) => Matches(t, f, w)
  <2> DEFINE c == RefUp(sw.ref, bv)
  <2>1. Counts(sw, t, c)
    BY <1>1, ReplayIs
  <2>2. \A v \in Vids : c[v] + Host[v] = sw.ref[v] + h[v]
    BY <1>1, <1>2 DEF RefUp
  <2> HIDE DEF c, h, t
  <2> QED
    BY <1>1, <1>2, <2>1, <2>2, CountsGood
<1> HIDE DEF h, t
<1>4. /\ Filtered(t, r, p, aware, h)
      /\ \A f, w : Matches(t, f, w) /\ Apart(f, p, aware) => Matches(r.s, f, w)
  BY <1>1, <1>2, <1>3, FilteringIs
<1> HIDE DEF r
<1>5. Apart(pv, p, aware) /\ pv[p] = {}
  <2>1. pv[p] = {}
    BY <1>0 DEF VlanInv
  <2> QED
    BY <2>1 DEF Apart
<1>6. CASE r.ok
  <2>1. sw' = r.s /\ inBr' = inBr \cup {p}
    BY <1>0, <1>6
  <2>2. Host' = h
    <3>1. Cardinality(inBr \cup {p}) = Cardinality(inBr) + 1
      BY <1>0, <1>1, FS_AddElement
    <3>2. Host' = [v \in Vids |-> IF v \in bv THEN Cardinality(inBr \cup {p}) ELSE 0]
      BY <1>0, <2>1 DEF Host
    <3> QED
      BY <1>1, <3>1, <3>2 DEF Host, RefUp, h
  <2>3. Good(sw', Host')
    BY <1>4, <2>1, <2>2 DEF Filtered
  <2>4. ~split' => sw'.feat = (IF aware' THEN inBr' ELSE {})
    <3> SUFFICES ASSUME ~split PROVE r.s.feat = (IF aware THEN inBr \cup {p} ELSE {})
      BY <1>0, <2>1
    <3>1. sw.feat = (IF aware THEN inBr ELSE {})
      BY DEF VlanInv
    <3>2. (aware => r.s.feat = t.feat \cup {p}) /\ (~aware => r.s.feat = t.feat \ {p})
      BY <1>4, <1>6 DEF Filtered
    <3> QED
      BY <1>3, <3>1, <3>2
  <2>5. ~split' => Matches(sw', pv', wiped')
    BY <1>0, <1>3, <1>4, <1>5, <2>1 DEF VlanInv
  <2>6. aware' => \A q \in inBr' : Uppers(q) \cap pv'[q] = {}
    BY <1>0, <1>5, <2>1 DEF VlanInv, NoSharedVid
  <2>7. inBr' \subseteq VlanPorts
    BY <1>1, <2>1
  <2>8. \A q \in VlanPorts : pv'[q] \subseteq Table /\ (q \notin inBr' => pv'[q] = {})
    BY <1>0, <2>1 DEF VlanInv
  <2> QED
    BY <1>0, <2>3, <2>4, <2>5, <2>6, <2>7, <2>8, InvFacts, Rebuilt DEF VlanInv
<1>7. CASE ~r.ok
  <2> DEFINE u == Unreplay(r.s).s
             c == RefDown(r.s.ref, bv)
  <2>1. sw' = u /\ inBr' = inBr /\ Host' = Host
    BY <1>0, <1>7 DEF Host
  <2>2. Good(r.s, h) /\ Sound(r.s) /\ r.s.feat = t.feat
    BY <1>4, <1>7 DEF Filtered, Good
  <2>3. r.s.ref \in [Vids -> Nat]
    BY <2>2, StateIs DEF Sound
  <2>4. \A v \in bv : r.s.ref[v] > 0
    <3> SUFFICES ASSUME NEW v \in bv PROVE r.s.ref[v] > 0
      OBVIOUS
    <3>1. v \in Vids /\ h[v] > 0 /\ h[v] \in Nat
      BY <1>1, <1>2
    <3>2. r.s.ref[v] = Cardinality(Wanting(r.s.feat, v)) + h[v]
      BY <2>2, <3>1 DEF Good
    <3>3. Cardinality(Wanting(r.s.feat, v)) \in Nat
      <4>1. Wanting(r.s.feat, v) \subseteq VlanPorts
        BY <2>2, StateIs DEF Wanting, Sound
      <4> QED
        BY <4>1, DsaVlanAssumption, FS_Subset, FS_CardinalityType
    <3> QED
      BY <3>1, <3>2, <3>3
  <2>5. Counts(r.s, u, c)
    BY <1>1, <2>2, <2>4, UnreplayIs
  <2>6. \A v \in Vids : c[v] + h[v] = r.s.ref[v] + Host[v]
    BY <1>1, <1>2, <2>3 DEF RefDown
  <2> HIDE DEF u, c
  <2>7. Good(u, Host) /\ u.feat = r.s.feat /\ \A f, w : Matches(r.s, f, w) => Matches(u, f, w)
    BY <1>1, <1>2, <2>2, <2>5, <2>6, CountsGood
  <2>8. ~split' => Matches(sw', pv', wiped')
    BY <1>0, <1>3, <1>4, <1>5, <2>1, <2>7 DEF VlanInv
  <2>9. Good(sw', Host') /\ sw'.feat = sw.feat
    BY <1>3, <2>1, <2>2, <2>7
  <2> QED
    BY <1>0, <2>1, <2>8, <2>9, InvFacts, Rebuilt DEF VlanInv, NoSharedVid
<1> QED
  BY <1>6, <1>7

LEMMA LeaveStep ==
  ASSUME VlanInv, NEW p \in VlanPorts, Leave(p)
  PROVE  VlanInv'
<1> DEFINE s == Flush(sw, p).s
           t == Unreplay(s).s
           h == RefDown(Host, bv)
           f0 == [pv EXCEPT ![p] = {}]
           w0 == {x \in wiped : x[1] # p}
<1>0. /\ p \in inBr
      /\ sw' = dsa_port_reset_vlan_filtering(t, p)
      /\ inBr' = inBr \ {p} /\ pv' = f0 /\ wiped' = w0
      /\ uppers' = uppers /\ aware' = aware /\ bv' = bv /\ renotified' = renotified /\ split' = split
  BY DEF Leave
<1>1. /\ UppersOK /\ Host \in [Vids -> Nat] /\ Good(sw, Host) /\ Sound(sw) /\ inBr \subseteq VlanPorts
      /\ sw.ref \in [Vids -> Nat] /\ IsFiniteSet(inBr) /\ Cardinality(inBr) \in Nat
      /\ bv \subseteq Table /\ bv \subseteq Vids /\ aware \in BOOLEAN
      /\ sw.feat \in SUBSET VlanPorts /\ pv \in [VlanPorts -> SUBSET Vids] /\ wiped \subseteq VlanPorts \X Vids
  BY InvFacts
<1>2. Cardinality(inBr \ {p}) = Cardinality(inBr) - 1 /\ Cardinality(inBr) > 0 /\ Cardinality(inBr \ {p}) \in Nat
  <2>1. Cardinality(inBr \ {p}) = Cardinality(inBr) - 1 /\ IsFiniteSet(inBr \ {p})
    BY <1>0, <1>1, FS_RemoveElement
  <2>2. Cardinality(inBr \ {p}) \in Nat
    BY <2>1, FS_CardinalityType
  <2> QED
    BY <1>1, <2>1, <2>2
<1>3. /\ h = Host' /\ h \in [Vids -> Nat]
      /\ \A v \in Vids : h[v] = IF v \in bv THEN Host[v] - 1 ELSE Host[v]
  <2>1. Host' = [v \in Vids |-> IF v \in bv THEN Cardinality(inBr \ {p}) ELSE 0]
    BY <1>0 DEF Host
  <2> HIDE DEF h
  <2>2. h = [v \in Vids |-> IF v \in bv THEN Host[v] - 1 ELSE Host[v]]
    BY DEF h, RefDown
  <2>3. \A v \in Vids : Host[v] = IF v \in bv THEN Cardinality(inBr) ELSE 0
    BY DEF Host
  <2>4. h = Host'
    BY <1>2, <2>1, <2>2, <2>3
  <2>5. Host' \in [Vids -> Nat]
    BY <1>2, <2>1
  <2> QED
    BY <2>2, <2>4, <2>5
<1>4. Deleted(sw, s, sw.ref, p, pv[p], sw.oob)
  BY <1>1, FlushIs DEF VlanInv
<1> HIDE DEF s
<1>5. Sound(s) /\ s.ref = sw.ref /\ s.oob = sw.oob /\ s.feat = sw.feat /\ s.filt = sw.filt
  BY <1>4 DEF Deleted, Minus
<1>6. Good(s, Host)
  BY <1>1, <1>5 DEF Good
<1>7. \A v \in bv : s.ref[v] > 0
  <2> SUFFICES ASSUME NEW v \in bv PROVE sw.ref[v] > 0
    BY <1>5
  <2>1. v \in Vids /\ Host[v] = Cardinality(inBr)
    BY <1>1 DEF Host
  <2>2. sw.ref[v] = Cardinality(Wanting(sw.feat, v)) + Host[v]
    BY <1>1, <2>1 DEF Good
  <2>3. Cardinality(Wanting(sw.feat, v)) \in Nat
    <3>1. Wanting(sw.feat, v) \subseteq VlanPorts
      BY <1>1 DEF Wanting
    <3> QED
      BY <3>1, DsaVlanAssumption, FS_Subset, FS_CardinalityType
  <2> QED
    BY <1>1, <1>2, <2>1, <2>2, <2>3
<1>8. Good(t, h) /\ t.feat = s.feat /\ \A f, w : Matches(s, f, w) => Matches(t, f, w)
  <2> DEFINE c == RefDown(s.ref, bv)
  <2>1. Counts(s, t, c)
    BY <1>1, <1>5, <1>7, UnreplayIs
  <2>2. \A v \in Vids : c[v] + Host[v] = s.ref[v] + h[v]
    <3> HIDE DEF h, t
    <3>1. \A v \in Vids : c[v] = IF v \in bv THEN s.ref[v] - 1 ELSE s.ref[v]
      BY DEF RefDown
    <3>2. \A v \in Vids : s.ref[v] \in Nat /\ Host[v] \in Nat
      BY <1>1, <1>5
    <3> HIDE DEF c
    <3> QED
      BY <1>3, <3>1, <3>2
  <2> HIDE DEF c, h, t
  <2> QED
    BY <1>1, <1>3, <1>6, <2>1, <2>2, CountsGood
<1>9. ~split => Matches(s, f0, w0)
  <2> SUFFICES ASSUME ~split, NEW q \in VlanPorts, NEW v \in Table, <<q, v>> \notin w0
               PROVE  q \in s.mem[v] <=> v \in f0[q] \/ (q \in s.feat /\ v \in Uppers(q))
    BY DEF Matches
  <2>1. /\ Matches(sw, pv, wiped)
        /\ sw.feat = (IF aware THEN inBr ELSE {})
        /\ NoSharedVid /\ (<<q, v>> \in wiped => v \in pv[q])
    BY DEF VlanInv
  <2>2. q \in s.mem[v] <=> q \in sw.mem[v] /\ ~(q = p /\ v \in pv[p])
    BY <1>4 DEF Deleted, Minus
  <2>3. CASE q # p
    <3>1. <<q, v>> \notin wiped
      BY <2>3
    <3>2. f0[q] = pv[q]
      BY <1>1, <2>3
    <3> HIDE DEF f0
    <3> QED
      BY <1>5, <2>1, <2>2, <2>3, <3>1, <3>2 DEF Matches
  <2>4. CASE q = p
    <3>1. f0[q] = {}
      BY <1>1, <2>4
    <3> HIDE DEF f0
    <3>2. CASE v \in pv[p]
      <4>1. ~(q \in s.feat /\ v \in Uppers(q))
        BY <1>5, <2>1, <2>4, <3>2 DEF NoSharedVid
      <4> QED
        BY <2>2, <2>4, <3>1, <3>2, <4>1
    <3>3. CASE v \notin pv[p]
      <4>1. <<q, v>> \notin wiped
        BY <2>1, <2>4, <3>3
      <4> QED
        BY <1>5, <2>1, <2>2, <2>4, <3>1, <3>3, <4>1 DEF Matches
    <3> QED
      BY <3>2, <3>3
  <2> QED
    BY <2>3, <2>4
<1>f. f0 \in [VlanPorts -> SUBSET Vids] /\ f0[p] = {} /\ \A q \in VlanPorts : q # p => f0[q] = pv[q]
  BY <1>1
<1>w. /\ w0 \subseteq VlanPorts \X Vids
      /\ \A q, v : <<q, v>> \in w0 => <<q, v>> \in wiped /\ q # p /\ q \in VlanPorts
  BY <1>1
<1> HIDE DEF h, t, f0, w0
<1>10. Good(sw', h) /\ (aware => sw'.feat = t.feat \ {p}) /\ (~aware => sw'.feat = t.feat)
       /\ (Matches(t, f0, w0) => Matches(sw', f0, w0))
  <2>1. CASE aware
    <3> DEFINE r == dsa_port_vlan_filtering(t, p, FALSE)
    <3>1. sw' = r.s
      BY <1>0, <2>1 DEF dsa_port_reset_vlan_filtering
    <3>2. /\ Filtered(t, r, p, FALSE, h)
          /\ \A f, w : Matches(t, f, w) /\ Apart(f, p, FALSE) => Matches(r.s, f, w)
      BY <1>1, <1>3, <1>8, FilteringIs
    <3> HIDE DEF r
    <3>3. Apart(f0, p, FALSE)
      BY <1>f DEF Apart
    <3> QED
      BY <2>1, <3>1, <3>2, <3>3 DEF Filtered
  <2>2. CASE ~aware
    <3>1. sw' = t
      BY <1>0, <2>2 DEF dsa_port_reset_vlan_filtering
    <3> QED
      BY <1>8, <2>2, <3>1
  <2> QED
    BY <2>1, <2>2
<1>11. Good(sw', Host')
  BY <1>3, <1>10
<1>12. ~split' => sw'.feat = (IF aware' THEN inBr' ELSE {})
  <2>1. ~split => sw.feat = (IF aware THEN inBr ELSE {})
    BY DEF VlanInv
  <2> QED
    BY <1>0, <1>5, <1>8, <1>10, <2>1
<1>13. ~split' => Matches(sw', pv', wiped')
  BY <1>0, <1>8, <1>9, <1>10
<1>14. \A q \in VlanPorts : pv'[q] \subseteq Table /\ (q \notin inBr' => pv'[q] = {})
  BY <1>0, <1>f DEF VlanInv
<1>15. \A q, v : <<q, v>> \in wiped' => v \in pv'[q]
  BY <1>0, <1>f, <1>w DEF VlanInv
<1>16. aware' => \A q \in inBr' : Uppers(q) \cap pv'[q] = {}
  BY <1>0, <1>1, <1>f DEF VlanInv, NoSharedVid
<1>17. inBr' \subseteq VlanPorts /\ pv' \in [VlanPorts -> SUBSET Vids] /\ wiped' \subseteq VlanPorts \X Vids
  BY <1>0, <1>1, <1>f, <1>w
<1> QED
  BY <1>0, <1>11, <1>12, <1>13, <1>14, <1>15, <1>16, <1>17, InvFacts, Rebuilt

LEMMA VlanAddStep ==
  ASSUME VlanInv, NEW p \in VlanPorts, NEW v \in Vids, dsa_user_vlan_add(p, v)
  PROVE  VlanInv'
<1> DEFINE r == dsa_loop_port_vlan_add(sw, p, v)
           f0 == [pv EXCEPT ![p] = @ \cup {v}]
           w0 == wiped \ {<<p, v>>}
<1>0. /\ p \in inBr /\ ~(aware /\ v \in Uppers(p)) /\ r.ok /\ sw' = r.s
      /\ pv' = f0 /\ wiped' = w0
      /\ uppers' = uppers /\ inBr' = inBr /\ aware' = aware /\ bv' = bv /\ renotified' = renotified /\ split' = split
  BY DEF dsa_user_vlan_add
<1>1. /\ Good(sw, Host) /\ Sound(sw) /\ sw \in SwitchState /\ pv \in [VlanPorts -> SUBSET Vids]
      /\ wiped \subseteq VlanPorts \X Vids
  BY InvFacts
<1>2. v \in Table
  <2> SUFFICES ASSUME v \notin Table PROVE FALSE
    OBVIOUS
  <2>1. r = Err(sw)
    BY <1>1, PortAddIs
  <2> HIDE DEF r
  <2>2. r.ok = FALSE
    BY <2>1, ResultIs
  <2> QED
    BY <1>0, <2>2
<1>3. Sound(sw') /\ Plus(sw, sw', p, {v}) /\ sw'.oob = sw.oob /\ sw'.ref = sw.ref
  <2>1. Added(sw, r.s, sw.ref, p, {v})
    BY <1>1, <1>2, PortAddAdds
  <2> QED
    BY <1>0, <2>1 DEF Added
<1> HIDE DEF r
<1>4. sw'.feat = sw.feat /\ sw'.filt = sw.filt
      /\ \A q \in VlanPorts, x \in Table : q \in sw'.mem[x] <=> q \in sw.mem[x] \/ (q = p /\ x = v)
  BY <1>3 DEF Plus
<1>5. Host' = Host
  BY <1>0 DEF Host
<1>6. Good(sw', Host')
  BY <1>1, <1>3, <1>4, <1>5 DEF Good
<1>f. /\ f0 \in [VlanPorts -> SUBSET Vids]
      /\ \A q \in VlanPorts : \A x : x \in f0[q] <=> x \in pv[q] \/ (q = p /\ x = v)
  BY <1>1
<1>w. w0 \subseteq VlanPorts \X Vids /\ \A q, x : <<q, x>> \in w0 <=> <<q, x>> \in wiped /\ ~(q = p /\ x = v)
  BY <1>1
<1> HIDE DEF f0, w0
<1>7. ~split => Matches(sw', f0, w0)
  <2> SUFFICES ASSUME ~split, NEW q \in VlanPorts, NEW x \in Table, <<q, x>> \notin w0
               PROVE  q \in sw'.mem[x] <=> x \in f0[q] \/ (q \in sw'.feat /\ x \in Uppers(q))
    BY DEF Matches
  <2>1. Matches(sw, pv, wiped)
    BY DEF VlanInv
  <2>2. CASE q = p /\ x = v
    BY <1>4, <1>f, <2>2
  <2>3. CASE ~(q = p /\ x = v)
    <3>1. <<q, x>> \notin wiped
      BY <1>w, <2>3
    <3> QED
      BY <1>4, <1>f, <2>1, <2>3, <3>1 DEF Matches
  <2> QED
    BY <2>2, <2>3
<1>8. \A q \in VlanPorts : pv'[q] \subseteq Table /\ (q \notin inBr' => pv'[q] = {})
  BY <1>0, <1>2, <1>f DEF VlanInv
<1>9. \A q, x : <<q, x>> \in wiped' => x \in pv'[q]
  BY <1>0, <1>1, <1>f, <1>w DEF VlanInv
<1>10. aware' => \A q \in inBr' : Uppers(q) \cap pv'[q] = {}
  <2>1. inBr \subseteq VlanPorts
    BY InvFacts
  <2>2. aware => \A q \in inBr : Uppers(q) \cap pv[q] = {}
    BY DEF VlanInv, NoSharedVid
  <2> QED
    BY <1>0, <1>f, <2>1, <2>2
<1>11. ~split' => sw'.feat = (IF aware' THEN inBr' ELSE {})
  BY <1>0, <1>4 DEF VlanInv
<1>12. pv' \in [VlanPorts -> SUBSET Vids] /\ wiped' \subseteq VlanPorts \X Vids
  BY <1>0, <1>f, <1>w
<1>13. ~split' => Matches(sw', pv', wiped')
  BY <1>0, <1>7
<1> QED
  BY <1>0, <1>6, <1>8, <1>9, <1>10, <1>11, <1>12, <1>13, InvFacts, Rebuilt

LEMMA VlanDelStep ==
  ASSUME VlanInv, NEW p \in VlanPorts, NEW v \in Vids, dsa_user_vlan_del(p, v)
  PROVE  VlanInv'
<1> DEFINE o == "other"
           k == dsa_loop_port_vlan_del(sw, p, v, o)
           f0 == [pv EXCEPT ![p] = @ \ {v}]
           w0 == wiped \ {<<p, v>>}
<1>0. /\ p \in inBr /\ v \in pv[p] /\ sw' = k.s
      /\ pv' = f0 /\ wiped' = w0
      /\ uppers' = uppers /\ inBr' = inBr /\ aware' = aware /\ bv' = bv /\ renotified' = renotified /\ split' = split
  BY DEF dsa_user_vlan_del
<1>1. /\ Good(sw, Host) /\ Sound(sw) /\ sw \in SwitchState /\ pv \in [VlanPorts -> SUBSET Vids]
      /\ wiped \subseteq VlanPorts \X Vids /\ inBr \subseteq VlanPorts
  BY InvFacts
<1>2. v \in Table /\ o \in {"undo", "other"}
  BY <1>0 DEF VlanInv
<1> HIDE DEF o
<1>3. Deleted(sw, k.s, sw.ref, p, {v}, sw.oob)
  BY <1>1, <1>2, PortDelDeletes
<1> HIDE DEF k
<1>4. /\ Sound(sw') /\ sw'.oob = sw.oob /\ sw'.ref = sw.ref /\ sw'.feat = sw.feat /\ sw'.filt = sw.filt
      /\ \A q \in VlanPorts, x \in Table : q \in sw'.mem[x] <=> q \in sw.mem[x] /\ ~(q = p /\ x = v)
  BY <1>0, <1>3 DEF Deleted, Minus
<1>5. Host' = Host
  BY <1>0 DEF Host
<1>6. Good(sw', Host')
  BY <1>1, <1>4, <1>5 DEF Good
<1>f. /\ f0 \in [VlanPorts -> SUBSET Vids]
      /\ \A q \in VlanPorts : \A x : x \in f0[q] <=> x \in pv[q] /\ ~(q = p /\ x = v)
  BY <1>1
<1>w. w0 \subseteq VlanPorts \X Vids /\ \A q, x : <<q, x>> \in w0 <=> <<q, x>> \in wiped /\ ~(q = p /\ x = v)
  BY <1>1
<1> HIDE DEF f0, w0
<1>7. ~split => Matches(sw', f0, w0)
  <2> SUFFICES ASSUME ~split, NEW q \in VlanPorts, NEW x \in Table, <<q, x>> \notin w0
               PROVE  q \in sw'.mem[x] <=> x \in f0[q] \/ (q \in sw'.feat /\ x \in Uppers(q))
    BY DEF Matches
  <2>1. Matches(sw, pv, wiped) /\ sw.feat = (IF aware THEN inBr ELSE {}) /\ NoSharedVid
    BY DEF VlanInv
  <2>2. CASE q = p /\ x = v
    <3>1. ~(q \in sw.feat /\ x \in Uppers(q))
      BY <1>0, <2>1, <2>2 DEF NoSharedVid
    <3> QED
      BY <1>4, <1>f, <2>2, <3>1
  <2>3. CASE ~(q = p /\ x = v)
    <3>1. <<q, x>> \notin wiped
      BY <1>w, <2>3
    <3> QED
      BY <1>4, <1>f, <2>1, <2>3, <3>1 DEF Matches
  <2> QED
    BY <2>2, <2>3
<1>8. \A q \in VlanPorts : pv'[q] \subseteq Table /\ (q \notin inBr' => pv'[q] = {})
  BY <1>0, <1>2, <1>f DEF VlanInv
<1>9. \A q, x : <<q, x>> \in wiped' => x \in pv'[q]
  BY <1>0, <1>1, <1>f, <1>w DEF VlanInv
<1>10. aware' => \A q \in inBr' : Uppers(q) \cap pv'[q] = {}
  BY <1>0, <1>1, <1>f DEF VlanInv, NoSharedVid
<1>11. ~split' => sw'.feat = (IF aware' THEN inBr' ELSE {})
  BY <1>0, <1>4 DEF VlanInv
<1>12. pv' \in [VlanPorts -> SUBSET Vids] /\ wiped' \subseteq VlanPorts \X Vids
  BY <1>0, <1>f, <1>w
<1>13. ~split' => Matches(sw', pv', wiped')
  BY <1>0, <1>7
<1> QED
  BY <1>0, <1>6, <1>8, <1>9, <1>10, <1>11, <1>12, <1>13, InvFacts, Rebuilt

LEMMA AppendedIs ==
  ASSUME NEW E, NEW q \in Seq(E), IsInjective(q), NEW v \in E, v \notin ToSet(q)
  PROVE  /\ Append(q, v) \in Seq(E) /\ IsInjective(Append(q, v))
         /\ ToSet(Append(q, v)) = ToSet(q) \cup {v}
<1> DEFINE n == Len(q)
           a == Append(q, v)
<1>1. n \in Nat /\ DOMAIN q = 1 .. n
  BY LenProperties
<1>2. /\ a \in Seq(E) /\ DOMAIN a = 1 .. n + 1 /\ a[n + 1] = v
      /\ \A k \in 1 .. n : a[k] = q[k]
  BY AppendProperties
<1> HIDE DEF a
<1>3. \A k : k \in 1 .. n + 1 <=> k \in 1 .. n \/ k = n + 1
  BY <1>1
<1>4. n + 1 \notin 1 .. n
  BY <1>1
<1> HIDE DEF n
<1>5. \A k \in 1 .. n : q[k] # v
  BY <1>1 DEF ToSet
<1>6. \A k, m \in 1 .. n : q[k] = q[m] => k = m
  BY <1>1, Zenon DEF IsInjective
<1>7. \A k, m \in 1 .. n + 1 : a[k] = a[m] => k = m
  BY <1>2, <1>3, <1>5, <1>6
<1>8. IsInjective(a)
  BY <1>2, <1>7, Zenon DEF IsInjective
<1>9. ToSet(a) = ToSet(q) \cup {v}
  BY <1>1, <1>2, <1>3 DEF ToSet
<1> QED
  BY <1>2, <1>8, <1>9 DEF a

LEMMA RemovedIs ==
  ASSUME NEW E, NEW q \in Seq(E), IsInjective(q), NEW n \in DOMAIN q
  PROVE  /\ RemoveAt(q, n) \in Seq(E) /\ IsInjective(RemoveAt(q, n))
         /\ ToSet(RemoveAt(q, n)) = ToSet(q) \ {q[n]}
<1> DEFINE len == Len(q)
           a == SubSeq(q, 1, n - 1)
           b == SubSeq(q, n + 1, Len(q))
           c == a \o b
<1>1. len \in Nat /\ DOMAIN q = 1 .. len /\ n \in 1 .. len /\ \A k \in 1 .. len : q[k] \in E
  BY LenProperties, ElementOfSeq
<1>2. /\ a \in Seq(E) /\ Len(a) = n - 1
      /\ \A k \in 1 .. n - 1 : a[k] = q[k]
  <2>1. \A k \in 1 .. n - 1 : q[k] \in E
    BY <1>1
  <2>2. 1 \in Int /\ n - 1 \in Int
    BY <1>1
  <2>3. /\ a \in Seq(E)
        /\ Len(a) = IF 1 <= n - 1 THEN (n - 1) - 1 + 1 ELSE 0
        /\ \A k \in 1 .. (n - 1) - 1 + 1 : a[k] = q[1 + k - 1]
    BY <2>1, <2>2, SubSeqProperties
  <2> HIDE DEF a
  <2> QED
    BY <1>1, <2>3
<1>3. /\ b \in Seq(E) /\ Len(b) = len - n
      /\ \A k \in 1 .. len - n : b[k] = q[n + k]
  <2>1. \A k \in n + 1 .. len : q[k] \in E
    BY <1>1
  <2>2. n + 1 \in Int /\ len \in Int
    BY <1>1
  <2>3. /\ b \in Seq(E)
        /\ Len(b) = IF n + 1 <= len THEN len - (n + 1) + 1 ELSE 0
        /\ \A k \in 1 .. len - (n + 1) + 1 : b[k] = q[(n + 1) + k - 1]
    BY <2>1, <2>2, SubSeqProperties
  <2> HIDE DEF b
  <2>4. \A k \in 1 .. len - n : (n + 1) + k - 1 = n + k /\ k \in 1 .. len - (n + 1) + 1
    BY <1>1
  <2> QED
    BY <1>1, <2>3, <2>4
<1>r. RemoveAt(q, n) = c
  BY DEF RemoveAt
<1> HIDE DEF a, b
<1>4. /\ c \in Seq(E) /\ Len(c) = len - 1
      /\ \A k \in 1 .. len - 1 : c[k] = IF k <= n - 1 THEN q[k] ELSE q[k + 1]
  <2>1. /\ c \in Seq(E) /\ Len(c) = Len(a) + Len(b)
        /\ \A k \in 1 .. Len(a) + Len(b) : c[k] = IF k <= Len(a) THEN a[k] ELSE b[k - Len(a)]
    BY <1>2, <1>3, ConcatProperties
  <2> HIDE DEF c
  <2>2. Len(a) + Len(b) = len - 1
    BY <1>1, <1>2, <1>3
  <2>3. ASSUME NEW k \in 1 .. len - 1
        PROVE  c[k] = IF k <= n - 1 THEN q[k] ELSE q[k + 1]
    <3>1. CASE k <= n - 1
      BY <1>1, <1>2, <2>1, <2>2, <3>1
    <3>2. CASE ~(k <= n - 1)
      <4>1. k - (n - 1) \in 1 .. len - n /\ n + (k - (n - 1)) = k + 1
        BY <1>1, <3>2
      <4> QED
        BY <1>2, <1>3, <2>1, <2>2, <3>2, <4>1, SMTT(40)
    <3> QED
      BY <3>1, <3>2
  <2> QED
    BY <2>1, <2>2, <2>3
<1> HIDE DEF c
<1>5. DOMAIN c = 1 .. len - 1
  BY <1>4
<1>6. \A k, m \in 1 .. len : q[k] = q[m] => k = m
  BY <1>1, Zenon DEF IsInjective
<1> DEFINE At(k) == IF k <= n - 1 THEN k ELSE k + 1
<1>7. \A k \in 1 .. len - 1 : At(k) \in 1 .. len /\ At(k) # n /\ c[k] = q[At(k)]
  BY <1>1, <1>4
<1>8. \A k, m \in 1 .. len - 1 : At(k) = At(m) => k = m
  BY <1>1
<1>9. \A j0 \in 1 .. len : j0 # n => \E k \in 1 .. len - 1 : At(k) = j0
  <2> SUFFICES ASSUME NEW j0 \in 1 .. len, j0 # n PROVE \E k \in 1 .. len - 1 : At(k) = j0
    OBVIOUS
  <2>1. CASE j0 < n
    <3>1. j0 \in 1 .. len - 1 /\ At(j0) = j0
      BY <1>1, <2>1
    <3> QED
      BY <3>1
  <2>2. CASE ~(j0 < n)
    <3>1. j0 - 1 \in 1 .. len - 1 /\ At(j0 - 1) = j0
      BY <1>1, <2>2
    <3> QED
      BY <3>1
  <2> QED
    BY <2>1, <2>2
<1> HIDE DEF At
<1>10. \A k, m \in 1 .. len - 1 : c[k] = c[m] => k = m
  BY <1>6, <1>7, <1>8
<1>11. IsInjective(c)
  BY <1>5, <1>10, Zenon DEF IsInjective
<1>12. ToSet(c) = {c[k] : k \in 1 .. len - 1} /\ ToSet(q) = {q[k] : k \in 1 .. len}
  BY <1>1, <1>5, Zenon DEF ToSet
<1>13. \A x : x \in ToSet(c) <=> x \in ToSet(q) \ {q[n]}
  <2>1. ASSUME NEW x \in ToSet(c)
        PROVE  x \in ToSet(q) \ {q[n]}
    <3>1. PICK k \in 1 .. len - 1 : x = c[k]
      BY <1>12, <2>1
    <3> QED
      BY <1>1, <1>6, <1>7, <1>12, <3>1
  <2>2. ASSUME NEW x \in ToSet(q), x # q[n]
        PROVE  x \in ToSet(c)
    <3>1. PICK j0 \in 1 .. len : x = q[j0]
      BY <1>12, <2>2
    <3>2. PICK k \in 1 .. len - 1 : At(k) = j0
      BY <1>9, <2>2, <3>1
    <3> QED
      BY <1>7, <1>12, <3>1, <3>2
  <2> QED
    BY <2>1, <2>2
<1>14. ToSet(c) = ToSet(q) \ {q[n]}
  BY <1>13
<1> QED
  BY <1>r, <1>4, <1>11, <1>14

(* A step that makes U the uppers of p. *)
LEMMA NewUppers ==
  ASSUME VlanInv, NEW p \in VlanPorts, NEW U \in SUBSET Vids,
         inBr' = inBr, aware' = aware, pv' = pv, bv' = bv, renotified' = renotified,
         split' = split, wiped' = wiped,
         NEW sq \in Seq(Vids), IsInjective(sq), ToSet(sq) = U, uppers' = [uppers EXCEPT ![p] = sq],
         Sound(sw'), sw'.feat = sw.feat, sw'.filt = sw.filt, sw'.oob = sw.oob,
         p \in sw.feat => U \subseteq Table,
         \A x \in Vids : \A W :
            W = {q \in sw.feat : x \in (IF q = p THEN U ELSE Uppers(q))} =>
               sw'.ref[x] = Cardinality(W) + Host[x],
         ~split => \A q \in VlanPorts, x \in Table : <<q, x>> \notin wiped =>
            (q \in sw'.mem[x] <=> x \in pv[q] \/ (q \in sw.feat /\ x \in (IF q = p THEN U ELSE Uppers(q)))),
         aware /\ p \in inBr => U \cap pv[p] = {}
  PROVE  VlanInv'
<1>1. uppers \in [VlanPorts -> Seq(Vids)] /\ Good(sw, Host) /\ VlanTypeOK
  BY DEF VlanInv
<1>2. uppers' \in [VlanPorts -> Seq(Vids)] /\ \A q \in VlanPorts : uppers'[q] = IF q = p THEN sq ELSE uppers[q]
  BY <1>1
<1>3. \A q \in VlanPorts : Uppers(q)' = IF q = p THEN U ELSE Uppers(q)
  BY <1>2 DEF Uppers
<1>4. \A q \in VlanPorts : uppers'[q] \in Seq(Vids) /\ IsInjective(uppers'[q])
  BY <1>1, <1>2 DEF VlanTypeOK
<1>5. sw' \in SwitchState
  BY DEF Sound
<1>6. VlanTypeOK'
  BY <1>1, <1>4, <1>5 DEF VlanTypeOK
<1>7. sw.feat \in SUBSET VlanPorts /\ Host' = Host
  <2>1. sw.feat \in SUBSET VlanPorts
    BY InvFacts
  <2>2. Host' = Host
    BY DEF Host
  <2> QED
    BY <2>1, <2>2
<1>8. \A x \in Vids : sw'.ref[x] = Cardinality(Wanting(sw.feat, x)') + Host'[x]
  <2> SUFFICES ASSUME NEW x \in Vids PROVE sw'.ref[x] = Cardinality(Wanting(sw.feat, x)') + Host'[x]
    OBVIOUS
  <2> DEFINE W == {q \in sw.feat : x \in (IF q = p THEN U ELSE Uppers(q))}
  <2>1. sw'.ref[x] = Cardinality(W) + Host[x]
    OBVIOUS
  <2>2. Wanting(sw.feat, x)' = W
    BY <1>3, <1>7 DEF Wanting
  <2> HIDE DEF W
  <2> QED
    BY <1>7, <2>1, <2>2
<1>9. Good(sw, Host)'
  <2>1. \A q \in sw'.feat : Uppers(q)' \subseteq Table
    BY <1>1, <1>3, <1>7, SMTT(40) DEF Good
  <2>2. Sound(sw)'
    BY DEF Sound
  <2>3. sw'.filt = sw'.feat /\ sw'.oob # "other"
    BY <1>1 DEF Good
  <2> QED
    BY <1>8, <2>1, <2>2, <2>3 DEF Good
<1>10. ~split' => Matches(sw, pv, wiped)'
  BY <1>3 DEF Matches
<1>11. NoSharedVid'
  <2>1. inBr \subseteq VlanPorts
    BY InvFacts
  <2> QED
    BY <1>3, <2>1 DEF VlanInv, NoSharedVid
<1> QED
  BY <1>2, <1>6, <1>9, <1>10, <1>11 DEF VlanInv

LEMMA AddUpperStep ==
  ASSUME VlanInv, NEW p \in VlanPorts, NEW v \in Vids, AddUpper(p, v)
  PROVE  VlanInv'
<1> DEFINE a == dsa_user_vlan_rx_add_vid(sw, p, v)
           added == IF p \in sw.feat THEN a ELSE Ok(sw)
           o == "other"
           k == dsa_user_vlan_rx_kill_vid(added.s, p, v, o)
           killed == IF p \in sw.feat THEN k.s ELSE sw
           denies == p \in inBr /\ aware /\ BridgeHas(v)
           w0 == wiped \cup (IF v \in pv[p] THEN {<<p, v>>} ELSE {})
<1>0. /\ v \notin Uppers(p) /\ added.ok
      /\ inBr' = inBr /\ aware' = aware /\ pv' = pv /\ bv' = bv /\ renotified' = renotified /\ split' = split
      /\ \/ ~denies /\ sw' = added.s /\ uppers' = [uppers EXCEPT ![p] = Append(@, v)] /\ wiped' = wiped
         \/ denies /\ sw' = killed /\ wiped' = w0 /\ uppers' = uppers
  BY DEF AddUpper
<1>1. /\ Good(sw, Host) /\ Sound(sw) /\ sw \in SwitchState /\ sw.ref \in [Vids -> Nat] /\ sw.feat \in SUBSET VlanPorts
      /\ Host \in [Vids -> Nat] /\ wiped \subseteq VlanPorts \X Vids /\ UppersOK
  BY InvFacts
<1>2. sw.ref[v] = Cardinality(Wanting(sw.feat, v)) + Host[v] /\ sw.ref[v] \in Nat
  BY <1>1 DEF Good
<1>3. p \in sw.feat => v \in Table /\ Added(sw, a.s, [sw.ref EXCEPT ![v] = @ + 1], p, {v}) /\ added = a
  <2> SUFFICES ASSUME p \in sw.feat
               PROVE  v \in Table /\ Added(sw, a.s, [sw.ref EXCEPT ![v] = @ + 1], p, {v}) /\ added = a
    OBVIOUS
  <2>1. added = a
    OBVIOUS
  <2>2. /\ v \notin Table => a = Err(sw)
        /\ v \in Table => Added(sw, a.s, [sw.ref EXCEPT ![v] = @ + 1], p, {v})
    BY <1>1, RxAddIs
  <2>3. v \in Table
    <3>1. v \notin Table => a.ok = FALSE
      <4> HIDE DEF a
      <4> QED
        BY <2>2, ResultIs
    <3> HIDE DEF a
    <3> QED
      BY <1>0, <2>1, <3>1
  <2> QED
    BY <2>1, <2>2, <2>3
<1>4. p \notin sw.feat => added.s = sw /\ killed = sw
  BY ResultIs
<1>k. p \in sw.feat => killed = k.s
  OBVIOUS
<1>kk. k = dsa_user_vlan_rx_kill_vid(added.s, p, v, o) /\ o \in {"undo", "other"}
  OBVIOUS
<1> HIDE DEF a, added, k, killed, o
<1>5. CASE ~denies /\ sw' = added.s /\ uppers' = [uppers EXCEPT ![p] = Append(@, v)] /\ wiped' = wiped
  <2> DEFINE sq == Append(uppers[p], v)
             U == Uppers(p) \cup {v}
  <2>1. sq \in Seq(Vids) /\ IsInjective(sq) /\ ToSet(sq) = U
    BY <1>0, <1>1, AppendedIs DEF UppersOK, Uppers
  <2>2. uppers' = [uppers EXCEPT ![p] = sq]
    BY <1>5
  <2>3. U \in SUBSET Vids
    <3>1. Uppers(p) \subseteq Vids
      BY <1>1, FirstIs, SMTT(40) DEF UppersOK, Uppers
    <3> QED
      BY <3>1
  <2>4. aware /\ p \in inBr => U \cap pv[p] = {}
    <3> SUFFICES ASSUME aware, p \in inBr PROVE U \cap pv[p] = {}
      OBVIOUS
    <3>1. Uppers(p) \cap pv[p] = {}
      BY DEF VlanInv, NoSharedVid
    <3>2. v \notin pv[p]
      BY <1>5 DEF BridgeHas
    <3> QED
      BY <3>1, <3>2
  <2>5. CASE p \in sw.feat
    <3>1. Added(sw, sw', [sw.ref EXCEPT ![v] = @ + 1], p, {v}) /\ v \in Table
      BY <1>3, <1>5, <2>5
    <3>2. /\ Sound(sw') /\ sw'.feat = sw.feat /\ sw'.filt = sw.filt /\ sw'.oob = sw.oob
          /\ sw'.ref = [sw.ref EXCEPT ![v] = @ + 1]
          /\ \A q \in VlanPorts, x \in Table : q \in sw'.mem[x] <=> q \in sw.mem[x] \/ (q = p /\ x = v)
      BY <3>1 DEF Added, Plus
    <3>3. U \subseteq Table
      BY <1>1, <2>5, <3>1 DEF Good
    <3>4. ASSUME NEW x \in Vids, NEW W, W = {q \in sw.feat : x \in (IF q = p THEN U ELSE Uppers(q))}
          PROVE  sw'.ref[x] = Cardinality(W) + Host[x]
      <4>1. sw.ref[x] = Cardinality(Wanting(sw.feat, x)) + Host[x] /\ Host[x] \in Nat
        BY <1>1 DEF Good
      <4>2. Wanting(sw.feat, x) \subseteq VlanPorts
        BY <1>1 DEF Wanting
      <4>3. IsFiniteSet(Wanting(sw.feat, x)) /\ Cardinality(Wanting(sw.feat, x)) \in Nat
        BY <4>2, DsaVlanAssumption, FS_Subset, FS_CardinalityType
      <4>4. CASE x = v
        <5>1. W = Wanting(sw.feat, x) \cup {p} /\ p \notin Wanting(sw.feat, x)
          BY <1>0, <2>5, <3>4, <4>4 DEF Wanting
        <5>2. Cardinality(Wanting(sw.feat, x) \cup {p}) = Cardinality(Wanting(sw.feat, x)) + 1
          BY <4>3, <5>1, FS_AddElement
        <5>3. sw'.ref[x] = sw.ref[x] + 1
          BY <1>1, <3>2, <4>4
        <5> QED
          BY <4>1, <4>3, <5>1, <5>2, <5>3
      <4>5. CASE x # v
        <5>1. W = Wanting(sw.feat, x)
          BY <3>4, <4>5 DEF Wanting
        <5>2. sw'.ref[x] = sw.ref[x]
          BY <1>1, <3>2, <4>5
        <5> QED
          BY <4>1, <5>1, <5>2
      <4> QED
        BY <4>4, <4>5
    <3>5. ASSUME ~split, NEW q \in VlanPorts, NEW x \in Table, <<q, x>> \notin wiped
          PROVE  q \in sw'.mem[x] <=> x \in pv[q] \/ (q \in sw.feat /\ x \in (IF q = p THEN U ELSE Uppers(q)))
      <4>1. q \in sw.mem[x] <=> x \in pv[q] \/ (q \in sw.feat /\ x \in Uppers(q))
        BY <3>5 DEF VlanInv, Matches
      <4> QED
        BY <2>5, <3>2, <4>1
    <3>6. \A x \in Vids : \A W : W = {q \in sw.feat : x \in (IF q = p THEN U ELSE Uppers(q))} =>
             sw'.ref[x] = Cardinality(W) + Host[x]
      BY <3>4
    <3>7. ~split => \A q \in VlanPorts, x \in Table : <<q, x>> \notin wiped =>
            (q \in sw'.mem[x] <=> x \in pv[q] \/ (q \in sw.feat /\ x \in (IF q = p THEN U ELSE Uppers(q))))
      BY <3>5
    <3>8. Sound(sw') /\ sw'.feat = sw.feat /\ sw'.filt = sw.filt /\ sw'.oob = sw.oob
      BY <3>2
    <3>9. /\ inBr' = inBr /\ aware' = aware /\ pv' = pv /\ bv' = bv /\ renotified' = renotified
          /\ split' = split /\ wiped' = wiped
      BY <1>0, <1>5
    <3> HIDE DEF U, sq
    <3> QED
      BY <2>1, <2>2, <2>3, <2>4, <3>3, <3>6, <3>7, <3>8, <3>9, NewUppers
  <2>6. CASE p \notin sw.feat
    <3>1. sw' = sw
      BY <1>4, <1>5, <2>6
    <3>2. ASSUME NEW x \in Vids, NEW W, W = {q \in sw.feat : x \in (IF q = p THEN U ELSE Uppers(q))}
          PROVE  sw'.ref[x] = Cardinality(W) + Host[x]
      <4>1. W = Wanting(sw.feat, x)
        BY <2>6, <3>2 DEF Wanting
      <4> QED
        BY <1>1, <3>1, <4>1 DEF Good
    <3>3. ASSUME ~split, NEW q \in VlanPorts, NEW x \in Table, <<q, x>> \notin wiped
          PROVE  q \in sw'.mem[x] <=> x \in pv[q] \/ (q \in sw.feat /\ x \in (IF q = p THEN U ELSE Uppers(q)))
      <4>1. q \in sw.mem[x] <=> x \in pv[q] \/ (q \in sw.feat /\ x \in Uppers(q))
        BY <3>3 DEF VlanInv, Matches
      <4> QED
        BY <2>6, <3>1, <4>1
    <3>4. Sound(sw')
      BY <1>1, <3>1
    <3> HIDE DEF U, sq
    <3> QED
      BY <1>0, <1>5, <2>1, <2>2, <2>3, <2>4, <2>6, <3>1, <3>2, <3>3, <3>4, NewUppers, ZenonT(40)
  <2> QED
    BY <2>5, <2>6
<1>6. CASE denies /\ sw' = killed /\ wiped' = w0 /\ uppers' = uppers
  <2>1. /\ Sound(sw') /\ sw'.feat = sw.feat /\ sw'.filt = sw.filt /\ sw'.oob = sw.oob /\ sw'.ref = sw.ref
        /\ \A q \in VlanPorts, x \in Table : ~(q = p /\ x = v) => (q \in sw'.mem[x] <=> q \in sw.mem[x])
        /\ p \in sw.feat /\ v \in Table => p \notin sw'.mem[v]
    <3>1. CASE p \notin sw.feat
      BY <1>1, <1>4, <1>6, <3>1
    <3>2. CASE p \in sw.feat
      <4> DEFINE t == a.s
      <4>1. Added(sw, t, [sw.ref EXCEPT ![v] = @ + 1], p, {v}) /\ v \in Table /\ added.s = t
        BY <1>3, <3>2
      <4> HIDE DEF t
      <4>2. Sound(t) /\ t.ref = [sw.ref EXCEPT ![v] = @ + 1] /\ t.oob = sw.oob /\ Plus(sw, t, p, {v})
        BY <4>1 DEF Added
      <4>3. t.ref[v] > 0
        BY <1>1, <1>2, <4>2
      <4>4. Deleted(t, k.s, [t.ref EXCEPT ![v] = @ - 1], p, {v}, t.oob)
        BY <1>kk, <4>1, <4>2, <4>3, RxKillIs
      <4>5. sw' = k.s
        BY <1>k, <1>6, <3>2
      <4>6. [t.ref EXCEPT ![v] = @ - 1] = sw.ref
        BY <1>1, <4>2
      <4>7. /\ Sound(sw') /\ Minus(t, sw', p, {v}) /\ sw'.oob = t.oob /\ sw'.ref = sw.ref
        BY <4>4, <4>5, <4>6 DEF Deleted
      <4> QED
        BY <4>2, <4>7 DEF Plus, Minus
    <3> QED
      BY <3>1, <3>2
  <2>2. Host' = Host
    BY <1>0 DEF Host
  <2>3. Good(sw', Host')
    BY <1>1, <2>1, <2>2 DEF Good
  <2>4. ~split' => Matches(sw', pv', wiped')
    <3> SUFFICES ASSUME ~split, NEW q \in VlanPorts, NEW x \in Table, <<q, x>> \notin w0
                 PROVE  q \in sw'.mem[x] <=> x \in pv[q] \/ (q \in sw'.feat /\ x \in Uppers(q))
      BY <1>0, <1>6 DEF Matches
    <3>1. <<q, x>> \notin wiped /\ (q = p /\ x = v => v \notin pv[p])
      OBVIOUS
    <3> HIDE DEF w0
    <3>2. q \in sw.mem[x] <=> x \in pv[q] \/ (q \in sw.feat /\ x \in Uppers(q))
      BY <3>1 DEF VlanInv, Matches
    <3>3. CASE ~(q = p /\ x = v)
      BY <2>1, <3>2, <3>3
    <3>4. CASE q = p /\ x = v
      <4>1. p \in sw.feat => p \notin sw'.mem[v]
        BY <2>1, <3>4
      <4>2. p \notin sw.feat => sw' = sw
        BY <1>4, <1>6
      <4> QED
        BY <1>0, <2>1, <3>1, <3>2, <3>4, <4>1, <4>2
    <3> QED
      BY <3>3, <3>4
  <2>5. wiped' \subseteq VlanPorts \X Vids
    BY <1>1, <1>6
  <2>6. \A q, x : <<q, x>> \in wiped' => x \in pv'[q]
    BY <1>0, <1>6 DEF VlanInv
  <2> HIDE DEF w0
  <2>7. ~split' => sw'.feat = (IF aware' THEN inBr' ELSE {})
    BY <1>0, <2>1 DEF VlanInv
  <2> QED
    BY <1>0, <1>6, <2>3, <2>4, <2>5, <2>6, <2>7, InvFacts, Rebuilt DEF VlanInv, NoSharedVid
<1> QED
  BY <1>0, <1>5, <1>6

LEMMA DelUpperStep ==
  ASSUME VlanInv, NEW p \in VlanPorts, NEW v \in Vids, DelUpper(p, v)
  PROVE  VlanInv'
<1> DEFINE o == "other"
           k == dsa_user_vlan_rx_kill_vid(sw, p, v, o)
<1>0. PICK n \in DOMAIN uppers[p] : uppers[p][n] = v /\ uppers' = [uppers EXCEPT ![p] = RemoveAt(@, n)]
  BY DEF DelUpper
<1>1. /\ Good(sw, Host) /\ Sound(sw) /\ sw \in SwitchState /\ sw.ref \in [Vids -> Nat] /\ sw.feat \in SUBSET VlanPorts
      /\ Host \in [Vids -> Nat] /\ wiped \subseteq VlanPorts \X Vids /\ UppersOK
  BY InvFacts
<1>2. /\ inBr' = inBr /\ aware' = aware /\ pv' = pv /\ bv' = bv /\ renotified' = renotified
      /\ split' = split /\ wiped' = wiped
  BY DEF DelUpper
<1>3. sw' = IF p \in sw.feat THEN k.s ELSE sw
  BY DEF DelUpper
<1>4. k = dsa_user_vlan_rx_kill_vid(sw, p, v, o) /\ o \in {"undo", "other"}
  OBVIOUS
<1> HIDE DEF k, o
<1> DEFINE sq == RemoveAt(uppers[p], n)
           U == Uppers(p) \ {v}
<1>5. uppers[p] \in Seq(Vids) /\ IsInjective(uppers[p])
  BY <1>1 DEF UppersOK
<1>6. sq \in Seq(Vids) /\ IsInjective(sq) /\ ToSet(sq) = U
  BY <1>0, <1>5, RemovedIs DEF Uppers
<1>7. uppers' = [uppers EXCEPT ![p] = sq]
  BY <1>0
<1>8. Uppers(p) \subseteq Vids /\ v \in Uppers(p)
  <2>1. Uppers(p) \subseteq Vids
    BY <1>1, FirstIs DEF UppersOK, Uppers
  <2>2. v \in Uppers(p)
    BY <1>0, <1>5 DEF Uppers, ToSet
  <2> QED
    BY <2>1, <2>2
<1>9. U \in SUBSET Vids /\ (aware /\ p \in inBr => U \cap pv[p] = {})
  BY <1>8 DEF VlanInv, NoSharedVid
<1>10. p \in sw.feat => U \subseteq Table
  BY <1>1 DEF Good
<1>11. CASE p \in sw.feat
  <2>1. p \in Wanting(sw.feat, v) /\ Wanting(sw.feat, v) \subseteq VlanPorts
    BY <1>1, <1>8, <1>11 DEF Wanting
  <2>2. ASSUME NEW x \in Vids
        PROVE  /\ IsFiniteSet(Wanting(sw.feat, x)) /\ Cardinality(Wanting(sw.feat, x)) \in Nat
               /\ sw.ref[x] = Cardinality(Wanting(sw.feat, x)) + Host[x] /\ Host[x] \in Nat
    <3>1. Wanting(sw.feat, x) \subseteq VlanPorts
      BY <1>1 DEF Wanting
    <3>2. sw.ref[x] = Cardinality(Wanting(sw.feat, x)) + Host[x] /\ Host[x] \in Nat
      BY <1>1 DEF Good
    <3> QED
      BY <3>1, <3>2, DsaVlanAssumption, FS_Subset, FS_CardinalityType
  <2>3. /\ Cardinality(Wanting(sw.feat, v) \ {p}) = Cardinality(Wanting(sw.feat, v)) - 1
        /\ Cardinality(Wanting(sw.feat, v)) > 0
    <3>1. Cardinality(Wanting(sw.feat, v) \ {p}) = Cardinality(Wanting(sw.feat, v)) - 1
      BY <2>1, <2>2, FS_RemoveElement
    <3>2. IsFiniteSet(Wanting(sw.feat, v) \ {p})
      BY <2>2, FS_RemoveElement
    <3>3. Cardinality(Wanting(sw.feat, v) \ {p}) \in Nat
      BY <3>2, FS_CardinalityType
    <3> QED
      BY <2>2, <3>1, <3>3
  <2>4. sw.ref[v] > 0
    BY <2>2, <2>3
  <2>5. Deleted(sw, k.s, [sw.ref EXCEPT ![v] = @ - 1], p, {v}, sw.oob)
    BY <1>1, <1>4, <2>4, RxKillIs
  <2>6. /\ Sound(sw') /\ sw'.feat = sw.feat /\ sw'.filt = sw.filt /\ sw'.oob = sw.oob
        /\ sw'.ref = [sw.ref EXCEPT ![v] = @ - 1]
        /\ \A q \in VlanPorts, x \in Table : q \in sw'.mem[x] <=> q \in sw.mem[x] /\ ~(q = p /\ x = v)
    BY <1>3, <1>11, <2>5 DEF Deleted, Minus
  <2>7. ASSUME NEW x \in Vids, NEW W, W = {q \in sw.feat : x \in (IF q = p THEN U ELSE Uppers(q))}
        PROVE  sw'.ref[x] = Cardinality(W) + Host[x]
    <3>1. CASE x = v
      <4>1. W = Wanting(sw.feat, v) \ {p}
        BY <2>7, <3>1 DEF Wanting
      <4>2. sw'.ref[x] = sw.ref[v] - 1
        BY <1>1, <2>6, <3>1
      <4> QED
        BY <2>2, <2>3, <3>1, <4>1, <4>2
    <3>2. CASE x # v
      <4>1. W = Wanting(sw.feat, x)
        BY <2>7, <3>2 DEF Wanting
      <4>2. sw'.ref[x] = sw.ref[x]
        BY <1>1, <2>6, <3>2
      <4> QED
        BY <2>2, <4>1, <4>2
    <3> QED
      BY <3>1, <3>2
  <2>8. ASSUME ~split, NEW q \in VlanPorts, NEW x \in Table, <<q, x>> \notin wiped
        PROVE  q \in sw'.mem[x] <=> x \in pv[q] \/ (q \in sw.feat /\ x \in (IF q = p THEN U ELSE Uppers(q)))
    <3>1. q \in sw.mem[x] <=> x \in pv[q] \/ (q \in sw.feat /\ x \in Uppers(q))
      BY <2>8 DEF VlanInv, Matches
    <3>2. aware /\ p \in inBr
      BY <1>11, <2>8 DEF VlanInv
    <3>3. v \notin pv[p]
      BY <1>8, <3>2 DEF VlanInv, NoSharedVid
    <3> QED
      BY <2>6, <3>1, <3>3
  <2>9. \A x \in Vids : \A W : W = {q \in sw.feat : x \in (IF q = p THEN U ELSE Uppers(q))} =>
           sw'.ref[x] = Cardinality(W) + Host[x]
    BY <2>7
  <2>10. ~split => \A q \in VlanPorts, x \in Table : <<q, x>> \notin wiped =>
          (q \in sw'.mem[x] <=> x \in pv[q] \/ (q \in sw.feat /\ x \in (IF q = p THEN U ELSE Uppers(q))))
    BY <2>8
  <2>11. Sound(sw') /\ sw'.feat = sw.feat /\ sw'.filt = sw.filt /\ sw'.oob = sw.oob
    BY <2>6
  <2> HIDE DEF U, sq
  <2> QED
    BY <1>2, <1>6, <1>7, <1>9, <1>10, <2>9, <2>10, <2>11, NewUppers
<1>12. CASE p \notin sw.feat
  <2>1. sw' = sw /\ Sound(sw')
    BY <1>1, <1>3, <1>12
  <2>2. \A x \in Vids : \A W : W = {q \in sw.feat : x \in (IF q = p THEN U ELSE Uppers(q))} =>
           sw'.ref[x] = Cardinality(W) + Host[x]
    <3> SUFFICES ASSUME NEW x \in Vids, NEW W, W = {q \in sw.feat : x \in (IF q = p THEN U ELSE Uppers(q))}
                 PROVE  sw'.ref[x] = Cardinality(W) + Host[x]
      OBVIOUS
    <3>1. W = Wanting(sw.feat, x)
      BY <1>12 DEF Wanting
    <3> QED
      BY <1>1, <2>1, <3>1 DEF Good
  <2>3. ~split => \A q \in VlanPorts, x \in Table : <<q, x>> \notin wiped =>
          (q \in sw'.mem[x] <=> x \in pv[q] \/ (q \in sw.feat /\ x \in (IF q = p THEN U ELSE Uppers(q))))
    <3> SUFFICES ASSUME ~split, NEW q \in VlanPorts, NEW x \in Table, <<q, x>> \notin wiped
                 PROVE  q \in sw'.mem[x] <=> x \in pv[q] \/ (q \in sw.feat /\ x \in (IF q = p THEN U ELSE Uppers(q)))
      OBVIOUS
    <3>1. q \in sw.mem[x] <=> x \in pv[q] \/ (q \in sw.feat /\ x \in Uppers(q))
      BY DEF VlanInv, Matches
    <3> QED
      BY <1>12, <2>1, <3>1
  <2> HIDE DEF U, sq
  <2> QED
    BY <1>2, <1>6, <1>7, <1>9, <1>10, <2>1, <2>2, <2>3, NewUppers
<1> QED
  BY <1>11, <1>12

(* What VlanInv reads is what no step but those of VlanNext changes. *)
LEMMA VlanStutters ==
  ASSUME VlanInv, UNCHANGED vlanVars
  PROVE  VlanInv'
<1>1. /\ sw' = sw /\ uppers' = uppers /\ inBr' = inBr /\ aware' = aware /\ pv' = pv /\ bv' = bv
      /\ renotified' = renotified /\ split' = split /\ wiped' = wiped
  BY DEF vlanVars
<1>2. Host' = Host
  BY <1>1 DEF Host
<1>3. Good(sw', Host')
  BY <1>1, <1>2, InvFacts
<1>4. ~split' => Matches(sw', pv', wiped')
  BY <1>1 DEF VlanInv, Matches
<1>5. ~split' => sw'.feat = (IF aware' THEN inBr' ELSE {})
  BY <1>1 DEF VlanInv
<1> QED
  BY <1>1, <1>3, <1>4, <1>5, InvFacts, Rebuilt DEF VlanInv, NoSharedVid

LEMMA VlanKeeps ==
  ASSUME VlanInv, [VlanNext]_vlanVars
  PROVE  VlanInv'
<1>1. ASSUME NEW p \in VlanPorts, NEW v \in Vids,
             \/ AddUpper(p, v) \/ DelUpper(p, v) \/ dsa_user_vlan_add(p, v) \/ dsa_user_vlan_del(p, v)
      PROVE  VlanInv'
  BY <1>1, AddUpperStep, DelUpperStep, VlanAddStep, VlanDelStep
<1>2. ASSUME NEW p \in VlanPorts, Join(p) \/ Leave(p)
      PROVE  VlanInv'
  BY <1>2, JoinStep, LeaveStep
<1>3. ASSUME NEW v \in Table, dsa_user_host_vlan_add(v) \/ dsa_user_host_vlan_del(v)
      PROVE  VlanInv'
  BY <1>3, HostAddStep, HostDelStep
<1>4. ASSUME NEW order \in SetToSeqs(inBr), Toggle(order)
      PROVE  VlanInv'
  BY <1>4, ToggleKeeps
<1>5. CASE UNCHANGED vlanVars
  BY <1>5, VlanStutters
<1> QED
  BY <1>1, <1>2, <1>3, <1>4, <1>5 DEF VlanNext

(***************************************************************************)
(* VlanInv, the conjunction of what dsa_port_do_vlan_add,                  *)
(* dsa_port_vlan_filtering and their callers rely on, holds for every      *)
(* number of ports, VLANs, uppers and notifications.                       *)
(***************************************************************************)
THEOREM VlansInvariant == VlanSpec => []VlanInv
<1>1. VlanInit => VlanInv
  BY VlanStarts
<1>2. VlanInv /\ [VlanNext]_vlanVars => VlanInv'
  BY VlanKeeps
<1> QED
  BY <1>1, <1>2, PTL DEF VlanSpec

(***************************************************************************)
(* The CPU port's count of every VLAN (dsa_port_do_vlan_add and            *)
(* dsa_port_do_vlan_del on dp->vlans) is exactly the number of ports that  *)
(* want it, and the conduit's filter counts at least as many, after any    *)
(* sequence of uppers, joins, leaves, bridge VLANs and toggles, the ones   *)
(* that fail half way included.                                            *)
(***************************************************************************)
THEOREM VlanRefsBalanced == VlanSpec => []HostRefsBalanced
<1>1. VlanInv => HostRefsBalanced
  BY VlanHolds
<1> QED
  BY <1>1, VlansInvariant, PTL

(***************************************************************************)
(* The switch's VLAN table holds a user port's bridge VLANs and its        *)
(* hardware filtered 802.1Q uppers and nothing else, save after a refused  *)
(* upper or a change that reached only some ports; dsa_loop_port_vlan_del  *)
(* leaves its array only from the undo loop of                             *)
(* dsa_user_manage_vlan_filtering.                                         *)
(***************************************************************************)
THEOREM VlanTableMatches == VlanSpec => []TableMatches
<1>1. VlanInv => TableMatches
  BY VlanHolds
<1> QED
  BY <1>1, VlansInvariant, PTL

(***************************************************************************)
(* The checks of dsa_user_vlan_check_for_8021q_uppers,                     *)
(* dsa_user_check_8021q_upper and dsa_port_can_apply_vlan_filtering        *)
(* together keep every VID of an aware bridge's port either a bridge VLAN  *)
(* or an 802.1Q upper, never both.                                         *)
(***************************************************************************)
THEOREM VlanNoSharedVid == VlanSpec => []NoSharedVid
<1>1. VlanInv => NoSharedVid
  BY DEF VlanInv
<1> QED
  BY <1>1, VlansInvariant, PTL
=============================================================================
