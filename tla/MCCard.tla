------------------------------- MODULE MCCard -------------------------------
(* Model checking of XdmaDev, Lifecycle and Phy, three aspects of a card   *)
(* that share no state of the models: a behaviour runs one.  The card and  *)
(* its driver from probe to remove (life), xdma_device_open and its        *)
(* counterpart taken apart (device), and the PHYs of its ports (links).    *)
EXTENDS XdmaDev, Lifecycle, Phy

VARIABLE aspect     \* of this behaviour

(* Every BAR layout that the comment of identify_bars allows, and one      *)
(* without the config BAR.                                                 *)
Layout(a, b, c) == [n \in BarIds |-> <<a, b, c>>[n + 1]]
SomeLayouts == {Layout("plain", "config", "plain"),
                Layout("config", "absent", "plain"),
                Layout("plain", "absent", "config"),
                Layout("plain", "absent", "absent")}

(* Link partners with which the best common mode is 1000 or 100 Mbit/s in  *)
(* full or half duplex.                                                    *)
AllModes == {Modes}
Partners == {Modes \ {"asym"}, {"1000H", "10F"}, {"100F", "100H", "asym"}, {"100H", "10F"}}

MCVars == <<vars, lifeVars, phyVars, aspect>>

(* What a behaviour does not run rests in one state: no card, and PHYs     *)
(* without a cable.                                                        *)
MCInit ==
    /\ Init /\ LifeInit /\ PhyInit
    /\ aspect \in {"device", "life", "links"}
    /\ aspect # "device" =>
        /\ hw = [layout |-> Layout("plain", "absent", "absent"), h2c |-> 0, c2h |-> 0, msix |-> FALSE]
        /\ r = [chan |-> FALSE, user |-> {}, eng |-> {}, table |-> r.table]
    /\ aspect # "life" => cur = CHOOSE c \in Cards : TRUE
    /\ aspect # "links" => \A p \in Ports :
        ~phy[p].plug /\ phy[p].lpa = CHOOSE a \in Abilities : TRUE

MCDriver == aspect = "links" /\ Driver /\ UNCHANGED <<vars, lifeVars, aspect>>
MCNext ==
    \/ aspect = "device" /\ Next     /\ UNCHANGED <<lifeVars, phyVars, aspect>>
    \/ aspect = "life"   /\ LifeNext /\ UNCHANGED <<vars, phyVars, aspect>>
    \/ aspect = "links"  /\ PhyNext  /\ UNCHANGED <<vars, lifeVars, aspect>>

(* The fairness of PhySpec; the other two aspects have none. *)
MCSpec == MCInit /\ [][MCNext]_MCVars /\ WF_MCVars(MCDriver)
=============================================================================
