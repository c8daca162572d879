----------------------------- MODULE MCDsaPorts -----------------------------
(* Model checking of SdsaTag, DsaUser, DsaBridge and DsaVlan, four aspects *)
(* of the user ports that share no state of the models: a behaviour runs   *)
(* one.                                                                    *)
EXTENDS SdsaTag, DsaUser, DsaBridge, DsaVlan

VARIABLE aspect     \* of this behaviour

(* Untagged, VLAN tagged with small and large TCIs, and tagged twice. *)
SomePayloads ==
    {<<8, 0, 1, 2, 3, 4>>, <<129, 0, 0, 1, 8, 0, 1, 2>>, <<129, 0, 239, 255, 8, 0, 1>>,
     <<129, 0, 0, 5, 129, 0, 0, 6, 8, 0, 1>>, <<220, 220, 0, 0, 64, 8, 0, 0>>}

(* Users that differ in name only may change places. *)
Symmetry == Permutations(Users)

MCVars == <<tagVars, userVars, bridgeVars, vlanVars, aspect>>
MCInit ==
    /\ TagInit /\ UserInit /\ BridgeInit /\ VlanInit
    /\ aspect \in {"frames", "filters", "bridges", "vlans"}
    /\ aspect # "filters" => con = Fresh(CHOOSE a \in Addrs : TRUE)
MCNext ==
    \/ aspect = "frames"  /\ TagNext       /\ UNCHANGED <<userVars, bridgeVars, vlanVars, aspect>>
    \/ aspect = "filters" /\ UserNext   /\ UNCHANGED <<tagVars, bridgeVars, vlanVars, aspect>>
    \/ aspect = "bridges" /\ BridgeNext /\ UNCHANGED <<tagVars, userVars, vlanVars, aspect>>
    \/ aspect = "vlans"   /\ VlanNext   /\ UNCHANGED <<tagVars, userVars, bridgeVars, aspect>>
MCSpec == MCInit /\ [][MCNext]_MCVars
=============================================================================
