------------------------------- MODULE MCPorts -------------------------------
(***************************************************************************)
(* Ports, the classifier and TAP interfaces in one instance.  The scenario *)
(* chosen at the start says which of them moves; the others stay as they   *)
(* start: as they have no variable in common, an interleaving would show   *)
(* nothing that one does not show alone.                                   *)
(***************************************************************************)
EXTENDS Ports, Classifier, HostTap, TLC

CONSTANTS
    pa, s1, s2, si, in,                                      \* Ports
    v1, v2, u                                                \* Classifier

VARIABLE scenario
-----------------------------------------------------------------------------
\* A port of two lanes: the netdev of the whole port, those of the lanes, a subinterface
\* and an internal interface.
MCNetdev == {pa, s1, s2, si, in}
MCPortNum == {1, 2}
MCKind == (pa :> "parent") @@ (s1 :> "subport") @@ (s2 :> "subport") @@ (si :> "vlansubint")
            @@ (in :> "internal")
MCport_num == (pa :> 1) @@ (s1 :> 1) @@ (s2 :> 2)
MCParent == (s1 :> pa) @@ (s2 :> pa) @@ (si :> pa)
MCLanes == (1 :> {1, 2}) @@ (2 :> {})

\* The contents of lists, one of them not supported.
MCVersion == {v1, v2, u}
MCUnsupported == {u}
MCNumRules == (v1 :> 1) @@ (v2 :> 2) @@ (u :> 1)
-----------------------------------------------------------------------------
(* Scenarios.  Those of one component keep its states apart. *)

\* Which tables lists are applied through, and whether ports move and lists are applied
\* to the direction out meanwhile.
AclScenarios == {"ports", "bridged", "routed"}
InUse == {t \in Table : \E b \in Bundle : applied'[b][t] # NULL}
InAclScenario ==
    /\ scenario \in AclScenarios /\ AclNext
    /\ CASE scenario = "ports" -> InUse \subseteq {"pacl"} /\ l3_intf' = l3_intf
         [] scenario = "bridged" ->
              /\ InUse \subseteq {"pacl", "bacl"} /\ l3_intf' = l3_intf /\ ports' = ports
              /\ leaked' = {} /\ touched' = {}
         [] scenario = "routed" ->
              /\ InUse \subseteq {"pacl", "racl"} /\ ports' = ports
              /\ leaked' = {} /\ touched' \subseteq Bundle

\* Netdevs come and go; or those of a port stay and are configured, with the hardware
\* refusing, or with the links, the event thread and the parent's netdev going.
DevScenarios == {"lifecycle", "refusals", "links"}
There == CASE scenario = "refusals" -> {pa, s2}
           [] scenario = "links" -> {pa, s1}
           [] OTHER -> {}
Ready(n) == [initialized |-> TRUE, xpdev |-> TRUE, port_info |-> TRUE,
             parent_port_info |-> n # pa, pcfg |-> Off, link_status |-> FALSE]
DevInit ==
    /\ netdev = [n \in Netdev |-> IF n \in There THEN Ready(n) ELSE NULL]
    /\ ref_cnt = 1 + Cardinality(There)
    /\ port_info = [q \in PortNum |-> [initialized |-> scenario = "links", mode |-> "4x10",
                                       hw_enable |-> FALSE, serdes_tuned |-> FALSE]]
    /\ PortsStart
InDevScenario ==
    /\ scenario \in DevScenarios /\ PortsNext
    /\ CASE scenario = "lifecycle" ->
              /\ main' # Idle => main'.netdev = s1 /\ main'.pc = "mode"
              /\ netdev'[s2] = NULL
         [] scenario = "refusals" ->
              /\ \A n \in Netdev : netdev'[n] = NULL <=> n \notin There
              /\ \A q \in PortNum : ~hw'[q].link
              /\ event' # Idle => event'.netdev = s2
         [] scenario = "links" ->
              /\ netdev'[s1] # NULL /\ \A n \in Netdev \ There : netdev'[n] = NULL
              /\ netdev[pa] = NULL => netdev'[pa] = NULL
              /\ ~hw'[2].link /\ faults' = 0
-----------------------------------------------------------------------------
\* Lists have any content and bundles any ports where the classifier moves.
Start(scenarios) ==
    /\ scenario \in scenarios
    /\ DevInit /\ AclInit /\ TapInit
    /\ scenario \notin AclScenarios => /\ content = [l \in List |-> v1]
                                       /\ \E b \in Bundle : ports = [p \in Member |-> b]

InterfacesNext ==
    /\ UNCHANGED scenario
    /\ \/ InAclScenario /\ UNCHANGED <<tapVars, vars>>
       \/ scenario = "taps" /\ TapNext /\ UNCHANGED <<aclVars, vars>>
       \/ InDevScenario /\ UNCHANGED <<aclVars, tapVars>>

InterfacesSpec ==
    /\ Start({"taps"} \union AclScenarios \union DevScenarios)
    /\ [][InterfacesNext]_<<scenario, vars, aclVars, tapVars>>
TapsSpec == Start({"taps"}) /\ [][InterfacesNext]_<<scenario, vars, aclVars, tapVars>>

\* The components share sets of values: one permutation serves them all, as only one
\* of them has left its initial state.
Symmetry == Permutations(Tcam) \union Permutations(Bundle) \union Permutations(Fd)
              \union Permutations(Port)
=============================================================================
