------------------------------ MODULE MCRouting ------------------------------
(***************************************************************************)
(* Routes, and L3 interfaces with their hosts, in one instance.  The       *)
(* scenario chosen at the start says which of the two moves; the other one *)
(* stays as it starts: as they have no variable in common, an interleaving *)
(* would show nothing that one does not show alone.                        *)
(***************************************************************************)
EXTENDS L3Routes, L3Bundle, TLC

CONSTANTS b1, b2, b3, a1, a2, a3, c1, c2, d1, d2, d3, e1, e2

VARIABLE scenario
-----------------------------------------------------------------------------
\* A bundle of a port, one of a VLAN interface, and a loopback.
MCBundle == {b1, b2, b3}
MCAddress4 == {a1, a2, a3, d1, d2, d3}
MCAddress6 == {c1, c2, e1, e2}
MCType == (b1 :> "system") @@ (b2 :> "internal") @@ (b3 :> "loopback")

\* The settings of the bundles: addresses change one kind at a time, or all at once.
\* No two bundles have an address in common.
None == [ip4 |-> NULL, ip6 |-> NULL, secondary4 |-> {}, secondary6 |-> {}]
Change(k, v) == [ip_change |-> {k}] @@ [None EXCEPT ![k] = v]
Unchanged == [ip_change |-> {}] @@ None
IpSettings(ip4, other4, second4, ip6, second6) ==
    {Unchanged,
     [ip_change |-> DOMAIN None] @@ [ip4 |-> ip4, ip6 |-> ip6, secondary4 |-> {second4},
                                     secondary6 |-> {second6}]}
      \union {Change("ip4", v) : v \in {NULL, ip4, other4}}
      \union {Change("ip6", v) : v \in {NULL, ip6}}
      \union {Change("secondary4", v) : v \in SUBSET {second4}}
      \union {Change("secondary6", v) : v \in SUBSET {second6}}
Config(e, v, ip) == [enable |-> e, lag_updated |-> e, vlan |-> v] @@ ip
MCSettings == (b1 :> {Config(TRUE, 0, ip) : ip \in IpSettings(a1, a3, a2, c1, c2)}
                       \union {Config(FALSE, 0, Unchanged)})
               @@ (b2 :> {Config(e, v, Unchanged) : e \in BOOLEAN, v \in {0, 5, 6}})
               @@ (b3 :> {Config(TRUE, 0, ip) : ip \in IpSettings(d1, d3, d2, e1, e2)})

\* The addresses and neighbours of b1, whose interface the hardware makes, or of the
\* loopback b3; the interfaces of b1 and b2 without addresses.  What the hardware is
\* left with after a host was lost is not followed.
L3Scenarios == {"addresses", "loopback", "interfaces"}
InL3Scenario ==
    /\ scenario \in L3Scenarios /\ L3Next
    /\ ~strayed /\ orphans = {}
    /\ CASE scenario = "addresses" ->
              /\ bundles' \subseteq {b1}
              /\ \A i \in L3If : hw_l3'[i] \in {{}, Complete("system")}
              /\ b1 \in bundles' => l3_intf'[b1] # NULL
         [] scenario = "loopback" -> bundles' \subseteq {b3}
         [] scenario = "interfaces" -> host_id_map' = <<>> /\ b3 \notin bundles'
-----------------------------------------------------------------------------
Start(scenarios) == scenario \in scenarios /\ Init /\ L3Init

RoutingNext ==
    /\ UNCHANGED scenario
    /\ \/ scenario = "routes" /\ Next /\ UNCHANGED l3Vars
       \/ InL3Scenario /\ UNCHANGED vars

RoutingSpec == Start({"routes"} \union L3Scenarios) /\ [][RoutingNext]_<<scenario, vars, l3Vars>>
AddressesSpec == Start({"addresses"}) /\ [][RoutingNext]_<<scenario, vars, l3Vars>>

\* The components share sets of values: one permutation serves both, as only one of
\* them has left its initial state.
Symmetry == Permutations(Group) \union Permutations(Prefix)
=============================================================================
