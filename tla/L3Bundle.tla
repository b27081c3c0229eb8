------------------------------ MODULE L3Bundle ------------------------------
(***************************************************************************)
(* The L3 side of a bundle: its L3 interface in hardware and its addresses *)
(* (bundle_update_l3_config, and the L3 part of bundle_destroy, in         *)
(* ops-xp-ofproto-provider.c; the l3_*_iface_create and                    *)
(* *_l3_interface functions of ops-xp-routing.c).  Creating an interface   *)
(* is a chain of hardware calls; a call that is refused ends the chain and *)
(* frees the control structure, nothing else.                              *)
(***************************************************************************)
EXTENDS L3Hosts

CONSTANTS
    Type,               \* the netdev type of each bundle's port
    L3If,               \* L3 interface IDs of the hardware
    Settings            \* the settings each bundle may be given

VARIABLES
    bundles,            \* those that exist
    l3_intf,            \* their L3 interface: [id, vlan_id] or NULL
    hw_l3,              \* the steps of the chain the hardware has made for an interface
    if_id_to_name_map,  \* the L3 part of the device's map
    mac_once,           \* the ovsthread_once of l3_iface_mac_set
    hung,               \* the main thread waits for it for ever
    l3_asked            \* history: what port_ip_reconfigure was asked for

ifVars == <<bundles, l3_intf, hw_l3, if_id_to_name_map, mac_once, hung, l3_asked>>
l3Vars == <<hostVars, ifVars>>

Kind == {"ip4", "ip6", "secondary4", "secondary6"}
NoAddress(kind) == IF kind \in {"ip4", "ip6"} THEN NULL ELSE {}
-----------------------------------------------------------------------------
(* L3 interfaces *)

\* The hardware calls of l3_port_iface_create, l3_sub_iface_create and
\* l3_vlan_iface_create.  "bind" stands for initialising and binding, "routing" for
\* VRF and unicast routing; "msb" and "mac" are those of l3_iface_mac_set, for the
\* device and for the interface.
l3_port_iface_create == <<"create", "bind", "routing", "msb", "mac">>
l3_sub_iface_create == <<"create", "bind", "routing", "msb", "mac">>
l3_vlan_iface_create == <<"create", "routing", "msb", "mac", "arp">>

Chain(type) == CASE type = "system" -> l3_port_iface_create
                 [] type = "vlansubint" -> l3_sub_iface_create
                 [] type = "internal" -> l3_vlan_iface_create
Complete(type) == Range(Chain(type))

\* l3_iface_mac_set: the device-wide part is done once.  When it fails, the `once'
\* is left started and whoever comes next waits.
l3_iface_mac_set(step, refused) ==
    /\ mac_once = "done" => ~(refused /\ step = "msb")
    /\ mac_once' = IF mac_once # "new" THEN mac_once
                   ELSE IF step = "msb" THEN (IF refused THEN "started" ELSE "new")
                   ELSE "done"

\* The calls of the chain up to the k-th are made, the next one, if any, is refused;
\* or the thread hangs in it.
create_chain(b, id, k) ==
    LET chain == Chain(Type[b])
        msb == CHOOSE i \in DOMAIN chain : chain[i] = "msb"
        stuck == mac_once = "started" /\ k = msb - 1
        refused == k < Len(chain) /\ ~stuck
    IN  /\ mac_once = "started" => k < msb
        /\ hw_l3' = [hw_l3 EXCEPT ![id] = {chain[i] : i \in 1..k}]
        /\ hung' = stuck
        /\ IF k < msb - 1 \/ stuck THEN UNCHANGED mac_once
           ELSE l3_iface_mac_set(IF refused THEN chain[k + 1] ELSE "none", refused)
        /\ hfaults' = IF refused THEN hfaults + 1 ELSE hfaults
        /\ hfaults' <= MaxFaults

\* ops_xp_routing_enable_l3_interface, _l3_subinterface and _l3_vlan_interface.
\* Nothing is done when xpsInterfaceGetType fails or names a type other than a port's,
\* when the VLAN does not exist, and without a VLAN for a sub-interface or a VLAN
\* interface.
enable_l3_interface(b, vlan) ==
    \/ /\ UNCHANGED <<hw_l3, if_id_to_name_map, mac_once, hung, hfaults>>
       /\ l3_intf' = [l3_intf EXCEPT ![b] = NULL]
    \/ /\ Type[b] # "system" => vlan # 0
       /\ \E id \in {i \in L3If : hw_l3[i] = {}}, k \in 0..Len(Chain(Type[b])) :
            /\ create_chain(b, id, k)
            /\ IF k < Len(Chain(Type[b]))
               THEN /\ l3_intf' = [l3_intf EXCEPT ![b] = NULL]
                    /\ UNCHANGED if_id_to_name_map
               ELSE /\ l3_intf' = [l3_intf EXCEPT ![b] = [id |-> id, vlan_id |-> vlan]]
                    /\ if_id_to_name_map' =
                         [if_id_to_name_map EXCEPT ![id] = IF @ = NULL THEN b ELSE @]

\* Fault of disable_l3_interface: the name of the interface stays in the map.
disable_l3_interface_Named(b) ==
    /\ hw_l3' = [hw_l3 EXCEPT ![l3_intf[b].id] = {}]
    /\ l3_intf' = [l3_intf EXCEPT ![b] = NULL]
    /\ UNCHANGED <<if_id_to_name_map, mac_once, hung, hfaults>>

\* ops_xp_routing_disable_l3_interface.  xpsInterfaceGetType is asked for the type of
\* the port, which may or may not have become a router's by the binding; it knows
\* nothing of the invalid ID a VLAN interface has.  Only for a router's type is
\* anything undone, each call of it refused or not.
disable_l3_interface(b) ==
    LET id == l3_intf[b].id
    IN  /\ if_id_to_name_map' = [if_id_to_name_map EXCEPT ![id] = NULL]
        /\ \/ UNCHANGED <<hw_l3, hfaults>>
           \/ /\ Type[b] \in {"system", "vlansubint"}
              /\ \E refused \in SUBSET {"create", "bind"} :
                   /\ hw_l3' = [hw_l3 EXCEPT ![id] =
                                  IF "create" \notin refused THEN {}
                                  ELSE @ \ ({"bind"} \ refused)]
                   /\ Refused(refused = {})
        /\ l3_intf' = [l3_intf EXCEPT ![b] = NULL]
        /\ UNCHANGED <<mac_once, hung>>

\* ops_xp_routing_update_l3_interface: the port or LAG is bound once more.
update_l3_interface(ok) ==
    /\ Refused(ok)
    /\ UNCHANGED <<hw_l3, if_id_to_name_map, mac_once, hung, l3_intf>>
-----------------------------------------------------------------------------
(* Bundles *)

Idle == work = {} /\ ~hung

\* The addresses, when the bundle has an L3 interface or is a loopback.
reconfigure(b, s) ==
    /\ work' = port_ip_reconfigure(b, s)
    /\ l3_asked' = [l3_asked EXCEPT ![b] = [k \in Kind |-> IF k \in s.ip_change THEN s[k] ELSE @[k]]]

\* bundle_update_l3_config, as its branches: a loopback, an interface that goes and
\* one that comes, in one call or in two (`disabled' is the state between), an
\* interface that stays.
update_loopback(b, s) ==
    /\ Type[b] = "loopback"
    /\ reconfigure(b, s)
    /\ UNCHANGED <<l3_intf, hw_l3, if_id_to_name_map, mac_once, hung, hfaults>>

VlanId(b, s) == IF Type[b] = "system" THEN 0 ELSE s.vlan
Stays(b, s) == l3_intf[b] # NULL /\ l3_intf[b].vlan_id = VlanId(b, s) /\ s.enable

update_disable(b, s) ==
    /\ Type[b] # "loopback" /\ l3_intf[b] # NULL /\ ~Stays(b, s)
    /\ disable_l3_interface(b)
    /\ work' = IF s.enable THEN {[op |-> "enable", stage |-> 1, bundle |-> b, settings |-> s]}
                ELSE {}
    /\ UNCHANGED l3_asked

update_enable(b, s) ==
    /\ Type[b] # "loopback" /\ l3_intf[b] = NULL /\ s.enable
    /\ enable_l3_interface(b, VlanId(b, s))
    /\ IF l3_intf'[b] # NULL THEN reconfigure(b, s) ELSE work' = {} /\ UNCHANGED l3_asked

update_keep(b, s) ==
    /\ Type[b] # "loopback"
    /\ \/ /\ Stays(b, s)
          /\ \/ UNCHANGED <<l3_intf, hw_l3, if_id_to_name_map, mac_once, hung, hfaults>>
             \/ \E ok \in BOOLEAN : s.lag_updated /\ update_l3_interface(ok)
          /\ reconfigure(b, s)
       \/ /\ l3_intf[b] = NULL /\ ~s.enable
          /\ work' = {}
          /\ UNCHANGED <<l3_intf, hw_l3, if_id_to_name_map, mac_once, hung, hfaults, l3_asked>>

HostsUnchanged == UNCHANGED <<host_id_map, dummy_host_list, next_host_id, hw_host, owner,
                              strayed, orphans>>

bundle_update_l3_config(b, s) ==
    /\ Idle
    /\ \/ update_loopback(b, s) \/ update_disable(b, s)
       \/ update_enable(b, s) \/ update_keep(b, s)
    /\ bundles' = bundles \union {b}
    /\ HostsUnchanged

update_reenable ==
    /\ \E item \in Current :
         /\ item.op = "enable"
         /\ update_enable(item.bundle, item.settings)
    /\ HostsUnchanged /\ UNCHANGED bundles

\* The L3 part of bundle_destroy.
bundle_destroy(b) ==
    /\ Idle /\ b \in bundles
    /\ bundles' = bundles \ {b}
    /\ work' = port_unconfigure_ips(b)
    /\ l3_asked' = [l3_asked EXCEPT ![b] = [k \in Kind |-> NoAddress(k)]]
    /\ IF l3_intf[b] # NULL THEN disable_l3_interface(b)
       ELSE UNCHANGED <<l3_intf, hw_l3, if_id_to_name_map, mac_once, hung, hfaults>>
    /\ HostsUnchanged
-----------------------------------------------------------------------------
(* Properties *)

L3TypeOK ==
    /\ HostsTypeOK
    /\ bundles \subseteq Bundle
    /\ l3_intf \in [Bundle -> {NULL} \union [id : L3If, vlan_id : Nat]]
    /\ hw_l3 \in [L3If -> SUBSET (Complete("system") \union Complete("internal"))]
    /\ if_id_to_name_map \in [L3If -> {NULL} \union Bundle]
    /\ mac_once \in {"new", "started", "done"} /\ hung \in BOOLEAN
    /\ l3_asked \in [Bundle -> [Kind -> {NULL} \union Address \union SUBSET Address]]

\* A bundle with an L3 interface has one of its own that the hardware configured to
\* the last step, with the router MAC of the device set, and that is named after it:
\* no refusal on the way is taken for a success (l3_*_iface_create, the `once' of
\* l3_iface_mac_set, bundle_update_l3_config with its disabling and enabling).
InterfaceReady ==
    \A b \in Bundle : l3_intf[b] # NULL =>
        /\ b \in bundles /\ mac_once = "done"
        /\ hw_l3[l3_intf[b].id] = Complete(Type[b])
        /\ if_id_to_name_map[l3_intf[b].id] = b
        /\ \A c \in Bundle \ {b} : l3_intf[c] # NULL => l3_intf[c].id # l3_intf[b].id

\* When a call has done its work, the addresses a bundle has are the ones it was last
\* asked for, kind by kind (port_ip_reconfigure and the two
\* port_config_secondary_*_addr, with obsolete addresses gone and new ones there).
AddressesAsAsked ==
    work = {} => \A b \in Bundle :
        /\ \A kind \in {"ip4", "ip6"} :
              LET o == owner[<<b, kind, NULL>>]
              IN  l3_asked[b][kind] = IF o = NULL THEN NULL ELSE o.address
        /\ \A kind \in {"secondary4", "secondary6"} :
              l3_asked[b][kind] = {s[3] : s \in {s \in SlotsOf(b, kind) : owner[s] # NULL}}
-----------------------------------------------------------------------------
L3Init ==
    /\ HostsInit
    /\ bundles = {} /\ l3_intf = [b \in Bundle |-> NULL]
    /\ hw_l3 = [i \in L3If |-> {}]
    /\ if_id_to_name_map = [i \in L3If |-> NULL]
    /\ mac_once = "new" /\ hung = FALSE
    /\ l3_asked = [b \in Bundle |-> [k \in Kind |-> NoAddress(k)]]

L3Next ==
    \/ do_work /\ UNCHANGED ifVars
    \/ update_reenable
    \/ \E b \in Bundle :
         \/ \E s \in Settings[b] : bundle_update_l3_config(b, s)
         \/ bundle_destroy(b)
    \/ \E b \in Bundle, a \in Neighbour, ok \in BOOLEAN :
         \/ /\ Idle /\ b \in bundles /\ l3_intf[b] # NULL
            /\ add_l3_host_entry(b, a, ok) /\ UNCHANGED ifVars
         \/ /\ Idle
            /\ delete_l3_host_entry(b, a, b \in bundles, ok) /\ UNCHANGED ifVars
    \/ /\ Idle /\ bundles = {}
       /\ \E kept \in SUBSET DOMAIN host_id_map : l3_mgr_destroy(kept)
       /\ UNCHANGED ifVars

L3Spec == L3Init /\ [][L3Next]_l3Vars
=============================================================================
