----------------------------- MODULE VlanBundle -----------------------------
(***************************************************************************)
(* VLANs (ops-xp-vlan.c) and the logical ports that join them, the bundles *)
(* of ops-xp-ofproto-provider.c.  ovs-vswitchd's main thread calls         *)
(* set_vlan, bundle_set and bundle_remove, one after the other, in any     *)
(* order; bundle_set is several steps here: one up to the ports that it    *)
(* adds, one for each of these and one for the rest.  The others are one.  *)
(*                                                                         *)
(* The hardware may refuse any call (at most MaxFaults steps meet a call   *)
(* it refuses).  Most of the code then returns, or logs and goes on, with  *)
(* what was done before left in place.  `stale' is history: the interfaces *)
(* that may for a known reason be out of step with their configuration.    *)
(***************************************************************************)
EXTENDS Naturals

CONSTANTS
    MaxVlan,            \* XP_VLAN_MAX_ID
    Port,               \* physical ports
    Single,             \* ports with a bundle of their own, which has their name
    Lag,                \* names of the bundles that are link aggregation groups
    LagId,              \* interface IDs the hardware gives to LAGs
    VlanSettings,       \* the VLAN part of the settings bundle_set is called with
    L3Vlans,            \* VLANs that may get an L3 interface
    MaxFaults,          \* bound on the steps in which the hardware refuses a call
    NULL

ASSUME MaxVlanAssumption == MaxVlan \in Nat \ {0}
ASSUME SettingsAssumption ==
    /\ VlanSettings \subseteq
          [vlan_mode : {"ACCESS", "TRUNK", "NATIVE_TAGGED", "NATIVE_UNTAGGED"},
           vlan : 0..MaxVlan, trunks : SUBSET (1..MaxVlan)]
    /\ L3Vlans \subseteq 1..MaxVlan
ASSUME MaxFaultsAssumption == MaxFaults \in Nat
ASSUME NamesAssumption ==
    /\ Single \subseteq Port /\ Port \intersect Lag = {} /\ Port \intersect LagId = {}
    /\ NULL \notin Port \union Lag \union LagId
    /\ \A vs \in SUBSET (1..MaxVlan) : vs # NULL

VARIABLES
    exist,              \* the VLANs with is_existing
    members,            \* members[v][i]: how interface i is a member of VLAN v
    pvid,               \* the default VLAN of each port
    lags,               \* the LAGs in the hardware
    bundles,            \* ofproto->bundles
    owner,              \* port->bundle; the other end of bundle->ports
    l3_vlan,            \* the VLAN of the L3 VLAN interface, or NoVid
    call,               \* the bundle_set that is being executed
    stale,              \* history, see above
    faults              \* history: the steps in which the hardware refused a call

vars == <<exist, members, pvid, lags, bundles, owner, l3_vlan, call, stale, faults>>
-----------------------------------------------------------------------------
(* Types *)

Vlan == 1..MaxVlan
DefaultVlan == 1                    \* XP_DEFAULT_VLAN_ID
NoVid == 0                          \* -1, and every ID that is not valid
Intf == Port \union LagId
Bundle == Single \union Lag
Encap == {"none", "TAGGED", "UNTAGGED"}
Mode == {"ACCESS", "TRUNK", "NATIVE_TAGGED", "NATIVE_UNTAGGED"}

\* struct bundle_xpliant, its VLAN and LAG part.
BundleState == [vlan_mode : Mode, vlan : Vlan \union {NoVid},
                trunks : {NULL} \union SUBSET Vlan,
                intfId : Intf \union {NULL}, is_lag : BOOLEAN]

\* struct ofproto_bundle_settings without its VLAN part, which the last step of
\* bundle_set reads.  slaves are the ports the ofproto knows; only a LAG has
\* several, or a LAG in the hardware.
Settings(b) ==
    {s \in [slaves : SUBSET Port, hw_bond_should_exist : BOOLEAN,
            bond_handle_alloc_only : BOOLEAN] :
        b \in Single => /\ s.slaves \subseteq {b}
                        /\ ~s.hw_bond_should_exist /\ ~s.bond_handle_alloc_only}

Ports(b) == {p \in Port : owner[p] = b}
Live(b) == bundles[b] # NULL
-----------------------------------------------------------------------------
(* Membership.  Each operator gives the tables that a call can leave behind; *)
(* hw says that the hardware accepts every call.                             *)

\* The table m with interface i taken out of the VLANs vs.
Without(m, vs, i) == [v \in Vlan |-> IF v \in vs THEN [m[v] EXCEPT ![i] = "none"]
                                                 ELSE m[v]]

\* ops_xp_vlan_member_remove.
member_remove(m, v, i, hw) ==
    {Without(m, {v}, i)} \union (IF hw THEN {} ELSE {m})

\* Fault of clear_all_membership: it stops before the last VLAN.
clear_all_membership_OffByOne(m, i, hw) == {Without(m, 1..(MaxVlan - 1), i)}

\* ops_xp_vlan_port_clear_all_membership: in ascending order, up to a failure.
clear_all_membership(m, i, hw) ==
    {Without(m, Vlan, i)} \union
    (IF hw THEN {} ELSE {Without(m, 1..(v - 1), i) : v \in Vlan})

\* bundle_del_port, for each of the ports ps: it is in the default VLAN after
\* this, untagged.  member_set_tagging removes the port and adds it again (with
\* `false', taken to be the SDK's XP_L2_ENCAP_DOT1Q_UNTAGGED).
DelPortEncap(e, hw) ==
    IF hw THEN {"UNTAGGED"}
    ELSE {"UNTAGGED", e} \union (IF e = "TAGGED" THEN {"none"} ELSE {})

del_ports(m, ps, hw) ==
    {[m EXCEPT ![DefaultVlan] =
         [i \in Intf |-> IF i \in ps THEN d[i] ELSE m[DefaultVlan][i]]] :
        d \in {f \in [ps -> Encap] :
                  \A p \in ps : f[p] \in DelPortEncap(m[DefaultVlan][p], hw)}}

\* The default VLAN of the ports after it: set only for a port that was in the
\* default VLAN already.
del_ports_pvid(m, ps, hw) ==
    {f \in [Port -> Vlan] :
        \A p \in Port :
            IF p \in ps /\ m[DefaultVlan][p] # "none"
            THEN f[p] = DefaultVlan \/ (~hw /\ f[p] = pvid[p])
            ELSE f[p] = pvid[p]}
-----------------------------------------------------------------------------
(* VLAN configuration *)

\* How a bundle is a member of a VLAN in its trunks.
EncapOf(b, v) == IF b.vlan # v \/ b.vlan_mode = "NATIVE_TAGGED"
                 THEN "TAGGED" ELSE "UNTAGGED"

\* Fault of VlanOf: the ID is not checked.
VlanOf_Unchecked(s) == IF s.vlan_mode = "TRUNK" THEN DefaultVlan ELSE s.vlan

\* The VLAN and the trunks a bundle has with settings s.
VlanOf(s) == IF s.vlan_mode = "TRUNK" \/ s.vlan \notin Vlan
             THEN DefaultVlan ELSE s.vlan
TrunksOf(s) == IF s.vlan_mode = "ACCESS" THEN {VlanOf(s)}
               ELSE IF s.vlan_mode = "TRUNK" THEN s.trunks
               ELSE s.trunks \union {VlanOf(s)}

\* Fault of Retagged: a change of the tagging only is not noticed.
Retagged_None(b, s) == {}

\* The VLANs in both the old and the new trunks in which the bundle changes
\* between tagged and untagged: they are given up first, and joined again.
Retagged(b, s) ==
    LET old_vlan == IF b.vlan = NoVid THEN DefaultVlan ELSE b.vlan
    IN  IF b.trunks # NULL /\ (old_vlan # VlanOf(s) \/ b.vlan_mode # s.vlan_mode)
        THEN ({VlanOf(s)} \intersect b.trunks) \union
             ({old_vlan} \intersect TrunksOf(s))
        ELSE {}

\* The table after the first VLANs of diff, those below stop, have been joined
\* or left by the bundle b.
Joined(m, b, diff, stop) ==
    [v \in Vlan |->
        IF v \in diff \intersect exist /\ v < stop
        THEN [m[v] EXCEPT ![b.intfId] =
                 IF v \notin b.trunks THEN "none"
                 ELSE IF @ = "none" THEN EncapOf(b, v) ELSE @]
        ELSE m[v]]

\* Fault of Applies: the ports that joined a LAG are not looked at.
Applies_DiffOnly(b, diff, updated) == b.trunks = NULL \/ diff # {}

\* Whether there is anything to write to the hardware.
Applies(b, diff, updated) ==
    b.trunks = NULL \/ diff # {} \/ (b.is_lag /\ updated)

\* bundle_update_vlan_config for the bundle b with the ports ps.  It returns at
\* the first call the hardware refuses: giving up a VLAN of Retagged (the new
\* VLAN first), the frame type or the PVID of a port, or a VLAN of diff.
update_vlan_config(b, s, updated, ps, hw) ==
    LET re == Retagged(b, s)
        kept == IF b.trunks = NULL THEN {} ELSE b.trunks \ re
        new == [b EXCEPT !.vlan_mode = s.vlan_mode, !.vlan = VlanOf(s),
                         !.trunks = TrunksOf(s)]
        diff == (new.trunks \ kept) \union (kept \ new.trunks)
        apply == Applies(b, diff, updated)
        given == Without(members, re \intersect exist, b.intfId)
        pvids == [p \in Port |-> IF p \in ps THEN new.vlan ELSE pvid[p]]
        Left(trunks, m, pv) ==
            [bundle |-> [new EXCEPT !.trunks = trunks], members |-> m, pvid |-> pv]
        done == IF apply
                THEN Left(new.trunks, Joined(given, new, diff, MaxVlan + 1), pvids)
                ELSE Left(new.trunks, given, pvid)
        notGivenUp ==
            {LET r == IF v = new.vlan THEN {v} ELSE re
             IN  Left(b.trunks \ r, Without(members, (r \ {v}) \intersect exist,
                                            b.intfId), pvid) :
                v \in {w \in re \intersect exist : members[w][b.intfId] # "none"}}
        notSet == {Left(new.trunks, given, [p \in Port |-> IF p \in set THEN new.vlan
                                                          ELSE pvid[p]]) :
                      set \in SUBSET ps}
        notJoined == {Left(new.trunks, Joined(given, new, diff, v), pvids) :
                         v \in diff \intersect exist}
    IN  {done} \union
        (IF hw THEN {}
         ELSE notGivenUp \union (IF apply THEN notSet \union notJoined ELSE {}))
-----------------------------------------------------------------------------
Init ==
    /\ exist = {DefaultVlan}
    /\ members = [v \in Vlan |-> [i \in Intf |->
                     IF v = DefaultVlan /\ i \in Port THEN "UNTAGGED" ELSE "none"]]
    /\ pvid = [p \in Port |-> DefaultVlan]
    /\ lags = {}
    /\ bundles = [b \in Bundle |-> NULL]
    /\ owner = [p \in Port |-> NULL]
    /\ l3_vlan = NoVid
    /\ call = NULL
    /\ stale = {}
    /\ faults = 0

\* A step in which the hardware accepts every call it gets, or refuses one.
Hw(hw) == /\ hw \/ faults < MaxFaults
          /\ faults' = IF hw THEN faults ELSE faults + 1
-----------------------------------------------------------------------------
(* set_vlan *)

\* The bundles with a VLAN in their trunks.
Users(v) == {b \in Bundle : Live(b) /\ bundles[b].trunks # NULL
                            /\ v \in bundles[b].trunks}
IntfOf(bs) == {bundles[b].intfId : b \in bs} \ {NULL}

\* The VLAN is created, unless it is the default one, and its users join it, in
\* no particular order, until one cannot.  A bundle without an interface never
\* can.  If the VLAN exists or the hardware does not create it nothing changes.
set_vlan_add(vid, hw) ==
    /\ call = NULL
    /\ vid = DefaultVlan \/ vid \notin exist
    /\ Hw(hw)
    /\ exist' = exist \union {vid}
    /\ \E bs \in SUBSET Users(vid) :
          /\ \A b \in bs : bundles[b].intfId # NULL
          /\ bs = Users(vid) \/ ~hw \/ \E b \in Users(vid) : bundles[b].intfId = NULL
          /\ members' = [members EXCEPT ![vid] = [i \in Intf |->
                 IF @[i] = "none" /\ \E b \in bs : bundles[b].intfId = i
                 THEN EncapOf(CHOOSE c \in {bundles[b] : b \in bs} : c.intfId = i, vid)
                 ELSE @[i]]]
          /\ stale' = stale \union IntfOf(Users(vid) \ bs)
    /\ UNCHANGED <<pvid, lags, bundles, owner, l3_vlan, call>>

\* The users leave the VLAN, until one cannot; then the VLAN is removed, unless
\* it is the default one or has other members.  If the hardware does not remove
\* it, it is gone in software all the same.
set_vlan_del(vid, hw) ==
    /\ call = NULL
    /\ vid \in exist
    /\ Hw(hw)
    /\ \E bs \in SUBSET Users(vid) :
          /\ hw => bs = Users(vid)
          /\ members' = [members EXCEPT ![vid] = [i \in Intf |->
                            IF i \in IntfOf(bs) THEN "none" ELSE @[i]]]
          /\ exist' = IF /\ bs = Users(vid) /\ vid # DefaultVlan
                         /\ \A i \in Intf : members'[vid][i] = "none"
                      THEN exist \ {vid} ELSE exist
          /\ stale' = IF vid \in exist' THEN stale \union IntfOf(Users(vid)) ELSE stale
    /\ UNCHANGED <<pvid, lags, bundles, owner, l3_vlan, call>>
-----------------------------------------------------------------------------
(* Bundles that go *)

\* bundle_destroy, without the ports: the membership of its interface, and the
\* LAGs of the hardware.
destroy_members(m, b, hw) ==
    IF b.intfId = NULL THEN {m} ELSE clear_all_membership(m, b.intfId, hw)
lag_destroy(b, hw) ==
    IF b.is_lag THEN {lags \ {b.intfId}} \union (IF hw THEN {} ELSE {lags}) ELSE {lags}

\* The interfaces a step with a refused call may leave in a wrong state.
Doubted(b, ps, hw) ==
    IF hw THEN stale ELSE stale \union ps \union ({bundles[b].intfId} \ {NULL})

\* ofproto_xpliant_bundle_set without settings: bundle_destroy.
bundle_unset(b, hw) ==
    /\ call = NULL
    /\ Live(b)
    /\ Hw(hw)
    /\ \E m \in destroy_members(members, bundles[b], hw) :
          /\ members' \in del_ports(m, Ports(b), hw)
          /\ pvid' \in del_ports_pvid(m, Ports(b), hw)
    /\ lags' \in lag_destroy(bundles[b], hw)
    /\ bundles' = [bundles EXCEPT ![b] = NULL]
    /\ owner' = [p \in Port |-> IF owner[p] = b THEN NULL ELSE owner[p]]
    /\ stale' = Doubted(b, Ports(b), hw)
    /\ UNCHANGED <<exist, l3_vlan, call>>

\* The port p leaves its bundle, which is destroyed if p was its only port.
LeaveBundle(p, hw) ==
    LET b == owner[p]
        last == Ports(b) = {p}
    IN  /\ pvid' \in del_ports_pvid(members, {p}, hw)
        /\ lags' \in IF last THEN lag_destroy(bundles[b], hw) ELSE {lags}
        /\ bundles' = IF last THEN [bundles EXCEPT ![b] = NULL] ELSE bundles
        /\ stale' = Doubted(b, {p}, hw)
LeaveMembers(p, hw) ==
    LET b == owner[p]
    IN  UNION {IF Ports(b) = {p} THEN destroy_members(m, bundles[b], hw) ELSE {m} :
                  m \in del_ports(members, {p}, hw)}

\* ofproto_xpliant_bundle_remove.  It does nothing if the hardware refuses the
\* frame type.
bundle_remove(p, hw) ==
    /\ call = NULL
    /\ owner[p] # NULL
    /\ Hw(hw)
    /\ LeaveBundle(p, hw)
    /\ members' \in LeaveMembers(p, hw)
    /\ owner' = [owner EXCEPT ![p] = NULL]
    /\ UNCHANGED <<exist, l3_vlan, call>>
-----------------------------------------------------------------------------
(* bundle_set *)

NewBundle == [vlan_mode |-> "ACCESS", vlan |-> NoVid, trunks |-> NULL,
              intfId |-> NULL, is_lag |-> FALSE]

\* The LAG of a bundle is created or removed in the hardware.  A LAG that is
\* removed keeps its VLANs, and one created for a bundle with trunks has none.
create_remove_hw_lag(old, s, hw) ==
    IF old.intfId = NULL /\ (s.hw_bond_should_exist \/ s.bond_handle_alloc_only)
    THEN {[bundle |-> [old EXCEPT !.intfId = g, !.is_lag = TRUE],
           lags |-> lags \union {g},
           stale |-> IF old.trunks = NULL THEN {} ELSE {g}] : g \in LagId \ lags}
    ELSE IF old.is_lag /\ ~s.hw_bond_should_exist
    THEN {[bundle |-> [old EXCEPT !.intfId = NULL, !.is_lag = FALSE],
           lags |-> l, stale |-> {old.intfId}] : l \in lag_destroy(old, hw)}
    ELSE {[bundle |-> old, lags |-> lags, stale |-> {}]}

\* ofproto_xpliant_bundle_set, up to the ports it adds: the bundle is looked up
\* or created, the LAG in the hardware seen to, and the ports that are not among
\* the slaves are given up.
bundle_set(b, s, hw) ==
    LET old == IF Live(b) THEN bundles[b] ELSE NewBundle
        extra == Ports(b) \ s.slaves
    IN  /\ call = NULL
        /\ Hw(hw)
        /\ \E r \in create_remove_hw_lag(old, s, hw) :
              /\ bundles' = [bundles EXCEPT ![b] = r.bundle]
              /\ lags' = r.lags
              /\ IF s.bond_handle_alloc_only
                 THEN /\ stale' = stale \union r.stale
                      /\ UNCHANGED <<members, pvid, owner, call>>
                 ELSE /\ stale' = stale \union r.stale \union (IF hw THEN {} ELSE extra)
                      /\ members' \in del_ports(members, extra, hw)
                      /\ pvid' \in del_ports_pvid(members, extra, hw)
                      /\ owner' = [p \in Port |-> IF p \in extra THEN NULL ELSE owner[p]]
                      /\ call' = [bundle |-> b, todo |-> s.slaves \ Ports(b),
                                  updated |-> extra # {}]
        /\ UNCHANGED <<exist, l3_vlan>>

\* The hardware refuses to create the LAG: bundle_set returns.
bundle_set_no_lag(b, s) ==
    LET old == IF Live(b) THEN bundles[b] ELSE NewBundle
    IN  /\ call = NULL
        /\ Hw(FALSE)
        /\ old.intfId = NULL /\ (s.hw_bond_should_exist \/ s.bond_handle_alloc_only)
        /\ bundles' = [bundles EXCEPT ![b] = old]
        /\ UNCHANGED <<exist, members, pvid, lags, owner, l3_vlan, call, stale>>

\* bundle_add_port: a port of another bundle leaves that one first.  The frame
\* type of that bundle is taken to be accepted.
bundle_add_port(p, hw) ==
    /\ call # NULL
    /\ p \in call.todo
    /\ Hw(hw)
    /\ IF owner[p] = NULL
       THEN /\ members' \in member_remove(members, DefaultVlan, p, hw)
            /\ stale' = IF hw THEN stale ELSE stale \union {p}
            /\ UNCHANGED <<pvid, lags, bundles>>
       ELSE /\ LeaveBundle(p, hw)
            /\ \E m \in LeaveMembers(p, hw) :
                  members' \in member_remove(m, DefaultVlan, p, hw)
    /\ owner' = [owner EXCEPT ![p] = call.bundle]
    /\ call' = [call EXCEPT !.todo = @ \ {p}, !.updated = TRUE]
    /\ UNCHANGED <<exist, l3_vlan>>

\* The rest of bundle_set, once the ports are right: a bundle without ports is
\* destroyed; a LAG gets its ports (bundle_set returns if their list cannot be
\* read); the interface of a single port is the port's; then the VLANs.
bundle_set_finish(s, hw) ==
    LET b == call.bundle
        old == bundles[b]
        cur == IF ~old.is_lag /\ b \in Single
               THEN [old EXCEPT !.intfId = b] ELSE old
        Destroy ==
            /\ members' \in destroy_members(members, old, hw)
            /\ lags' \in lag_destroy(old, hw)
            /\ bundles' = [bundles EXCEPT ![b] = NULL]
            /\ UNCHANGED pvid
        Configure ==
            /\ \E r \in update_vlan_config(cur, s, call.updated, Ports(b), hw) :
                  /\ bundles' = [bundles EXCEPT ![b] = r.bundle]
                  /\ members' = r.members
                  /\ pvid' = r.pvid
            /\ UNCHANGED lags
        NoConfig == UNCHANGED <<members, lags, bundles, pvid>>
    IN  /\ call # NULL
        /\ call.todo = {}
        /\ Hw(hw)
        /\ IF Ports(b) = {} THEN Destroy
           ELSE IF cur.intfId = NULL THEN NoConfig
           ELSE Configure \/ (old.is_lag /\ ~hw /\ NoConfig)
        /\ stale' = IF hw THEN stale
                    ELSE stale \union ({cur.intfId} \ {NULL}) \union Ports(b)
        /\ call' = NULL
        /\ UNCHANGED <<exist, owner, l3_vlan>>
-----------------------------------------------------------------------------
(* The L3 VLAN interface, a bundle of a VRF: bundle_update_l3_config *)

update_l3_config(vlan_id, enable) ==
    /\ call = NULL
    /\ \/ /\ enable /\ vlan_id \in exist
          /\ l3_vlan' = vlan_id
       \/ /\ enable => l3_vlan # vlan_id
          /\ l3_vlan' = NoVid
    /\ UNCHANGED <<exist, members, pvid, lags, bundles, owner, call, stale, faults>>
-----------------------------------------------------------------------------
Next ==
    \/ \E v \in Vlan, hw \in BOOLEAN : set_vlan_add(v, hw)
    \/ \E v \in Vlan, hw \in BOOLEAN : set_vlan_del(v, hw)
    \/ \E b \in Bundle, hw \in BOOLEAN : bundle_unset(b, hw)
    \/ \E p \in Port, hw \in BOOLEAN : bundle_remove(p, hw)
    \/ \E b \in Bundle, hw \in BOOLEAN : \E s \in Settings(b) : bundle_set(b, s, hw)
    \/ \E b \in Bundle : \E s \in Settings(b) : bundle_set_no_lag(b, s)
    \/ \E p \in Port, hw \in BOOLEAN : bundle_add_port(p, hw)
    \/ \E s \in VlanSettings, hw \in BOOLEAN : bundle_set_finish(s, hw)
    \/ \E v \in L3Vlans, enable \in BOOLEAN : update_l3_config(v, enable)

Spec == Init /\ [][Next]_vars
-----------------------------------------------------------------------------
(* Properties *)

\* The values the state variables take (struct xp_vlan, struct bundle_xpliant).
TypeOK ==
    /\ exist \subseteq Vlan
    /\ members \in [Vlan -> [Intf -> Encap]]
    /\ pvid \in [Port -> Vlan]
    /\ lags \subseteq LagId
    /\ bundles \in [Bundle -> BundleState \union {NULL}]
    /\ owner \in [Port -> Bundle \union {NULL}]
    /\ l3_vlan \in Vlan \union {NoVid}
    /\ call \in [bundle : Bundle, todo : SUBSET Port, updated : BOOLEAN] \union {NULL}
    /\ stale \subseteq Intf
    /\ faults \in 0..MaxFaults

\* The bundles bundle_set has configured and is not working on.
Configured == {b \in Bundle : /\ Live(b)
                              /\ bundles[b].trunks # NULL /\ bundles[b].intfId # NULL
                              /\ call = NULL \/ call.bundle # b}

\* The interface of b is a member of a VLAN exactly if that exists and is in the
\* trunks, and tagged or untagged as the mode says.
MemberAsConfigured(b, v) ==
    members[v][bundles[b].intfId] =
        IF v \in exist \intersect bundles[b].trunks THEN EncapOf(bundles[b], v) ELSE "none"

\* Membership follows from the configuration: whatever modes and trunks a bundle
\* has had, in whatever order VLANs and bundles came and went, set_vlan and the
\* differences that bundle_update_vlan_config applies leave its interface in the
\* VLANs it should be in, with the right tagging.  A call the hardware refuses
\* for one bundle does not harm another.
ConfigApplied ==
    \A b \in Configured : bundles[b].intfId \notin stale =>
        \A v \in Vlan : MemberAsConfigured(b, v)

\* The ports of a configured bundle, those that joined a LAG later too, classify
\* untagged frames into the VLAN of the bundle.
PvidAsConfigured ==
    \A b \in Configured : bundles[b].intfId \notin stale =>
        \A p \in Ports(b) \ stale : pvid[p] = bundles[b].vlan

\* A port that forwards as a part of a LAG is in no VLAN by itself: not in the
\* default one, which bundle_add_port removes it from, and not in those of the
\* bundle it left.
SlaveInNoVlan ==
    \A b \in Configured : \A p \in Ports(b) \ stale :
        p # bundles[b].intfId => \A v \in Vlan : members[v][p] = "none"

\* A VLAN with an L3 interface is not removed ("Remove VLAN only if no l3
\* interfaces are still using it", ofproto_xpliant_set_vlan).
L3VlanKept == l3_vlan # NoVid => l3_vlan \in exist

\* A port that has left its bundle is in the default VLAN ("As the port is no
\* longer member of any VLAN need to add it to the default one. This will allow
\* it to trap LACP frames in case it becomes member of a dynamic LAG.",
\* bundle_del_port).
FreePortInDefaultVlan ==
    \A p \in Port : owner[p] = NULL /\ faults = 0 =>
        members[DefaultVlan][p] = "UNTAGGED"

\* When bundle_set returns, the VLANs of the bundle's interface, a LAG's too, are
\* those of its configuration ("membership will be applied based on bundle
\* config", bundle_add_port), if the hardware has refused nothing.  The default
\* VLAN is left out: set_vlan's removal of it takes its members and keeps it.
MembershipApplied ==
    [][\A b \in Bundle :
          /\ call # NULL /\ call.bundle = b
          /\ call' = NULL /\ faults' = 0
          => (b \in Configured => \A v \in exist \ {DefaultVlan} :
                                      MemberAsConfigured(b, v))']_vars
=============================================================================
