--------------------------- MODULE VlanBundleInv ----------------------------
(***************************************************************************)
(* The operators and the actions of VlanBundle, one by one: the types they *)
(* keep, and what of the tables they leave alone.  Then the inductive      *)
(* invariant, which ties the VLANs of every port and LAG to the bundles    *)
(* and their configuration, and that the actions other than bundle_set     *)
(* keep it.                                                                *)
(***************************************************************************)
EXTENDS VlanBundle, TLAPS

Table == [Vlan -> [Intf -> Encap]]
CallRec == [bundle : Bundle, todo : SUBSET Port, updated : BOOLEAN]

\* NULL is not a record.
Constants == NULL \notin BundleState /\ NULL \notin CallRec

\* The tables m and m2 agree on all interfaces but those in S.
SameBut(m, m2, S) == \A v \in Vlan : \A j \in Intf \ S : m2[v][j] = m[v][j]

\* Names are names of one kind of thing.
LEMMA Names ==
    /\ Single \subseteq Port /\ Single \subseteq Bundle /\ Lag \subseteq Bundle
    /\ Port \subseteq Intf /\ LagId \subseteq Intf
    /\ \A b \in Bundle : b \in Single \/ b \in Lag
    /\ \A b \in Bundle : b \in Port => b \in Single
    /\ \A b \in Lag : b \notin Port
    /\ \A i \in Port : i \notin LagId
    /\ NULL \notin Port /\ NULL \notin Bundle /\ NULL \notin Intf /\ NULL \notin LagId
    /\ DefaultVlan \in Vlan
BY NamesAssumption, MaxVlanAssumption DEF Bundle, Intf, DefaultVlan, Vlan
-----------------------------------------------------------------------------
(* Operators on the table *)

\* m2 is m without the interface i in the VLANs vs.
Cleared(m, m2, vs, i) ==
    /\ m2 \in Table /\ SameBut(m, m2, {i})
    /\ \A v \in Vlan : m2[v][i] = IF v \in vs THEN "none" ELSE m[v][i]

\* Without clears the interface in the VLANs given and touches nothing else.
LEMMA WithoutFacts ==
    ASSUME NEW m \in Table, NEW vs, NEW i \in Intf
    PROVE  Cleared(m, Without(m, vs, i), vs, i)
<1> DEFINE m2 == Without(m, vs, i)
<1>1. \A v \in Vlan : m[v] \in [Intf -> Encap]
  BY DEF Table
<1>2. "none" \in Encap
  BY DEF Encap
<1>3. \A v \in Vlan : m2[v] = IF v \in vs THEN [m[v] EXCEPT ![i] = "none"] ELSE m[v]
  BY DEF Without
<1>4. \A v \in Vlan : m2[v] \in [Intf -> Encap]
  BY <1>1, <1>2, <1>3, Zenon
<1>5. m2 \in Table
  BY <1>4 DEF Table, Without
<1>6. \A v \in Vlan : m2[v][i] = IF v \in vs THEN "none" ELSE m[v][i]
  BY <1>1, <1>3, Zenon
<1>7. SameBut(m, m2, {i})
  BY <1>1, <1>3, Zenon DEF SameBut
<1> HIDE DEF m2
<1>8. Cleared(m, m2, vs, i)
  BY <1>5, <1>6, <1>7 DEF Cleared
<1> QED BY <1>8 DEF m2

\* ops_xp_vlan_member_remove touches one interface in one VLAN.
Removed(m, m2, w, i, hw) ==
    /\ m2 \in Table /\ SameBut(m, m2, {i})
    /\ hw => \A v \in Vlan : m2[v][i] = IF v = w THEN "none" ELSE m[v][i]

\* ops_xp_vlan_member_remove touches one interface in one VLAN.
LEMMA RemoveFacts ==
    ASSUME NEW m \in Table, NEW w \in Vlan, NEW i \in Intf, NEW hw \in BOOLEAN,
           NEW m2 \in member_remove(m, w, i, hw)
    PROVE  Removed(m, m2, w, i, hw)
<1>1. CASE m2 = Without(m, {w}, i)
  <2>1. Cleared(m, m2, {w}, i)
    BY <1>1, WithoutFacts
  <2> QED BY <2>1 DEF Cleared, Removed
<1>2. CASE ~hw /\ m2 = m
  BY <1>2 DEF SameBut, Removed
<1> QED BY <1>1, <1>2 DEF member_remove

\* bundle_destroy leaves the bundle's interface in no VLAN.
LEMMA DestroyFacts ==
    ASSUME NEW m \in Table, NEW b, b.intfId \in Intf \union {NULL}, NEW hw \in BOOLEAN,
           NEW m2 \in destroy_members(m, b, hw)
    PROVE  /\ m2 \in Table /\ SameBut(m, m2, {b.intfId})
           /\ hw /\ b.intfId # NULL => \A v \in Vlan : m2[v][b.intfId] = "none"
<1>1. CASE b.intfId = NULL
  BY <1>1 DEF destroy_members, SameBut
<1>2. CASE b.intfId # NULL /\ m2 = Without(m, Vlan, b.intfId)
  <2>1. Cleared(m, m2, Vlan, b.intfId)
    BY <1>2, WithoutFacts
  <2> QED BY <2>1 DEF Cleared
<1>3. CASE b.intfId # NULL /\ ~hw /\ \E v \in Vlan : m2 = Without(m, 1..(v - 1), b.intfId)
  <2>1. PICK v \in Vlan : m2 = Without(m, 1..(v - 1), b.intfId)
    BY <1>3
  <2>2. Cleared(m, m2, 1..(v - 1), b.intfId)
    BY <1>3, <2>1, WithoutFacts
  <2> QED BY <1>3, <2>2 DEF Cleared
<1> QED BY <1>1, <1>2, <1>3 DEF destroy_members, clear_all_membership

\* bundle_del_port touches the ports in the default VLAN.
LEMMA DelPortsFacts ==
    ASSUME NEW m \in Table, NEW ps \in SUBSET Port, NEW hw \in BOOLEAN,
           NEW m2 \in del_ports(m, ps, hw)
    PROVE  /\ m2 \in Table /\ SameBut(m, m2, ps)
           /\ \A v \in Vlan \ {DefaultVlan} : m2[v] = m[v]
<1>1. PICK d \in [ps -> Encap] :
         m2 = [m EXCEPT ![DefaultVlan] =
                  [i \in Intf |-> IF i \in ps THEN d[i] ELSE m[DefaultVlan][i]]]
  BY DEF del_ports
<1>2. PICK row : row = [i \in Intf |-> IF i \in ps THEN d[i] ELSE m[DefaultVlan][i]]
  BY Zenon
<1>3. m[DefaultVlan] \in [Intf -> Encap]
  BY Names DEF Table
<1>4. row \in [Intf -> Encap]
  BY <1>2, <1>3
<1>5. m2 = [m EXCEPT ![DefaultVlan] = row]
  BY <1>1, <1>2
<1>6. m2 \in Table /\ m2[DefaultVlan] = row /\ \A v \in Vlan \ {DefaultVlan} : m2[v] = m[v]
  BY <1>4, <1>5, Names DEF Table
<1>7. SameBut(m, m2, ps)
  BY <1>2, <1>6 DEF SameBut
<1> QED BY <1>6, <1>7

\* bundle_del_port touches the default VLAN of no other port.
LEMMA DelPortsPvidFacts ==
    ASSUME NEW m, NEW ps, NEW hw \in BOOLEAN, NEW f \in del_ports_pvid(m, ps, hw)
    PROVE  f \in [Port -> Vlan] /\ \A p \in Port \ ps : f[p] = pvid[p]
BY DEF del_ports_pvid

\* A LAG that goes, in the hardware.
LEMMA LagDestroyFacts ==
    ASSUME NEW b, NEW hw \in BOOLEAN, NEW l \in lag_destroy(b, hw)
    PROVE  /\ l = lags \/ (b.is_lag /\ l = lags \ {b.intfId})
           /\ hw /\ b.is_lag => l = lags \ {b.intfId}
BY DEF lag_destroy

\* The record of a bundle.
LEMMA BundleFacts ==
    ASSUME TypeOK, NEW b \in Bundle, Live(b)
    PROVE  /\ bundles[b] \in BundleState
           /\ bundles[b].intfId \in Intf \union {NULL} /\ bundles[b].is_lag \in BOOLEAN
           /\ bundles[b].trunks \in {NULL} \union SUBSET Vlan
           /\ bundles[b].vlan_mode \in Mode /\ bundles[b].vlan \in Vlan \union {NoVid}
<1>1. bundles[b] \in BundleState
  BY DEF TypeOK, Live
<1> QED BY <1>1 DEF BundleState
-----------------------------------------------------------------------------
(* bundle_update_vlan_config *)

\* The VLAN and the trunks that settings stand for are VLANs, and the trunks have the
\* VLAN in every mode but one.
LEMMA SettingsFacts ==
    ASSUME NEW s \in VlanSettings
    PROVE  /\ s.vlan_mode \in Mode /\ VlanOf(s) \in Vlan /\ TrunksOf(s) \in SUBSET Vlan
           /\ IF s.vlan_mode = "TRUNK" THEN VlanOf(s) = DefaultVlan ELSE VlanOf(s) \in TrunksOf(s)
<1>1. s.vlan_mode \in Mode /\ s.trunks \in SUBSET Vlan
  BY SettingsAssumption DEF Mode, Vlan
<1>2. VlanOf(s) \in Vlan
  BY Names DEF VlanOf
<1> QED BY <1>1, <1>2 DEF TrunksOf, VlanOf

\* A member of a VLAN is tagged or untagged.
LEMMA EncapType ==
    ASSUME NEW r, NEW v
    PROVE  EncapOf(r, v) \in Encap \ {"none"}
BY DEF EncapOf, Encap

\* Joined writes to one interface, in VLANs that exist.
JoinedTo(m, m2, r, i, diff, stop) ==
    /\ m2 \in Table /\ SameBut(m, m2, {i})
    /\ \A v \in Vlan : m2[v][i] =
          IF v \in diff \intersect exist /\ v < stop
          THEN IF v \notin r.trunks THEN "none"
               ELSE IF m[v][i] = "none" THEN EncapOf(r, v) ELSE m[v][i]
          ELSE m[v][i]

\* Joined writes the VLANs of the difference that exist, for one interface.
LEMMA JoinedFacts ==
    ASSUME NEW m \in Table, NEW r, r.intfId \in Intf, NEW diff, NEW stop
    PROVE  JoinedTo(m, Joined(m, r, diff, stop), r, r.intfId, diff, stop)
<1> DEFINE i == r.intfId
           m2 == Joined(m, r, diff, stop)
<1>1. \A v \in Vlan : m[v] \in [Intf -> Encap]
  BY DEF Table
<1> DEFINE e(v) == IF v \notin r.trunks THEN "none"
                   ELSE IF m[v][i] = "none" THEN EncapOf(r, v) ELSE m[v][i]
<1>2. \A v \in Vlan : e(v) \in Encap
  BY <1>1, EncapType DEF Encap
<1>3. \A v \in Vlan : m2[v] = IF v \in diff \intersect exist /\ v < stop
                              THEN [m[v] EXCEPT ![i] = e(v)] ELSE m[v]
  BY DEF Joined
<1>4. m2 = [v \in Vlan |-> m2[v]]
  BY DEF Joined
<1> HIDE DEF e, m2
<1>5. \A v \in Vlan : m2[v] \in [Intf -> Encap]
  BY <1>1, <1>2, <1>3, Zenon
<1>6. m2 \in Table
  BY <1>4, <1>5 DEF Table
<1>7. SameBut(m, m2, {i})
  BY <1>1, <1>3, Zenon DEF SameBut
<1>8. \A v \in Vlan : m2[v][i] = IF v \in diff \intersect exist /\ v < stop
                                 THEN e(v) ELSE m[v][i]
  BY <1>1, <1>3, Zenon
<1>9. JoinedTo(m, m2, r, i, diff, stop)
  BY <1>6, <1>7, <1>8 DEF e, JoinedTo
<1> QED BY <1>9 DEF m2

\* What bundle_update_vlan_config leaves alone, whatever the hardware refuses: it writes
\* to the bundle's interface and to the PVID of the bundle's ports.
UpdateFrame(b, ps, r) ==
    /\ r.bundle \in BundleState /\ r.bundle.trunks # NULL
    /\ r.bundle.intfId = b.intfId /\ r.bundle.is_lag = b.is_lag
    /\ r.members \in Table /\ SameBut(members, r.members, {b.intfId})
    /\ r.pvid \in [Port -> Vlan] /\ \A p \in Port \ ps : r.pvid[p] = pvid[p]

\* Whatever call is refused, bundle_update_vlan_config touches the VLANs of one interface
\* and the default VLANs of the ports of the bundle.
LEMMA UpdateFrameFacts ==
    ASSUME TypeOK, NEW b \in BundleState, b.intfId \in Intf, NEW s \in VlanSettings,
           NEW updated, NEW ps \in SUBSET Port, NEW hw \in BOOLEAN,
           NEW r \in update_vlan_config(b, s, updated, ps, hw)
    PROVE  UpdateFrame(b, ps, r)
<1> DEFINE i == b.intfId
           re == Retagged(b, s)
           kept == IF b.trunks = NULL THEN {} ELSE b.trunks \ re
           new == [b EXCEPT !.vlan_mode = s.vlan_mode, !.vlan = VlanOf(s),
                            !.trunks = TrunksOf(s)]
           diff == (new.trunks \ kept) \union (kept \ new.trunks)
           given == Without(members, re \intersect exist, i)
           Left(t, m, pv) == [bundle |-> [new EXCEPT !.trunks = t], members |-> m, pvid |-> pv]
<1>1. new \in BundleState /\ new.intfId = i /\ new.is_lag = b.is_lag /\ new.trunks = TrunksOf(s)
      /\ new.vlan = VlanOf(s)
  BY SettingsFacts, Zenon DEF BundleState
<1>2. members \in Table /\ pvid \in [Port -> Vlan]
  BY DEF TypeOK, Table
<1>3. given \in Table /\ SameBut(members, given, {i})
  BY <1>2, WithoutFacts DEF Cleared
<1>4. \A t \in SUBSET Vlan, m \in Table, pv \in [Port -> Vlan] :
         SameBut(members, m, {i}) /\ (\A p \in Port \ ps : pv[p] = pvid[p])
            => UpdateFrame(b, ps, Left(t, m, pv))
  <2> SUFFICES ASSUME NEW t \in SUBSET Vlan, NEW m \in Table, NEW pv \in [Port -> Vlan],
                      SameBut(members, m, {i}), \A p \in Port \ ps : pv[p] = pvid[p]
               PROVE  UpdateFrame(b, ps, Left(t, m, pv))
    BY Zenon
  <2> HIDE DEF new
  <2>1. PICK n : n = [new EXCEPT !.trunks = t]
    BY Zenon
  <2>2. n \in BundleState /\ n.intfId = i /\ n.is_lag = b.is_lag /\ n.trunks = t
    BY <1>1, <2>1 DEF BundleState
  <2>3. t # NULL
    BY NamesAssumption DEF Vlan
  <2> QED BY <2>1, <2>2, <2>3, Zenon DEF UpdateFrame
<1>5. \A set \in SUBSET ps :
         LET pv == [p \in Port |-> IF p \in set THEN new.vlan ELSE pvid[p]]
         IN  pv \in [Port -> Vlan] /\ \A p \in Port \ ps : pv[p] = pvid[p]
  <2> HIDE DEF new
  <2> QED BY <1>1, <1>2, SettingsFacts
<1>6. \A stop : Joined(given, new, diff, stop) \in Table
                /\ SameBut(members, Joined(given, new, diff, stop), {i})
  <2> HIDE DEF new, diff, given
  <2> SUFFICES ASSUME NEW stop
               PROVE  Joined(given, new, diff, stop) \in Table
                      /\ SameBut(members, Joined(given, new, diff, stop), {i})
    OBVIOUS
  <2>1. PICK m2 : m2 = Joined(given, new, diff, stop)
    OBVIOUS
  <2>2. m2 \in Table /\ SameBut(given, m2, {i})
    BY <1>1, <1>3, <2>1, JoinedFacts, Zenon DEF JoinedTo
  <2> QED BY <1>3, <2>1, <2>2 DEF SameBut
<1>7. TrunksOf(s) \in SUBSET Vlan
  BY SettingsFacts
<1>8. \/ r = Left(new.trunks, Joined(given, new, diff, MaxVlan + 1),
                  [p \in Port |-> IF p \in ps THEN new.vlan ELSE pvid[p]])
      \/ r = Left(new.trunks, given, pvid)
      \/ \E v \in re : \E q :
            /\ b.trunks # NULL
            /\ r = Left(b.trunks \ q, Without(members, (q \ {v}) \intersect exist, i), pvid)
      \/ \E set \in SUBSET ps :
            r = Left(new.trunks, given, [p \in Port |-> IF p \in set THEN new.vlan ELSE pvid[p]])
      \/ \E v : r = Left(new.trunks, Joined(given, new, diff, v),
                         [p \in Port |-> IF p \in ps THEN new.vlan ELSE pvid[p]])
  BY Zenon DEF update_vlan_config, Retagged
<1> HIDE DEF new, diff, given, kept, re, Left
<1>9. CASE r = Left(new.trunks, given, pvid)
  BY <1>1, <1>2, <1>3, <1>4, <1>7, <1>9
<1>10. CASE \E v \in re : \E q : /\ b.trunks # NULL
                             /\ r = Left(b.trunks \ q,
                                         Without(members, (q \ {v}) \intersect exist, i), pvid)
  <2>1. PICK v, q : /\ b.trunks # NULL
                    /\ r = Left(b.trunks \ q,
                                Without(members, (q \ {v}) \intersect exist, i), pvid)
    BY <1>10, Zenon
  <2>2. PICK m : m = Without(members, (q \ {v}) \intersect exist, i)
    OBVIOUS
  <2>3. m \in Table /\ SameBut(members, m, {i})
    BY <1>2, <2>2, WithoutFacts DEF Cleared
  <2>4. b.trunks \ q \in SUBSET Vlan
    BY <2>1 DEF BundleState
  <2> QED BY <1>2, <1>4, <2>1, <2>2, <2>3, <2>4
<1>11. CASE \E set \in SUBSET ps :
            r = Left(new.trunks, given, [p \in Port |-> IF p \in set THEN new.vlan ELSE pvid[p]])
  <2>1. PICK set \in SUBSET ps :
            r = Left(new.trunks, given, [p \in Port |-> IF p \in set THEN new.vlan ELSE pvid[p]])
    BY <1>11, Zenon
  <2> HIDE DEF new, given, Left
  <2>2. PICK f : f = [p \in Port |-> IF p \in set THEN new.vlan ELSE pvid[p]]
    BY Zenon
  <2>3. f \in [Port -> Vlan] /\ \A p \in Port \ ps : f[p] = pvid[p]
    BY <1>5, <2>2
  <2>4. r = Left(TrunksOf(s), given, f)
    BY <1>1, <2>1, <2>2
  <2>5. UpdateFrame(b, ps, Left(TrunksOf(s), given, f))
    BY <1>3, <1>4, <1>7, <2>3
  <2> QED BY <2>4, <2>5
<1>12. CASE \E v : r = Left(new.trunks, Joined(given, new, diff, v),
                         [p \in Port |-> IF p \in ps THEN new.vlan ELSE pvid[p]])
  BY <1>1, <1>4, <1>5, <1>6, <1>7, <1>12
<1>13. CASE r = Left(new.trunks, Joined(given, new, diff, MaxVlan + 1),
                     [p \in Port |-> IF p \in ps THEN new.vlan ELSE pvid[p]])
  BY <1>12, <1>13
<1> QED BY <1>8, <1>9, <1>10, <1>11, <1>12, <1>13, Zenon

\* The memberships that the interface i of a bundle r should have: none before r has
\* trunks.
TrunkSet(r) == IF r.trunks = NULL THEN {} ELSE r.trunks
Wanted(r, v) == IF v \in exist \intersect TrunkSet(r) THEN EncapOf(r, v) ELSE "none"

\* The VLAN of a bundle with trunks, as bundle_update_vlan_config leaves it.
Coherent(r) == /\ r.vlan # NoVid
               /\ IF r.vlan_mode = "TRUNK" THEN r.vlan = DefaultVlan ELSE r.vlan \in r.trunks

\* bundle_update_vlan_config when the hardware refuses nothing.  The difference of the
\* trunks, with the VLANs that are given up because the tagging changes, is all that has
\* to be written, and if it is empty the VLAN of untagged frames has not changed.
UpdateDone(b, s, updated, ps, r) ==
    /\ r.bundle.vlan_mode = s.vlan_mode /\ r.bundle.vlan = VlanOf(s)
    /\ r.bundle.trunks = TrunksOf(s)
    /\ (\A v \in Vlan : members[v][b.intfId] = Wanted(b, v)) =>
          \A v \in Vlan : r.members[v][b.intfId] = Wanted(r.bundle, v)
    /\ \/ \A p \in ps : r.pvid[p] = VlanOf(s)
       \/ /\ r.pvid = pvid /\ b.trunks # NULL /\ ~(b.is_lag /\ updated)
          /\ Coherent(b) => b.vlan = VlanOf(s)

\* Writing only the difference of the trunks is enough: an interface that had the VLANs of
\* the old configuration has those of the new one.
LEMMA UpdateDoneFacts ==
    ASSUME TypeOK, NEW b \in BundleState, b.intfId \in Intf, NEW s \in VlanSettings,
           NEW updated, NEW ps \in SUBSET Port, b.trunks # NULL => Coherent(b),
           NEW r \in update_vlan_config(b, s, updated, ps, TRUE)
    PROVE  UpdateDone(b, s, updated, ps, r)
<1> DEFINE i == b.intfId
           re == Retagged(b, s)
           kept == IF b.trunks = NULL THEN {} ELSE b.trunks \ re
           new == [b EXCEPT !.vlan_mode = s.vlan_mode, !.vlan = VlanOf(s),
                            !.trunks = TrunksOf(s)]
           diff == (new.trunks \ kept) \union (kept \ new.trunks)
           given == Without(members, re \intersect exist, i)
           pvids == [p \in Port |-> IF p \in ps THEN new.vlan ELSE pvid[p]]
<1>1. new \in BundleState /\ new.intfId = i /\ new.trunks = TrunksOf(s)
      /\ new.vlan = VlanOf(s) /\ new.vlan_mode = s.vlan_mode
  BY SettingsFacts, Zenon DEF BundleState
<1>2. members \in Table
  BY DEF TypeOK, Table
<1>3. Cleared(members, given, re \intersect exist, i)
  BY <1>2, WithoutFacts
<1>4. [new EXCEPT !.trunks = new.trunks] = new
  <2> HIDE DEF new
  <2> QED BY <1>1 DEF BundleState
<1>5. IF Applies(b, diff, updated)
      THEN r = [bundle |-> new, members |-> Joined(given, new, diff, MaxVlan + 1),
                pvid |-> pvids]
      ELSE r = [bundle |-> new, members |-> given, pvid |-> pvid]
  BY <1>4 DEF update_vlan_config
<1> HIDE DEF new
<1>6. r.bundle = new
  BY <1>5
\* Which VLANs are given up and joined again.
<1>7. b.trunks = NULL => re = {} /\ kept = {}
  BY DEF Retagged
<1>8. b.trunks # NULL => b.vlan \in Vlan \ {NoVid}
  BY DEF Coherent, BundleState
<1>9. b.trunks # NULL /\ (b.vlan # VlanOf(s) \/ b.vlan_mode # s.vlan_mode) =>
         re = ({VlanOf(s)} \intersect b.trunks) \union ({b.vlan} \intersect TrunksOf(s))
  BY <1>8 DEF Retagged
<1>10. b.trunks # NULL /\ b.vlan = VlanOf(s) /\ b.vlan_mode = s.vlan_mode => re = {}
  BY <1>8 DEF Retagged
<1> HIDE DEF re
<1>11. b.trunks # NULL => \A v \in (b.trunks \intersect TrunksOf(s)) \ re :
                             EncapOf(b, v) = EncapOf(new, v)
  BY <1>1, <1>9, <1>10 DEF EncapOf
<1>12. b.trunks # NULL /\ b.vlan # VlanOf(s) => diff # {}
  <2> SUFFICES ASSUME b.trunks # NULL, b.vlan # VlanOf(s)
               PROVE  diff # {}
    OBVIOUS
  <2>1. re = ({VlanOf(s)} \intersect b.trunks) \union ({b.vlan} \intersect TrunksOf(s))
    BY <1>9
  <2>2. CASE b.vlan_mode = "TRUNK"
    <3>1. VlanOf(s) \in TrunksOf(s)
      BY <2>2, SettingsFacts DEF Coherent
    <3>2. VlanOf(s) \in new.trunks \ kept
      BY <1>1, <2>1, <3>1
    <3> QED BY <3>2
  <2>3. CASE b.vlan_mode # "TRUNK"
    <3>1. b.vlan \in b.trunks
      BY <2>3 DEF Coherent
    <3>2. CASE b.vlan \in TrunksOf(s)
      <4>1. b.vlan \in new.trunks \ kept
        BY <1>1, <2>1, <3>2
      <4> QED BY <4>1
    <3>3. CASE b.vlan \notin TrunksOf(s)
      <4>1. b.vlan \in kept \ new.trunks
        BY <1>1, <2>1, <3>1, <3>3
      <4> QED BY <4>1
    <3> QED BY <3>2, <3>3
  <2> QED BY <2>2, <2>3
<1>13. \/ \A p \in ps : r.pvid[p] = VlanOf(s)
       \/ /\ r.pvid = pvid /\ b.trunks # NULL /\ ~(b.is_lag /\ updated)
          /\ Coherent(b) => b.vlan = VlanOf(s)
  <2>1. CASE Applies(b, diff, updated)
    <3>1. r.pvid = pvids
      BY <1>5, <2>1
    <3> QED BY <1>1, <3>1
  <2>2. CASE ~Applies(b, diff, updated)
    <3>1. r.pvid = pvid
      BY <1>5, <2>2
    <3> QED BY <1>12, <2>2, <3>1 DEF Applies
  <2> QED BY <2>1, <2>2
<1>14. ASSUME \A v \in Vlan : members[v][i] = Wanted(b, v), NEW v \in Vlan
       PROVE  r.members[v][i] = Wanted(new, v)
  <2>1. TrunkSet(new) = TrunksOf(s)
    <3>1. new.trunks # NULL
      BY <1>1, SettingsFacts, NamesAssumption DEF Vlan
    <3> QED BY <1>1, <3>1 DEF TrunkSet
  <2>2. Wanted(new, v) = IF v \in exist /\ v \in TrunksOf(s) THEN EncapOf(new, v) ELSE "none"
    BY <2>1 DEF Wanted
  <2>3. given[v][i] = IF v \in re /\ v \in exist THEN "none" ELSE Wanted(b, v)
    BY <1>3, <1>14 DEF Cleared
  <2>4. Wanted(b, v) = IF v \in exist /\ b.trunks # NULL /\ v \in b.trunks
                       THEN EncapOf(b, v) ELSE "none"
    BY DEF Wanted, TrunkSet
  <2>5. given[v][i] = IF v \in exist /\ v \in kept THEN EncapOf(b, v) ELSE "none"
    BY <2>3, <2>4
  <2>6. v \in exist /\ v \in kept /\ v \in TrunksOf(s) => EncapOf(b, v) = EncapOf(new, v)
    BY <1>11
  <2>7. v \notin diff => (v \in kept <=> v \in TrunksOf(s))
    BY <1>1
  <2>8. v \in diff => (v \in kept <=> v \notin TrunksOf(s))
    BY <1>1
  <2> HIDE DEF kept, diff
  <2>9. CASE Applies(b, diff, updated)
    <3>1. given \in Table
      BY <1>3 DEF Cleared
    <3>2. PICK m2 : m2 = Joined(given, new, diff, MaxVlan + 1)
      OBVIOUS
    <3>3. m2[v][i] = IF v \in diff \intersect exist /\ v < MaxVlan + 1
                     THEN IF v \notin new.trunks THEN "none"
                          ELSE IF given[v][i] = "none" THEN EncapOf(new, v) ELSE given[v][i]
                     ELSE given[v][i]
      <4>1. JoinedTo(given, m2, new, i, diff, MaxVlan + 1)
        BY <1>1, <3>1, <3>2, JoinedFacts
      <4> QED BY <4>1 DEF JoinedTo
    <3>4. v < MaxVlan + 1
      BY MaxVlanAssumption DEF Vlan
    <3>5. r.members = m2
      BY <1>5, <2>9, <3>2
    <3> QED BY <1>1, <2>2, <2>5, <2>6, <2>7, <2>8, <3>3, <3>4, <3>5
  <2>10. CASE ~Applies(b, diff, updated)
    <3>1. r.members = given /\ v \notin diff
      BY <1>5, <2>10 DEF Applies
    <3> QED BY <2>2, <2>5, <2>6, <2>7, <3>1
  <2> QED BY <2>9, <2>10
<1> QED BY <1>1, <1>6, <1>13, <1>14 DEF UpdateDone
-----------------------------------------------------------------------------
(* Types *)

\* The bound on the steps with a refused call is kept.
LEMMA HwType ==
    ASSUME TypeOK, NEW hw \in BOOLEAN, Hw(hw)
    PROVE  faults' \in 0..MaxFaults
BY MaxFaultsAssumption DEF TypeOK, Hw

\* The users of a VLAN are bundles, and their interfaces are interfaces.
LEMMA UsersFacts ==
    ASSUME TypeOK, NEW v, NEW bs \in SUBSET Users(v)
    PROVE  IntfOf(bs) \in SUBSET Intf /\ \A b \in bs : b \in Bundle /\ Live(b)
<1>1. \A b \in bs : b \in Bundle /\ Live(b)
  BY DEF Users
<1>2. \A b \in bs : bundles[b].intfId \in Intf \union {NULL}
  BY <1>1, BundleFacts
<1> QED BY <1>1, <1>2 DEF IntfOf

\* set_vlan keeps the types when it adds a VLAN.
LEMMA SetVlanAddType ==
    ASSUME TypeOK, NEW vid \in Vlan, NEW hw \in BOOLEAN, set_vlan_add(vid, hw)
    PROVE  TypeOK'
<1>1. faults' \in 0..MaxFaults
  BY HwType DEF set_vlan_add
<1>2. exist' \subseteq Vlan
  BY DEF set_vlan_add, TypeOK
<1>3. PICK bs \in SUBSET Users(vid) :
         /\ members' = [members EXCEPT ![vid] = [i \in Intf |->
                 IF @[i] = "none" /\ \E b \in bs : bundles[b].intfId = i
                 THEN EncapOf(CHOOSE c \in {bundles[b] : b \in bs} : c.intfId = i, vid)
                 ELSE @[i]]]
         /\ stale' = stale \union IntfOf(Users(vid) \ bs)
  BY Zenon DEF set_vlan_add
<1>4. PICK row : row = [i \in Intf |->
                 IF members[vid][i] = "none" /\ \E b \in bs : bundles[b].intfId = i
                 THEN EncapOf(CHOOSE c \in {bundles[b] : b \in bs} : c.intfId = i, vid)
                 ELSE members[vid][i]]
  BY Zenon
<1>5. members[vid] \in [Intf -> Encap]
  BY DEF TypeOK
<1>6. row \in [Intf -> Encap]
  <2>1. \A i \in Intf : row[i] \in Encap
    BY <1>4, <1>5, EncapType
  <2> QED BY <1>4, <2>1
<1>7. members' = [members EXCEPT ![vid] = row]
  BY <1>3, <1>4
<1>8. members' \in [Vlan -> [Intf -> Encap]]
  BY <1>6, <1>7 DEF TypeOK
<1>9. stale' \subseteq Intf
  <2>1. Users(vid) \ bs \in SUBSET Users(vid)
    OBVIOUS
  <2> QED BY <1>3, <2>1, UsersFacts, Zenon DEF TypeOK
<1> QED BY <1>1, <1>2, <1>8, <1>9, Zenon DEF TypeOK, set_vlan_add

\* set_vlan keeps the types when it removes a VLAN.
LEMMA SetVlanDelType ==
    ASSUME TypeOK, NEW vid \in Vlan, NEW hw \in BOOLEAN, set_vlan_del(vid, hw)
    PROVE  TypeOK'
<1>1. faults' \in 0..MaxFaults
  BY HwType DEF set_vlan_del
<1>2. exist' \subseteq Vlan
  BY DEF set_vlan_del, TypeOK
<1>3. PICK bs \in SUBSET Users(vid) :
         /\ members' = [members EXCEPT ![vid] = [i \in Intf |->
                            IF i \in IntfOf(bs) THEN "none" ELSE @[i]]]
         /\ stale' = IF vid \in exist' THEN stale \union IntfOf(Users(vid)) ELSE stale
  BY DEF set_vlan_del
<1>4. PICK row : row = [i \in Intf |-> IF i \in IntfOf(bs) THEN "none" ELSE members[vid][i]]
  BY Zenon
<1>5. row \in [Intf -> Encap]
  BY <1>4 DEF TypeOK, Encap
<1>6. members' = [members EXCEPT ![vid] = row]
  BY <1>3, <1>4
<1>7. members' \in [Vlan -> [Intf -> Encap]]
  BY <1>5, <1>6 DEF TypeOK
<1>8. stale' \subseteq Intf
  <2>1. IntfOf(Users(vid)) \in SUBSET Intf
    BY UsersFacts
  <2> QED BY <1>3, <2>1 DEF TypeOK
<1> QED BY <1>1, <1>2, <1>7, <1>8 DEF TypeOK, set_vlan_del

\* A step with a refused call makes the interfaces it touches stale.
LEMMA DoubtedFacts ==
    ASSUME TypeOK, NEW b \in Bundle, Live(b), NEW ps \in SUBSET Port, NEW hw \in BOOLEAN
    PROVE  /\ Doubted(b, ps, hw) \in SUBSET Intf /\ stale \subseteq Doubted(b, ps, hw)
           /\ hw => Doubted(b, ps, hw) = stale
           /\ ~hw => /\ ps \subseteq Doubted(b, ps, hw)
                     /\ bundles[b].intfId # NULL => bundles[b].intfId \in Doubted(b, ps, hw)
<1>1. bundles[b].intfId \in Intf \union {NULL}
  BY BundleFacts
<1> QED BY <1>1, Names DEF Doubted, TypeOK

\* bundle_unset: the membership of the bundle's interface, then that of its ports.
UnsetMembers(b, hw) ==
    \E m \in destroy_members(members, bundles[b], hw) :
          /\ members' \in del_ports(m, Ports(b), hw)
          /\ pvid' \in del_ports_pvid(m, Ports(b), hw)
Unset(b, hw) ==
    /\ members' \in Table /\ SameBut(members, members', Ports(b) \union {bundles[b].intfId})
    /\ \A p \in Ports(b) : \A v \in Vlan \ {DefaultVlan} :
          p # bundles[b].intfId => members'[v][p] = members[v][p]
    /\ hw /\ bundles[b].intfId # NULL => \A v \in Vlan :
          v # DefaultVlan \/ bundles[b].intfId \notin Port => members'[v][bundles[b].intfId] = "none"
    /\ pvid' \in [Port -> Vlan] /\ \A p \in Port \ Ports(b) : pvid'[p] = pvid[p]

\* What bundle_destroy, with its calls of bundle_del_port, can leave in the tables.
LEMMA UnsetFacts ==
    ASSUME TypeOK, NEW b \in Bundle, Live(b), NEW hw \in BOOLEAN, UnsetMembers(b, hw)
    PROVE  Unset(b, hw)
<1>1. PICK m \in destroy_members(members, bundles[b], hw) :
          /\ members' \in del_ports(m, Ports(b), hw)
          /\ pvid' \in del_ports_pvid(m, Ports(b), hw)
  BY DEF UnsetMembers
<1>2. PICK i \in Intf \union {NULL} : i = bundles[b].intfId
  BY BundleFacts
<1>3. /\ m \in Table /\ SameBut(members, m, {i})
      /\ hw /\ i # NULL => \A v \in Vlan : m[v][i] = "none"
  <2>1. members \in Table /\ bundles[b].intfId \in Intf \union {NULL}
    BY <1>2 DEF TypeOK, Table
  <2>2. /\ m \in Table /\ SameBut(members, m, {bundles[b].intfId})
        /\ hw /\ bundles[b].intfId # NULL => \A v \in Vlan : m[v][bundles[b].intfId] = "none"
    BY <2>1, DestroyFacts, Zenon
  <2> QED BY <1>2, <2>2
<1>4. Ports(b) \in SUBSET Port
  BY DEF Ports
<1>5. /\ members' \in Table /\ SameBut(m, members', Ports(b))
      /\ \A v \in Vlan \ {DefaultVlan} : members'[v] = m[v]
  BY <1>1, <1>3, <1>4, DelPortsFacts, Zenon
<1>6. pvid' \in [Port -> Vlan] /\ \A p \in Port \ Ports(b) : pvid'[p] = pvid[p]
  BY <1>1, DelPortsPvidFacts
<1>7. SameBut(members, members', Ports(b) \union {i})
  BY <1>3, <1>5 DEF SameBut
<1>8. \A p \in Ports(b) : \A v \in Vlan \ {DefaultVlan} : p # i => members'[v][p] = members[v][p]
  BY <1>3, <1>4, <1>5, Names DEF SameBut
<1>9. hw /\ i # NULL => \A v \in Vlan :
         v # DefaultVlan \/ i \notin Port => members'[v][i] = "none"
  BY <1>2, <1>3, <1>4, <1>5 DEF SameBut
<1> QED BY <1>2, <1>5, <1>6, <1>7, <1>8, <1>9 DEF Unset

\* bundle_set without settings keeps the types.
LEMMA BundleUnsetType ==
    ASSUME TypeOK, NEW b \in Bundle, NEW hw \in BOOLEAN, bundle_unset(b, hw)
    PROVE  TypeOK' /\ Unset(b, hw)
<1>1. Live(b) /\ faults' \in 0..MaxFaults
  BY HwType DEF bundle_unset
<1>2. Unset(b, hw)
  BY <1>1, UnsetFacts DEF bundle_unset, UnsetMembers
<1>3. stale' \subseteq Intf
  <2>1. Ports(b) \in SUBSET Port
    BY DEF Ports
  <2> QED BY <1>1, <2>1, DoubtedFacts DEF bundle_unset
<1>4. lags' \subseteq LagId
  BY LagDestroyFacts DEF bundle_unset, TypeOK
<1>5. bundles' \in [Bundle -> BundleState \union {NULL}]
  BY DEF bundle_unset, TypeOK
<1>6. owner' \in [Port -> Bundle \union {NULL}]
  BY DEF bundle_unset, TypeOK
<1>7. members' \in [Vlan -> [Intf -> Encap]] /\ pvid' \in [Port -> Vlan]
  BY <1>2 DEF Unset, Table
<1> QED BY <1>1, <1>2, <1>3, <1>4, <1>5, <1>6, <1>7 DEF TypeOK, bundle_unset

\* A port p that leaves its bundle b, with its interface i if it was the last port.
Leaves(p, b, i, m2, hw) ==
    /\ m2 \in Table /\ SameBut(members, m2, {p} \union (IF Ports(b) = {p} THEN {i} ELSE {}))
    /\ ~(Ports(b) = {p} /\ i = p) => \A v \in Vlan \ {DefaultVlan} : m2[v][p] = members[v][p]
    /\ hw /\ Ports(b) = {p} /\ i # NULL => \A v \in Vlan : m2[v][i] = "none"

\* What the departure of a port can leave in the table of members.
LEMMA LeavesFacts ==
    ASSUME TypeOK, NEW p \in Port, NEW b \in Bundle, b = owner[p], Live(b), NEW hw \in BOOLEAN,
           NEW m2 \in LeaveMembers(p, hw)
    PROVE  Leaves(p, b, bundles[b].intfId, m2, hw)
<1>1. PICK i \in Intf \union {NULL} : i = bundles[b].intfId
  BY BundleFacts
<1>2. PICK m \in del_ports(members, {p}, hw) :
         m2 \in IF Ports(b) = {p} THEN destroy_members(m, bundles[b], hw) ELSE {m}
  BY DEF LeaveMembers
<1>3. members \in Table
  BY DEF TypeOK, Table
<1>4. /\ m \in Table /\ SameBut(members, m, {p})
      /\ \A v \in Vlan \ {DefaultVlan} : m[v] = members[v]
  BY <1>3, DelPortsFacts
<1>5. CASE Ports(b) # {p}
  BY <1>1, <1>2, <1>4, <1>5 DEF Leaves
<1>6. CASE Ports(b) = {p}
  <2>1. /\ m2 \in Table /\ SameBut(m, m2, {i})
        /\ hw /\ i # NULL => \A v \in Vlan : m2[v][i] = "none"
    BY <1>1, <1>2, <1>4, <1>6, DestroyFacts, Zenon
  <2>2. SameBut(members, m2, {p, i})
    BY <1>4, <2>1 DEF SameBut
  <2>3. i # p => \A v \in Vlan \ {DefaultVlan} : m2[v][p] = members[v][p]
    BY <1>4, <2>1, Names DEF SameBut
  <2>4. {p} \union {i} = {p, i}
    OBVIOUS
  <2> QED BY <1>1, <1>6, <2>1, <2>2, <2>3, <2>4 DEF Leaves
<1> QED BY <1>5, <1>6

\* The departure of a port keeps the types of all else.
LEMMA LeaveBundleType ==
    ASSUME TypeOK, NEW p \in Port, NEW b \in Bundle, b = owner[p], Live(b), NEW hw \in BOOLEAN,
           LeaveBundle(p, hw)
    PROVE  /\ pvid' \in [Port -> Vlan] /\ \A q \in Port \ {p} : pvid'[q] = pvid[q]
           /\ lags' \subseteq LagId /\ stale' \subseteq Intf
           /\ bundles' \in [Bundle -> BundleState \union {NULL}]
<1>1. pvid' \in [Port -> Vlan] /\ \A q \in Port \ {p} : pvid'[q] = pvid[q]
  BY DelPortsPvidFacts DEF LeaveBundle
<1>2. lags' \subseteq LagId
  BY LagDestroyFacts DEF LeaveBundle, TypeOK
<1>3. stale' \subseteq Intf
  BY DoubtedFacts DEF LeaveBundle
<1>4. bundles' \in [Bundle -> BundleState \union {NULL}]
  BY DEF LeaveBundle, TypeOK
<1> QED BY <1>1, <1>2, <1>3, <1>4

\* bundle_remove keeps the types.
LEMMA BundleRemoveType ==
    ASSUME TypeOK, NEW p \in Port, NEW b \in Bundle, b = owner[p], Live(b), NEW hw \in BOOLEAN,
           bundle_remove(p, hw)
    PROVE  TypeOK'
<1>1. faults' \in 0..MaxFaults
  BY HwType DEF bundle_remove
<1>2. /\ pvid' \in [Port -> Vlan] /\ lags' \subseteq LagId /\ stale' \subseteq Intf
      /\ bundles' \in [Bundle -> BundleState \union {NULL}]
  BY LeaveBundleType DEF bundle_remove
<1>3. members' \in [Vlan -> [Intf -> Encap]]
  BY LeavesFacts, Zenon DEF bundle_remove, Leaves, Table
<1>4. owner' \in [Port -> Bundle \union {NULL}]
  BY DEF bundle_remove, TypeOK
<1> QED BY <1>1, <1>2, <1>3, <1>4 DEF TypeOK, bundle_remove

\* bundle_add_port: the port has left its bundle, if it had one, and the default VLAN.
Added(p, hw) ==
    /\ members' \in Table
    /\ IF owner[p] = NULL
       THEN /\ Removed(members, members', DefaultVlan, p, hw)
            /\ stale' = IF hw THEN stale ELSE stale \union {p}
            /\ UNCHANGED <<pvid, lags, bundles>>
       ELSE /\ LeaveBundle(p, hw)
            /\ \E m \in LeaveMembers(p, hw) : Removed(m, members', DefaultVlan, p, hw)

\* bundle_add_port keeps the types.
LEMMA BundleAddPortType ==
    ASSUME Constants, TypeOK, NEW p \in Port, owner[p] # NULL => Live(owner[p]),
           NEW hw \in BOOLEAN, bundle_add_port(p, hw)
    PROVE  TypeOK' /\ Added(p, hw)
<1>1. faults' \in 0..MaxFaults
  BY HwType DEF bundle_add_port
<1>2. call \in CallRec
  BY DEF TypeOK, CallRec, bundle_add_port
<1>3. owner' \in [Port -> Bundle \union {NULL}]
  BY <1>2 DEF bundle_add_port, TypeOK, CallRec
<1>4. call' \in CallRec
  BY <1>2, Zenon DEF bundle_add_port, CallRec
<1>5. members \in Table /\ p \in Intf /\ DefaultVlan \in Vlan
  BY Names DEF TypeOK, Table
<1>6. CASE owner[p] = NULL
  <2>1. Removed(members, members', DefaultVlan, p, hw)
    <3>1. members' \in member_remove(members, DefaultVlan, p, hw)
      BY <1>6 DEF bundle_add_port
    <3> QED BY <1>5, <3>1, RemoveFacts
  <2>2. members' \in Table
    BY <2>1 DEF Removed
  <2>3. Added(p, hw)
    BY <1>6, <2>1, <2>2 DEF Added, bundle_add_port
  <2> QED BY <1>1, <1>3, <1>4, <1>5, <1>6, <2>2, <2>3
          DEF TypeOK, bundle_add_port, CallRec, Table
<1>7. CASE owner[p] # NULL
  <2>1. PICK b \in Bundle : b = owner[p]
    BY <1>7 DEF TypeOK
  <2>2. PICK m \in LeaveMembers(p, hw) : members' \in member_remove(m, DefaultVlan, p, hw)
    BY <1>7 DEF bundle_add_port
  <2>3. m \in Table
    BY <1>7, <2>1, LeavesFacts, Zenon DEF Leaves
  <2>4. Removed(m, members', DefaultVlan, p, hw) /\ members' \in Table
    BY <1>5, <2>2, <2>3, RemoveFacts DEF Removed
  <2>5. LeaveBundle(p, hw)
    BY <1>7 DEF bundle_add_port
  <2>6. Added(p, hw)
    BY <1>7, <2>4, <2>5 DEF Added
  <2>7. /\ pvid' \in [Port -> Vlan] /\ lags' \subseteq LagId /\ stale' \subseteq Intf
        /\ bundles' \in [Bundle -> BundleState \union {NULL}]
    BY <1>7, <2>1, <2>5, LeaveBundleType
  <2> QED BY <1>1, <1>3, <1>4, <2>4, <2>6, <2>7 DEF TypeOK, bundle_add_port, CallRec, Table
<1> QED BY <1>6, <1>7

\* The record that bundle_set starts from.
OldBundle(b) == IF Live(b) THEN bundles[b] ELSE NewBundle

\* The bundle that bundle_set looks up or creates is a bundle.
LEMMA OldBundleFacts ==
    ASSUME TypeOK, NEW b \in Bundle
    PROVE  OldBundle(b) \in BundleState
<1>1. NewBundle \in BundleState
  BY DEF NewBundle, BundleState, Mode, NoVid
<1> QED BY <1>1, BundleFacts DEF OldBundle

\* create_remove_hw_lag makes a LAG g, removes one, or does nothing.
LagMade(old, r, g) ==
    /\ g \in LagId \ lags /\ old.intfId = NULL
    /\ r.bundle = [old EXCEPT !.intfId = g, !.is_lag = TRUE]
    /\ r.lags = lags \union {g} /\ r.stale = IF old.trunks = NULL THEN {} ELSE {g}
LagGone(old, r) ==
    /\ old.is_lag /\ r.bundle = [old EXCEPT !.intfId = NULL, !.is_lag = FALSE]
    /\ r.lags \in {lags, lags \ {old.intfId}} /\ r.stale = {old.intfId}
LagSame(old, r) == r.bundle = old /\ r.lags = lags /\ r.stale = {}

\* bundle_set creates or removes no LAG for a single port.
LEMMA CreateRemoveFacts ==
    ASSUME NEW b \in Bundle, NEW s \in Settings(b), NEW hw \in BOOLEAN,
           NEW old \in BundleState, b \in Single => ~old.is_lag,
           NEW r \in create_remove_hw_lag(old, s, hw)
    PROVE  \/ LagSame(old, r)
           \/ b \in Lag /\ (LagGone(old, r) \/ \E g : LagMade(old, r, g))
<1>1. b \in Single => ~s.hw_bond_should_exist /\ ~s.bond_handle_alloc_only
  BY DEF Settings
<1>2. b \in Single \/ b \in Lag
  BY Names
<1>3. CASE old.intfId = NULL /\ (s.hw_bond_should_exist \/ s.bond_handle_alloc_only)
  <2>1. PICK g \in LagId \ lags :
           r = [bundle |-> [old EXCEPT !.intfId = g, !.is_lag = TRUE],
                lags |-> lags \union {g},
                stale |-> IF old.trunks = NULL THEN {} ELSE {g}]
    BY <1>3, Zenon DEF create_remove_hw_lag
  <2>2. LagMade(old, r, g)
    BY <1>3, <2>1 DEF LagMade
  <2> QED BY <1>1, <1>2, <1>3, <2>2
<1>4. CASE /\ ~(old.intfId = NULL /\ (s.hw_bond_should_exist \/ s.bond_handle_alloc_only))
           /\ old.is_lag /\ ~s.hw_bond_should_exist
  <2>1. PICK l \in lag_destroy(old, hw) :
           r = [bundle |-> [old EXCEPT !.intfId = NULL, !.is_lag = FALSE],
                lags |-> l, stale |-> {old.intfId}]
    BY <1>4, Zenon DEF create_remove_hw_lag
  <2>2. l \in {lags, lags \ {old.intfId}}
    BY LagDestroyFacts
  <2>3. LagGone(old, r)
    BY <1>4, <2>1, <2>2 DEF LagGone
  <2> QED BY <1>2, <1>4, <2>3
<1>5. CASE /\ ~(old.intfId = NULL /\ (s.hw_bond_should_exist \/ s.bond_handle_alloc_only))
           /\ ~(old.is_lag /\ ~s.hw_bond_should_exist)
  <2>1. r = [bundle |-> old, lags |-> lags, stale |-> {}]
    BY <1>5, Zenon DEF create_remove_hw_lag
  <2> QED BY <2>1 DEF LagSame
<1> QED BY <1>3, <1>4, <1>5

\* The fields of the record after it.
LEMMA LagRecord ==
    ASSUME TypeOK, NEW old \in BundleState, NEW r,
           LagSame(old, r) \/ LagGone(old, r) \/ \E g : LagMade(old, r, g)
    PROVE  /\ r.bundle \in BundleState /\ r.lags \subseteq LagId
           /\ old.is_lag => old.intfId \in Intf \union {NULL}
           /\ r.bundle.vlan = old.vlan /\ r.bundle.vlan_mode = old.vlan_mode
           /\ r.bundle.trunks = old.trunks
           /\ LagGone(old, r) => r.bundle.intfId = NULL /\ ~r.bundle.is_lag
           /\ \A g : LagMade(old, r, g) => r.bundle.intfId = g /\ r.bundle.is_lag
<1>1. old.intfId \in Intf \union {NULL}
  BY DEF BundleState
<1>2. CASE LagSame(old, r)
  BY <1>1, <1>2, Zenon DEF LagSame, TypeOK, LagGone, LagMade, BundleState
<1>3. CASE LagGone(old, r)
  <2>1. r.bundle = [old EXCEPT !.intfId = NULL, !.is_lag = FALSE]
    BY <1>3 DEF LagGone
  <2>2. /\ r.bundle \in BundleState /\ r.bundle.intfId = NULL /\ r.bundle.is_lag = FALSE
        /\ r.bundle.vlan = old.vlan /\ r.bundle.vlan_mode = old.vlan_mode
        /\ r.bundle.trunks = old.trunks
    BY <2>1, Zenon DEF BundleState
  <2>3. \A g : ~LagMade(old, r, g)
    <3>1. old.is_lag /\ r.bundle.intfId = NULL
      BY <1>3, <2>2 DEF LagGone
    <3> SUFFICES ASSUME NEW g, LagMade(old, r, g) PROVE FALSE
      OBVIOUS
    <3>2. g \in Intf /\ r.bundle = [old EXCEPT !.intfId = g, !.is_lag = TRUE]
      BY Names, Zenon DEF LagMade
    <3>3. r.bundle.intfId = g
      BY <3>2 DEF BundleState
    <3> QED BY <3>1, <3>2, <3>3, Names
  <2>4. r.lags \subseteq LagId
    BY <1>3 DEF LagGone, TypeOK
  <2> QED BY <1>1, <2>2, <2>3, <2>4
<1>4. CASE \E g : LagMade(old, r, g)
  <2>1. PICK g : LagMade(old, r, g)
    BY <1>4
  <2>2. g \in Intf /\ g \in LagId /\ r.bundle = [old EXCEPT !.intfId = g, !.is_lag = TRUE]
    BY <2>1, Names, Zenon DEF LagMade
  <2>3. /\ r.bundle \in BundleState /\ r.bundle.intfId = g /\ r.bundle.is_lag = TRUE
        /\ r.bundle.vlan = old.vlan /\ r.bundle.vlan_mode = old.vlan_mode
        /\ r.bundle.trunks = old.trunks
    BY <2>2, Zenon DEF BundleState
  <2>4. ~LagGone(old, r)
    <3> SUFFICES ASSUME LagGone(old, r) PROVE FALSE
      OBVIOUS
    <3>1. r.bundle = [old EXCEPT !.intfId = NULL, !.is_lag = FALSE]
      BY DEF LagGone
    <3>2. r.bundle.intfId = NULL
      BY <3>1 DEF BundleState
    <3> QED BY <2>2, <2>3, <3>2, Names
  <2>5. \A h : LagMade(old, r, h) => h = g
    <3> SUFFICES ASSUME NEW h, LagMade(old, r, h) PROVE h = g
      OBVIOUS
    <3>1. h \in Intf /\ r.bundle = [old EXCEPT !.intfId = h, !.is_lag = TRUE]
      BY Names, Zenon DEF LagMade
    <3>2. r.bundle.intfId = h
      BY <3>1 DEF BundleState
    <3> QED BY <2>3, <3>2
  <2>6. r.lags \subseteq LagId
    BY <2>1, Zenon DEF LagMade, TypeOK
  <2> QED BY <1>1, <2>3, <2>4, <2>5, <2>6
<1> QED BY <1>2, <1>3, <1>4

\* bundle_set up to the ports it adds, in which the ports x are given up: none if it
\* only allocates a LAG's handle.
SetBundle(b, s, x, r, hw) ==
    /\ \/ LagSame(OldBundle(b), r)
       \/ b \in Lag /\ (LagGone(OldBundle(b), r) \/ \E g : LagMade(OldBundle(b), r, g))
    /\ bundles' = [bundles EXCEPT ![b] = r.bundle] /\ lags' = r.lags
    /\ stale \union r.stale \subseteq stale' /\ (~hw => x \subseteq stale')
    /\ SameBut(members, members', x) /\ \A v \in Vlan \ {DefaultVlan} : members'[v] = members[v]
    /\ \A p \in Port \ x : pvid'[p] = pvid[p]
    /\ owner' = [p \in Port |-> IF p \in x THEN NULL ELSE owner[p]]
    /\ \/ b \in Lag /\ call' = NULL /\ x = {}
       \/ /\ call' # NULL /\ call'.bundle = b /\ call'.todo = s.slaves \ Ports(b)
          /\ x = Ports(b) \ s.slaves

\* bundle_set keeps the types, and is a SetBundle step.
LEMMA BundleSetType ==
    ASSUME Constants, TypeOK, NEW b \in Bundle, NEW s \in Settings(b), NEW hw \in BOOLEAN,
           b \in Single => ~OldBundle(b).is_lag,
           OldBundle(b).is_lag => OldBundle(b).intfId # NULL, bundle_set(b, s, hw)
    PROVE  TypeOK' /\ \E x \in SUBSET Ports(b) : \E r : SetBundle(b, s, x, r, hw)
<1>1. faults' \in 0..MaxFaults
  BY HwType DEF bundle_set
<1>2. PICK x : x = Ports(b) \ s.slaves
  BY Zenon
<1>3. PICK r \in create_remove_hw_lag(OldBundle(b), s, hw) :
         /\ bundles' = [bundles EXCEPT ![b] = r.bundle]
         /\ lags' = r.lags
         /\ IF s.bond_handle_alloc_only
            THEN /\ stale' = stale \union r.stale
                 /\ UNCHANGED <<members, pvid, owner, call>>
            ELSE /\ stale' = stale \union r.stale \union (IF hw THEN {} ELSE x)
                 /\ members' \in del_ports(members, x, hw)
                 /\ pvid' \in del_ports_pvid(members, x, hw)
                 /\ owner' = [p \in Port |-> IF p \in x THEN NULL ELSE owner[p]]
                 /\ call' = [bundle |-> b, todo |-> s.slaves \ Ports(b), updated |-> x # {}]
  BY <1>2, Zenon DEF bundle_set, OldBundle
<1>4. OldBundle(b) \in BundleState
  BY OldBundleFacts
<1>5. \/ LagSame(OldBundle(b), r)
      \/ b \in Lag /\ (LagGone(OldBundle(b), r) \/ \E g : LagMade(OldBundle(b), r, g))
  BY <1>4, CreateRemoveFacts
<1>6. r.bundle \in BundleState /\ r.lags \subseteq LagId
  BY <1>4, <1>5, LagRecord
<1>7. r.stale \subseteq Intf
  <2>1. CASE LagSame(OldBundle(b), r)
    BY <2>1 DEF LagSame
  <2>2. CASE LagGone(OldBundle(b), r)
    <3>1. r.stale = {OldBundle(b).intfId} /\ OldBundle(b).is_lag
      BY <2>2 DEF LagGone
    <3>2. OldBundle(b).intfId \in Intf
      BY <1>4, <3>1 DEF BundleState
    <3> QED BY <3>1, <3>2
  <2>3. CASE \E g : LagMade(OldBundle(b), r, g)
    BY <2>3, Names DEF LagMade
  <2> QED BY <1>5, <2>1, <2>2, <2>3
<1>8. x \in SUBSET Port /\ members \in Table
  BY <1>2 DEF Ports, TypeOK, Table
<1>9. bundles' \in [Bundle -> BundleState \union {NULL}] /\ lags' \subseteq LagId
  BY <1>3, <1>6 DEF TypeOK
<1>10. CASE s.bond_handle_alloc_only
  <2>1. b \in Lag /\ call' = NULL
    BY <1>3, <1>10, Names, Zenon DEF Settings, bundle_set
  <2>2. owner' = [p \in Port |-> IF p \in {} THEN NULL ELSE owner[p]]
    BY <1>3, <1>10 DEF TypeOK
  <2>3. /\ stale \union r.stale \subseteq stale' /\ (~hw => {} \subseteq stale')
        /\ SameBut(members, members', {})
        /\ \A v \in Vlan \ {DefaultVlan} : members'[v] = members[v]
        /\ \A p \in Port \ {} : pvid'[p] = pvid[p]
    BY <1>3, <1>10, Zenon DEF SameBut
  <2>4. SetBundle(b, s, {}, r, hw)
    BY <1>3, <1>5, <2>1, <2>2, <2>3, Zenon DEF SetBundle
  <2>5. TypeOK'
    BY <1>1, <1>3, <1>7, <1>9, <1>10 DEF TypeOK, bundle_set
  <2>6. {} \in SUBSET Ports(b)
    OBVIOUS
  <2> QED BY <2>4, <2>5, <2>6
<1>11. CASE ~s.bond_handle_alloc_only
  <2>1. /\ stale' = stale \union r.stale \union (IF hw THEN {} ELSE x)
        /\ members' \in del_ports(members, x, hw)
        /\ pvid' \in del_ports_pvid(members, x, hw)
        /\ owner' = [p \in Port |-> IF p \in x THEN NULL ELSE owner[p]]
        /\ call' = [bundle |-> b, todo |-> s.slaves \ Ports(b), updated |-> x # {}]
    BY <1>3, <1>11, Zenon
  <2>2. /\ members' \in Table /\ SameBut(members, members', x)
        /\ \A v \in Vlan \ {DefaultVlan} : members'[v] = members[v]
    <3>1. members \in Table /\ x \in SUBSET Port
      BY <1>8
    <3>2. members' \in del_ports(members, x, hw)
      BY <2>1, Zenon
    <3> QED BY <3>1, <3>2, DelPortsFacts
  <2>3. pvid' \in [Port -> Vlan] /\ \A p \in Port \ x : pvid'[p] = pvid[p]
    <3>1. pvid' \in del_ports_pvid(members, x, hw)
      BY <2>1
    <3> QED BY <3>1, DelPortsPvidFacts
  <2>4. stale \union r.stale \subseteq stale' /\ (~hw => x \subseteq stale')
    BY <2>1
  <2>5. PICK upd \in BOOLEAN : upd = (x # {})
    BY Zenon
  <2>6. s.slaves \in SUBSET Port
    BY DEF Settings
  <2>7. /\ call' \in CallRec /\ call'.bundle = b /\ call'.todo = s.slaves \ Ports(b)
    BY <2>1, <2>5, <2>6 DEF CallRec
  <2>8. call' # NULL
    BY <2>7 DEF Constants
  <2>9. SetBundle(b, s, x, r, hw)
    BY <1>2, <1>3, <1>5, <2>1, <2>2, <2>3, <2>4, <2>7, <2>8, Zenon DEF SetBundle
  <2>10. stale' \subseteq Intf
    BY <1>7, <1>8, <2>1, Names DEF TypeOK
  <2>11. owner' \in [Port -> Bundle \union {NULL}]
    BY <2>1, Zenon DEF TypeOK
  <2>12. TypeOK'
    BY <1>1, <1>9, <2>2, <2>3, <2>7, <2>10, <2>11 DEF TypeOK, bundle_set, Table, CallRec
  <2> QED BY <1>2, <2>9, <2>12
<1> QED BY <1>10, <1>11

\* bundle_set keeps the types when the hardware refuses to create the LAG.
LEMMA NoLagType ==
    ASSUME TypeOK, NEW b \in Bundle, NEW s \in Settings(b), bundle_set_no_lag(b, s)
    PROVE  TypeOK' /\ b \in Lag /\ bundles' = [bundles EXCEPT ![b] = OldBundle(b)]
<1>1. faults' \in 0..MaxFaults
  BY HwType, Zenon DEF bundle_set_no_lag
<1>2. b \in Lag
  BY Names DEF bundle_set_no_lag, Settings
<1>3. bundles' = [bundles EXCEPT ![b] = OldBundle(b)]
  BY DEF bundle_set_no_lag, OldBundle
<1>4. OldBundle(b) \in BundleState
  BY OldBundleFacts
<1> QED BY <1>1, <1>2, <1>3, <1>4, Zenon DEF TypeOK, bundle_set_no_lag

\* The record that the last step of bundle_set configures: the interface of a single
\* port is the port.
CurBundle(b) == IF ~bundles[b].is_lag /\ b \in Single
                THEN [bundles[b] EXCEPT !.intfId = b] ELSE bundles[b]

\* The record bundle_set configures differs from that in the table in the interface only.
LEMMA CurBundleFacts ==
    ASSUME TypeOK, NEW b \in Bundle, Live(b)
    PROVE  /\ CurBundle(b) \in BundleState /\ CurBundle(b).intfId \in Intf \union {NULL}
           /\ CurBundle(b).trunks = bundles[b].trunks /\ CurBundle(b).vlan = bundles[b].vlan
           /\ CurBundle(b).vlan_mode = bundles[b].vlan_mode
           /\ CurBundle(b).is_lag = bundles[b].is_lag
           /\ CurBundle(b).intfId = IF ~bundles[b].is_lag /\ b \in Single THEN b
                                    ELSE bundles[b].intfId
<1>1. bundles[b] \in BundleState
  BY BundleFacts
<1>2. CASE ~bundles[b].is_lag /\ b \in Single
  <2>1. b \in Intf
    BY <1>2, Names
  <2>2. CurBundle(b) = [bundles[b] EXCEPT !.intfId = b]
    BY <1>2 DEF CurBundle
  <2> QED BY <1>1, <1>2, <2>1, <2>2 DEF BundleState
<1>3. CASE ~(~bundles[b].is_lag /\ b \in Single)
  <2>1. CurBundle(b) = bundles[b]
    BY <1>3 DEF CurBundle
  <2> QED BY <1>1, <1>3, <2>1, BundleFacts
<1> QED BY <1>2, <1>3

\* The three ends of bundle_set.
FinishDestroy(b, hw) ==
    /\ Ports(b) = {}
    /\ members' \in destroy_members(members, bundles[b], hw)
    /\ lags' \in lag_destroy(bundles[b], hw)
    /\ bundles' = [bundles EXCEPT ![b] = NULL]
    /\ UNCHANGED pvid
FinishNoConfig(b, hw) ==
    /\ CurBundle(b).intfId = NULL \/ (bundles[b].is_lag /\ ~hw)
    /\ UNCHANGED <<members, lags, bundles, pvid>>
FinishConfigure(b, s, r, hw) ==
    /\ Ports(b) # {} /\ CurBundle(b).intfId # NULL
    /\ r \in update_vlan_config(CurBundle(b), s, call.updated, Ports(b), hw)
    /\ bundles' = [bundles EXCEPT ![b] = r.bundle]
    /\ members' = r.members /\ pvid' = r.pvid
    /\ UNCHANGED lags
Finish(b, s, hw) ==
    /\ FinishDestroy(b, hw) \/ FinishNoConfig(b, hw) \/ \E r : FinishConfigure(b, s, r, hw)
    /\ stale' = IF hw THEN stale
                ELSE stale \union ({CurBundle(b).intfId} \ {NULL}) \union Ports(b)
    /\ call' = NULL /\ owner' = owner /\ exist' = exist

\* The last step of bundle_set keeps the types, and is a Finish step.
LEMMA FinishType ==
    ASSUME Constants, TypeOK, NEW b \in Bundle, b = call.bundle, Live(b),
           NEW s \in VlanSettings, NEW hw \in BOOLEAN, bundle_set_finish(s, hw)
    PROVE  TypeOK' /\ Finish(b, s, hw)
<1>1. faults' \in 0..MaxFaults
  BY HwType DEF bundle_set_finish
<1>2. Finish(b, s, hw)
  <2>1. CASE Ports(b) = {}
    BY <2>1 DEF bundle_set_finish, Finish, FinishDestroy, CurBundle
  <2>2. CASE Ports(b) # {} /\ CurBundle(b).intfId = NULL
    BY <2>2 DEF bundle_set_finish, Finish, FinishNoConfig, CurBundle
  <2>3. CASE Ports(b) # {} /\ CurBundle(b).intfId # NULL
    <3>1. \/ \E r \in update_vlan_config(CurBundle(b), s, call.updated, Ports(b), hw) :
                /\ bundles' = [bundles EXCEPT ![b] = r.bundle]
                /\ members' = r.members
                /\ pvid' = r.pvid
                /\ UNCHANGED lags
          \/ bundles[b].is_lag /\ ~hw /\ UNCHANGED <<members, lags, bundles, pvid>>
      BY <2>3 DEF bundle_set_finish, CurBundle
    <3>2. FinishNoConfig(b, hw) \/ \E r : FinishConfigure(b, s, r, hw)
      BY <2>3, <3>1 DEF FinishNoConfig, FinishConfigure
    <3> QED BY <3>2 DEF Finish, bundle_set_finish, CurBundle
  <2> QED BY <2>1, <2>2, <2>3
<1>3. stale' \subseteq Intf
  BY <1>2, CurBundleFacts, Names DEF Finish, TypeOK, Ports
<1>4. CASE FinishDestroy(b, hw)
  <2>1. members' \in Table
    <3>1. members \in Table /\ bundles[b].intfId \in Intf \union {NULL}
      BY BundleFacts DEF TypeOK, Table
    <3> QED BY <1>4, <3>1, DestroyFacts, Zenon DEF FinishDestroy
  <2>2. lags' \subseteq LagId
    BY <1>4, LagDestroyFacts DEF FinishDestroy, TypeOK
  <2> QED BY <1>1, <1>2, <1>3, <1>4, <2>1, <2>2
         , Zenon DEF TypeOK, Finish, FinishDestroy, Table, bundle_set_finish
<1>5. CASE FinishNoConfig(b, hw)
  BY <1>1, <1>2, <1>3, <1>5, Zenon DEF TypeOK, Finish, FinishNoConfig, bundle_set_finish
<1>6. CASE \E r : FinishConfigure(b, s, r, hw)
  <2>1. PICK r : FinishConfigure(b, s, r, hw)
    BY <1>6
  <2>2. UpdateFrame(CurBundle(b), Ports(b), r)
    <3>1. Ports(b) \in SUBSET Port
      BY DEF Ports
    <3>2. CurBundle(b) \in BundleState /\ CurBundle(b).intfId \in Intf
      BY <2>1, CurBundleFacts DEF FinishConfigure
    <3> QED BY <2>1, <3>1, <3>2, UpdateFrameFacts DEF FinishConfigure
  <2>3. bundles' \in [Bundle -> BundleState \union {NULL}]
    BY <2>1, <2>2 DEF UpdateFrame, FinishConfigure, TypeOK
  <2>4. members' \in Table /\ pvid' \in [Port -> Vlan]
    BY <2>1, <2>2 DEF UpdateFrame, FinishConfigure
  <2> QED BY <1>1, <1>2, <1>3, <2>1, <2>3, <2>4
         , Zenon DEF TypeOK, Finish, FinishConfigure, Table, bundle_set_finish
<1> QED BY <1>2, <1>4, <1>5, <1>6 DEF Finish

\* bundle_update_l3_config keeps the types.
LEMMA L3ConfigType ==
    ASSUME TypeOK, NEW v \in L3Vlans, NEW enable \in BOOLEAN, update_l3_config(v, enable)
    PROVE  TypeOK'
BY SettingsAssumption DEF TypeOK, update_l3_config, Vlan
-----------------------------------------------------------------------------
(* The inductive invariant *)

HasVlansOf(i, r) == \A v \in Vlan : members[v][i] = Wanted(r, v)
InNoVlan(i) == \A v \in Vlan : members[v][i] = "none"

\* bundle_set is working on the bundle.
Busy(b) == call # NULL /\ call.bundle = b

\* A port's bundle is in the table of bundles.  A single-port bundle has one port, its
\* own.
Owners == \A p \in Port : owner[p] # NULL => Live(owner[p]) /\ (owner[p] \in Single => owner[p] = p)

\* The ports that bundle_set still has to add are not the bundle's.
Calls == call # NULL => /\ Live(call.bundle) /\ \A p \in call.todo : owner[p] # call.bundle
                        /\ (call.bundle \in Single => call.todo \subseteq {call.bundle})

\* A single-port bundle has its interface from the end of the first bundle_set on, and its
\* trunks too, and has its port unless bundle_set is giving that up.
SingleOK(b) ==
    /\ ~bundles[b].is_lag
    /\ bundles[b].intfId = IF bundles[b].trunks = NULL THEN NULL ELSE b
    /\ ~Busy(b) => bundles[b].trunks # NULL /\ owner[b] = b
    /\ (bundles[b].trunks # NULL /\ owner[b] # b => call.todo = {})
Singles == \A b \in Single : Live(b) => SingleOK(b)

\* The interface of any other bundle is a LAG that the hardware has.
LagOK(b) == /\ bundles[b].is_lag <=> (bundles[b].intfId # NULL)
            /\ bundles[b].intfId \in lags \union {NULL}
LagBundles == \A b \in Lag : Live(b) => LagOK(b)

\* No two bundles have the same LAG.
OwnLag == \A b, c \in Lag : /\ Live(b) /\ Live(c) /\ bundles[b].intfId = bundles[c].intfId
                            /\ bundles[b].intfId # NULL
                            => b = c

Structure == Owners /\ Calls /\ Singles /\ LagBundles /\ OwnLag

\* A port with the bundle of its own name, which is configured.
HasOwnBundle(p) == p \in Single /\ Live(p) /\ bundles[p].trunks # NULL

\* The VLANs of a port: a free one is at most in the default VLAN, one in a LAG is in none,
\* and a port by itself is in those of its configuration.
PortFit(p) ==
    /\ (owner[p] = NULL /\ ~HasOwnBundle(p) => \A v \in Vlan \ {DefaultVlan} : members[v][p] = "none")
    /\ (owner[p] # NULL /\ owner[p] # p => InNoVlan(p))
    /\ (owner[p] = p => HasVlansOf(p, bundles[p]))

\* The VLANs of a LAG: none before it is created, then those of its bundle.
LagFit(g) ==
    /\ (g \notin lags => InNoVlan(g))
    /\ \A b \in Lag : Live(b) /\ bundles[b].intfId = g => HasVlansOf(g, bundles[b])

Memberships == /\ \A p \in Port : p \notin stale => PortFit(p)
               /\ \A g \in LagId : g \notin stale => LagFit(g)

\* The configuration of a bundle is one that bundle_update_vlan_config made, and its ports
\* have its VLAN, unless it is a LAG with new ports.
PvidOf(b) ==
    /\ Coherent(bundles[b])
    /\ ~(bundles[b].is_lag /\ Busy(b) /\ call.updated) =>
          \A p \in Port : owner[p] = b /\ p \notin stale => pvid[p] = bundles[b].vlan
Settled(b) == /\ Live(b) /\ bundles[b].trunks # NULL
              /\ bundles[b].intfId # NULL /\ bundles[b].intfId \notin stale
Pvids == \A b \in Bundle : Settled(b) => PvidOf(b)

IInv == TypeOK /\ Structure /\ Memberships /\ Pvids

\* What the structure says of a bundle and its ports.
LEMMA StructureFacts ==
    ASSUME TypeOK, Structure, NEW b \in Bundle, Live(b)
    PROVE  /\ b \in Single => /\ Ports(b) \subseteq {b} /\ ~bundles[b].is_lag
                              /\ bundles[b].intfId \in {NULL, b}
           /\ b \in Lag => /\ bundles[b].intfId \in LagId \union {NULL}
                           /\ bundles[b].intfId \notin Port
           /\ bundles[b].is_lag => b \in Lag /\ bundles[b].intfId # NULL
<1>1. CASE b \in Single
  BY <1>1, Names DEF Structure, Owners, Singles, SingleOK, Ports
<1>2. CASE b \in Lag
  BY <1>2, Names DEF Structure, LagBundles, LagOK, TypeOK
<1> QED BY <1>1, <1>2, Names

\* No two bundles have the same interface.
LEMMA OwnIntf ==
    ASSUME TypeOK, Structure, NEW b \in Bundle, NEW c \in Bundle, Live(b), Live(c),
           bundles[b].intfId = bundles[c].intfId, bundles[b].intfId # NULL
    PROVE  b = c
<1>1. b \in Single \/ b \in Lag
  BY Names
<1>2. c \in Single \/ c \in Lag
  BY Names
<1>3. CASE b \in Lag /\ c \in Lag
  BY <1>3 DEF Structure, OwnLag
<1>4. CASE b \in Single /\ c \in Single
  BY <1>4, StructureFacts
<1>5. CASE b \in Single /\ c \in Lag
  BY <1>5, StructureFacts, Names
<1>6. CASE b \in Lag /\ c \in Single
  BY <1>6, StructureFacts, Names
<1> QED BY <1>1, <1>2, <1>3, <1>4, <1>5, <1>6

\* A single-port bundle that bundle_set is not working on is configured and has its port.
LEMMA IdleSingle ==
    ASSUME Structure, NEW b \in Single, Live(b), ~Busy(b)
    PROVE  owner[b] = b /\ bundles[b].trunks # NULL /\ bundles[b].intfId = b
BY DEF Structure, Singles, SingleOK

\* A port of a LAG has no configured bundle of its own unless bundle_set is working on that.
LEMMA SlaveHasNoBundle ==
    ASSUME Structure, NEW p \in Port, owner[p] # p, ~Busy(p)
    PROVE  ~HasOwnBundle(p)
BY IdleSingle DEF HasOwnBundle

\* The structure depends on the LAGs, the bundles and their ports only.
LEMMA StructureSame ==
    ASSUME Structure, UNCHANGED <<lags, bundles, owner, call>>
    PROVE  Structure'
BY DEF Structure, Owners, Calls, Singles, SingleOK, LagBundles, LagOK, OwnLag, Live, Busy

\* A step that touches no bundle and no default VLAN keeps Pvids.
LEMMA PvidsSame ==
    ASSUME Pvids, UNCHANGED <<bundles, owner, pvid, call>>, stale \subseteq stale'
    PROVE  Pvids'
BY DEF Pvids, Settled, PvidOf, Coherent, Live, Busy

\* A port that a step does not touch.
PortKept(p) ==
    /\ \A v \in Vlan : members'[v][p] = members[v][p]
    /\ exist' = exist /\ owner'[p] = owner[p]
    /\ (owner[p] = p => bundles'[p] = bundles[p])
    /\ (owner[p] = NULL /\ HasOwnBundle(p) => HasOwnBundle(p)')

\* A port that is not touched keeps to its configuration.
LEMMA PortFrame ==
    ASSUME NEW p \in Port, PortFit(p), PortKept(p)
    PROVE  PortFit(p)'
<1>1. owner'[p] = NULL /\ ~HasOwnBundle(p)' => \A v \in Vlan \ {DefaultVlan} : members'[v][p] = "none"
  BY DEF PortFit, PortKept
<1>2. owner'[p] # NULL /\ owner'[p] # p => \A v \in Vlan : members'[v][p] = "none"
  BY DEF PortFit, PortKept, InNoVlan
<1>3. owner'[p] = p => \A v \in Vlan : members'[v][p] = Wanted(bundles[p], v)'
  <2>1. SUFFICES ASSUME owner'[p] = p, NEW v \in Vlan PROVE members'[v][p] = Wanted(bundles[p], v)'
    OBVIOUS
  <2>2. members[v][p] = Wanted(bundles[p], v)
    BY <2>1 DEF PortFit, PortKept, HasVlansOf
  <2>3. bundles'[p] = bundles[p] /\ exist' = exist
    BY <2>1 DEF PortKept
  <2>4. Wanted(bundles[p], v)' = Wanted(bundles[p], v)
    BY <2>3 DEF Wanted, TrunkSet, EncapOf
  <2> QED BY <2>1, <2>2, <2>4 DEF PortKept
<1> QED BY <1>1, <1>2, <1>3 DEF PortFit, InNoVlan, HasVlansOf

\* A LAG that a step does not touch.
LagKept(g) ==
    /\ \A v \in Vlan : members'[v][g] = members[v][g]
    /\ exist' = exist /\ (g \in lags => g \in lags')
    /\ \A b \in Lag : bundles'[b] # NULL /\ bundles'[b].intfId = g => bundles'[b] = bundles[b]

\* A LAG that is not touched keeps to its configuration.
LEMMA LagFrame ==
    ASSUME NEW g \in LagId, LagFit(g), LagKept(g)
    PROVE  LagFit(g)'
<1>1. g \notin lags' => \A v \in Vlan : members'[v][g] = "none"
  BY DEF LagFit, LagKept, InNoVlan
<1>2. ASSUME NEW b \in Lag, bundles'[b] # NULL, bundles'[b].intfId = g, NEW v \in Vlan
      PROVE  members'[v][g] = Wanted(bundles[b], v)'
  <2>1. bundles'[b] = bundles[b] /\ exist' = exist
    BY <1>2 DEF LagKept
  <2>2. Live(b) /\ bundles[b].intfId = g
    BY <1>2, <2>1 DEF Live
  <2>3. members[v][g] = Wanted(bundles[b], v)
    BY <2>2 DEF LagFit, HasVlansOf
  <2>4. Wanted(bundles[b], v)' = Wanted(bundles[b], v)
    BY <2>1 DEF Wanted, TrunkSet, EncapOf
  <2> QED BY <2>3, <2>4 DEF LagKept
<1> QED BY <1>1, <1>2 DEF LagFit, InNoVlan, HasVlansOf, Live
-----------------------------------------------------------------------------
(* set_vlan *)

NoUser(vid, i) == \A b \in Users(vid) : bundles[b].intfId # i

\* A step of set_vlan: interfaces of no user are left alone, the others keep to their
\* configuration.
VlanStep(vid) ==
    /\ call = NULL /\ UNCHANGED <<pvid, lags, bundles, owner, call>> /\ stale \subseteq stale'
    /\ \A i \in Intf : NoUser(vid, i) => \A v \in Vlan : members'[v][i] = members[v][i]
    /\ \A b \in Bundle :
          /\ Live(b) /\ bundles[b].intfId # NULL /\ bundles[b].intfId \notin stale'
          /\ HasVlansOf(bundles[b].intfId, bundles[b])
          => HasVlansOf(bundles[b].intfId, bundles[b])'

\* The users of a VLAN that is added join it, or are stale; two users never have the same
\* interface, so each joins as its own configuration says.
LEMMA SetVlanAddStep ==
    ASSUME TypeOK, Structure, NEW vid \in Vlan, NEW hw \in BOOLEAN, set_vlan_add(vid, hw)
    PROVE  VlanStep(vid)
<1>1. PICK bs \in SUBSET Users(vid) :
          /\ \A b \in bs : bundles[b].intfId # NULL
          /\ members' = [members EXCEPT ![vid] = [i \in Intf |->
                 IF @[i] = "none" /\ \E b \in bs : bundles[b].intfId = i
                 THEN EncapOf(CHOOSE c \in {bundles[b] : b \in bs} : c.intfId = i, vid)
                 ELSE @[i]]]
          /\ stale' = stale \union IntfOf(Users(vid) \ bs)
  BY Zenon DEF set_vlan_add
<1>2. /\ \A v \in Vlan \ {vid} : members'[v] = members[v]
      /\ \A i \in Intf : members'[vid][i] =
            IF members[vid][i] = "none" /\ \E b \in bs : bundles[b].intfId = i
            THEN EncapOf(CHOOSE c \in {bundles[b] : b \in bs} : c.intfId = i, vid)
            ELSE members[vid][i]
  BY <1>1 DEF TypeOK
<1>3. ASSUME NEW i \in Intf, \A b \in bs : bundles[b].intfId # i, NEW v \in Vlan
      PROVE  members'[v][i] = members[v][i]
  BY <1>2, <1>3
<1>4. /\ call = NULL /\ UNCHANGED <<pvid, lags, bundles, owner, call>> /\ stale \subseteq stale'
      /\ exist' = exist \union {vid} /\ (vid \in exist => vid = DefaultVlan)
  BY <1>1, Zenon DEF set_vlan_add
<1>5. ASSUME NEW b \in Bundle, Live(b), bundles[b].intfId # NULL, bundles[b].intfId \notin stale',
             HasVlansOf(bundles[b].intfId, bundles[b]), NEW v \in Vlan
      PROVE  members'[v][bundles[b].intfId] = Wanted(bundles[b], v)'
  <2>1. PICK i : i = bundles[b].intfId
    OBVIOUS
  <2>2. i \in Intf /\ members[v][i] = Wanted(bundles[b], v)
    BY <1>5, <2>1, BundleFacts DEF HasVlansOf
  <2>3. \A c \in bs : bundles[c].intfId = i => c = b
    BY <1>5, <2>1, OwnIntf, UsersFacts, Zenon
  <2>4. Wanted(bundles[b], v)' = IF v \in (exist \union {vid}) \intersect TrunkSet(bundles[b])
                                 THEN EncapOf(bundles[b], v) ELSE "none"
    BY <1>4 DEF Wanted, TrunkSet, EncapOf
  <2>5. CASE v # vid
    BY <1>2, <2>1, <2>2, <2>4, <2>5 DEF Wanted
  <2>6. CASE v = vid /\ b \notin bs
    <3>1. members'[v][i] = members[v][i]
      BY <1>3, <2>2, <2>3, <2>6
    <3>2. b \notin Users(vid)
      BY <1>1, <1>5, <2>6 DEF IntfOf
    <3>3. vid \notin TrunkSet(bundles[b])
      BY <1>5, <3>2 DEF Users, TrunkSet
    <3> QED BY <2>1, <2>2, <2>4, <2>6, <3>1, <3>3 DEF Wanted
  <2>7. CASE v = vid /\ b \in bs
    <3>1. vid \in TrunkSet(bundles[b])
      BY <2>7 DEF Users, TrunkSet
    <3>2. Wanted(bundles[b], v)' = EncapOf(bundles[b], vid)
      BY <2>4, <2>7, <3>1
    <3>3. CASE members[vid][i] = "none"
      <4>1. PICK c : c = (CHOOSE x \in {bundles[d] : d \in bs} : x.intfId = i)
        OBVIOUS
      <4>2. c = bundles[b]
        <5>1. \E x \in {bundles[d] : d \in bs} : x.intfId = i
          BY <2>1, <2>7
        <5>2. c \in {bundles[d] : d \in bs} /\ c.intfId = i
          BY <4>1, <5>1
        <5> QED BY <2>3, <5>2
      <4>3. members'[vid][i] = EncapOf(c, vid)
        BY <1>2, <2>1, <2>2, <2>7, <3>3, <4>1
      <4> QED BY <2>1, <2>7, <3>2, <4>2, <4>3
    <3>4. CASE members[vid][i] # "none"
      BY <1>2, <2>1, <2>2, <2>7, <3>2, <3>4 DEF Wanted
    <3> QED BY <3>3, <3>4
  <2> QED BY <2>5, <2>6, <2>7
<1>6. \A i \in Intf : NoUser(vid, i) => \A v \in Vlan : members'[v][i] = members[v][i]
  BY <1>3 DEF NoUser
<1> QED BY <1>4, <1>5, <1>6 DEF VlanStep, HasVlansOf

\* The users of a VLAN leave it; they are stale if it is not removed after all.
LEMMA SetVlanDelStep ==
    ASSUME TypeOK, Structure, NEW vid \in Vlan, NEW hw \in BOOLEAN, set_vlan_del(vid, hw)
    PROVE  VlanStep(vid)
<1>1. PICK bs \in SUBSET Users(vid) :
          /\ members' = [members EXCEPT ![vid] = [i \in Intf |->
                            IF i \in IntfOf(bs) THEN "none" ELSE @[i]]]
          /\ exist' = IF /\ bs = Users(vid) /\ vid # DefaultVlan
                         /\ \A i \in Intf : members'[vid][i] = "none"
                      THEN exist \ {vid} ELSE exist
          /\ stale' = IF vid \in exist' THEN stale \union IntfOf(Users(vid)) ELSE stale
  BY DEF set_vlan_del
<1>2. /\ \A v \in Vlan \ {vid} : members'[v] = members[v]
      /\ \A i \in Intf : members'[vid][i] = IF i \in IntfOf(bs) THEN "none" ELSE members[vid][i]
  BY <1>1 DEF TypeOK
<1>3. ASSUME NEW i \in Intf, \A b \in Users(vid) : bundles[b].intfId # i, NEW v \in Vlan
      PROVE  members'[v][i] = members[v][i]
  BY <1>2, <1>3 DEF IntfOf
<1>4. /\ call = NULL /\ UNCHANGED <<pvid, lags, bundles, owner, call>> /\ vid \in exist
  BY DEF set_vlan_del
<1>5. stale \subseteq stale'
  BY <1>1
<1>6. ASSUME NEW b \in Bundle, Live(b), bundles[b].intfId # NULL, bundles[b].intfId \notin stale',
             HasVlansOf(bundles[b].intfId, bundles[b]), NEW v \in Vlan
      PROVE  members'[v][bundles[b].intfId] = Wanted(bundles[b], v)'
  <2>1. PICK i : i = bundles[b].intfId
    OBVIOUS
  <2>2. i \in Intf /\ members[v][i] = Wanted(bundles[b], v)
    BY <1>6, <2>1, BundleFacts DEF HasVlansOf
  <2>3. Wanted(bundles[b], v)' = IF v \in exist' \intersect TrunkSet(bundles[b])
                                 THEN EncapOf(bundles[b], v) ELSE "none"
    BY <1>4 DEF Wanted, TrunkSet, EncapOf
  <2>4. CASE v # vid
    <3>1. v \in exist' <=> v \in exist
      BY <1>1, <2>4
    <3> QED BY <1>2, <2>1, <2>2, <2>3, <2>4, <3>1 DEF Wanted
  <2>5. CASE v = vid /\ vid \notin exist'
    <3>1. members'[vid][i] = "none"
      BY <1>1, <1>4, <2>2, <2>5
    <3> QED BY <2>1, <2>3, <2>5, <3>1
  <2>6. CASE v = vid /\ vid \in exist'
    <3>1. b \notin Users(vid)
      BY <1>1, <1>6, <2>6 DEF IntfOf
    <3>2. \A c \in Users(vid) : bundles[c].intfId # i
      <4>1. ASSUME NEW c \in Users(vid), bundles[c].intfId = i PROVE FALSE
        <5>1. c \in Bundle /\ Live(c)
          BY DEF Users
        <5>2. c = b
          BY <1>6, <2>1, <4>1, <5>1, OwnIntf
        <5> QED BY <3>1, <5>2
      <4> QED BY <4>1
    <3>3. vid \notin TrunkSet(bundles[b])
      BY <1>6, <3>1 DEF Users, TrunkSet
    <3>4. members'[v][i] = members[v][i]
      BY <1>3, <2>2, <3>2
    <3> QED BY <2>1, <2>2, <2>3, <2>6, <3>3, <3>4 DEF Wanted
  <2> QED BY <2>4, <2>5, <2>6
<1>7. \A i \in Intf : NoUser(vid, i) => \A v \in Vlan : members'[v][i] = members[v][i]
  BY <1>3 DEF NoUser
<1> QED BY <1>4, <1>5, <1>6, <1>7, Zenon DEF VlanStep, HasVlansOf

\* set_vlan keeps the invariant.
LEMMA VlanStepKeeps ==
    ASSUME IInv, NEW vid \in Vlan, VlanStep(vid)
    PROVE  Structure' /\ Memberships' /\ Pvids'
<1> USE DEF IInv
<1>1. /\ call = NULL /\ UNCHANGED <<pvid, lags, bundles, owner, call>> /\ stale \subseteq stale'
  BY DEF VlanStep
<1>2. Structure'
  BY <1>1, StructureSame
<1>3. Pvids'
  BY <1>1, PvidsSame
<1>4. ASSUME NEW i \in Intf, ~NoUser(vid, i)
      PROVE  \E b \in Bundle : Live(b) /\ bundles[b].trunks # NULL /\ bundles[b].intfId = i
  BY <1>4 DEF NoUser, Users
<1>5. ASSUME NEW p \in Port, p \notin stale' PROVE PortFit(p)'
  <2>1. PortFit(p) /\ p \in Intf
    BY <1>1, <1>5, Names DEF Memberships
  <2>2. CASE owner[p] = p
    <3>1. p \in Bundle
      BY <2>2, Names DEF TypeOK
    <3>2. p \in Single /\ Live(p)
      BY <2>2, <3>1, Names, Zenon DEF Structure, Owners
    <3>3. bundles[p].intfId = p
      BY <1>1, <3>2, IdleSingle DEF Busy
    <3>4. HasVlansOf(p, bundles[p])
      BY <2>1, <2>2, Zenon DEF PortFit
    <3>5. HasVlansOf(bundles[p].intfId, bundles[p])
      BY <3>3, <3>4, Zenon
    <3>6. HasVlansOf(bundles[p].intfId, bundles[p])'
      BY <1>5, <3>1, <3>2, <3>3, <3>5, Names DEF VlanStep
    <3>7. HasVlansOf(p, bundles[p])'
      BY <1>1, <3>3, <3>6 DEF HasVlansOf
    <3> QED BY <1>1, <2>2, <3>1, <3>7, Names DEF PortFit
  <2>3. CASE owner[p] # p
    <3>1. ~HasOwnBundle(p)
      BY <1>1, <2>3, SlaveHasNoBundle DEF Busy
    <3>2. NoUser(vid, p)
      <4>1. ASSUME ~NoUser(vid, p) PROVE FALSE
        <5>1. PICK b \in Bundle : Live(b) /\ bundles[b].trunks # NULL /\ bundles[b].intfId = p
          BY <1>4, <2>1, <4>1
        <5>2. b \in Single /\ b = p
          BY <5>1, StructureFacts, Names
        <5> QED BY <3>1, <5>1, <5>2 DEF HasOwnBundle
      <4> QED BY <4>1
    <3>3. \A v \in Vlan : members'[v][p] = members[v][p]
      BY <2>1, <3>2, Zenon DEF VlanStep
    <3>4. (owner[p] # NULL => InNoVlan(p)) /\
          (owner[p] = NULL => \A v \in Vlan \ {DefaultVlan} : members[v][p] = "none")
      BY <2>1, <2>3, <3>1 DEF PortFit
    <3>5. (owner'[p] # NULL => InNoVlan(p)') /\
          (owner'[p] = NULL => \A v \in Vlan \ {DefaultVlan} : members'[v][p] = "none")
      BY <1>1, <3>3, <3>4 DEF InNoVlan
    <3> QED BY <1>1, <2>3, <3>5 DEF PortFit
  <2> QED BY <2>2, <2>3
<1>6. ASSUME NEW g \in LagId, g \notin stale' PROVE LagFit(g)'
  <2>1. LagFit(g) /\ g \in Intf /\ g # NULL
    BY <1>1, <1>6, Names DEF Memberships
  <2>2. g \notin lags => NoUser(vid, g)
    <3>1. ASSUME g \notin lags, ~NoUser(vid, g) PROVE FALSE
      <4>1. PICK b \in Bundle : Live(b) /\ bundles[b].trunks # NULL /\ bundles[b].intfId = g
        BY <1>4, <2>1, <3>1
      <4>2. b \in Lag
        BY <2>1, <4>1, StructureFacts, Names
      <4> QED BY <2>1, <3>1, <4>1, <4>2 DEF Structure, LagBundles, LagOK
    <3> QED BY <3>1
  <2>3. g \notin lags' => InNoVlan(g)'
    <3>1. g \notin lags => \A v \in Vlan : members'[v][g] = members[v][g]
      BY <2>1, <2>2 DEF VlanStep
    <3> QED BY <1>1, <2>1, <3>1 DEF LagFit, InNoVlan
  <2>4. ASSUME NEW b \in Lag, Live(b), bundles[b].intfId = g PROVE HasVlansOf(g, bundles[b])'
    <3>1. HasVlansOf(bundles[b].intfId, bundles[b])
      BY <2>1, <2>4 DEF LagFit
    <3>2. HasVlansOf(bundles[b].intfId, bundles[b])'
      BY <1>6, <2>1, <2>4, <3>1, Names DEF VlanStep
    <3> QED BY <1>1, <2>4, <3>2 DEF HasVlansOf
  <2>5. \A b \in Lag : Live(b)' /\ bundles'[b].intfId = g => HasVlansOf(g, bundles[b])'
    BY <1>1, <2>4 DEF Live
  <2> QED BY <2>3, <2>5 DEF LagFit
<1>7. Memberships'
  BY <1>5, <1>6 DEF Memberships
<1> QED BY <1>2, <1>3, <1>7
-----------------------------------------------------------------------------
(* Bundles that go *)

\* A bundle whose ports a step does not touch, except that some leave.
PvidKept(c) ==
    /\ bundles'[c] = bundles[c] /\ stale \subseteq stale'
    /\ \A p \in Port : owner'[p] = c /\ p \notin stale' => owner[p] = c /\ pvid'[p] = pvid[p]
    /\ (bundles[c].is_lag /\ Busy(c) /\ call.updated => Busy(c)' /\ call'.updated)

\* A bundle that gets no port keeps the default VLANs of its ports right.
LEMMA PvidFrame ==
    ASSUME Pvids, NEW c \in Bundle, PvidKept(c), Settled(c)'
    PROVE  PvidOf(c)'
<1>1. Settled(c)
  BY DEF Settled, PvidKept, Live
<1>2. PvidOf(c)
  BY <1>1 DEF Pvids
<1>3. Coherent(bundles[c])'
  BY <1>2 DEF PvidOf, Coherent, PvidKept
<1>4. ASSUME ~(bundles'[c].is_lag /\ Busy(c)' /\ call'.updated),
             NEW p \in Port, owner'[p] = c, p \notin stale'
      PROVE  pvid'[p] = bundles'[c].vlan
  <2>1. ~(bundles[c].is_lag /\ Busy(c) /\ call.updated)
    BY <1>4 DEF PvidKept
  <2>2. owner[p] = c /\ pvid'[p] = pvid[p] /\ p \notin stale
    BY <1>4 DEF PvidKept
  <2> QED BY <1>2, <2>1, <2>2 DEF PvidOf, PvidKept
<1> QED BY <1>3, <1>4 DEF PvidOf

\* The bundle b is destroyed, its ports aside.
Gone(b, hw) ==
    /\ bundles' = [bundles EXCEPT ![b] = NULL]
    /\ lags' = lags \/ (bundles[b].is_lag /\ lags' = lags \ {bundles[b].intfId})
    /\ hw /\ bundles[b].is_lag => lags' = lags \ {bundles[b].intfId}
    /\ exist' = exist /\ stale \subseteq stale'
    /\ ~hw /\ bundles[b].intfId # NULL => bundles[b].intfId \in stale'
GoneMembers(b, hw) ==
    /\ \A g \in LagId : g # bundles[b].intfId => \A v \in Vlan : members'[v][g] = members[v][g]
    /\ hw /\ bundles[b].intfId \in LagId =>
          \A v \in Vlan : members'[v][bundles[b].intfId] = "none"

\* bundle_destroy keeps the LAGs of the other bundles, and leaves its own in no VLAN.
LEMMA GoneLags ==
    ASSUME IInv, NEW b \in Bundle, Live(b), NEW hw \in BOOLEAN, Gone(b, hw), GoneMembers(b, hw)
    PROVE  /\ LagBundles' /\ OwnLag'
           /\ \A g \in LagId : g \notin stale' => LagFit(g)'
<1> USE DEF IInv
<1>1. \A c \in Bundle : bundles'[c] = IF c = b THEN NULL ELSE bundles[c]
  BY DEF Gone, TypeOK
<1>2. \A c \in Bundle : c # b /\ Live(c) /\ bundles[c].intfId # NULL => bundles[c].intfId # bundles[b].intfId
  BY OwnIntf
<1>3. LagBundles'
  <2>1. SUFFICES ASSUME NEW c \in Lag, bundles'[c] # NULL PROVE LagOK(c)'
    BY DEF LagBundles, Live
  <2>2. c \in Bundle /\ c # b /\ bundles'[c] = bundles[c] /\ Live(c)
    BY <1>1, <2>1, Names DEF Live
  <2>3. LagOK(c)
    BY <2>1, <2>2 DEF Structure, LagBundles
  <2>4. bundles[c].intfId \in lags' \union {NULL}
    BY <1>2, <2>2, <2>3 DEF LagOK, Gone
  <2> QED BY <2>2, <2>3, <2>4 DEF LagOK
<1>4. OwnLag'
  BY <1>1, Names DEF Structure, OwnLag, Live
<1>5. ASSUME NEW g \in LagId, g \notin stale' PROVE LagFit(g)'
  <2>1. LagFit(g) /\ g # NULL
    BY <1>5, Names DEF Memberships, Gone
  <2>2. CASE g # bundles[b].intfId
    <3>1. g \in lags => g \in lags'
      BY <2>2 DEF Gone
    <3>2. \A c \in Lag : bundles'[c] # NULL => bundles'[c] = bundles[c]
      BY <1>1, Names
    <3>3. LagKept(g)
      BY <2>2, <3>1, <3>2 DEF LagKept, Gone, GoneMembers
    <3> QED BY <2>1, <3>3, LagFrame
  <2>3. CASE g = bundles[b].intfId
    <3>1. InNoVlan(g)'
      BY <1>5, <2>1, <2>3 DEF Gone, GoneMembers, InNoVlan
    <3>2. \A c \in Lag : ~(bundles'[c] # NULL /\ bundles'[c].intfId = g)
      BY <1>1, <1>2, <2>1, <2>3, Names DEF Live
    <3> QED BY <3>1, <3>2 DEF LagFit, Live
  <2> QED BY <2>2, <2>3
<1> QED BY <1>3, <1>4, <1>5

\* bundle_set without settings keeps the invariant.
LEMMA BundleUnsetKeeps ==
    ASSUME IInv, NEW b \in Bundle, NEW hw \in BOOLEAN, bundle_unset(b, hw)
    PROVE  TypeOK' /\ Structure' /\ Memberships' /\ Pvids'
<1> USE DEF IInv
<1>1. TypeOK' /\ Unset(b, hw)
  BY BundleUnsetType
<1>2. /\ call = NULL /\ call' = NULL /\ Live(b) /\ exist' = exist
      /\ bundles' = [bundles EXCEPT ![b] = NULL]
      /\ owner' = [p \in Port |-> IF owner[p] = b THEN NULL ELSE owner[p]]
      /\ stale' = Doubted(b, Ports(b), hw) /\ lags' \in lag_destroy(bundles[b], hw)
  BY Zenon DEF bundle_unset
<1>3. /\ \A c \in Bundle : bundles'[c] = IF c = b THEN NULL ELSE bundles[c]
      /\ \A p \in Port : owner'[p] = IF owner[p] = b THEN NULL ELSE owner[p]
  BY <1>2 DEF TypeOK
<1>4. /\ stale \subseteq stale' /\ (~hw => Ports(b) \subseteq stale')
      /\ ~hw /\ bundles[b].intfId # NULL => bundles[b].intfId \in stale'
  <2>1. Ports(b) \in SUBSET Port
    BY DEF Ports
  <2> QED BY <1>2, <2>1, DoubtedFacts
<1>5. Gone(b, hw)
  BY <1>2, <1>4, LagDestroyFacts DEF Gone
<1>6. GoneMembers(b, hw)
  <2>1. \A g \in LagId : g \notin Ports(b) /\ g \in Intf
    BY Names DEF Ports
  <2>2. bundles[b].intfId \in LagId => bundles[b].intfId # NULL /\ bundles[b].intfId \notin Port
    BY Names
  <2> QED BY <1>1, <2>1, <2>2 DEF GoneMembers, Unset, SameBut
<1>7. /\ LagBundles' /\ OwnLag' /\ \A g \in LagId : g \notin stale' => LagFit(g)'
  BY <1>2, <1>5, <1>6, GoneLags, Zenon
<1>8. Owners' /\ Calls'
  BY <1>2, <1>3, Names, Zenon DEF Structure, Owners, Calls, Live, TypeOK
<1>9. Singles'
  <2>1. SUFFICES ASSUME NEW c \in Single, bundles'[c] # NULL PROVE SingleOK(c)'
    BY DEF Singles, Live
  <2>2. c # b /\ bundles'[c] = bundles[c] /\ SingleOK(c) /\ ~Busy(c)
    BY <1>2, <1>3, <2>1, Names, Zenon DEF Structure, Singles, Live, Busy
  <2>3. owner[c] = c /\ owner'[c] = c
    BY <1>3, <2>2, Names, Zenon DEF SingleOK
  <2> QED BY <1>2, <2>2, <2>3, Zenon DEF SingleOK, Busy
<1>10. ASSUME NEW p \in Port, p \notin stale' PROVE PortFit(p)'
  <2>1. PortFit(p) /\ p \in Intf
    BY <1>4, <1>10, Names DEF Memberships
  <2>2. CASE p \notin Ports(b)
    <3>1. owner[p] # b /\ p # bundles[b].intfId /\ p # b
      <4>1. owner[p] # b /\ ~Busy(b)
        BY <1>2, <2>2 DEF Ports, Busy
      <4>2. CASE b \in Single
        <5>1. owner[b] = b /\ bundles[b].intfId = b
          BY <1>2, <4>1, <4>2, IdleSingle, Zenon
        <5> QED BY <4>1, <5>1
      <4>3. CASE b \in Lag
        <5>1. bundles[b].intfId \notin Port
          BY <1>2, <4>3, StructureFacts, Zenon
        <5> QED BY <4>1, <4>3, <5>1, Names
      <4> QED BY <4>2, <4>3, Names
    <3>2. bundles'[p] = bundles[p] \/ p \notin Bundle
      BY <1>3, <3>1
    <3>3. PortKept(p)
      <4>1. \A v \in Vlan : members'[v][p] = members[v][p]
        BY <1>1, <2>1, <2>2, <3>1, Zenon DEF Unset, SameBut
      <4>2. owner[p] = p => p \in Bundle
        BY Names DEF TypeOK
      <4>3. HasOwnBundle(p) => HasOwnBundle(p)'
        BY <3>2, Names DEF HasOwnBundle, Live
      <4> QED BY <1>2, <1>3, <3>1, <3>2, <4>1, <4>2, <4>3, Zenon DEF PortKept
    <3> QED BY <2>1, <3>3, PortFrame
  <2>3. CASE p \in Ports(b)
    <3>1. owner[p] = b /\ owner'[p] = NULL /\ hw
      BY <1>3, <1>4, <1>10, <2>3 DEF Ports
    <3>2. ASSUME NEW v \in Vlan \ {DefaultVlan} PROVE members'[v][p] = "none"
      <4>1. CASE b \in Single
        <5>1. p = b /\ bundles[b].intfId = p
          <6>1. ~Busy(b) /\ Ports(b) \subseteq {b}
            BY <1>2, <4>1, StructureFacts DEF Busy
          <6>2. bundles[b].intfId = b
            BY <1>2, <4>1, <6>1, IdleSingle, Zenon
          <6> QED BY <2>3, <6>1, <6>2
        <5> QED BY <1>1, <2>1, <3>1, <3>2, <5>1, Names, Zenon DEF Unset
      <4>2. CASE b \in Lag
        <5>1. b # p /\ p # bundles[b].intfId /\ b # NULL
          BY <1>2, <4>2, StructureFacts, Names, Zenon
        <5>2. members[v][p] = "none"
          BY <2>1, <3>1, <3>2, <5>1, Zenon DEF PortFit, InNoVlan
        <5> QED BY <1>1, <2>3, <3>2, <5>1, <5>2, Zenon DEF Unset
      <4> QED BY <4>1, <4>2, Names
    <3>3. owner'[p] # p
      BY <3>1, Names
    <3> QED BY <3>1, <3>2, <3>3, Zenon DEF PortFit
  <2> QED BY <2>2, <2>3
<1>11. Pvids'
  <2>1. SUFFICES ASSUME NEW c \in Bundle, Settled(c)' PROVE PvidOf(c)'
    BY DEF Pvids
  <2>2. c # b /\ bundles'[c] = bundles[c] /\ c # NULL
    BY <1>3, <2>1, Names DEF Settled, Live
  <2>3. \A p \in Port : owner'[p] = c => owner[p] = c /\ pvid'[p] = pvid[p]
    BY <1>1, <1>3, <2>2, Zenon DEF Unset, Ports
  <2>4. PvidKept(c)
    BY <1>2, <1>4, <2>2, <2>3, Zenon DEF PvidKept, Busy
  <2> QED BY <2>1, <2>4, PvidFrame
<1> QED BY <1>1, <1>7, <1>8, <1>9, <1>10, <1>11 DEF Structure, Memberships

\* The port p leaves the bundle b: bundle_del_port and, after the last port, bundle_destroy.
PortLeft(p, b, hw) ==
    /\ Live(b) /\ (b \in Single => b = p /\ Ports(b) = {p})
    /\ \A c \in Bundle : bundles'[c] = IF Ports(b) = {p} /\ c = b THEN NULL ELSE bundles[c]
    /\ stale \subseteq stale' /\ (~hw => p \in stale')
    /\ \A q \in Port : q # p => pvid'[q] = pvid[q]

\* What LeaveBundle does besides the membership.
LEMMA LeftFacts ==
    ASSUME IInv, NEW p \in Port, NEW b \in Bundle, b = owner[p], NEW hw \in BOOLEAN,
           LeaveBundle(p, hw)
    PROVE  PortLeft(p, b, hw)
<1> USE DEF IInv
<1>1. Live(b) /\ (b \in Single => b = p)
  BY Names DEF Structure, Owners
<1>2. p \in Ports(b)
  BY DEF Ports
<1>3. b \in Single => b = p /\ Ports(b) = {p}
  BY <1>1, <1>2, StructureFacts
<1>4. \A c \in Bundle : bundles'[c] = IF Ports(b) = {p} /\ c = b THEN NULL ELSE bundles[c]
  BY DEF LeaveBundle, TypeOK
<1>5. stale' = Doubted(b, {p}, hw) /\ {p} \in SUBSET Port
  BY DEF LeaveBundle
<1>6. stale \subseteq stale' /\ (~hw => p \in stale')
  BY <1>1, <1>5, DoubtedFacts
<1>7. \A q \in Port : q # p => pvid'[q] = pvid[q]
  BY <1>1, LeaveBundleType
<1> QED BY <1>1, <1>3, <1>4, <1>6, <1>7, Zenon DEF PortLeft

\* Nothing but the port and the interface of the bundle is touched; SameBut allows for what
\* bundle_add_port does to the port afterwards.
LEMMA LeftOthers ==
    ASSUME IInv, NEW p \in Port, NEW b \in Bundle, b = owner[p], NEW hw \in BOOLEAN,
           LeaveBundle(p, hw), NEW m \in LeaveMembers(p, hw), SameBut(m, members', {p}),
           exist' = exist, \A q \in Port : q # p => owner'[q] = owner[q]
    PROVE  /\ LagBundles' /\ OwnLag'
           /\ \A g \in LagId : g \notin stale' => LagFit(g)'
           /\ \A q \in Port : q # p /\ q \notin stale' => PortFit(q)'
<1> USE DEF IInv
<1>1. PortLeft(p, b, hw)
  BY LeftFacts
<1>2. Leaves(p, b, bundles[b].intfId, m, hw)
  BY <1>1, LeavesFacts, Zenon DEF PortLeft
<1>3. LagBundles' /\ OwnLag' /\ \A g \in LagId : g \notin stale' => LagFit(g)'
  <2>1. CASE Ports(b) = {p}
    <3>1. bundles' = [bundles EXCEPT ![b] = NULL] /\ lags' \in lag_destroy(bundles[b], hw)
      BY <2>1, Zenon DEF LeaveBundle
    <3>2. ~hw /\ bundles[b].intfId # NULL => bundles[b].intfId \in stale'
      <4>1. stale' = Doubted(b, {p}, hw) /\ {p} \in SUBSET Port
        BY Zenon DEF LeaveBundle
      <4> QED BY <1>1, <4>1, DoubtedFacts, Zenon DEF PortLeft
    <3>3. Gone(b, hw)
      BY <1>1, <3>1, <3>2, LagDestroyFacts, Zenon DEF Gone, PortLeft
    <3>4. ASSUME NEW g \in LagId, NEW v \in Vlan PROVE members'[v][g] = m[v][g]
      BY <3>4, Names DEF SameBut
    <3>5. GoneMembers(b, hw)
      <4>1. \A g \in LagId : g # bundles[b].intfId => \A v \in Vlan : m[v][g] = members[v][g]
        BY <1>2, <2>1, Names, Zenon DEF Leaves, SameBut
      <4>2. hw /\ bundles[b].intfId \in LagId => \A v \in Vlan : m[v][bundles[b].intfId] = "none"
        BY <1>2, <2>1, Names, Zenon DEF Leaves
      <4> QED BY <3>4, <4>1, <4>2, Zenon DEF GoneMembers
    <3> QED BY <1>1, <3>3, <3>5, GoneLags, Zenon DEF PortLeft
  <2>2. CASE Ports(b) # {p}
    <3>1. bundles' = bundles /\ lags' = lags
      BY <2>2 DEF LeaveBundle
    <3>2. LagBundles' /\ OwnLag'
      BY <3>1 DEF Structure, LagBundles, LagOK, OwnLag, Live
    <3>3. ASSUME NEW g \in LagId, g \notin stale' PROVE LagFit(g)'
      <4>1. LagFit(g)
        BY <1>1, <3>3, Zenon DEF Memberships, PortLeft
      <4>2. \A v \in Vlan : members'[v][g] = m[v][g] /\ m[v][g] = members[v][g]
        BY <1>2, <2>2, Names, Zenon DEF Leaves, SameBut
      <4>3. LagKept(g)
        BY <3>1, <4>2, Zenon DEF LagKept
      <4> QED BY <4>1, <4>3, LagFrame
    <3> QED BY <3>2, <3>3
  <2> QED BY <2>1, <2>2
<1>4. ASSUME NEW q \in Port, q # p, q \notin stale' PROVE PortFit(q)'
  <2>1. PortFit(q) /\ q \in Intf
    BY <1>1, <1>4, Names, Zenon DEF Memberships, PortLeft
  <2>2. q # b /\ q # bundles[b].intfId
    <3>1. Live(b) /\ (b \in Single => b = p)
      BY <1>1 DEF PortLeft
    <3>2. CASE b \in Single
      <4>1. bundles[b].intfId \in {NULL, b}
        BY <3>1, <3>2, StructureFacts
      <4> QED BY <1>4, <3>1, <3>2, <4>1, Names
    <3>3. CASE b \in Lag
      <4>1. bundles[b].intfId \notin Port
        BY <3>1, <3>3, StructureFacts
      <4> QED BY <3>3, <4>1, Names, Zenon
    <3> QED BY <3>2, <3>3, Names
  <2>3. \A v \in Vlan : members'[v][q] = m[v][q] /\ m[v][q] = members[v][q]
    BY <1>2, <1>4, <2>1, <2>2, Zenon DEF Leaves, SameBut
  <2>4. q \in Bundle => bundles'[q] = bundles[q]
    BY <1>1, <2>2, Zenon DEF PortLeft
  <2>5. owner[q] = q => q \in Bundle
    BY Names DEF TypeOK
  <2>6. HasOwnBundle(q) => HasOwnBundle(q)'
    BY <2>4, Names, Zenon DEF HasOwnBundle, Live
  <2>7. PortKept(q)
    BY <1>4, <2>3, <2>4, <2>5, <2>6, Zenon DEF PortKept
  <2> QED BY <2>1, <2>7, PortFrame, Zenon
<1> QED BY <1>3, <1>4

\* The port is out of all VLANs but the default one, or of all if its bundle was its own.
LEMMA LeftPort ==
    ASSUME IInv, NEW p \in Port, NEW b \in Bundle, b = owner[p], p \notin stale, ~Busy(b),
           Live(b), NEW m \in LeaveMembers(p, TRUE), NEW v \in Vlan \ {DefaultVlan}
    PROVE  m[v][p] = "none"
<1> USE DEF IInv
<1>1. Leaves(p, b, bundles[b].intfId, m, TRUE)
  BY LeavesFacts, Zenon
<1>2. CASE b \in Single
  <2>1. b = p /\ bundles[b].intfId = p
    BY <1>2, IdleSingle, Names, Zenon DEF Structure, Owners
  <2>2. Ports(b) = {p}
    <3>1. p \in Ports(b)
      BY DEF Ports
    <3>2. Ports(b) \subseteq {p}
      BY <1>2, <2>1, StructureFacts
    <3> QED BY <3>1, <3>2
  <2> QED BY <1>1, <2>1, <2>2, Names, Zenon DEF Leaves
<1>3. CASE b \in Lag
  <2>1. b # p /\ bundles[b].intfId # p /\ b # NULL
    BY <1>3, StructureFacts, Names
  <2>2. members[v][p] = "none"
    BY <2>1 DEF Memberships, PortFit, InNoVlan
  <2> QED BY <1>1, <2>1, <2>2 DEF Leaves
<1> QED BY <1>2, <1>3, Names

\* bundle_remove keeps the invariant.
LEMMA BundleRemoveKeeps ==
    ASSUME IInv, NEW p \in Port, NEW hw \in BOOLEAN, bundle_remove(p, hw)
    PROVE  TypeOK' /\ Structure' /\ Memberships' /\ Pvids'
<1> USE DEF IInv
<1>1. PICK b \in Bundle : b = owner[p]
  BY DEF bundle_remove, TypeOK
<1>2. /\ call = NULL /\ call' = NULL /\ exist' = exist /\ LeaveBundle(p, hw)
      /\ members' \in LeaveMembers(p, hw) /\ owner' = [owner EXCEPT ![p] = NULL]
  BY DEF bundle_remove
<1>3. PortLeft(p, b, hw)
  BY <1>1, <1>2, LeftFacts
<1>4. TypeOK'
  BY <1>1, <1>3, BundleRemoveType DEF PortLeft
<1>5. \A q \in Port : owner'[q] = IF q = p THEN NULL ELSE owner[q]
  BY <1>2 DEF TypeOK
<1>6. /\ LagBundles' /\ OwnLag'
      /\ \A g \in LagId : g \notin stale' => LagFit(g)'
      /\ \A q \in Port : q # p /\ q \notin stale' => PortFit(q)'
  <2>1. SameBut(members', members', {p})
    BY DEF SameBut
  <2> QED BY <1>1, <1>2, <1>5, <2>1, LeftOthers
<1>7. p \notin stale' => PortFit(p)'
  <2>1. SUFFICES ASSUME p \notin stale' PROVE PortFit(p)'
    OBVIOUS
  <2>2. hw /\ p \notin stale /\ Live(b) /\ ~Busy(b)
    BY <1>2, <1>3, <2>1, Zenon DEF PortLeft, Busy
  <2>3. members' \in LeaveMembers(p, TRUE)
    BY <1>2, <2>2, Zenon
  <2>4. \A v \in Vlan \ {DefaultVlan} : members'[v][p] = "none"
    BY <1>1, <2>2, <2>3, LeftPort, Zenon
  <2>5. owner'[p] = NULL /\ NULL # p
    BY <1>5, Names
  <2> QED BY <2>4, <2>5, Zenon DEF PortFit
<1>8. Owners' /\ Calls'
  <2>1. \A q \in Port : q # p /\ owner[q] = b => Ports(b) # {p}
    BY DEF Ports
  <2>2. Calls'
    BY <1>2 DEF Calls
  <2>3. ASSUME NEW q \in Port, owner'[q] # NULL
        PROVE  bundles'[owner'[q]] # NULL /\ (owner'[q] \in Single => owner'[q] = q)
    <3>1. q # p /\ owner'[q] = owner[q] /\ owner[q] \in Bundle
      BY <1>5, <2>3 DEF TypeOK
    <3>2. Live(owner[q]) /\ (owner[q] \in Single => owner[q] = q)
      BY <2>3, <3>1, Zenon DEF Structure, Owners
    <3>3. bundles'[owner[q]] = bundles[owner[q]]
      BY <1>3, <2>1, <3>1 DEF PortLeft
    <3> QED BY <3>1, <3>2, <3>3, Zenon DEF Live
  <2> QED BY <2>2, <2>3 DEF Owners, Live
<1>9. Singles'
  <2>1. SUFFICES ASSUME NEW c \in Single, bundles'[c] # NULL PROVE SingleOK(c)'
    BY DEF Singles, Live
  <2>2. c \in Bundle /\ bundles'[c] = bundles[c] /\ Live(c) /\ ~(Ports(b) = {p} /\ c = b)
    BY <1>3, <2>1, Names DEF PortLeft, Live
  <2>3. SingleOK(c) /\ owner[c] = c
    BY <1>2, <2>2, IdleSingle DEF Structure, Singles, Busy
  <2>4. c # p
    BY <1>1, <1>3, <2>2, <2>3 DEF PortLeft
  <2>5. owner'[c] = c
    BY <1>5, <2>3, <2>4, Names
  <2>6. ~Busy(c)
    BY <1>2 DEF Busy
  <2> QED BY <1>2, <2>2, <2>3, <2>5, <2>6, Zenon DEF SingleOK, Busy
<1>10. Pvids'
  <2>1. SUFFICES ASSUME NEW c \in Bundle, Settled(c)' PROVE PvidOf(c)'
    BY DEF Pvids
  <2>2. bundles'[c] = bundles[c] /\ c # NULL
    BY <1>3, <2>1, Names DEF Settled, Live, PortLeft
  <2>3. \A q \in Port : owner'[q] = c => owner[q] = c /\ pvid'[q] = pvid[q]
    BY <1>3, <1>5, <2>2 DEF PortLeft
  <2>4. PvidKept(c)
    BY <1>2, <1>3, <2>2, <2>3, Zenon DEF PvidKept, Busy, PortLeft
  <2> QED BY <2>1, <2>4, PvidFrame
<1> QED BY <1>4, <1>6, <1>7, <1>8, <1>9, <1>10 DEF Structure, Memberships
=============================================================================
