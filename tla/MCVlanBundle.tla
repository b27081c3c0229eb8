---------------------------- MODULE MCVlanBundle ----------------------------
(* An instance of VlanBundle for TLC. *)
EXTENDS VlanBundle, TLC

\* Every mode, an ID that is not valid, and trunks that share VLANs, so that a
\* change from one to another adds, drops and retags VLANs.
MCVlanSettings ==
    {[vlan_mode |-> "ACCESS", vlan |-> 2, trunks |-> {}],
     [vlan_mode |-> "TRUNK", vlan |-> 0, trunks |-> {1, 2}],
     [vlan_mode |-> "NATIVE_UNTAGGED", vlan |-> 0, trunks |-> {2}],
     [vlan_mode |-> "NATIVE_TAGGED", vlan |-> 2, trunks |-> {1}]}

Symmetry == Permutations(LagId)
=============================================================================
