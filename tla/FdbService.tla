----------------------------- MODULE FdbService -----------------------------
(***************************************************************************)
(* What the MAC learning component promises to its two clients, the switch *)
(* pipeline and the bridge of vswitchd: a table that binds a (VLAN, MAC)   *)
(* pair to at most one interface, and reports to the bridge that leave no  *)
(* live binding out.                                                       *)
(*                                                                         *)
(* `owed' is the set of keys whose present binding has not been handed to  *)
(* the bridge.  A hand-over pays every debt at once; it may happen on its  *)
(* own (the report timer) or in the step that changes the table (the       *)
(* report buffer became full).                                             *)
(***************************************************************************)
CONSTANTS
    Keys,       \* (VLAN, MAC) pairs
    Intf,       \* interface IDs
    NoIntf      \* "not in the table"

VARIABLES
    fdb,        \* fdb[k]: the interface k is bound to
    owed        \* keys with a binding the bridge has not been told

vars == <<fdb, owed>>

Init ==
    /\ fdb = [k \in Keys |-> NoIntf]
    /\ owed = {}

\* A key that had no binding is bound to i.
Learn(k, i) ==
    /\ fdb[k] = NoIntf
    /\ fdb' = [fdb EXCEPT ![k] = i]
    /\ owed' \in {owed \union {k}, {}}

\* A bound key is seen on interface i (possibly the one it is bound to).
Move(k, i) ==
    /\ fdb[k] # NoIntf
    /\ fdb' = [fdb EXCEPT ![k] = i]
    /\ owed' \in {owed \union {k}, {}}

\* A binding goes away: aged, flushed, removed by the operator.
Forget(k) ==
    /\ fdb[k] # NoIntf
    /\ fdb' = [fdb EXCEPT ![k] = NoIntf]
    /\ owed' \in {owed \ {k}, {}}

\* The bridge is told of every binding it has not been told of.
Report ==
    /\ owed' = {}
    /\ UNCHANGED fdb

Next ==
    \/ \E k \in Keys, i \in Intf : Learn(k, i) \/ Move(k, i)
    \/ \E k \in Keys : Forget(k)
    \/ Report

Spec == Init /\ [][Next]_vars
=============================================================================
