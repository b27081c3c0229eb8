----------------------------- MODULE Classifier -----------------------------
(***************************************************************************)
(* Access control lists (ops-xp-classifier.c).  A list that is applied to  *)
(* an interface gets an entry in the map of the table for that kind of     *)
(* interface: its ACL ID, shared by the entries of the same list in other  *)
(* tables, the TCAM indexes of its rules, and the number of interfaces it  *)
(* is applied to.  A port or an L3 interface carries the ACL ID it is      *)
(* filtered with; a rule in the TCAM carries the ACL ID it belongs to.     *)
(*                                                                         *)
(* The content of a list is a member of Version, of which the model keeps  *)
(* the number of rules.  After undefined behaviour nothing more is done.   *)
(***************************************************************************)
EXTENDS Common, Naturals, Sequences, FiniteSets, Functions

CONSTANTS
    Bundle, Member,     \* bundles, which ACLs are applied to, and their ports
    List,               \* lists, by UUID
    Version,            \* contents of a list
    NumRules,           \* how many rules each has
    Unsupported,        \* those with an L4 port range, comparison or inequality
    AclId,              \* IDs of the hardware's allocator
    Tcam                \* indexes of each table's TCAM

Table == {"pacl", "bacl", "racl"}

VARIABLES
    content,            \* the lists as ovs-vswitchd has them
    entries,            \* classifier_hmap_pacl, _bacl, _racl
    acl_ids,            \* the ACL IDs that are allocated
    tcam,               \* what the TCAM of each table holds
    ports,              \* the bundle each port is in
    l3_intf,            \* the bundles that have an L3 interface
    port_acl,           \* XPS_PORT_ACL_ID of a port, NULL with XPS_PORT_ACL_EN off
    router_acl,         \* the same of a bundle's L3 interface
    applied,            \* history: the list ovs-vswitchd has applied to a bundle
    touched,            \* history: ports and bundles changed under an applied list
    leaked,             \* history: ACL IDs that no entry in a map has
    acl_undefined       \* "no", or what led to undefined behaviour

aclVars == <<content, entries, acl_ids, tcam, ports, l3_intf, port_acl, router_acl, applied,
             touched, leaked, acl_undefined>>
hwIntf == <<ports, l3_intf, port_acl, router_acl, applied, touched>>
-----------------------------------------------------------------------------
(* Types and helpers *)

Rule == [acl_id : AclId, list : List, version : Version, number : Nat]
Entry == [acl_id : AclId, rules : Seq(Tcam), num_intfs : Nat]

AclTypeOK ==
    /\ content \in [List -> Version]
    /\ \A t \in Table, l \in List : entries[t][l] = NULL \/ entries[t][l] \in Entry
    /\ acl_ids \subseteq AclId /\ leaked \subseteq acl_ids
    /\ \A t \in Table, i \in Tcam : tcam[t][i] = NULL \/ tcam[t][i] \in Rule
    /\ ports \in [Member -> Bundle] /\ l3_intf \subseteq Bundle
    /\ port_acl \in [Member -> {NULL} \union AclId]
    /\ router_acl \in [Bundle -> {NULL} \union AclId]
    /\ applied \in [Bundle -> [Table -> {NULL} \union List]]
    /\ touched \subseteq Member \union Bundle
    /\ acl_undefined \in {"no", "resources", "list_update"}

PortsOf(b) == {p \in Member : ports[p] = b}

\* bundle_lookup and the check for an L3 interface, else EPERM.
Usable(b, t) == t = "racl" => b \in l3_intf

\* The hardware side of applying, removing and replacing: the ACL ID of each port of
\* the bundle, or of its L3 interface; nothing for a VLAN that is only bridged.
SetIntfAcl(b, t, acl) ==
    /\ port_acl' = IF t # "pacl" THEN port_acl
                   ELSE [p \in Member |-> IF p \in PortsOf(b) THEN acl ELSE port_acl[p]]
    /\ router_acl' = IF t # "racl" THEN router_acl ELSE [router_acl EXCEPT ![b] = acl]

\* Sequences of n free TCAM indexes of a table: what xpsTcamMgrAllocEntry returns.
Free(t) == {i \in Tcam : tcam[t][i] = NULL}
Places(t, n) == {s \in [1..n -> Free(t)] : \A i, j \in 1..n : s[i] = s[j] => i = j}

\* ops_xp_cls_create_rule_entry_list writes a list's rules to the TCAM ...
create_rule_entry_list(contents, l, v, acl, places) ==
    [i \in Tcam |-> IF i \in Range(places)
                    THEN [acl_id |-> acl, list |-> l, version |-> v,
                          number |-> CHOOSE n \in DOMAIN places : places[n] = i]
                    ELSE contents[i]]

\* Fault of destroy_rule_entry_list: the rules stay in the TCAM.
destroy_rule_entry_list_Left(contents, places) == contents

\* ... and ops_xp_cls_destroy_rule_entry_list clears and frees them.
destroy_rule_entry_list(contents, places) ==
    [i \in Tcam |-> IF i \in Range(places) THEN NULL ELSE contents[i]]

\* The ACL ID of the list in any of the three maps, or a new one.
IdsOf(l, es) == {es[t][l].acl_id : t \in {t \in Table : es[t][l] # NULL}}
\* Fault of AclIdsFor: the other tables are not asked for the list's ACL ID.
AclIdsFor_New(l) == AclId \ acl_ids

AclIdsFor(l) == IF IdsOf(l, entries) # {} THEN IdsOf(l, entries) ELSE AclId \ acl_ids
-----------------------------------------------------------------------------
(* One interface *)

\* ops_xp_cls_acl_add, with what it does when an allocation fails: the failure of the
\* ACL ID is reported in a status the caller loses, that of a TCAM entry nowhere, and
\* an uninitialized number is used.
Exhausted(t, l) == AclIdsFor(l) = {} \/ Places(t, NumRules[content[l]]) = {}

acl_add(t, l, num_intfs) ==
    \E acl \in AclIdsFor(l), places \in Places(t, NumRules[content[l]]) :
       /\ entries' = [entries EXCEPT ![t][l] =
                        [acl_id |-> acl, rules |-> places, num_intfs |-> num_intfs]]
       /\ acl_ids' = acl_ids \union {acl}
       /\ tcam' = [tcam EXCEPT ![t] =
                     create_rule_entry_list(@, l, content[l], acl, places)]

\* ops_xp_cls_acl_delete in the maps es, TCAM tc and IDs as they are then.
acl_delete(t, l, es, tc, ids) ==
    LET rest == [es EXCEPT ![t][l] = NULL]
        acl == es[t][l].acl_id
    IN  /\ tcam' = [tc EXCEPT ![t] = destroy_rule_entry_list(@, es[t][l].rules)]
        /\ entries' = rest
        /\ acl_ids' = IF acl \in IdsOf(l, rest) THEN ids ELSE ids \ {acl}

AclUndefined(why) ==
    /\ acl_undefined' = why
    /\ UNCHANGED <<content, entries, acl_ids, tcam, hwIntf, leaked>>

\* ops_xp_cls_apply.  A list that the hardware does not support is refused.
apply(b, t, l) ==
    /\ acl_undefined = "no" /\ applied[b][t] = NULL /\ Usable(b, t)
    /\ content[l] \notin Unsupported
    /\ \/ entries[t][l] = NULL /\ Exhausted(t, l) /\ AclUndefined("resources")
       \/ /\ \/ entries[t][l] = NULL /\ acl_add(t, l, 1)
             \/ /\ entries[t][l] # NULL
                /\ entries' = [entries EXCEPT ![t][l].num_intfs = @ + 1]
                /\ UNCHANGED <<acl_ids, tcam>>
          /\ SetIntfAcl(b, t, entries'[t][l].acl_id)
          /\ applied' = [applied EXCEPT ![b][t] = l]
          /\ UNCHANGED <<content, ports, l3_intf, touched, leaked, acl_undefined>>

\* ops_xp_cls_remove.
remove(b, t) ==
    LET l == applied[b][t]
    IN  /\ acl_undefined = "no" /\ l # NULL /\ Usable(b, t)
        /\ SetIntfAcl(b, t, NULL)
        /\ IF entries[t][l].num_intfs = 1
           THEN acl_delete(t, l, entries, tcam, acl_ids)
           ELSE /\ entries' = [entries EXCEPT ![t][l].num_intfs = @ - 1]
                /\ UNCHANGED <<acl_ids, tcam>>
        /\ applied' = [applied EXCEPT ![b][t] = NULL]
        /\ UNCHANGED <<content, ports, l3_intf, touched, leaked, acl_undefined>>

\* Fault of replace_refused: the old list is not given its interface back.
replace_refused_Taken(b, t, new) ==
    /\ content[new] \in Unsupported
    /\ entries' = [entries EXCEPT ![t][applied[b][t]].num_intfs = @ - 1]
    /\ SetIntfAcl(b, t, entries[t][applied[b][t]].acl_id)
    /\ UNCHANGED <<acl_ids, tcam, applied>>

\* ops_xp_cls_replace.  The interface is taken from the old list, the new one applied,
\* and the old one deleted if this was its last interface; when the new one is refused
\* the interface is given back.
replace_refused(b, t, new) ==
    /\ content[new] \in Unsupported
    /\ SetIntfAcl(b, t, entries[t][applied[b][t]].acl_id)
    /\ UNCHANGED <<entries, acl_ids, tcam, applied>>

replace_applied(b, t, new) ==
    LET old == applied[b][t]
        isNew == entries[t][new] = NULL
        taken == [entries EXCEPT ![t][old].num_intfs = @ - 1]
    IN  /\ content[new] \notin Unsupported
        /\ \E acl \in AclIdsFor(new),
              places \in IF isNew THEN Places(t, NumRules[content[new]]) ELSE {<<>>} :
             LET es == [taken EXCEPT ![t][new] =
                          IF isNew THEN [acl_id |-> acl, rules |-> places, num_intfs |-> 1]
                          ELSE [taken[t][new] EXCEPT
                                  !.num_intfs = taken[t][new].num_intfs + 1]]
                 tc == IF isNew
                       THEN [tcam EXCEPT ![t] =
                               create_rule_entry_list(@, new, content[new], acl, places)]
                       ELSE tcam
                 ids == acl_ids \union {acl}
             IN  /\ IF es[t][old].num_intfs = 0 THEN acl_delete(t, old, es, tc, ids)
                    ELSE entries' = es /\ tcam' = tc /\ acl_ids' = ids
                 /\ SetIntfAcl(b, t, es[t][new].acl_id)
        /\ applied' = [applied EXCEPT ![b][t] = new]

replace(b, t, new) ==
    /\ acl_undefined = "no" /\ applied[b][t] # NULL /\ Usable(b, t)
    /\ \/ /\ content[new] \notin Unsupported /\ entries[t][new] = NULL
          /\ Exhausted(t, new) /\ AclUndefined("resources")
       \/ /\ replace_refused(b, t, new) \/ replace_applied(b, t, new)
          /\ UNCHANGED <<content, ports, l3_intf, touched, leaked, acl_undefined>>

\* ops_xp_cls_apply for the direction out: the entry goes to no map, its rules to no
\* table, and the ports get its ACL ID for what comes in.  The ID stays allocated.
apply_out(b, l) ==
    /\ acl_undefined = "no" /\ content[l] \notin Unsupported
    /\ IF AclIdsFor(l) = {} THEN AclUndefined("resources")
       ELSE \E acl \in AclIdsFor(l) :
              /\ acl_ids' = acl_ids \union {acl}
              /\ leaked' = IF IdsOf(l, entries) = {} THEN leaked \union {acl} ELSE leaked
              /\ SetIntfAcl(b, "pacl", acl)
              /\ touched' = touched \union PortsOf(b)
              /\ UNCHANGED <<content, entries, tcam, ports, l3_intf, applied, acl_undefined>>
-----------------------------------------------------------------------------
(* All interfaces of a list *)

\* ops_xp_cls_list_update with the content v: for the port table and then for the router
\* table the new rules are written and, if both calls of
\* ops_xp_cls_create_rule_entry_list succeeded, the old ones destroyed.  That function
\* returns no value, and the status that says whether the list is supported is read
\* uninitialized: each may come out either way.  On the failing path the list of rules
\* is destroyed from a copy of its head, which never ends where it should.
Updated(l) == {t \in {"pacl", "racl"} : entries[t][l] # NULL}

list_update_rules(l, v) ==
    \E places \in [Updated(l) -> UNION {Places(t, NumRules[v]) : t \in Updated(l)}] :
       /\ \A t \in Updated(l) : places[t] \in Places(t, NumRules[v])
       /\ tcam' = [t \in Table |->
                     IF t \in Updated(l)
                     THEN destroy_rule_entry_list(
                            create_rule_entry_list(tcam[t], l, v, entries[t][l].acl_id,
                                                   places[t]),
                            entries[t][l].rules)
                     ELSE tcam[t]]
       /\ entries' = [t \in Table |->
                        IF t \in Updated(l)
                        THEN [entries[t] EXCEPT ![l].rules = places[t]]
                        ELSE entries[t]]

list_update(l, v) ==
    /\ acl_undefined = "no" /\ v # content[l]
    /\ \/ /\ v \in Unsupported \/ Updated(l) = {}
          /\ content' = IF IdsOf(l, entries) = {} THEN [content EXCEPT ![l] = v] ELSE content
          /\ UNCHANGED <<entries, tcam, acl_undefined>>
       \/ UNCHANGED <<content, entries, tcam, acl_undefined>>     \* a stray "unsupported"
       \/ /\ v \notin Unsupported /\ Updated(l) # {}
          /\ \/ /\ list_update_rules(l, v)
                /\ content' = [content EXCEPT ![l] = v]
                /\ UNCHANGED acl_undefined
             \/ /\ \E t \in Updated(l) : Places(t, NumRules[v]) = {}
                /\ acl_undefined' = "resources" /\ UNCHANGED <<content, entries, tcam>>
             \/ acl_undefined' = "list_update" /\ UNCHANGED <<content, entries, tcam>>
    /\ UNCHANGED <<acl_ids, hwIntf, leaked>>
-----------------------------------------------------------------------------
(* What others do to bundles: neither looks at the lists that are applied. *)

\* bundle_add_port and bundle_del_port.
port_moves(p, b) ==
    /\ acl_undefined = "no" /\ ports[p] # b
    /\ ports' = [ports EXCEPT ![p] = b]
    /\ touched' = touched \union
                    (IF applied[b]["pacl"] # NULL \/ applied[ports[p]]["pacl"] # NULL
                     THEN {p} ELSE {})
    /\ UNCHANGED <<content, entries, acl_ids, tcam, l3_intf, port_acl, router_acl, applied,
                   leaked, acl_undefined>>

\* bundle_update_l3_config.
l3_intf_changes(b) ==
    /\ acl_undefined = "no"
    /\ l3_intf' = IF b \in l3_intf THEN l3_intf \ {b} ELSE l3_intf \union {b}
    /\ router_acl' = [router_acl EXCEPT ![b] = NULL]
    /\ touched' = IF applied[b]["racl"] # NULL THEN touched \union {b} ELSE touched
    /\ UNCHANGED <<content, entries, acl_ids, tcam, ports, port_acl, applied, leaked,
                   acl_undefined>>
-----------------------------------------------------------------------------
AclInit ==
    /\ content \in [List -> Version]
    /\ entries = [t \in Table |-> [l \in List |-> NULL]]
    /\ acl_ids = {} /\ leaked = {}
    /\ tcam = [t \in Table |-> [i \in Tcam |-> NULL]]
    /\ ports \in [Member -> Bundle] /\ l3_intf = {}
    /\ port_acl = [p \in Member |-> NULL] /\ router_acl = [b \in Bundle |-> NULL]
    /\ applied = [b \in Bundle |-> [t \in Table |-> NULL]]
    /\ touched = {} /\ acl_undefined = "no"

AclNext ==
    \/ \E b \in Bundle, t \in Table :
         \/ remove(b, t)
         \/ \E l \in List : apply(b, t, l) \/ replace(b, t, l)
    \/ \E b \in Bundle, l \in List : apply_out(b, l)
    \/ \E l \in List, v \in Version : list_update(l, v)
    \/ \E p \in Member, b \in Bundle : port_moves(p, b)
    \/ \E b \in Bundle : l3_intf_changes(b)

AclSpec == AclInit /\ [][AclNext]_aclVars
-----------------------------------------------------------------------------
(* Properties *)

\* An entry is there exactly as long as the list is applied to some interface through
\* that table, and counts these interfaces (num_intfs over apply, remove and both
\* outcomes of replace).
CountsExact ==
    \A t \in Table, l \in List :
       LET n == Cardinality({b \in Bundle : applied[b][t] = l})
       IN  IF n = 0 THEN entries[t][l] = NULL
           ELSE entries[t][l] # NULL /\ entries[t][l].num_intfs = n

\* A list has one ACL ID in all its tables, no other list has it, and the IDs that are
\* allocated are the ones of entries, apart from those that lists applied to the
\* direction out left behind (ops_xp_cls_acl_add and ops_xp_cls_acl_delete).
AclIdsExact ==
    /\ \A l \in List : Cardinality(IdsOf(l, entries)) <= 1
    /\ \A l, m \in List : IdsOf(l, entries) \intersect IdsOf(m, entries) # {} => l = m
    /\ acl_ids = leaked \union UNION {IdsOf(l, entries) : l \in List}

\* An interface is filtered by the list that is applied to it and by nothing else: it
\* carries the list's ACL ID, and the rules with that ID in its table are the rules of
\* the list's present content, each once; without a list it carries none.  Ports and
\* L3 interfaces that changed under an applied list are left out.
Filters(t, l, acl) ==
    /\ acl = entries[t][l].acl_id
    /\ LET rules == {i \in Tcam : tcam[t][i] # NULL /\ tcam[t][i].acl_id = acl}
       IN  /\ Cardinality(rules) = NumRules[content[l]]
           /\ {tcam[t][i].number : i \in rules} = 1..NumRules[content[l]]
           /\ \A i \in rules : tcam[t][i].list = l /\ tcam[t][i].version = content[l]

InterfacesFiltered ==
    acl_undefined = "no" =>
        /\ \A p \in Member \ touched :
             LET l == applied[ports[p]]["pacl"]
             IN  IF l = NULL THEN port_acl[p] = NULL ELSE Filters("pacl", l, port_acl[p])
        /\ \A b \in Bundle \ touched :
             LET l == applied[b]["racl"]
             IN  IF l = NULL THEN router_acl[b] = NULL
                 ELSE Filters("racl", l, router_acl[b])
=============================================================================
