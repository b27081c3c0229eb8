------------------------------ MODULE L3Routes ------------------------------
(***************************************************************************)
(* Routes and the groups of next hops they share (ops-xp-routing.c).  The  *)
(* main thread calls ops_xp_routing_route_entry_action, which holds the    *)
(* manager's mutex from beginning to end: each call is one step.  A route  *)
(* refers to one group, routes with the same next hops share a group, and  *)
(* a group counts the routes that refer to it.                             *)
(*                                                                         *)
(* A group is found by a hash of its next hops in the order in which they  *)
(* were inserted, so a lookup finds a group with the same next hops or, as *)
(* the order may be another one, misses it.                                *)
(*                                                                         *)
(* The hardware may refuse a call (at most MaxFaults calls of the manager  *)
(* meet one it refuses).  A pointer to a group that was freed makes what   *)
(* follows undefined: no step is taken from such a state.                  *)
(***************************************************************************)
EXTENDS Common, Naturals, FiniteSets, Functions

CONSTANTS
    Prefix,             \* the prefixes of routes
    NextHop,            \* the names of next hops
    Host,               \* IDs of L3 host entries, a next hop's l3_egress_id
    Group,              \* addresses of groups, and their nh_id in the hardware
    MaxNh               \* OFPROTO_MAX_NH_PER_ROUTE

VARIABLES
    hosts,              \* the IDs in host_id_map (see L3Hosts)
    nh_group_map,       \* the groups that are allocated; NULL elsewhere
    route_map,          \* [nh_group |-> ..] for each route; NULL elsewhere
    hw_route,           \* the group in a prefix's entry in the hardware
    asked,              \* history: the next hops the calls that succeeded asked for
    padded,             \* history: prefixes updated with known and new next hops at once
    stale,              \* history: prefixes whose entry the hardware did not remove
    faults              \* history: the calls the hardware refused

vars == <<hosts, nh_group_map, route_map, hw_route, asked, padded, stale, faults>>
history == <<asked, padded, stale, faults>>
-----------------------------------------------------------------------------
(* Types *)

\* xpPktCmd_e, in the entries of next hops.
Cmd == {"FWD", "TRAP"}
Entries == UNION {[S -> Cmd] : S \in SUBSET NextHop}

\* xp_nh_group_entry_t.  The group's xp_nh_id range in the hardware has `size'
\* slots; nh_insert gives the next hops the first ones.
GroupState == [size : 0..MaxNh, ref_cnt : 1..Cardinality(Prefix) + 1, nh : Entries]

\* struct ofproto_route: the host entry of each next hop that is
\* OFPROTO_NH_RESOLVED, and NULL for the others.
Routes == UNION {[S -> Host \union {NULL}] : S \in SUBSET NextHop \ {{}}}

TypeOK ==
    /\ hosts \subseteq Host
    /\ nh_group_map \in [Group -> {NULL} \union GroupState]
    /\ route_map \in [Prefix -> {NULL} \union [nh_group : Group \union {NULL}]]
    /\ hw_route \in [Prefix -> Group \union {NULL, "no next hop"}]
    /\ asked \in [Prefix -> SUBSET NextHop]
    /\ padded \subseteq Prefix /\ stale \subseteq Prefix
    /\ faults \in 0..MaxFaults

Referrers(g) == {p \in Prefix : route_map[p] # NULL /\ route_map[p].nh_group = g}
Allocated == {g \in Group : nh_group_map[g] # NULL}

\* Some route points to memory that nh_group_free released.
Dangling == \E g \in Group \ Allocated : Referrers(g) # {}
-----------------------------------------------------------------------------
(* Next hops and groups *)

\* nh_update fails for a next hop that is resolved by a host entry nobody knows.
Unresolvable(route) ==
    {n \in DOMAIN route : route[n] # NULL /\ route[n] \notin hosts}

\* nh_update, and nh_create, whose entry has the command 0.  (0 is taken not to be
\* XP_PKTCMD_FWD: otherwise a new next hop would never trap.)
nh_update(cmd, host) == IF host # NULL \/ cmd = "FWD" THEN "FWD" ELSE "TRAP"

Updated(nh, route) ==
    [n \in DOMAIN nh \union DOMAIN route |->
        IF n \notin DOMAIN route THEN nh[n]
        ELSE nh_update(IF n \in DOMAIN nh THEN nh[n] ELSE "zero", route[n])]

\* Fault of nh_group_alloc: the hardware is given room for one next hop more.
nh_group_alloc_OneMore(size, nh) ==
    [size |-> IF size < MaxNh THEN size + 1 ELSE size, ref_cnt |-> 1, nh |-> nh]

\* nh_group_alloc, with the next hops that nh_insert then adds.  It does not
\* allocate a group of more than MaxNh next hops.
nh_group_alloc(size, nh) == [size |-> size, ref_cnt |-> 1, nh |-> nh]

\* nh_group_delete, which asks nobody whether the group is in use.
nh_group_delete(groups, g) == [groups EXCEPT ![g] = NULL]

nh_group_ref(groups, g) == [groups EXCEPT ![g].ref_cnt = @ + 1]

\* Fault of nh_group_unref: the group is not deleted with its last reference.
nh_group_unref_Kept(groups, g) ==
    IF g = NULL THEN groups ELSE [groups EXCEPT ![g].ref_cnt = @ - 1]

nh_group_unref(groups, g) ==
    IF g = NULL THEN groups
    ELSE IF groups[g].ref_cnt = 1 THEN nh_group_delete(groups, g)
    ELSE [groups EXCEPT ![g].ref_cnt = @ - 1]

\* Fault of nh_group_lookup: only the number of next hops is compared.
nh_group_lookup_BySize(size, nhs) ==
    {NULL} \union {g \in Allocated : nh_group_map[g].size = size}

\* nh_group_lookup_by_route and nh_group_lookup_by_group.
nh_group_lookup(size, nhs) ==
    {NULL} \union {g \in Allocated : /\ nh_group_map[g].size = size
                                     /\ DOMAIN nh_group_map[g].nh = nhs}

\* Fault of Obtain: no reference to the group that was found.
Obtain_NoRef(old, g, new) ==
    IF old # NULL THEN nh_group_map ELSE [nh_group_map EXCEPT ![g] = new]

\* The groups, with a reference to `old' if the lookup found it, and otherwise
\* with the new group g that nh_group_add has set in the hardware.
Obtain(old, g, new) ==
    IF old # NULL THEN nh_group_ref(nh_group_map, old)
    ELSE [nh_group_map EXCEPT ![g] = new]

\* What the hardware does in a call: nothing wrong, or it refuses to create the
\* group or to set a next hop, or it refuses to write the route.
Hardware == {"ok", "group", "route"}
Hw(hw) ==
    /\ hw # "ok" => faults < MaxFaults
    /\ faults' = IF hw = "ok" THEN faults ELSE faults + 1
-----------------------------------------------------------------------------
(* Operations *)

route_add(p, route, hw) ==
    /\ route_map[p] = NULL
    /\ LET n == Cardinality(DOMAIN route)
           new == nh_group_alloc(n, Updated(<<>>, route))
       IN  \E old \in nh_group_lookup(n, DOMAIN route), free \in Group \ Allocated :
             LET g == IF old # NULL THEN old ELSE free
             IN  IF \/ hw # "ok"
                    \/ old = NULL /\ (n > MaxNh \/ Unresolvable(route) # {})
                 THEN UNCHANGED <<nh_group_map, route_map, hw_route, asked, stale>>
                 ELSE /\ nh_group_map' = Obtain(old, free, new)
                      /\ route_map' = [route_map EXCEPT ![p] = [nh_group |-> g]]
                      /\ hw_route' = [hw_route EXCEPT ![p] = g]
                      /\ asked' = [asked EXCEPT ![p] = DOMAIN route]
                      /\ stale' = stale \ {p}
    /\ UNCHANGED <<hosts, padded>>

\* The part of route_update and of delete_nh_entry that gives the route of p a
\* group of the given size with the next hops nh.
Regroup(p, size, nh, hw) ==
    LET mine == route_map[p].nh_group
    IN  \E old \in nh_group_lookup(size, DOMAIN nh), free \in Group \ Allocated :
          LET g == IF old # NULL THEN old ELSE free
              groups == Obtain(old, free, nh_group_alloc(size, nh))
          IN  IF hw = "route"
              THEN /\ nh_group_map' = nh_group_delete(groups, g)
                   /\ UNCHANGED <<route_map, hw_route, asked>>
              ELSE /\ nh_group_map' = nh_group_unref(groups, mine)
                   /\ route_map' = [route_map EXCEPT ![p].nh_group = g]
                   /\ hw_route' = [hw_route EXCEPT ![p] = g]
                   /\ asked' = [asked EXCEPT ![p] = DOMAIN nh]

\* route_update when the group has no entry for some next hop.
route_update_add(p, route, hw) ==
    LET mine == route_map[p].nh_group
        nh == IF mine = NULL THEN <<>> ELSE nh_group_map[mine].nh
        size == Cardinality(DOMAIN route)
                    + (IF mine = NULL THEN 0 ELSE nh_group_map[mine].size)
    IN  /\ ~(DOMAIN route \subseteq DOMAIN nh)
        /\ \/ /\ size > MaxNh \/ hw = "group" \/ Unresolvable(route) # {}
              /\ UNCHANGED <<nh_group_map, route_map, hw_route, asked, padded>>
           \/ /\ size <= MaxNh /\ hw # "group" /\ Unresolvable(route) = {}
              /\ Regroup(p, size, Updated(nh, route), hw)
              /\ padded' = IF DOMAIN route \intersect DOMAIN nh # {} /\ hw # "route"
                           THEN padded \union {p} ELSE padded

\* route_update otherwise: in place, for every route that shares the group.  A
\* next hop that cannot be resolved ends it with those before it updated.
route_update_in_place(p, route, hw) ==
    LET mine == route_map[p].nh_group
        nh == nh_group_map[mine].nh
    IN  /\ mine # NULL /\ DOMAIN route \subseteq DOMAIN nh
        /\ \E done \in SUBSET (DOMAIN route \ Unresolvable(route)) :
              /\ Unresolvable(route) = {} => done = DOMAIN route
              /\ nh_group_map' = [nh_group_map EXCEPT ![mine].nh =
                                     Updated(@, Restrict(route, done))]
        /\ UNCHANGED <<route_map, hw_route, asked, padded>>

route_update(p, route, hw) ==
    /\ route_map[p] # NULL
    /\ route_update_add(p, route, hw) \/ route_update_in_place(p, route, hw)
    /\ UNCHANGED <<hosts, stale>>

add_route_entry(p, route, hw) ==
    /\ ~Dangling /\ Hw(hw)
    /\ route_add(p, route, hw) \/ route_update(p, route, hw)

\* Fault of delete_route_entry: the entry stays in the hardware.
delete_route_entry_InSoftware(p, hw) ==
    /\ ~Dangling /\ Hw(hw) /\ hw # "group" /\ route_map[p] # NULL
    /\ nh_group_map' = nh_group_unref(nh_group_map, route_map[p].nh_group)
    /\ route_map' = [route_map EXCEPT ![p] = NULL]
    /\ asked' = [asked EXCEPT ![p] = {}]
    /\ UNCHANGED <<hosts, hw_route, stale, padded>>

\* route_delete.  The hardware's refusal is a warning.
delete_route_entry(p, hw) ==
    /\ ~Dangling /\ Hw(hw) /\ hw # "group" /\ route_map[p] # NULL
    /\ nh_group_map' = nh_group_unref(nh_group_map, route_map[p].nh_group)
    /\ route_map' = [route_map EXCEPT ![p] = NULL]
    /\ hw_route' = IF hw = "ok" THEN [hw_route EXCEPT ![p] = NULL] ELSE hw_route
    /\ stale' = IF hw = "ok" THEN stale ELSE stale \union {p}
    /\ asked' = [asked EXCEPT ![p] = {}]
    /\ padded' = padded \ {p}
    /\ UNCHANGED hosts

\* A group whose size exceeds the next hops that go keeps the others, in a new
\* group; otherwise the route stays without a group.
delete_nh_entry(p, nhs, hw) ==
    /\ ~Dangling /\ Hw(hw) /\ route_map[p] # NULL /\ route_map[p].nh_group # NULL
    /\ LET mine == route_map[p].nh_group
           nh == nh_group_map[mine].nh
           n == Cardinality(DOMAIN nh \intersect nhs)
           size == nh_group_map[mine].size
       IN  \/ /\ size > n /\ hw = "group"
              /\ UNCHANGED <<nh_group_map, route_map, hw_route, asked>>
           \/ /\ size > n /\ hw # "group"
              /\ Regroup(p, size - n, Restrict(nh, DOMAIN nh \ nhs), hw)
           \/ /\ size <= n /\ hw = "route"
              /\ UNCHANGED <<nh_group_map, route_map, hw_route, asked>>
           \/ /\ size <= n /\ hw = "ok"
              /\ nh_group_map' = nh_group_unref(nh_group_map, mine)
              /\ route_map' = [route_map EXCEPT ![p].nh_group = NULL]
              /\ hw_route' = [hw_route EXCEPT ![p] = "no next hop"]
              /\ asked' = [asked EXCEPT ![p] = {}]
    /\ UNCHANGED <<hosts, padded, stale>>

\* ops_xp_l3_mgr_destroy: the routes, then the groups that are left, with the
\* prefixes of which the hardware does not remove the entry.
mgr_destroy(kept) ==
    /\ ~Dangling
    /\ kept \subseteq {p \in Prefix : route_map[p] # NULL}
    /\ faults' = faults + Cardinality(kept) /\ faults' <= MaxFaults
    /\ nh_group_map' = [g \in Group |-> NULL]
    /\ route_map' = [p \in Prefix |-> NULL]
    /\ hw_route' = [p \in Prefix |-> IF p \in kept \union stale THEN hw_route[p] ELSE NULL]
    /\ stale' = stale \union kept
    /\ asked' = [p \in Prefix |-> {}]
    /\ padded' = {}
    /\ hosts' = {}

\* ops_xp_routing_add_host_entry and ops_xp_routing_delete_host_entry.
host_entries(hs) ==
    /\ ~Dangling /\ hs # hosts
    /\ hosts' = hs
    /\ UNCHANGED <<nh_group_map, route_map, hw_route, history>>

Init ==
    /\ hosts = {}
    /\ nh_group_map = [g \in Group |-> NULL]
    /\ route_map = [p \in Prefix |-> NULL]
    /\ hw_route = [p \in Prefix |-> NULL]
    /\ asked = [p \in Prefix |-> {}]
    /\ padded = {} /\ stale = {} /\ faults = 0

Next ==
    \/ \E p \in Prefix, hw \in Hardware :
          \/ \E route \in Routes : add_route_entry(p, route, hw)
          \/ delete_route_entry(p, hw)
          \/ \E nhs \in SUBSET NextHop \ {{}} : delete_nh_entry(p, nhs, hw)
    \/ \E kept \in SUBSET Prefix : mgr_destroy(kept)
    \/ \E hs \in SUBSET Host : host_entries(hs)

Spec == Init /\ [][Next]_vars
-----------------------------------------------------------------------------
(* Properties *)

\* A group counts exactly the routes that refer to it: it is neither freed while a
\* route uses it nor kept when none does (nh_group_unref, and every path of
\* route_add, route_update and delete_nh_entry that takes or drops a reference).
RefCountsExact ==
    ~Dangling => \A g \in Allocated :
                    nh_group_map[g].ref_cnt = Cardinality(Referrers(g))

\* Whatever the order of adds, updates, removals and failures, a route has the next
\* hops that the calls which returned 0 asked for, although it shares its group
\* with other routes and a call for one of them may change the group.
NextHopsAsAsked ==
    ~Dangling => \A p \in Prefix :
        route_map[p] # NULL =>
            asked[p] = IF route_map[p].nh_group = NULL THEN {}
                       ELSE DOMAIN nh_group_map[route_map[p].nh_group].nh

\* The hardware forwards a prefix through the group of its route, and through a
\* group at all only if there is a route (or its removal was refused), so that it
\* never uses next hops that are set for another route.
HardwareFollowsRoutes ==
    ~Dangling => \A p \in Prefix \ stale :
        hw_route[p] = IF route_map[p] = NULL THEN NULL
                      ELSE IF route_map[p].nh_group = NULL THEN "no next hop"
                      ELSE route_map[p].nh_group

\* All the slots among which the hardware spreads a prefix's traffic are set to a
\* next hop (nhEcmpSize is the number of next hops), unless one call updated next
\* hops of the route and added others: route_update then counts the first twice.
EcmpSlotsSet ==
    ~Dangling => \A p \in Prefix \ padded :
        route_map[p] # NULL /\ route_map[p].nh_group # NULL =>
            LET g == nh_group_map[route_map[p].nh_group]
            IN  g.size = Cardinality(DOMAIN g.nh)
=============================================================================
