--------------------------- MODULE L3RoutesProofs ---------------------------
(***************************************************************************)
(* L3Routes for every finite set of prefixes and next hops, and any number *)
(* of groups, hosts and refused calls.  The actions are a few kinds of     *)
(* steps on the groups and routes, and each kind keeps the invariant.      *)
(***************************************************************************)
EXTENDS L3Routes, FiniteSetTheorems, TLAPS

GroupRec == [size : 0..MaxNh, ref_cnt : Nat \ {0}, nh : Entries]
RouteRec == [nh_group : Group \union {NULL}]
GroupMap == [Group -> {NULL} \union GroupRec]

\* Prefixes, next hops and those of a group are finite; NULL is not an address or a record.
Constants ==
    /\ IsFiniteSet(Prefix) /\ IsFiniteSet(NextHop) /\ MaxNh \in Nat
    /\ NULL \notin Group /\ NULL \notin GroupRec /\ NULL \notin RouteRec

Typed ==
    /\ nh_group_map \in GroupMap
    /\ route_map \in [Prefix -> {NULL} \union RouteRec]
    /\ hw_route \in [Prefix -> Group \union {NULL, "no next hop"}]
    /\ asked \in [Prefix -> SUBSET NextHop]

\* The group of a prefix, NULL without one.
Ref(p) == IF route_map[p] = NULL THEN NULL ELSE route_map[p].nh_group
-----------------------------------------------------------------------------
(* What a step does, by kind *)

\* h is nh_group_map with a reference to the group g, found or new, which has the given
\* size and next hops.
Got(g, h, size, nhs) ==
    \/ /\ g \in Allocated /\ h = nh_group_ref(nh_group_map, g)
       /\ nh_group_map[g].size = size /\ DOMAIN nh_group_map[g].nh = nhs
    \/ /\ g \in Group \ Allocated
       /\ \E nh \in Entries : /\ DOMAIN nh = nhs
                              /\ h = [nh_group_map EXCEPT ![g] = nh_group_alloc(size, nh)]

\* The route of p leaves its group, if it has one, for g ...
Moved(p, g, size, nhs) ==
    /\ \E h : Got(g, h, size, nhs) /\ nh_group_map' = nh_group_unref(h, Ref(p))
    /\ route_map' = [route_map EXCEPT ![p] = [nh_group |-> g]]
    /\ hw_route' = [hw_route EXCEPT ![p] = g]
    /\ asked' = [asked EXCEPT ![p] = nhs]
    /\ stale \ {p} \subseteq stale'
    /\ padded \ {p} \subseteq padded'
    /\ p \notin padded' => size = Cardinality(nhs)

\* ... or for none.
Left(p, r, w) ==
    /\ r \in {NULL, [nh_group |-> NULL]}
    /\ nh_group_map' = nh_group_unref(nh_group_map, Ref(p))
    /\ route_map' = [route_map EXCEPT ![p] = r]
    /\ hw_route' = [hw_route EXCEPT ![p] = w]
    /\ w \in Group \union {NULL, "no next hop"}
    /\ p \notin stale' => w = IF r = NULL THEN NULL ELSE "no next hop"
    /\ asked' = [asked EXCEPT ![p] = {}]
    /\ stale \ {p} \subseteq stale'
    /\ padded \ {p} \subseteq padded'

\* The hardware refuses a route, and its group is deleted, whoever else has it.
Dropped(g, size, nhs) ==
    /\ \E h : Got(g, h, size, nhs) /\ nh_group_map' = nh_group_delete(h, g)
    /\ UNCHANGED <<route_map, hw_route, asked, stale, padded>>

\* A group's entries of next hops change.
InPlace(g, nh) ==
    /\ g \in Allocated /\ nh \in Entries /\ DOMAIN nh = DOMAIN nh_group_map[g].nh
    /\ nh_group_map' = [nh_group_map EXCEPT ![g].nh = nh]
    /\ UNCHANGED <<route_map, hw_route, asked, stale, padded>>

\* All is gone.
Destroyed ==
    /\ nh_group_map' = [g \in Group |-> NULL]
    /\ route_map' = [p \in Prefix |-> NULL]
    /\ asked' = [p \in Prefix |-> {}]
    /\ hw_route' \in [Prefix -> Group \union {NULL, "no next hop"}]
    /\ \A p \in Prefix \ stale' : hw_route'[p] = NULL

Nothing == UNCHANGED <<nh_group_map, route_map, hw_route, asked, stale, padded>>

\* The counts are exact, also when some route points to a group that was freed.
Exact == \A g \in Allocated : nh_group_map[g].ref_cnt = Cardinality(Referrers(g))

\* The invariant: the properties, and the types that they need.
IInv == Typed /\ Exact /\ NextHopsAsAsked /\ HardwareFollowsRoutes /\ EcmpSlotsSet
-----------------------------------------------------------------------------
(* Groups *)

\* A group that is obtained has a reference more, the others are as they were.
Gotten(g, h, size, nhs) ==
    /\ g \in Group /\ h \in GroupMap /\ h[g] \in GroupRec /\ h[g] # NULL
    /\ h[g].size = size /\ DOMAIN h[g].nh = nhs
    /\ \A k \in Group : k # g => h[k] = nh_group_map[k]
    /\ g \in Allocated => /\ h[g].ref_cnt = nh_group_map[g].ref_cnt + 1
                          /\ nh_group_map[g].size = size
                          /\ DOMAIN nh_group_map[g].nh = nhs
    /\ g \notin Allocated => h[g].ref_cnt = 1

\* What Got says of the groups (nh_group_ref, or nh_group_alloc for a new one).
LEMMA GotFacts ==
    ASSUME Constants, Typed, NEW g, NEW h, NEW size \in 0..MaxNh, NEW nhs, Got(g, h, size, nhs)
    PROVE  Gotten(g, h, size, nhs)
<1>1. CASE /\ g \in Allocated /\ h = nh_group_ref(nh_group_map, g)
           /\ nh_group_map[g].size = size /\ DOMAIN nh_group_map[g].nh = nhs
  <2>1. g \in Group /\ nh_group_map[g] \in GroupRec
    BY <1>1, Zenon DEF Allocated, Typed, GroupMap
  <2>2. PICK r : r = [nh_group_map[g] EXCEPT !.ref_cnt = nh_group_map[g].ref_cnt + 1]
    BY Zenon
  <2>3. /\ r \in GroupRec /\ r.size = size /\ r.nh = nh_group_map[g].nh
        /\ r.ref_cnt = nh_group_map[g].ref_cnt + 1
    BY <1>1, <2>1, <2>2 DEF GroupRec
  <2>4. h = [nh_group_map EXCEPT ![g] = r]
    BY <1>1, <2>2 DEF nh_group_ref
  <2>5. h \in GroupMap /\ h[g] = r /\ \A k \in Group : k # g => h[k] = nh_group_map[k]
    BY <2>1, <2>3, <2>4, Zenon DEF Typed, GroupMap
  <2> QED BY <1>1, <2>1, <2>3, <2>5 DEF Constants, Gotten
<1>2. CASE /\ g \in Group \ Allocated
           /\ \E nh \in Entries : /\ DOMAIN nh = nhs
                                  /\ h = [nh_group_map EXCEPT ![g] = nh_group_alloc(size, nh)]
  <2>1. PICK nh \in Entries : /\ DOMAIN nh = nhs
                              /\ h = [nh_group_map EXCEPT ![g] = nh_group_alloc(size, nh)]
    BY <1>2, Zenon
  <2>2. PICK r : r = nh_group_alloc(size, nh)
    OBVIOUS
  <2>3. r \in GroupRec /\ r.size = size /\ r.nh = nh /\ r.ref_cnt = 1
    BY <2>2 DEF GroupRec, nh_group_alloc
  <2>4. h \in GroupMap /\ h[g] = r /\ \A k \in Group : k # g => h[k] = nh_group_map[k]
    BY <1>2, <2>1, <2>2, <2>3, Zenon DEF Typed, GroupMap
  <2> QED BY <1>2, <2>1, <2>3, <2>4 DEF Constants, Gotten
<1> QED BY <1>1, <1>2 DEF Got

\* Dropping a reference deletes the group with the last one, and touches no other.
LEMMA UnrefFacts ==
    ASSUME Constants, NEW h \in GroupMap, NEW o, o = NULL \/ (o \in Group /\ h[o] # NULL),
           o # NULL => h[o].ref_cnt > 0,
           NEW u, u = nh_group_unref(h, o)
    PROVE  /\ u \in GroupMap
           /\ \A k \in Group : k # o => u[k] = h[k]
           /\ o # NULL /\ u[o] # NULL =>
                 /\ u[o] \in GroupRec /\ u[o].ref_cnt = h[o].ref_cnt - 1
                 /\ u[o].size = h[o].size /\ u[o].nh = h[o].nh
           /\ o # NULL /\ h[o].ref_cnt # 1 => u[o] # NULL
<1>1. CASE o = NULL
  BY <1>1 DEF nh_group_unref, Constants
<1>2. CASE o # NULL /\ h[o].ref_cnt = 1
  BY <1>2 DEF nh_group_unref, nh_group_delete, GroupMap
<1>3. CASE o # NULL /\ h[o].ref_cnt # 1
  <2>1. o \in Group /\ h[o] \in GroupRec
    BY <1>3 DEF GroupMap
  <2>2. PICK r : r = [h[o] EXCEPT !.ref_cnt = h[o].ref_cnt - 1]
    BY Zenon
  <2>3. /\ r \in GroupRec /\ r.size = h[o].size /\ r.nh = h[o].nh
        /\ r.ref_cnt = h[o].ref_cnt - 1
    BY <1>3, <2>1, <2>2 DEF GroupRec
  <2>4. u = [h EXCEPT ![o] = r]
    BY <1>3, <2>2 DEF nh_group_unref
  <2>5. u \in GroupMap /\ u[o] = r /\ \A k \in Group : k # o => u[k] = h[k]
    BY <2>1, <2>3, <2>4 DEF GroupMap
  <2> QED BY <1>3, <2>1, <2>3, <2>5 DEF Constants
<1> QED BY <1>1, <1>2, <1>3
-----------------------------------------------------------------------------
(* References *)

\* The routes of a group can be counted.
LEMMA ReferrersFinite ==
    ASSUME Constants, NEW g
    PROVE  IsFiniteSet(Referrers(g)) /\ Cardinality(Referrers(g)) \in Nat
BY FS_Subset, FS_CardinalityType DEF Referrers, Constants

\* A route refers to no group or to one that is allocated.
LEMMA RefAllocated ==
    ASSUME Constants, Typed, ~Dangling, NEW q \in Prefix
    PROVE  /\ Ref(q) = NULL \/ Ref(q) \in Allocated
           /\ Ref(q) # NULL => q \in Referrers(Ref(q))
           /\ \A k \in Group : q \in Referrers(k) <=> Ref(q) = k
<1>1. route_map[q] = NULL \/ route_map[q] \in RouteRec
  BY Zenon DEF Typed
<1>2. Ref(q) \in Group \union {NULL}
  BY <1>1 DEF Ref, RouteRec
<1>3. \A k \in Group : q \in Referrers(k) <=> Ref(q) = k
  BY DEF Ref, Referrers, Constants
<1> QED BY <1>2, <1>3 DEF Dangling

\* The routes that refer to a group when one route changes.
LEMMA ReferrersMove ==
    ASSUME Constants, Typed, NEW p \in Prefix, NEW r \in {NULL} \union RouteRec,
           route_map' = [route_map EXCEPT ![p] = r], NEW k \in Group
    PROVE  Referrers(k)' = IF r # NULL /\ r.nh_group = k THEN Referrers(k) \union {p}
                           ELSE Referrers(k) \ {p}
<1>1. route_map'[p] = r /\ \A q \in Prefix : q # p => route_map'[q] = route_map[q]
  BY Zenon DEF Typed
<1> QED BY <1>1 DEF Referrers

\* The reference of p, when it has one, is counted.
LEMMA CountedRef ==
    ASSUME Constants, IInv, ~Dangling, NEW p \in Prefix, Ref(p) # NULL
    PROVE  /\ Ref(p) \in Group /\ nh_group_map[Ref(p)] \in GroupRec
           /\ nh_group_map[Ref(p)] # NULL
           /\ nh_group_map[Ref(p)].ref_cnt = Cardinality(Referrers(Ref(p)))
           /\ nh_group_map[Ref(p)].ref_cnt > 0
<1>1. Ref(p) \in Allocated /\ p \in Referrers(Ref(p))
  BY RefAllocated DEF IInv
<1>2. nh_group_map[Ref(p)].ref_cnt = Cardinality(Referrers(Ref(p)))
  BY <1>1 DEF IInv, Exact
<1>3. Cardinality(Referrers(Ref(p))) \in Nat /\ Cardinality(Referrers(Ref(p))) # 0
  BY <1>1, ReferrersFinite, FS_EmptySet
<1>4. Ref(p) \in Group /\ nh_group_map[Ref(p)] \in GroupRec /\ nh_group_map[Ref(p)] # NULL
  BY <1>1, Zenon DEF Allocated, IInv, Typed, GroupMap
<1> QED BY <1>2, <1>3, <1>4

\* The group of a route in the next state, which is not freed there.
LEMMA NextRef ==
    ASSUME Constants, Typed', ~Dangling', NEW q \in Prefix, route_map'[q] # NULL,
           route_map'[q].nh_group # NULL
    PROVE  route_map'[q].nh_group \in Group /\ nh_group_map'[route_map'[q].nh_group] # NULL
<1>1. route_map'[q].nh_group \in Group
  BY Zenon DEF Typed, RouteRec
<1> QED BY <1>1 DEF Dangling, Referrers, Allocated
-----------------------------------------------------------------------------
(* The kinds of steps keep the invariant *)

\* The groups after a route has moved to the group g from o, if that is one.
GroupsMoved(g, o, size, nhs) ==
    /\ g \in Group /\ nh_group_map' \in GroupMap /\ nh_group_map'[g] # NULL
    /\ nh_group_map'[g].size = size /\ DOMAIN nh_group_map'[g].nh = nhs
    /\ g = o => nh_group_map'[g].ref_cnt = nh_group_map[g].ref_cnt
    /\ g # o => nh_group_map'[g].ref_cnt =
                    IF g \in Allocated THEN nh_group_map[g].ref_cnt + 1 ELSE 1
    /\ g \in Allocated => nh_group_map[g].size = size /\ DOMAIN nh_group_map[g].nh = nhs
    /\ \A k \in Group \ {g, o} : nh_group_map'[k] = nh_group_map[k]
    /\ o \notin {g, NULL} /\ nh_group_map'[o] # NULL =>
          /\ nh_group_map'[o].ref_cnt = nh_group_map[o].ref_cnt - 1
          /\ nh_group_map'[o].size = nh_group_map[o].size
          /\ nh_group_map'[o].nh = nh_group_map[o].nh

\* Moved takes a reference to the new group and drops the one to the old.
LEMMA MovedGroups ==
    ASSUME Constants, IInv, ~Dangling, NEW p \in Prefix, NEW g, NEW size \in 0..MaxNh, NEW nhs,
           Moved(p, g, size, nhs)
    PROVE  GroupsMoved(g, Ref(p), size, nhs)
<1>1. PICK h : Got(g, h, size, nhs) /\ nh_group_map' = nh_group_unref(h, Ref(p))
  BY DEF Moved
<1>2. /\ g \in Group /\ h \in GroupMap /\ h[g] \in GroupRec /\ h[g] # NULL
      /\ h[g].size = size /\ DOMAIN h[g].nh = nhs
      /\ \A k \in Group : k # g => h[k] = nh_group_map[k]
      /\ g \in Allocated => /\ h[g].ref_cnt = nh_group_map[g].ref_cnt + 1
                            /\ nh_group_map[g].size = size
                            /\ DOMAIN nh_group_map[g].nh = nhs
      /\ g \notin Allocated => h[g].ref_cnt = 1
  <2> Gotten(g, h, size, nhs)
    BY <1>1, GotFacts DEF IInv
  <2> QED BY DEF Gotten
<1>3. PICK o : o = Ref(p)
  OBVIOUS
<1>4. o # NULL => /\ o \in Group /\ nh_group_map[o] \in GroupRec /\ nh_group_map[o] # NULL
                  /\ nh_group_map[o].ref_cnt > 0
  BY <1>3, CountedRef
<1>5. o # NULL => o \in Group /\ h[o] # NULL /\ h[o].ref_cnt > 0
  BY <1>2, <1>4 DEF GroupRec, Allocated
<1>6. PICK u : u = nh_group_unref(h, o)
  OBVIOUS
<1>7. /\ u \in GroupMap
      /\ \A k \in Group : k # o => u[k] = h[k]
      /\ o # NULL /\ u[o] # NULL =>
            /\ u[o] \in GroupRec /\ u[o].ref_cnt = h[o].ref_cnt - 1
            /\ u[o].size = h[o].size /\ u[o].nh = h[o].nh
      /\ o # NULL /\ h[o].ref_cnt # 1 => u[o] # NULL
  BY <1>2, <1>5, <1>6, UnrefFacts
<1>8. nh_group_map' = u
  BY <1>1, <1>3, <1>6
<1>9. g = o => /\ u[g] # NULL /\ u[g].ref_cnt = nh_group_map[g].ref_cnt
               /\ u[g].size = size /\ DOMAIN u[g].nh = nhs
  <2> SUFFICES ASSUME g = o
               PROVE  /\ u[g] # NULL /\ u[g].ref_cnt = nh_group_map[g].ref_cnt
                      /\ u[g].size = size /\ DOMAIN u[g].nh = nhs
    OBVIOUS
  <2>1. o # NULL /\ g \in Allocated
    BY <1>2, <1>4 DEF Constants, Allocated
  <2>2. nh_group_map[g].ref_cnt \in Nat /\ nh_group_map[g].ref_cnt > 0
    BY <1>4, <2>1 DEF GroupRec
  <2>3. h[o].ref_cnt = nh_group_map[g].ref_cnt + 1
    BY <1>2, <2>1
  <2>4. u[o] # NULL
    BY <1>7, <2>1, <2>2, <2>3
  <2> QED BY <1>2, <1>7, <2>1, <2>2, <2>3, <2>4
<1>10. g # o => u[g] = h[g]
  BY <1>2, <1>7
<1>11. \A k \in Group \ {g, o} : u[k] = nh_group_map[k]
  BY <1>2, <1>7
<1>12. o \notin {g, NULL} => h[o] = nh_group_map[o]
  BY <1>2, <1>4
<1>13. o \notin {g, NULL} /\ u[o] # NULL =>
          /\ u[o].ref_cnt = nh_group_map[o].ref_cnt - 1
          /\ u[o].size = nh_group_map[o].size /\ u[o].nh = nh_group_map[o].nh
  BY <1>7, <1>12
<1>14. g # o => /\ u[g] # NULL /\ u[g].size = size /\ DOMAIN u[g].nh = nhs
                /\ u[g].ref_cnt = IF g \in Allocated THEN nh_group_map[g].ref_cnt + 1 ELSE 1
  BY <1>2, <1>10
<1> QED
  <2>1. /\ u[g] # NULL /\ u[g].size = size /\ DOMAIN u[g].nh = nhs
    BY <1>9, <1>14
  <2>2. GroupsMoved(g, o, size, nhs)
    BY <1>2, <1>7, <1>8, <1>9, <1>11, <1>13, <1>14, <2>1 DEF GroupsMoved
  <2> QED BY <1>3, <2>2

\* A route that takes a group and leaves its old one (route_add, route_update,
\* delete_nh_entry).
LEMMA MovedKeeps ==
    ASSUME Constants, IInv, ~Dangling, NEW p \in Prefix, NEW g, NEW size \in 0..MaxNh,
           NEW nhs \in SUBSET NextHop, Moved(p, g, size, nhs)
    PROVE  IInv'
<1>0. PICK o : o = Ref(p)
  OBVIOUS
<1> GroupsMoved(g, o, size, nhs)
  BY <1>0, MovedGroups
<1>1. /\ g \in Group /\ nh_group_map' \in GroupMap /\ nh_group_map'[g] # NULL
      /\ nh_group_map'[g].size = size /\ DOMAIN nh_group_map'[g].nh = nhs
  BY DEF GroupsMoved
<1>2. /\ g = o => nh_group_map'[g].ref_cnt = nh_group_map[g].ref_cnt
      /\ g # o => nh_group_map'[g].ref_cnt =
            IF g \in Allocated THEN nh_group_map[g].ref_cnt + 1 ELSE 1
  BY DEF GroupsMoved
<1>3. g \in Allocated => nh_group_map[g].size = size /\ DOMAIN nh_group_map[g].nh = nhs
  BY DEF GroupsMoved
<1>4. /\ \A k \in Group \ {g, o} : nh_group_map'[k] = nh_group_map[k]
      /\ o \notin {g, NULL} /\ nh_group_map'[o] # NULL =>
            /\ nh_group_map'[o].ref_cnt = nh_group_map[o].ref_cnt - 1
            /\ nh_group_map'[o].size = nh_group_map[o].size
            /\ nh_group_map'[o].nh = nh_group_map[o].nh
  BY DEF GroupsMoved
<1>5. PICK r : r = [nh_group |-> g]
  BY Zenon
<1>6. r \in RouteRec /\ r # NULL /\ r.nh_group = g
  BY <1>1, <1>5 DEF RouteRec, Constants
<1>7. /\ route_map' = [route_map EXCEPT ![p] = r]
      /\ hw_route' = [hw_route EXCEPT ![p] = g] /\ asked' = [asked EXCEPT ![p] = nhs]
      /\ stale \ {p} \subseteq stale' /\ padded \ {p} \subseteq padded'
      /\ p \notin padded' => size = Cardinality(nhs)
  BY <1>5 DEF Moved
<1>8. Typed'
  BY <1>1, <1>6, <1>7, Zenon DEF IInv, Typed
<1>9. route_map'[p] = r /\ \A q \in Prefix : q # p => route_map'[q] = route_map[q]
  BY <1>7, Zenon DEF IInv, Typed
\* The groups of the other routes have the next hops that they had.
<1>10. ASSUME ~Dangling', NEW q \in Prefix, q # p, route_map[q] # NULL,
              route_map[q].nh_group # NULL
       PROVE  LET k == route_map[q].nh_group
              IN  /\ nh_group_map'[k].size = nh_group_map[k].size
                  /\ DOMAIN nh_group_map'[k].nh = DOMAIN nh_group_map[k].nh
  <2>1. PICK k : k = route_map[q].nh_group
    OBVIOUS
  <2>2. k \in Group /\ nh_group_map'[k] # NULL
    BY <1>8, <1>9, <1>10, <2>1, NextRef
  <2>3. k \in Allocated
    BY <1>10, <2>1, <2>2, RefAllocated DEF Ref, IInv, Constants
  <2>4. k # NULL
    BY <1>10, <2>1
  <2> QED BY <1>1, <1>3, <1>4, <2>1, <2>2, <2>3, <2>4
<1>11. NextHopsAsAsked'
  <2> SUFFICES ASSUME ~Dangling', NEW q \in Prefix, route_map'[q] # NULL
               PROVE  asked'[q] = IF route_map'[q].nh_group = NULL THEN {}
                                  ELSE DOMAIN nh_group_map'[route_map'[q].nh_group].nh
    BY DEF NextHopsAsAsked
  <2>1. asked'[p] = nhs /\ (q # p => asked'[q] = asked[q])
    BY <1>7, Zenon DEF IInv, Typed
  <2>2. CASE q = p
    BY <1>1, <1>6, <1>9, <2>1, <2>2 DEF Constants
  <2>3. CASE q # p
    <3>1. asked[q] = IF route_map[q].nh_group = NULL THEN {}
                     ELSE DOMAIN nh_group_map[route_map[q].nh_group].nh
      BY <1>9, <2>3 DEF IInv, NextHopsAsAsked
    <3> QED BY <1>9, <1>10, <2>1, <2>3, <3>1
  <2> QED BY <2>2, <2>3
<1>12. HardwareFollowsRoutes'
  <2> SUFFICES ASSUME NEW q \in Prefix \ stale'
               PROVE  hw_route'[q] = IF route_map'[q] = NULL THEN NULL
                                     ELSE IF route_map'[q].nh_group = NULL THEN "no next hop"
                                     ELSE route_map'[q].nh_group
    BY Zenon DEF HardwareFollowsRoutes
  <2>1. hw_route'[p] = g /\ (q # p => hw_route'[q] = hw_route[q])
    BY <1>7, Zenon DEF IInv, Typed
  <2>2. CASE q = p
    BY <1>1, <1>6, <1>9, <2>1, <2>2, Zenon DEF Constants
  <2>3. CASE q # p
    <3>1. q \in Prefix \ stale
      BY <1>7, <2>3
    <3> QED BY <1>9, <2>1, <2>3, <3>1, Zenon DEF IInv, HardwareFollowsRoutes
  <2> QED BY <2>2, <2>3, Zenon
<1>13. EcmpSlotsSet'
  <2> SUFFICES ASSUME ~Dangling', NEW q \in Prefix \ padded', route_map'[q] # NULL,
                      route_map'[q].nh_group # NULL
               PROVE  LET k == nh_group_map'[route_map'[q].nh_group]
                      IN  k.size = Cardinality(DOMAIN k.nh)
    BY DEF EcmpSlotsSet
  <2>1. CASE q = p
    BY <1>1, <1>6, <1>7, <1>9, <2>1
  <2>2. CASE q # p
    <3>1. q \in Prefix \ padded
      BY <1>7, <2>2
    <3>2. PICK k : k = route_map[q].nh_group
      OBVIOUS
    <3>3. nh_group_map[k].size = Cardinality(DOMAIN nh_group_map[k].nh)
      BY <1>9, <2>2, <3>1, <3>2 DEF IInv, EcmpSlotsSet
    <3> QED BY <1>9, <1>10, <2>2, <3>2, <3>3
  <2> QED BY <2>1, <2>2
<1>14. Exact'
  <2> SUFFICES ASSUME NEW k \in Group, nh_group_map'[k] # NULL
               PROVE  nh_group_map'[k].ref_cnt = Cardinality(Referrers(k)')
    BY DEF Exact, Allocated
  <2>1. Referrers(k)' = IF k = g THEN Referrers(k) \union {p} ELSE Referrers(k) \ {p}
    BY <1>6, <1>7, ReferrersMove, Zenon DEF IInv
  <2>2. p \in Referrers(k) <=> o = k
    BY <1>0, RefAllocated DEF IInv
  <2>3. IsFiniteSet(Referrers(k)) /\ Cardinality(Referrers(k)) \in Nat
    BY ReferrersFinite
  <2>4. k \in Allocated => nh_group_map[k].ref_cnt = Cardinality(Referrers(k))
    BY DEF IInv, Exact
  <2>5. k \notin Allocated => Cardinality(Referrers(k)) = 0 /\ p \notin Referrers(k)
    BY FS_EmptySet DEF Dangling
  <2>6. Cardinality(Referrers(k) \union {p}) =
           IF p \in Referrers(k) THEN Cardinality(Referrers(k)) ELSE Cardinality(Referrers(k)) + 1
    BY <2>3, FS_AddElement, Zenon
  <2>7. Cardinality(Referrers(k) \ {p}) =
           IF p \in Referrers(k) THEN Cardinality(Referrers(k)) - 1 ELSE Cardinality(Referrers(k))
    BY <2>3, FS_RemoveElement, Zenon
  <2>8. CASE k = g
    <3>1. CASE g = o
      BY <1>2, <2>1, <2>2, <2>4, <2>5, <2>6, <2>8, <3>1
    <3>2. CASE g # o
      BY <1>2, <2>1, <2>2, <2>3, <2>4, <2>5, <2>6, <2>8, <3>2
    <3> QED BY <3>1, <3>2
  <2>9. CASE k # g /\ k = o
    <3>1. k # NULL /\ k \in Allocated
      BY <2>2, <2>5, <2>9 DEF Constants
    <3> QED BY <1>4, <2>1, <2>2, <2>4, <2>7, <2>9, <3>1
  <2>10. CASE k # g /\ k # o
    <3>1. k \in Allocated
      BY <1>4, <2>10 DEF Allocated
    <3> QED BY <1>4, <2>1, <2>2, <2>4, <2>7, <2>10, <3>1
  <2> QED BY <2>8, <2>9, <2>10
<1> QED BY <1>8, <1>11, <1>12, <1>13, <1>14 DEF IInv

\* A route that leaves its group for none (route_delete, delete_nh_entry).
LEMMA LeftKeeps ==
    ASSUME Constants, IInv, ~Dangling, NEW p \in Prefix, NEW r, NEW w, Left(p, r, w)
    PROVE  IInv'
<1>0. PICK o : o = Ref(p)
  OBVIOUS
<1>1. o # NULL => /\ o \in Group /\ nh_group_map[o] # NULL /\ nh_group_map[o].ref_cnt > 0
  BY <1>0, CountedRef
<1>2. nh_group_map \in GroupMap /\ nh_group_map' = nh_group_unref(nh_group_map, o)
  BY <1>0, Zenon DEF IInv, Typed, Left
<1>3. /\ nh_group_map' \in GroupMap
      /\ \A k \in Group : k # o => nh_group_map'[k] = nh_group_map[k]
      /\ o # NULL /\ nh_group_map'[o] # NULL =>
            /\ nh_group_map'[o] \in GroupRec
            /\ nh_group_map'[o].ref_cnt = nh_group_map[o].ref_cnt - 1
            /\ nh_group_map'[o].size = nh_group_map[o].size
            /\ nh_group_map'[o].nh = nh_group_map[o].nh
  BY <1>1, <1>2, UnrefFacts
<1>4. r \in {NULL} \union RouteRec /\ (r # NULL => r.nh_group = NULL)
  <2>1. r = NULL \/ r = [nh_group |-> NULL]
    BY Zenon DEF Left
  <2> QED BY <2>1 DEF RouteRec
<1>5. /\ route_map' = [route_map EXCEPT ![p] = r]
      /\ hw_route' = [hw_route EXCEPT ![p] = w] /\ asked' = [asked EXCEPT ![p] = {}]
      /\ w \in Group \union {NULL, "no next hop"}
      /\ p \notin stale' => w = IF r = NULL THEN NULL ELSE "no next hop"
      /\ stale \ {p} \subseteq stale' /\ padded \ {p} \subseteq padded'
  BY Zenon DEF Left
<1>6. Typed'
  BY <1>3, <1>4, <1>5, Zenon DEF IInv, Typed
<1>7. route_map'[p] = r /\ \A q \in Prefix : q # p => route_map'[q] = route_map[q]
  BY <1>5, Zenon DEF IInv, Typed
<1>8. ASSUME ~Dangling', NEW q \in Prefix, q # p, route_map[q] # NULL,
             route_map[q].nh_group # NULL
      PROVE  LET k == route_map[q].nh_group
             IN  /\ nh_group_map'[k].size = nh_group_map[k].size
                 /\ nh_group_map'[k].nh = nh_group_map[k].nh
  <2>1. PICK k : k = route_map[q].nh_group
    OBVIOUS
  <2>2. k \in Group /\ nh_group_map'[k] # NULL
    BY <1>6, <1>7, <1>8, <2>1, NextRef
  <2> QED BY <1>3, <1>8, <2>1, <2>2
<1>9. NextHopsAsAsked'
  <2> SUFFICES ASSUME ~Dangling', NEW q \in Prefix, route_map'[q] # NULL
               PROVE  asked'[q] = IF route_map'[q].nh_group = NULL THEN {}
                                  ELSE DOMAIN nh_group_map'[route_map'[q].nh_group].nh
    BY DEF NextHopsAsAsked
  <2>1. asked'[p] = {} /\ (q # p => asked'[q] = asked[q])
    BY <1>5, Zenon DEF IInv, Typed
  <2>2. CASE q = p
    BY <1>4, <1>7, <2>1, <2>2
  <2>3. CASE q # p
    <3>1. asked[q] = IF route_map[q].nh_group = NULL THEN {}
                     ELSE DOMAIN nh_group_map[route_map[q].nh_group].nh
      BY <1>7, <2>3 DEF IInv, NextHopsAsAsked
    <3> QED BY <1>7, <1>8, <2>1, <2>3, <3>1
  <2> QED BY <2>2, <2>3
<1>10. HardwareFollowsRoutes'
  <2> SUFFICES ASSUME NEW q \in Prefix \ stale'
               PROVE  hw_route'[q] = IF route_map'[q] = NULL THEN NULL
                                     ELSE IF route_map'[q].nh_group = NULL THEN "no next hop"
                                     ELSE route_map'[q].nh_group
    BY Zenon DEF HardwareFollowsRoutes
  <2>1. hw_route'[p] = w /\ (q # p => hw_route'[q] = hw_route[q])
    BY <1>5, Zenon DEF IInv, Typed
  <2>2. CASE q = p
    BY <1>4, <1>5, <1>7, <2>1, <2>2, Zenon
  <2>3. CASE q # p
    <3>1. q \in Prefix \ stale
      BY <1>5, <2>3, Zenon
    <3> QED BY <1>7, <2>1, <2>3, <3>1, Zenon DEF IInv, HardwareFollowsRoutes
  <2> QED BY <2>2, <2>3, Zenon
<1>11. EcmpSlotsSet'
  <2> SUFFICES ASSUME ~Dangling', NEW q \in Prefix \ padded', route_map'[q] # NULL,
                      route_map'[q].nh_group # NULL
               PROVE  LET k == nh_group_map'[route_map'[q].nh_group]
                      IN  k.size = Cardinality(DOMAIN k.nh)
    BY DEF EcmpSlotsSet
  <2>1. q # p /\ q \in Prefix \ padded
    BY <1>4, <1>5, <1>7, Zenon
  <2>2. PICK k : k = route_map[q].nh_group
    OBVIOUS
  <2>3. nh_group_map[k].size = Cardinality(DOMAIN nh_group_map[k].nh)
    BY <1>7, <2>1, <2>2 DEF IInv, EcmpSlotsSet
  <2> QED BY <1>7, <1>8, <2>1, <2>2, <2>3
<1>12. Exact'
  <2> SUFFICES ASSUME NEW k \in Group, nh_group_map'[k] # NULL
               PROVE  nh_group_map'[k].ref_cnt = Cardinality(Referrers(k)')
    BY DEF Exact, Allocated
  <2>1. Referrers(k)' = Referrers(k) \ {p}
    BY <1>4, <1>5, ReferrersMove, Zenon DEF IInv, Constants
  <2>2. p \in Referrers(k) <=> o = k
    BY <1>0, RefAllocated DEF IInv
  <2>3. Cardinality(Referrers(k) \ {p}) =
           IF p \in Referrers(k) THEN Cardinality(Referrers(k)) - 1 ELSE Cardinality(Referrers(k))
    BY ReferrersFinite, FS_RemoveElement, Zenon
  <2>4. k # NULL /\ nh_group_map[k] # NULL
    BY <1>1, <1>3 DEF Constants
  <2>5. nh_group_map[k].ref_cnt = Cardinality(Referrers(k))
    BY <2>4 DEF IInv, Exact, Allocated
  <2> QED BY <1>3, <2>1, <2>2, <2>3, <2>4, <2>5
<1> QED BY <1>6, <1>9, <1>10, <1>11, <1>12 DEF IInv

\* A step that moves no route, and may only drop groups or write to entries.
LEMMA QuietKeeps ==
    ASSUME Constants, IInv, ~Dangling, nh_group_map' \in GroupMap,
           UNCHANGED <<route_map, hw_route, asked, stale, padded>>,
           \A k \in Group : nh_group_map'[k] # NULL =>
               /\ nh_group_map[k] # NULL
               /\ nh_group_map'[k].ref_cnt = nh_group_map[k].ref_cnt
               /\ nh_group_map'[k].size = nh_group_map[k].size
               /\ DOMAIN nh_group_map'[k].nh = DOMAIN nh_group_map[k].nh
    PROVE  IInv'
<1>1. Typed'
  BY Zenon DEF IInv, Typed
<1>2. Exact'
  BY DEF IInv, Exact, Referrers, Allocated
<1>3. HardwareFollowsRoutes'
  BY Zenon DEF IInv, HardwareFollowsRoutes
<1>4. ASSUME ~Dangling', NEW q \in Prefix, route_map[q] # NULL, route_map[q].nh_group # NULL
      PROVE  route_map[q].nh_group \in Group /\ nh_group_map'[route_map[q].nh_group] # NULL
  BY <1>1, <1>4, NextRef
<1>5. NextHopsAsAsked'
  BY <1>4 DEF IInv, NextHopsAsAsked
<1>6. EcmpSlotsSet'
  BY <1>4 DEF IInv, EcmpSlotsSet
<1> QED BY <1>1, <1>2, <1>3, <1>5, <1>6 DEF IInv

\* A refused route: if others had the group they are left with freed memory, and
\* nothing more is claimed; if none had, nothing has changed for them.
LEMMA DroppedKeeps ==
    ASSUME Constants, IInv, ~Dangling, NEW g, NEW size \in 0..MaxNh, NEW nhs, Dropped(g, size, nhs)
    PROVE  IInv'
<1>1. PICK h : Got(g, h, size, nhs) /\ nh_group_map' = nh_group_delete(h, g)
  BY DEF Dropped
<1>2. g \in Group /\ h \in GroupMap /\ \A k \in Group : k # g => h[k] = nh_group_map[k]
  <2> Gotten(g, h, size, nhs)
    BY <1>1, GotFacts DEF IInv
  <2> QED BY DEF Gotten
<1>3. /\ nh_group_map' \in GroupMap /\ nh_group_map'[g] = NULL
      /\ \A k \in Group : k # g => nh_group_map'[k] = nh_group_map[k]
  BY <1>1, <1>2 DEF nh_group_delete, GroupMap
<1> QED BY <1>3, QuietKeeps DEF Dropped

\* An update in place (nh_update) changes commands, neither size nor next hops.
LEMMA InPlaceKeeps ==
    ASSUME Constants, IInv, ~Dangling, NEW g, NEW nh, InPlace(g, nh)
    PROVE  IInv'
<1>1. g \in Group /\ nh_group_map[g] # NULL /\ nh_group_map[g] \in GroupRec
  BY Zenon DEF InPlace, Allocated, IInv, Typed, GroupMap
<1>2. PICK r : r = [nh_group_map[g] EXCEPT !.nh = nh]
  BY Zenon
<1>3. /\ r \in GroupRec /\ r.nh = nh /\ r.size = nh_group_map[g].size
      /\ r.ref_cnt = nh_group_map[g].ref_cnt
  BY <1>1, <1>2 DEF GroupRec, InPlace
<1>4. nh_group_map' = [nh_group_map EXCEPT ![g] = r]
  BY <1>2 DEF InPlace
<1>5. /\ nh_group_map' \in GroupMap /\ nh_group_map'[g] = r
      /\ \A k \in Group : k # g => nh_group_map'[k] = nh_group_map[k]
  BY <1>1, <1>3, <1>4, Zenon DEF GroupMap, IInv, Typed
<1>6. \A k \in Group : nh_group_map'[k] # NULL =>
               /\ nh_group_map[k] # NULL
               /\ nh_group_map'[k].ref_cnt = nh_group_map[k].ref_cnt
               /\ nh_group_map'[k].size = nh_group_map[k].size
               /\ DOMAIN nh_group_map'[k].nh = DOMAIN nh_group_map[k].nh
  BY <1>1, <1>3, <1>5 DEF InPlace
<1> QED BY <1>5, <1>6, QuietKeeps DEF InPlace

\* A call that fails before it has changed anything.
LEMMA NothingKeeps ==
    ASSUME Constants, IInv, ~Dangling, Nothing
    PROVE  IInv'
BY QuietKeeps, Zenon DEF Nothing, IInv, Typed

\* ops_xp_l3_mgr_destroy leaves nothing.
LEMMA DestroyedKeeps ==
    ASSUME Constants, Destroyed
    PROVE  IInv'
<1>1. Typed'
  BY Zenon DEF Destroyed, Typed, GroupMap
<1>2. Exact' /\ NextHopsAsAsked' /\ EcmpSlotsSet'
  BY Zenon DEF Destroyed, Exact, NextHopsAsAsked, EcmpSlotsSet, Allocated
<1>3. HardwareFollowsRoutes'
  BY Zenon DEF Destroyed, HardwareFollowsRoutes
<1> QED BY <1>1, <1>2, <1>3 DEF IInv
-----------------------------------------------------------------------------
(* The actions are steps of these kinds *)

\* Next hops can be counted.
LEMMA NextHopsFinite ==
    ASSUME Constants, NEW S \in SUBSET NextHop
    PROVE  IsFiniteSet(S) /\ Cardinality(S) \in Nat
BY FS_Subset, FS_CardinalityType DEF Constants

\* The entries of next hops, by their domain and values.
LEMMA EntriesFacts ==
    ASSUME NEW nh \in Entries
    PROVE  DOMAIN nh \in SUBSET NextHop /\ \A n \in DOMAIN nh : nh[n] \in Cmd
<1>1. PICK S \in SUBSET NextHop : nh \in [S -> Cmd]
  BY DEF Entries
<1> QED BY <1>1

\* The next hops that a call names.
LEMMA RoutesFacts ==
    ASSUME NEW route \in Routes
    PROVE  DOMAIN route \in SUBSET NextHop
<1>1. PICK S \in SUBSET NextHop \ {{}} : route \in [S -> Host \union {NULL}]
  BY DEF Routes
<1> QED BY <1>1

\* What nh_update leaves of the entries.
LEMMA UpdatedEntries ==
    ASSUME NEW nh, NEW route, DOMAIN nh \in SUBSET NextHop, DOMAIN route \in SUBSET NextHop,
           \A n \in DOMAIN nh : nh[n] \in Cmd
    PROVE  /\ Updated(nh, route) \in Entries
           /\ DOMAIN Updated(nh, route) = DOMAIN nh \union DOMAIN route
<1>1. PICK S \in SUBSET NextHop : S = DOMAIN nh \union DOMAIN route
  BY Zenon
<1>2. \A n \in S : (IF n \notin DOMAIN route THEN nh[n]
                    ELSE nh_update(IF n \in DOMAIN nh THEN nh[n] ELSE "zero", route[n])) \in Cmd
  BY <1>1 DEF nh_update, Cmd
<1>3. Updated(nh, route) \in [S -> Cmd]
  BY <1>1, <1>2 DEF Updated
<1>4. DOMAIN Updated(nh, route) = S
  BY <1>3
<1> QED BY <1>1, <1>3, <1>4 DEF Entries

\* The lookup of a group, and its allocation where that fails, is Got.
LEMMA ObtainGets ==
    ASSUME Constants, Typed, NEW size, NEW nh \in Entries, NEW nhs, nhs = DOMAIN nh,
           NEW old \in nh_group_lookup(size, nhs), NEW free \in Group \ Allocated,
           NEW g, g = IF old # NULL THEN old ELSE free
    PROVE  Got(g, Obtain(old, free, nh_group_alloc(size, nh)), size, nhs)
<1>1. CASE old = NULL
  BY <1>1 DEF Got, Obtain
<1>2. CASE old # NULL
  <2>1. old \in Allocated /\ nh_group_map[old].size = size /\ DOMAIN nh_group_map[old].nh = nhs
    BY <1>2 DEF nh_group_lookup
  <2> QED BY <1>2, <2>1 DEF Got, Obtain
<1> QED BY <1>1, <1>2

\* The part that route_update and delete_nh_entry share: the route moves to the group,
\* or the hardware refuses it and the group is deleted.
LEMMA RegroupKeeps ==
    ASSUME Constants, IInv, ~Dangling, NEW p \in Prefix, route_map[p] # NULL,
           NEW size \in 0..MaxNh, NEW nh \in Entries, NEW hw, Regroup(p, size, nh, hw),
           stale' = stale, padded \subseteq padded', hw = "route" => padded' = padded,
           hw # "route" /\ p \notin padded' => size = Cardinality(DOMAIN nh)
    PROVE  IInv'
<1>0. PICK nhs \in SUBSET NextHop : nhs = DOMAIN nh
  BY EntriesFacts
<1>1. PICK old \in nh_group_lookup(size, nhs), free \in Group \ Allocated :
        LET g == IF old # NULL THEN old ELSE free
            groups == Obtain(old, free, nh_group_alloc(size, nh))
        IN  IF hw = "route"
            THEN /\ nh_group_map' = nh_group_delete(groups, g)
                 /\ UNCHANGED <<route_map, hw_route, asked>>
            ELSE /\ nh_group_map' = nh_group_unref(groups, route_map[p].nh_group)
                 /\ route_map' = [route_map EXCEPT ![p].nh_group = g]
                 /\ hw_route' = [hw_route EXCEPT ![p] = g]
                 /\ asked' = [asked EXCEPT ![p] = nhs]
  BY <1>0 DEF Regroup
<1>2. PICK g : g = IF old # NULL THEN old ELSE free
  OBVIOUS
<1>3. PICK h : h = Obtain(old, free, nh_group_alloc(size, nh))
  OBVIOUS
<1>4. Got(g, h, size, nhs)
  BY <1>0, <1>2, <1>3, ObtainGets DEF IInv
<1>5. CASE hw = "route"
  <2>1. Dropped(g, size, nhs)
    BY <1>1, <1>2, <1>3, <1>4, <1>5 DEF Dropped
  <2> QED BY <2>1, DroppedKeeps
<1>6. CASE hw # "route"
  <2>1. /\ nh_group_map' = nh_group_unref(h, route_map[p].nh_group)
        /\ route_map' = [route_map EXCEPT ![p].nh_group = g]
        /\ hw_route' = [hw_route EXCEPT ![p] = g]
        /\ asked' = [asked EXCEPT ![p] = nhs]
    BY <1>1, <1>2, <1>3, <1>6
  <2>2. [route_map[p] EXCEPT !.nh_group = g] = [nh_group |-> g]
    <3>1. route_map[p] \in [nh_group : Group \union {NULL}]
      BY Zenon DEF IInv, Typed, RouteRec
    <3> QED BY <3>1
  <2>3. route_map' = [route_map EXCEPT ![p] = [nh_group |-> g]]
    BY <2>1, <2>2, Zenon
  <2>4. Ref(p) = route_map[p].nh_group
    BY DEF Ref
  <2>5. Moved(p, g, size, nhs)
    BY <1>0, <1>4, <1>6, <2>1, <2>3, <2>4, Zenon DEF Moved
  <2> QED BY <2>5, MovedKeeps
<1> QED BY <1>5, <1>6

\* route_add fails without a change, or the route moves from no group.
LEMMA RouteAddKeeps ==
    ASSUME Constants, IInv, ~Dangling, NEW p \in Prefix, NEW route \in Routes, NEW hw,
           route_add(p, route, hw)
    PROVE  IInv'
<1>1. PICK nhs \in SUBSET NextHop : nhs = DOMAIN route
  BY RoutesFacts
<1>2. PICK n \in Nat : n = Cardinality(nhs)
  BY NextHopsFinite
<1>3. PICK nh : nh = Updated(<<>>, route)
  OBVIOUS
<1>4. nh \in Entries /\ DOMAIN nh = nhs
  <2>1. DOMAIN <<>> = {}
    OBVIOUS
  <2> QED BY <1>1, <1>3, <2>1, UpdatedEntries, Zenon
<1>5. PICK old \in nh_group_lookup(n, nhs), free \in Group \ Allocated :
        LET g == IF old # NULL THEN old ELSE free
        IN  \/ UNCHANGED <<nh_group_map, route_map, hw_route, asked, stale>>
            \/ /\ old = NULL => ~(n > MaxNh)
               /\ nh_group_map' = Obtain(old, free, nh_group_alloc(n, nh))
               /\ route_map' = [route_map EXCEPT ![p] = [nh_group |-> g]]
               /\ hw_route' = [hw_route EXCEPT ![p] = g]
               /\ asked' = [asked EXCEPT ![p] = nhs]
               /\ stale' = stale \ {p}
  BY <1>1, <1>2, <1>3 DEF route_add
<1>6. PICK g : g = IF old # NULL THEN old ELSE free
  OBVIOUS
<1>7. padded' = padded /\ Ref(p) = NULL
  BY DEF route_add, Ref
<1>8. CASE UNCHANGED <<nh_group_map, route_map, hw_route, asked, stale>>
  BY <1>7, <1>8, NothingKeeps DEF Nothing
<1>9. CASE /\ old = NULL => ~(n > MaxNh)
           /\ nh_group_map' = Obtain(old, free, nh_group_alloc(n, nh))
           /\ route_map' = [route_map EXCEPT ![p] = [nh_group |-> g]]
           /\ hw_route' = [hw_route EXCEPT ![p] = g]
           /\ asked' = [asked EXCEPT ![p] = nhs]
           /\ stale' = stale \ {p}
  <2>1. Got(g, nh_group_map', n, nhs)
    BY <1>4, <1>6, <1>9, ObtainGets DEF IInv
  <2>2. nh_group_map' = nh_group_unref(nh_group_map', Ref(p))
    BY <1>7 DEF nh_group_unref
  <2>3. Moved(p, g, n, nhs)
    BY <1>2, <1>7, <1>9, <2>1, <2>2 DEF Moved
  <2>4. n \in 0..MaxNh
    <3>1. CASE old = NULL
      BY <1>9, <3>1 DEF Constants
    <3>2. CASE old # NULL
      <4>1. old \in Allocated /\ nh_group_map[old].size = n
        BY <3>2 DEF nh_group_lookup
      <4>2. nh_group_map[old] \in GroupRec
        BY <4>1, Zenon DEF Allocated, IInv, Typed, GroupMap
      <4> QED BY <4>1, <4>2 DEF GroupRec
    <3> QED BY <3>1, <3>2
  <2> QED BY <2>3, <2>4, MovedKeeps
<1> QED BY <1>5, <1>6, <1>8, <1>9

\* The group of a route, as the actions read it.
LEMMA Mine ==
    ASSUME Constants, IInv, ~Dangling, NEW p \in Prefix, route_map[p] # NULL,
           NEW mine, mine = route_map[p].nh_group, mine # NULL
    PROVE  /\ mine \in Allocated /\ nh_group_map[mine] \in GroupRec
           /\ p \notin padded =>
                 nh_group_map[mine].size = Cardinality(DOMAIN nh_group_map[mine].nh)
<1>1. mine = Ref(p)
  BY DEF Ref
<1>2. mine \in Allocated
  BY <1>1, RefAllocated DEF IInv
<1>3. nh_group_map[mine] \in GroupRec
  BY <1>2, Zenon DEF Allocated, IInv, Typed, GroupMap
<1> QED BY <1>2, <1>3 DEF IInv, EcmpSlotsSet

\* route_update with new next hops: the size is the sum of what the route had and what
\* the call names, the number of next hops only if the two are disjoint.
LEMMA RouteUpdateAddKeeps ==
    ASSUME Constants, IInv, ~Dangling, NEW p \in Prefix, NEW route \in Routes, NEW hw,
           route_map[p] # NULL, route_update_add(p, route, hw), stale' = stale
    PROVE  IInv'
<1>1. PICK nhs \in SUBSET NextHop : nhs = DOMAIN route
  BY RoutesFacts
<1>2. PICK mine : mine = route_map[p].nh_group
  OBVIOUS
<1>3. PICK nh : nh = IF mine = NULL THEN <<>> ELSE nh_group_map[mine].nh
  OBVIOUS
<1>4. PICK old : old = IF mine = NULL THEN 0 ELSE nh_group_map[mine].size
  OBVIOUS
<1>5. /\ DOMAIN nh \in SUBSET NextHop /\ (\A n \in DOMAIN nh : nh[n] \in Cmd) /\ old \in Nat
      /\ p \notin padded => old = Cardinality(DOMAIN nh)
  <2>1. CASE mine = NULL
    <3>1. DOMAIN nh = {}
      BY <1>3, <2>1
    <3> QED BY <1>4, <2>1, <3>1, FS_EmptySet
  <2>2. CASE mine # NULL
    <3>1. /\ nh_group_map[mine] \in GroupRec
          /\ p \notin padded =>
                nh_group_map[mine].size = Cardinality(DOMAIN nh_group_map[mine].nh)
      BY <1>2, <2>2, Mine
    <3>2. nh = nh_group_map[mine].nh /\ nh \in Entries
      BY <1>3, <2>2, <3>1 DEF GroupRec
    <3>3. old = nh_group_map[mine].size /\ old \in Nat
      BY <1>4, <2>2, <3>1 DEF GroupRec
    <3> QED BY <3>1, <3>2, <3>3, EntriesFacts
  <2> QED BY <2>1, <2>2
<1>6. Cardinality(nhs) \in Nat /\ IsFiniteSet(nhs) /\ IsFiniteSet(DOMAIN nh)
      /\ Cardinality(DOMAIN nh) \in Nat
  BY <1>5, NextHopsFinite
<1>7. PICK size \in Nat : size = Cardinality(nhs) + old
  BY <1>5, <1>6
<1>8. PICK nh2 : nh2 = Updated(nh, route)
  OBVIOUS
<1>9. nh2 \in Entries /\ DOMAIN nh2 = DOMAIN nh \union nhs
  BY <1>1, <1>5, <1>8, UpdatedEntries
<1>10. \/ UNCHANGED <<nh_group_map, route_map, hw_route, asked, padded>>
       \/ /\ size <= MaxNh /\ Regroup(p, size, nh2, hw)
          /\ padded' = IF nhs \intersect DOMAIN nh # {} /\ hw # "route"
                       THEN padded \union {p} ELSE padded
  BY <1>1, <1>2, <1>3, <1>4, <1>7, <1>8 DEF route_update_add
<1>11. CASE UNCHANGED <<nh_group_map, route_map, hw_route, asked, padded>>
  BY <1>11, NothingKeeps DEF Nothing
<1>12. CASE /\ size <= MaxNh /\ Regroup(p, size, nh2, hw)
            /\ padded' = IF nhs \intersect DOMAIN nh # {} /\ hw # "route"
                         THEN padded \union {p} ELSE padded
  <2>1. padded \subseteq padded' /\ (hw = "route" => padded' = padded)
    BY <1>12
  <2>2. hw # "route" /\ p \notin padded' => size = Cardinality(DOMAIN nh2)
    <3> SUFFICES ASSUME hw # "route", p \notin padded'
                 PROVE  size = Cardinality(DOMAIN nh2)
      OBVIOUS
    <3>1. nhs \intersect DOMAIN nh = {} /\ p \notin padded
      BY <1>12
    <3>2. Cardinality(nhs \union DOMAIN nh) =
             Cardinality(nhs) + Cardinality(DOMAIN nh) - Cardinality(nhs \intersect DOMAIN nh)
      BY <1>6, FS_Union
    <3>3. Cardinality(nhs \intersect DOMAIN nh) = 0
      BY <3>1, FS_EmptySet
    <3>4. DOMAIN nh2 = nhs \union DOMAIN nh
      BY <1>9
    <3> QED BY <1>5, <1>6, <1>7, <3>1, <3>2, <3>3, <3>4
  <2>3. size \in 0..MaxNh
    BY <1>12 DEF Constants
  <2> QED BY <1>9, <1>12, <2>1, <2>2, <2>3, RegroupKeeps
<1> QED BY <1>10, <1>11, <1>12

\* route_update of next hops that are all known, up to one that cannot be resolved.
LEMMA RouteUpdateInPlaceKeeps ==
    ASSUME Constants, IInv, ~Dangling, NEW p \in Prefix, NEW route \in Routes, NEW hw,
           route_map[p] # NULL, route_update_in_place(p, route, hw), stale' = stale
    PROVE  IInv'
<1>1. PICK mine : mine = route_map[p].nh_group
  OBVIOUS
<1>2. /\ mine # NULL /\ DOMAIN route \subseteq DOMAIN nh_group_map[mine].nh
      /\ UNCHANGED <<route_map, hw_route, asked, padded>>
  BY <1>1 DEF route_update_in_place
<1>3. mine \in Allocated /\ nh_group_map[mine] \in GroupRec
  BY <1>1, <1>2, Mine
<1>4. PICK done \in SUBSET DOMAIN route :
         nh_group_map' = [nh_group_map EXCEPT ![mine].nh = Updated(@, Restrict(route, done))]
  BY <1>1, Zenon DEF route_update_in_place
<1>5. PICK old : old = nh_group_map[mine].nh
  OBVIOUS
<1>6. old \in Entries /\ DOMAIN old \in SUBSET NextHop /\ \A n \in DOMAIN old : old[n] \in Cmd
  <2>1. old \in Entries
    BY <1>3, <1>5 DEF GroupRec
  <2> QED BY <2>1, EntriesFacts
<1>7. PICK part : part = Restrict(route, done)
  OBVIOUS
<1>8. PICK nh : nh = Updated(old, part)
  OBVIOUS
<1>9. nh \in Entries /\ DOMAIN nh = DOMAIN old
  <2>1. DOMAIN part = done
    BY <1>7 DEF Restrict
  <2>2. done \in SUBSET NextHop /\ DOMAIN old \union done = DOMAIN old
    BY <1>2, <1>5, <1>6
  <2>3. nh \in Entries /\ DOMAIN nh = DOMAIN old \union DOMAIN part
    BY <1>6, <1>8, <2>1, <2>2, UpdatedEntries, Zenon
  <2> QED BY <2>1, <2>2, <2>3
<1>10. nh_group_map' = [nh_group_map EXCEPT ![mine].nh = nh]
  BY <1>4, <1>5, <1>7, <1>8
<1>11. InPlace(mine, nh)
  BY <1>2, <1>3, <1>5, <1>9, <1>10 DEF InPlace
<1> QED BY <1>11, InPlaceKeeps

\* add_route_entry is route_add or route_update.
LEMMA AddRouteEntryKeeps ==
    ASSUME Constants, IInv, NEW p \in Prefix, NEW route \in Routes, NEW hw,
           add_route_entry(p, route, hw)
    PROVE  IInv'
<1>1. ~Dangling /\ (route_add(p, route, hw) \/ route_update(p, route, hw))
  BY DEF add_route_entry
<1>2. CASE route_add(p, route, hw)
  BY <1>1, <1>2, RouteAddKeeps
<1>3. CASE route_update(p, route, hw)
  <2>1. /\ route_map[p] # NULL /\ stale' = stale
        /\ route_update_add(p, route, hw) \/ route_update_in_place(p, route, hw)
    BY <1>3 DEF route_update
  <2>2. CASE route_update_add(p, route, hw)
    BY <1>1, <2>1, <2>2, RouteUpdateAddKeeps
  <2>3. CASE route_update_in_place(p, route, hw)
    BY <1>1, <2>1, <2>3, RouteUpdateInPlaceKeeps
  <2> QED BY <2>1, <2>2, <2>3
<1> QED BY <1>1, <1>2, <1>3

\* delete_route_entry, whether the hardware removes the entry or not.
LEMMA DeleteRouteEntryKeeps ==
    ASSUME Constants, IInv, NEW p \in Prefix, NEW hw, delete_route_entry(p, hw)
    PROVE  IInv'
<1>1. PICK w : w = IF hw = "ok" THEN NULL ELSE hw_route[p]
  OBVIOUS
<1>2. w \in Group \union {NULL, "no next hop"}
  BY <1>1, Zenon DEF IInv, Typed
<1>3. hw_route' = [hw_route EXCEPT ![p] = w]
  BY <1>1, Zenon DEF delete_route_entry, IInv, Typed
<1>4. p \notin stale' => w = NULL
  BY <1>1 DEF delete_route_entry
<1>5. Ref(p) = route_map[p].nh_group
  BY DEF delete_route_entry, Ref
<1>6. Left(p, NULL, w)
  BY <1>2, <1>3, <1>4, <1>5, Zenon DEF Left, delete_route_entry
<1>7. ~Dangling
  BY DEF delete_route_entry
<1> QED BY <1>6, <1>7, LeftKeeps

\* delete_nh_entry: the route moves to a group of the next hops that stay, or to none.
LEMMA DeleteNhEntryKeeps ==
    ASSUME Constants, IInv, NEW p \in Prefix, NEW nhs \in SUBSET NextHop, NEW hw,
           delete_nh_entry(p, nhs, hw)
    PROVE  IInv'
<1>1. PICK mine : mine = route_map[p].nh_group
  OBVIOUS
<1>2. /\ ~Dangling /\ route_map[p] # NULL /\ mine # NULL
      /\ stale' = stale /\ padded' = padded
  BY <1>1, Zenon DEF delete_nh_entry
<1>3. /\ mine \in Allocated /\ nh_group_map[mine] \in GroupRec
      /\ p \notin padded =>
            nh_group_map[mine].size = Cardinality(DOMAIN nh_group_map[mine].nh)
  BY <1>1, <1>2, Mine
<1>4. PICK nh \in Entries : nh = nh_group_map[mine].nh
  BY <1>3 DEF GroupRec
<1>5. PICK size \in 0..MaxNh : size = nh_group_map[mine].size
  BY <1>3 DEF GroupRec
<1>6. DOMAIN nh \in SUBSET NextHop /\ \A n \in DOMAIN nh : nh[n] \in Cmd
  BY EntriesFacts
<1>7. PICK n \in Nat : n = Cardinality(DOMAIN nh \intersect nhs)
  BY <1>6, NextHopsFinite
<1>8. PICK rest : rest = Restrict(nh, DOMAIN nh \ nhs)
  OBVIOUS
<1>9. rest \in Entries /\ DOMAIN rest = DOMAIN nh \ nhs
  <2>1. PICK S \in SUBSET NextHop : S = DOMAIN nh \ nhs
    BY <1>6, Zenon
  <2>2. rest \in [S -> Cmd] /\ DOMAIN rest = S
    BY <1>6, <1>8, <2>1 DEF Restrict
  <2> QED BY <2>1, <2>2 DEF Entries
<1>10. \/ UNCHANGED <<nh_group_map, route_map, hw_route, asked>>
       \/ size > n /\ Regroup(p, size - n, rest, hw)
       \/ /\ nh_group_map' = nh_group_unref(nh_group_map, mine)
          /\ route_map' = [route_map EXCEPT ![p].nh_group = NULL]
          /\ hw_route' = [hw_route EXCEPT ![p] = "no next hop"]
          /\ asked' = [asked EXCEPT ![p] = {}]
  BY <1>1, <1>4, <1>5, <1>7, <1>8, Zenon DEF delete_nh_entry
<1>11. CASE UNCHANGED <<nh_group_map, route_map, hw_route, asked>>
  BY <1>2, <1>11, NothingKeeps DEF Nothing
<1>12. CASE size > n /\ Regroup(p, size - n, rest, hw)
  <2>1. PICK m \in 0..MaxNh : m = size - n
    BY <1>12 DEF Constants
  <2>2. p \notin padded => m = Cardinality(DOMAIN rest)
    <3>1. IsFiniteSet(DOMAIN nh)
      BY <1>6, NextHopsFinite
    <3>2. Cardinality(DOMAIN nh \ nhs) = Cardinality(DOMAIN nh) - n
      BY <1>7, <3>1, FS_Difference, Zenon
    <3> QED BY <1>3, <1>4, <1>5, <1>9, <2>1, <3>2
  <2>3. Regroup(p, m, rest, hw)
    BY <1>12, <2>1
  <2>4. padded \subseteq padded'
    BY <1>2
  <2> QED BY <1>2, <1>9, <2>2, <2>3, <2>4, RegroupKeeps
<1>13. CASE /\ nh_group_map' = nh_group_unref(nh_group_map, mine)
            /\ route_map' = [route_map EXCEPT ![p].nh_group = NULL]
            /\ hw_route' = [hw_route EXCEPT ![p] = "no next hop"]
            /\ asked' = [asked EXCEPT ![p] = {}]
  <2>1. [route_map[p] EXCEPT !.nh_group = NULL] = [nh_group |-> NULL]
    <3>1. route_map[p] \in [nh_group : Group \union {NULL}]
      BY <1>2, Zenon DEF IInv, Typed, RouteRec
    <3> QED BY <3>1
  <2>2. PICK r : r = [nh_group |-> NULL]
    BY Zenon
  <2>3. route_map' = [route_map EXCEPT ![p] = r]
    BY <1>13, <2>1, <2>2, Zenon
  <2>4. r \in RouteRec /\ r # NULL
    BY <2>2 DEF RouteRec, Constants
  <2>5. Ref(p) = mine
    BY <1>1, <1>2 DEF Ref
  <2>6. Left(p, r, "no next hop")
    BY <1>2, <1>13, <2>2, <2>3, <2>4, <2>5, Zenon DEF Left
  <2> QED BY <1>2, <2>6, LeftKeeps, Zenon
<1> QED BY <1>10, <1>11, <1>12, <1>13, Zenon

\* The hardware keeps only entries that it refused to remove.
LEMMA MgrDestroyKeeps ==
    ASSUME Constants, IInv, NEW kept, mgr_destroy(kept)
    PROVE  IInv'
<1>1. hw_route' \in [Prefix -> Group \union {NULL, "no next hop"}]
  BY Zenon DEF mgr_destroy, IInv, Typed
<1>2. \A p \in Prefix \ stale' : hw_route'[p] = NULL
  BY DEF mgr_destroy
<1>3. Destroyed
  BY <1>1, <1>2, Zenon DEF Destroyed, mgr_destroy
<1> QED BY <1>3, DestroyedKeeps

\* IInv holds in every state.
LEMMA IInvInvariant ==
    ASSUME Constants
    PROVE  Spec => []IInv
<1>1. Init => IInv
  <2> SUFFICES ASSUME Init
               PROVE  IInv
    OBVIOUS
  <2>1. Typed
    BY DEF Init, Typed, GroupMap
  <2>2. Exact /\ NextHopsAsAsked /\ EcmpSlotsSet
    BY DEF Init, Exact, NextHopsAsAsked, EcmpSlotsSet, Allocated
  <2>3. HardwareFollowsRoutes
    BY DEF Init, HardwareFollowsRoutes
  <2> QED BY <2>1, <2>2, <2>3 DEF IInv
<1>2. IInv /\ [Next]_vars => IInv'
  <2> SUFFICES ASSUME IInv, [Next]_vars
               PROVE  IInv'
    OBVIOUS
  <2>1. ASSUME NEW p \in Prefix, NEW hw \in Hardware, NEW route \in Routes,
               add_route_entry(p, route, hw)
        PROVE  IInv'
    BY <2>1, AddRouteEntryKeeps
  <2>2. ASSUME NEW p \in Prefix, NEW hw \in Hardware, delete_route_entry(p, hw)
        PROVE  IInv'
    BY <2>2, DeleteRouteEntryKeeps
  <2>3. ASSUME NEW p \in Prefix, NEW hw \in Hardware, NEW nhs \in SUBSET NextHop \ {{}},
               delete_nh_entry(p, nhs, hw)
        PROVE  IInv'
    BY <2>3, DeleteNhEntryKeeps
  <2>4. ASSUME NEW kept \in SUBSET Prefix, mgr_destroy(kept)
        PROVE  IInv'
    BY <2>4, MgrDestroyKeeps
  <2>5. ASSUME NEW hs \in SUBSET Host, host_entries(hs)
        PROVE  IInv'
    BY <2>5, NothingKeeps DEF host_entries, history, Nothing
  <2>6. CASE UNCHANGED vars
    <3>1. UNCHANGED <<nh_group_map, route_map, hw_route, asked, stale, padded>>
      BY <2>6 DEF vars
    <3>2. /\ Dangling' = Dangling /\ Allocated' = Allocated
          /\ \A g : Referrers(g)' = Referrers(g)
      BY <3>1 DEF Dangling, Referrers, Allocated
    <3>3. Typed' /\ HardwareFollowsRoutes'
      BY <3>1, <3>2, Zenon DEF IInv, Typed, HardwareFollowsRoutes
    <3>4. Exact'
      BY <3>1, <3>2 DEF IInv, Exact
    <3>5. NextHopsAsAsked'
      BY <3>1, <3>2 DEF IInv, NextHopsAsAsked
    <3>6. EcmpSlotsSet'
      BY <3>1, <3>2 DEF IInv, EcmpSlotsSet
    <3> QED BY <3>3, <3>4, <3>5, <3>6 DEF IInv
  <2> QED BY <2>1, <2>2, <2>3, <2>4, <2>5, <2>6 DEF Next
<1> QED BY <1>1, <1>2, PTL DEF Spec
-----------------------------------------------------------------------------
\* Every group counts exactly the routes that refer to it (nh_group_ref and
\* nh_group_unref on every path of route_add, route_update, delete_nh_entry and
\* route_delete), for any number of prefixes, next hops and refused calls.
THEOREM RefCountsAreExact ==
    ASSUME Constants
    PROVE  Spec => []RefCountsExact
<1>1. IInv => RefCountsExact
  BY DEF IInv, Exact, RefCountsExact
<1> QED BY <1>1, IInvInvariant, PTL

\* A route has the next hops that the calls which returned 0 asked for, whichever other
\* routes share its group (nh_group_lookup and the update in place of route_update).
THEOREM NextHopsAreAsAsked ==
    ASSUME Constants
    PROVE  Spec => []NextHopsAsAsked
<1>1. IInv => NextHopsAsAsked
  BY DEF IInv
<1> QED BY <1>1, IInvInvariant, PTL

\* The hardware forwards a prefix through the group of its route, unless it refused to
\* remove the entry (route_add, route_update, delete_nh_entry, route_delete).
THEOREM HardwareFollows ==
    ASSUME Constants
    PROVE  Spec => []HardwareFollowsRoutes
<1>1. IInv => HardwareFollowsRoutes
  BY DEF IInv
<1> QED BY <1>1, IInvInvariant, PTL

\* The slots of a route's group in the hardware are as many as its next hops, unless one
\* call updated next hops and added others (nh_group_alloc in route_update).
THEOREM EcmpSlotsAreSet ==
    ASSUME Constants
    PROVE  Spec => []EcmpSlotsSet
<1>1. IInv => EcmpSlotsSet
  BY DEF IInv
<1> QED BY <1>1, IInvInvariant, PTL
-----------------------------------------------------------------------------
\* The histories, and the number of calls that were refused.
Bounds ==
    /\ hosts \subseteq Host /\ padded \subseteq Prefix /\ stale \subseteq Prefix
    /\ faults \in 0..MaxFaults

\* A refused call is one fault more, up to the bound.
LEMMA HwBounds ==
    ASSUME faults \in 0..MaxFaults, MaxFaults \in Nat, NEW hw, Hw(hw)
    PROVE  faults' \in 0..MaxFaults
BY DEF Hw

\* Each step keeps them.
LEMMA BoundsNext ==
    ASSUME Constants, MaxFaults \in Nat, Bounds, [Next]_vars
    PROVE  Bounds'
<1>1. ASSUME NEW p \in Prefix, NEW hw, NEW route \in Routes, add_route_entry(p, route, hw)
      PROVE  Bounds'
  <2>1. faults' \in 0..MaxFaults
    BY <1>1, HwBounds DEF add_route_entry, Bounds
  <2>2. CASE route_add(p, route, hw)
    <3>1. UNCHANGED <<hosts, padded>> /\ stale' \subseteq stale
      BY <2>2 DEF route_add
    <3> QED BY <2>1, <3>1 DEF Bounds
  <2>3. CASE route_update(p, route, hw)
    <3>1. UNCHANGED <<hosts, stale>> /\ padded' \subseteq padded \union {p}
      BY <2>3 DEF route_update, route_update_add, route_update_in_place
    <3> QED BY <2>1, <3>1 DEF Bounds
  <2> QED BY <1>1, <2>2, <2>3 DEF add_route_entry
<1>2. ASSUME NEW p \in Prefix, NEW hw, delete_route_entry(p, hw)
      PROVE  Bounds'
  <2>1. faults' \in 0..MaxFaults
    BY <1>2, HwBounds DEF delete_route_entry, Bounds
  <2> QED BY <1>2, <2>1 DEF delete_route_entry, Bounds
<1>3. ASSUME NEW p \in Prefix, NEW hw, NEW nhs, delete_nh_entry(p, nhs, hw)
      PROVE  Bounds'
  <2>1. faults' \in 0..MaxFaults
    BY <1>3, HwBounds, Zenon DEF delete_nh_entry, Bounds
  <2>2. UNCHANGED <<hosts, padded, stale>>
    BY <1>3, Zenon DEF delete_nh_entry
  <2> QED BY <2>1, <2>2 DEF Bounds
<1>4. ASSUME NEW kept \in SUBSET Prefix, mgr_destroy(kept)
      PROVE  Bounds'
  <2>1. Cardinality(kept) \in Nat
    BY FS_Subset, FS_CardinalityType DEF Constants
  <2>2. faults' \in 0..MaxFaults
    BY <1>4, <2>1 DEF mgr_destroy, Bounds
  <2> QED BY <1>4, <2>2 DEF mgr_destroy, Bounds
<1>5. ASSUME NEW hs \in SUBSET Host, host_entries(hs)
      PROVE  Bounds'
  BY <1>5 DEF host_entries, history, Bounds
<1>6. CASE UNCHANGED vars
  BY <1>6 DEF vars, Bounds
<1> QED BY <1>1, <1>2, <1>3, <1>4, <1>5, <1>6, Zenon DEF Next

\* The variables keep their types: a group never has more than MaxNh next hops, nor more
\* references than there are prefixes, also when nh_group_delete has freed one in use.
THEOREM RouteTypesCorrect ==
    ASSUME Constants, MaxFaults \in Nat
    PROVE  Spec => []TypeOK
<1>1. Init => Bounds
  BY DEF Init, Bounds
<1>2. Bounds /\ [Next]_vars => Bounds'
  BY BoundsNext
<1>3. IInv /\ Bounds => TypeOK
  <2> SUFFICES ASSUME IInv, Bounds
               PROVE  TypeOK
    OBVIOUS
  <2>1. ASSUME NEW g \in Group
        PROVE  nh_group_map[g] \in {NULL} \union GroupState
    <3>1. CASE nh_group_map[g] = NULL
      BY <3>1
    <3>2. CASE nh_group_map[g] # NULL
      <4>1. nh_group_map[g] \in GroupRec
        BY <3>2, Zenon DEF IInv, Typed, GroupMap
      <4>2. nh_group_map[g].ref_cnt = Cardinality(Referrers(g))
        BY <3>2 DEF IInv, Exact, Allocated
      <4>3. Cardinality(Referrers(g)) <= Cardinality(Prefix) /\ Cardinality(Prefix) \in Nat
        BY FS_Subset, FS_CardinalityType DEF Referrers, Constants
      <4>4. nh_group_map[g].ref_cnt \in 1..Cardinality(Prefix) + 1
        BY <4>1, <4>2, <4>3 DEF GroupRec
      <4>5. PICK r : r = nh_group_map[g]
        OBVIOUS
      <4>6. r = [size |-> r.size, ref_cnt |-> r.ref_cnt, nh |-> r.nh]
            /\ r.size \in 0..MaxNh /\ r.nh \in Entries
        BY <4>1, <4>5, Zenon DEF GroupRec
      <4> QED BY <4>4, <4>5, <4>6, Zenon DEF GroupState
    <3> QED BY <3>1, <3>2
  <2>2. nh_group_map \in [Group -> {NULL} \union GroupState]
    BY <2>1, Zenon DEF IInv, Typed, GroupMap
  <2> QED BY <2>2, Zenon DEF TypeOK, IInv, Typed, Bounds, RouteRec
<1> QED BY <1>1, <1>2, <1>3, IInvInvariant, PTL DEF Spec
=============================================================================
