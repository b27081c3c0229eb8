--------------------------- MODULE L3BundleProofs ----------------------------
(***************************************************************************)
(* L3Hosts and L3Bundle for any bundles, addresses, settings, refusals and *)
(* sizes of the tables.  The invariant has four parts: the host entries    *)
(* and their owners, the work that is left, the addresses asked for, and   *)
(* the interfaces.  Calls come first: what they do to the interfaces, and  *)
(* the work they make.  Then the entries: IDs are taken and put back,      *)
(* entries move in the hardware's table, pieces of work are done.  The     *)
(* actions of L3Bundle keep all four parts, and the properties of both     *)
(* modules follow.                                                         *)
(***************************************************************************)
EXTENDS L3Bundle, TLAPS

Setting == [enable : BOOLEAN, lag_updated : BOOLEAN, vlan : Nat, ip_change : SUBSET Kind,
            ip4 : {NULL} \union Address4, ip6 : {NULL} \union Address6,
            secondary4 : SUBSET Address4, secondary6 : SUBSET Address6]
NetdevType == {"system", "vlansubint", "internal", "loopback"}

\* NULL stands for no address, no bundle and no structure; settings and netdev types
\* are the ones the code distinguishes.
Constants ==
    /\ NULL \notin Address /\ NULL \notin Bundle /\ NULL \notin Owned
    /\ NULL \notin [id : L3If, vlan_id : Nat]
    /\ MaxFaults \in Nat
    /\ Type \in [Bundle -> NetdevType]
    /\ Settings \in [Bundle -> SUBSET Setting]

\* The addresses a slot may be given, by the settings of its bundle or as a neighbour's.
MayHave(s, a) ==
    \/ s[2] = "ip4" /\ \E st \in Settings[s[1]] : "ip4" \in st.ip_change /\ st.ip4 = a
    \/ s[2] = "ip6" /\ \E st \in Settings[s[1]] : "ip6" \in st.ip_change /\ st.ip6 = a
    \/ /\ s[2] = "secondary4" /\ s[3] = a
       /\ \E st \in Settings[s[1]] : "secondary4" \in st.ip_change /\ a \in st.secondary4
    \/ /\ s[2] = "secondary6" /\ s[3] = a
       /\ \E st \in Settings[s[1]] : "secondary6" \in st.ip_change /\ a \in st.secondary6
    \/ s[2] = "neighbour" /\ s[3] = a

\* No address is configured in two places, or is also that of a neighbour.
OneHome ==
    \A s, t \in Slot, a \in Address :
       MayHave(s, a) /\ MayHave(t, a) => s = t \/ (s[2] = "neighbour" /\ t[2] = "neighbour")
-----------------------------------------------------------------------------
(* The invariant of the host entries *)

Entry == [address : Address, index : Index]
EntriesTyped ==
    /\ next_host_id \in Nat /\ dummy_host_list \in Seq(Nat)
    /\ DOMAIN host_id_map \subseteq Nat
    /\ \A id \in DOMAIN host_id_map : host_id_map[id] \in Entry
    /\ hw_host \in [Index -> Address \union {NULL}]
    /\ owner \in [Slot -> {NULL} \union Owned]
    /\ strayed \in BOOLEAN /\ orphans \subseteq Address

Owns(s) == owner[s] # NULL /\ owner[s].own

\* Slots have addresses they may have; a neighbour has one slot, with an ID it was given.
SlotsInv ==
    \A s \in Slot : owner[s] # NULL =>
       /\ MayHave(s, owner[s].address)
       /\ s[2] = "neighbour" =>
             /\ owner[s].own
             /\ \A t \in Slot : t[2] = "neighbour" /\ t[3] = s[3] /\ owner[t] # NULL => t = s

\* What OwnersKeepHosts needs besides itself: no two slots were given the same ID.
KeepInv ==
    /\ OwnersKeepHosts
    /\ ~strayed => \A s, t \in Slot : Owns(s) /\ Owns(t) /\ owner[s].id = owner[t].id => s = t

\* What HostsMirrorHardware needs besides itself: an entry is some slot's, so that an
\* address that is added has no entry yet.
MirrorInv ==
    OneHome /\ orphans = {} =>
       /\ HostsMirrorHardware
       /\ \A id \in DOMAIN host_id_map :
             \E s \in Slot : /\ Owns(s) /\ owner[s].id = id
                             /\ owner[s].address = host_id_map[id].address

HostInv == EntriesTyped /\ IdsUnique /\ SlotsInv /\ KeepInv /\ MirrorInv
-----------------------------------------------------------------------------
(* The invariant of the work and the addresses *)

Primary == {"ip4", "ip6"}

\* Pieces of work that can be done: what is deleted is there, an address is added to a
\* slot after the slot's entry was deleted, and a slot that keeps its struct gets a new
\* address.
Sound(W) ==
    /\ W \subseteq Item
    /\ \A i \in W : i.op # "add" => owner[i.slot] # NULL
    /\ \A i \in W : i.op = "add" => i.slot[2] \in Kind /\ MayHave(i.slot, i.address)
    /\ \A i, j \in W : i.slot = j.slot /\ (i.op = "add" <=> j.op = "add") => i = j
    /\ \A i, j \in W : i.slot = j.slot /\ i.op = "add" /\ j.op # "add" =>
          j.op = "delete" /\ ~j.drop /\ j.stage < i.stage
    /\ \A i \in W : i.op = "add" /\ Owns(i.slot) =>
          \E j \in W : j.op # "add" /\ j.slot = i.slot
    /\ \A j \in W : j.op = "delete" /\ ~j.drop => \E i \in W : i.op = "add" /\ i.slot = j.slot

\* What is left of a call: pieces of work, or the second half of bundle_update_l3_config.
Left == {item \in work : item.op # "enable"}
EnableLeft(b, st) == [op |-> "enable", stage |-> 1, bundle |-> b, settings |-> st]
WorkInv ==
    /\ Sound(Left)
    /\ \/ Left = work
       \/ \E b \in bundles : \E st \in Settings[b] : work = {EnableLeft(b, st)}

\* The slot has the address once the work is done; the address was asked for.
Holds(W, s, a) ==
    \/ \E i \in W : i.op = "add" /\ i.slot = s /\ i.address = a
    \/ owner[s] # NULL /\ owner[s].address = a /\ \A i \in W : i.slot # s
AskedFor(s, a) == IF s[2] \in Primary THEN l3_asked[s[1]][s[2]] = a
                  ELSE s[3] = a /\ a \in l3_asked[s[1]][s[2]]

AskedTyped == l3_asked \in [Bundle -> [Kind -> {NULL} \union Address \union SUBSET Address]]

\* Work and slots together come to what was asked for.
AskedInv ==
    /\ AskedTyped
    /\ \A b \in Bundle : /\ l3_asked[b]["ip4"] \in {NULL} \union Address4
                         /\ l3_asked[b]["ip6"] \in {NULL} \union Address6
                         /\ l3_asked[b]["secondary4"] \subseteq Address4
                         /\ l3_asked[b]["secondary6"] \subseteq Address6
    /\ \A s \in Slot : s[2] \in Kind =>
          \A a \in Address : Holds(Left, s, a) <=> AskedFor(s, a)
-----------------------------------------------------------------------------
(* The invariant of the interfaces *)

\* What InterfaceReady needs besides itself: only interfaces in use have a name, so
\* that a new one gets its own; and none is a loopback's, which has no chain.
IfInv ==
    /\ bundles \subseteq Bundle
    /\ l3_intf \in [Bundle -> {NULL} \union [id : L3If, vlan_id : Nat]]
    /\ hw_l3 \in [L3If -> SUBSET (Complete("system") \union Complete("internal"))]
    /\ if_id_to_name_map \in [L3If -> {NULL} \union Bundle]
    /\ mac_once \in {"new", "started", "done"} /\ hung \in BOOLEAN
    /\ hfaults \in 0..MaxFaults
    /\ InterfaceReady
    /\ \A b \in Bundle : l3_intf[b] # NULL => Type[b] # "loopback"
    /\ \A i \in L3If : if_id_to_name_map[i] # NULL =>
          \E b \in Bundle : l3_intf[b] # NULL /\ l3_intf[b].id = i

L3Inv == HostInv /\ WorkInv /\ AskedInv /\ IfInv
-----------------------------------------------------------------------------
(* Interfaces *)

\* The chain of an interface that is not a loopback, and the hardware's state after its last
\* step.
LEMMA ChainFacts ==
    ASSUME NEW type \in NetdevType \ {"loopback"}
    PROVE  /\ Len(Chain(type)) \in Nat \ {0} /\ DOMAIN Chain(type) = 1..Len(Chain(type))
           /\ \E i \in DOMAIN Chain(type) : Chain(type)[i] = "msb"
           /\ Complete(type) \subseteq Complete("system") \union Complete("internal")
           /\ Complete(type) # {}
<1>1. \/ Chain(type) = l3_port_iface_create
      \/ Chain(type) = l3_sub_iface_create
      \/ Chain(type) = l3_vlan_iface_create
  BY DEF NetdevType, Chain
<1>2. Chain("system") = l3_port_iface_create /\ Chain("internal") = l3_vlan_iface_create
  BY DEF Chain
<1>3. l3_sub_iface_create = l3_port_iface_create
  BY DEF l3_sub_iface_create, l3_port_iface_create
<1>4. /\ Len(Chain(type)) = 5 /\ DOMAIN Chain(type) = 1..5
      /\ Chain(type)[4] = "msb" \/ Chain(type)[3] = "msb"
  BY <1>1 DEF l3_sub_iface_create, l3_port_iface_create, l3_vlan_iface_create
<1>5. Complete(type) = Complete("system") \/ Complete(type) = Complete("internal")
  BY <1>1, <1>2, <1>3 DEF Complete
<1>6. Chain(type)[1] \in Complete(type)
  BY <1>4 DEF Complete, Range
<1> QED BY <1>4, <1>5, <1>6

\* The calls of a chain: an interface that got all of them is complete.
LEMMA ChainKeeps ==
    ASSUME Constants, IfInv, NEW b \in Bundle, Type[b] # "loopback", NEW id \in L3If,
           NEW k \in 0..Len(Chain(Type[b])), create_chain(b, id, k)
    PROVE  /\ hw_l3' \in [L3If -> SUBSET (Complete("system") \union Complete("internal"))]
           /\ mac_once' \in {"new", "started", "done"} /\ hung' \in BOOLEAN
           /\ hfaults' \in 0..MaxFaults
           /\ \A i \in L3If \ {id} : hw_l3'[i] = hw_l3[i]
           /\ mac_once = "done" => mac_once' = "done"
           /\ k = Len(Chain(Type[b])) =>
                 hw_l3'[id] = Complete(Type[b]) /\ mac_once' = "done"
<1>1. PICK chain, msb : /\ chain = Chain(Type[b])
                        /\ msb = CHOOSE i \in DOMAIN chain : chain[i] = "msb"
  OBVIOUS
<1>2. /\ Len(chain) \in Nat \ {0} /\ DOMAIN chain = 1..Len(chain)
      /\ \E i \in DOMAIN chain : chain[i] = "msb"
      /\ Complete(Type[b]) \subseteq Complete("system") \union Complete("internal")
  BY <1>1, ChainFacts DEF Constants
<1>3. msb \in 1..Len(chain)
  BY <1>1, <1>2
<1>4. PICK stuck, refused : /\ stuck = (mac_once = "started" /\ k = msb - 1)
                            /\ refused = (k < Len(chain) /\ ~stuck)
  OBVIOUS
<1>5. /\ mac_once = "started" => k < msb
      /\ hw_l3' = [hw_l3 EXCEPT ![id] = {chain[i] : i \in 1..k}]
      /\ hung' = stuck
      /\ IF k < msb - 1 \/ stuck THEN UNCHANGED mac_once
         ELSE l3_iface_mac_set(IF refused THEN chain[k + 1] ELSE "none", refused)
      /\ hfaults' = IF refused THEN hfaults + 1 ELSE hfaults
      /\ hfaults' <= MaxFaults
  BY <1>1, <1>4, Zenon DEF create_chain
<1>6. k \in Nat /\ k <= Len(chain)
  BY <1>1, <1>2
<1>7. {chain[i] : i \in 1..k} \subseteq Complete(Type[b])
  BY <1>1, <1>2, <1>6 DEF Complete, Range
<1>8. /\ hw_l3' \in [L3If -> SUBSET (Complete("system") \union Complete("internal"))]
      /\ \A i \in L3If \ {id} : hw_l3'[i] = hw_l3[i]
      /\ hw_l3'[id] = {chain[i] : i \in 1..k}
  BY <1>2, <1>5, <1>7, Zenon DEF IfInv
<1>9. /\ mac_once' \in {"new", "started", "done"} /\ hung' \in BOOLEAN
      /\ mac_once = "done" => mac_once' = "done"
  BY <1>4, <1>5 DEF IfInv, l3_iface_mac_set
<1>10. hfaults' \in 0..MaxFaults
  BY <1>5 DEF IfInv, Constants
<1>11. ASSUME k = Len(chain)
       PROVE  hw_l3'[id] = Complete(Type[b]) /\ mac_once' = "done"
  <2>1. hw_l3'[id] = Complete(Type[b])
    BY <1>1, <1>2, <1>8, <1>11, Zenon DEF Complete, Range
  <2>2. mac_once # "started" /\ ~(k < msb - 1) /\ ~(k < Len(chain))
    BY <1>2, <1>3, <1>5, <1>11
  <2>3. ~stuck /\ ~refused
    BY <1>4, <2>2, Zenon
  <2>4. l3_iface_mac_set("none", refused)
    BY <1>5, <2>2, <2>3
  <2> QED BY <2>1, <2>2, <2>4, Zenon DEF l3_iface_mac_set, IfInv
<1> QED BY <1>1, <1>8, <1>9, <1>10, <1>11

\* An interface comes.
LEMMA EnableKeeps ==
    ASSUME Constants, IfInv, NEW b \in Bundle, NEW vlan \in Nat, Type[b] # "loopback",
           l3_intf[b] = NULL, enable_l3_interface(b, vlan),
           bundles' \subseteq Bundle, bundles \union {b} \subseteq bundles'
    PROVE  IfInv'
<1>1. CASE /\ UNCHANGED <<hw_l3, if_id_to_name_map, mac_once, hung, hfaults>>
           /\ l3_intf' = [l3_intf EXCEPT ![b] = NULL]
  <2>1. l3_intf' = l3_intf
    BY <1>1 DEF IfInv
  <2> QED BY <1>1, <2>1 DEF IfInv, InterfaceReady
<1>2. ASSUME NEW id \in {i \in L3If : hw_l3[i] = {}}, NEW k \in 0..Len(Chain(Type[b])),
             create_chain(b, id, k),
             IF k < Len(Chain(Type[b]))
             THEN l3_intf' = [l3_intf EXCEPT ![b] = NULL] /\ UNCHANGED if_id_to_name_map
             ELSE /\ l3_intf' = [l3_intf EXCEPT ![b] = [id |-> id, vlan_id |-> vlan]]
                  /\ if_id_to_name_map' =
                        [if_id_to_name_map EXCEPT ![id] = IF @ = NULL THEN b ELSE @]
      PROVE  IfInv'
  <2>1. /\ hw_l3' \in [L3If -> SUBSET (Complete("system") \union Complete("internal"))]
        /\ mac_once' \in {"new", "started", "done"} /\ hung' \in BOOLEAN
        /\ hfaults' \in 0..MaxFaults
        /\ \A i \in L3If \ {id} : hw_l3'[i] = hw_l3[i]
        /\ mac_once = "done" => mac_once' = "done"
        /\ k = Len(Chain(Type[b])) =>
              hw_l3'[id] = Complete(Type[b]) /\ mac_once' = "done"
    BY <1>2, ChainKeeps, Zenon
  <2>2. \A c \in Bundle : l3_intf[c] # NULL => l3_intf[c].id # id /\ l3_intf[c].id \in L3If
    <3> SUFFICES ASSUME NEW c \in Bundle, l3_intf[c] # NULL
                 PROVE  l3_intf[c].id # id /\ l3_intf[c].id \in L3If
      BY Zenon
    <3>1. Type[c] \in NetdevType \ {"loopback"}
      BY DEF IfInv, Constants
    <3>2. hw_l3[l3_intf[c].id] # {}
      BY <3>1, ChainFacts DEF IfInv, InterfaceReady
    <3> QED BY <1>2, <3>2, Zenon DEF IfInv
  <2>3. Len(Chain(Type[b])) \in Nat
    BY ChainFacts, Zenon DEF Constants
  <2>4. CASE k < Len(Chain(Type[b]))
    <3>1. l3_intf' = l3_intf /\ UNCHANGED if_id_to_name_map
      BY <1>2, <2>4, Zenon DEF IfInv
    <3>2. InterfaceReady'
      BY <2>1, <2>2, <3>1 DEF IfInv, InterfaceReady
    <3> QED BY <2>1, <3>1, <3>2, Zenon DEF IfInv
  <2>5. CASE k = Len(Chain(Type[b]))
    <3>1. PICK e : e = [id |-> id, vlan_id |-> vlan]
      BY Zenon
    <3>2. e \in [id : L3If, vlan_id : Nat] /\ e.id = id
      BY <1>2, <3>1, Zenon
    <3>3. e # NULL
      BY <3>2, Zenon DEF Constants
    <3>4. if_id_to_name_map[id] = NULL
      BY <1>2, <2>2 DEF IfInv
    <3>5. l3_intf' = [l3_intf EXCEPT ![b] = e]
          /\ if_id_to_name_map' = [if_id_to_name_map EXCEPT ![id] = b]
      <4>1. ~(k < Len(Chain(Type[b])))
        BY <2>3, <2>5
      <4>2. /\ l3_intf' = [l3_intf EXCEPT ![b] = [id |-> id, vlan_id |-> vlan]]
            /\ if_id_to_name_map' =
                  [if_id_to_name_map EXCEPT ![id] = IF @ = NULL THEN b ELSE @]
        BY <1>2, <4>1
      <4> QED BY <3>1, <3>4, <4>2, Zenon
    <3>6. /\ l3_intf' \in [Bundle -> {NULL} \union [id : L3If, vlan_id : Nat]]
          /\ l3_intf'[b] = e /\ \A c \in Bundle \ {b} : l3_intf'[c] = l3_intf[c]
          /\ if_id_to_name_map' \in [L3If -> {NULL} \union Bundle]
          /\ if_id_to_name_map'[id] = b
          /\ \A i \in L3If \ {id} : if_id_to_name_map'[i] = if_id_to_name_map[i]
      BY <1>2, <3>2, <3>5, Zenon DEF IfInv
    <3>7. InterfaceReady'
      <4> SUFFICES ASSUME NEW c \in Bundle, l3_intf'[c] # NULL
                   PROVE  /\ c \in bundles' /\ mac_once' = "done"
                          /\ hw_l3'[l3_intf'[c].id] = Complete(Type[c])
                          /\ if_id_to_name_map'[l3_intf'[c].id] = c
                          /\ \A d \in Bundle \ {c} : l3_intf'[d] # NULL =>
                                l3_intf'[d].id # l3_intf'[c].id
        BY Zenon DEF InterfaceReady
      <4>1. CASE c = b
        BY <2>1, <2>2, <2>5, <3>2, <3>6, <4>1
      <4>2. CASE c # b
        <5>1. l3_intf'[c] = l3_intf[c] /\ l3_intf[c].id # id /\ l3_intf[c].id \in L3If
          BY <2>2, <3>6, <4>2, Zenon
        <5>2. /\ c \in bundles /\ mac_once = "done"
              /\ hw_l3[l3_intf[c].id] = Complete(Type[c])
              /\ if_id_to_name_map[l3_intf[c].id] = c
              /\ \A d \in Bundle \ {c} : l3_intf[d] # NULL => l3_intf[d].id # l3_intf[c].id
          BY <5>1, Zenon DEF IfInv, InterfaceReady
        <5>3. \A d \in Bundle \ {c} : l3_intf'[d] # NULL => l3_intf'[d].id # l3_intf'[c].id
          BY <3>2, <3>6, <5>1, <5>2, Zenon
        <5>4. c \in bundles' /\ mac_once' = "done"
          BY <2>1, <5>2
        <5>5. hw_l3'[l3_intf'[c].id] = Complete(Type[c]) /\ if_id_to_name_map'[l3_intf'[c].id] = c
          BY <2>1, <3>6, <5>1, <5>2
        <5> QED BY <5>3, <5>4, <5>5, Zenon
      <4> QED BY <4>1, <4>2, Zenon
    <3>8. \A i \in L3If : if_id_to_name_map'[i] # NULL =>
            \E c \in Bundle : l3_intf'[c] # NULL /\ l3_intf'[c].id = i
      <4> SUFFICES ASSUME NEW i \in L3If, if_id_to_name_map'[i] # NULL
                   PROVE  \E c \in Bundle : l3_intf'[c] # NULL /\ l3_intf'[c].id = i
        BY Zenon
      <4>1. CASE i = id
        BY <3>2, <3>3, <3>6, <4>1
      <4>2. CASE i # id
        BY <3>6, <4>2 DEF IfInv
      <4> QED BY <4>1, <4>2
    <3>9. \A c \in Bundle : l3_intf'[c] # NULL => Type[c] # "loopback"
      BY <3>6 DEF IfInv
    <3> QED BY <2>1, <3>6, <3>7, <3>8, <3>9, Zenon DEF IfInv
  <2> QED BY <2>3, <2>4, <2>5
<1> QED BY <1>1, <1>2 DEF enable_l3_interface

\* An interface goes.
LEMMA DisableKeeps ==
    ASSUME Constants, IfInv, NEW b \in Bundle, l3_intf[b] # NULL, disable_l3_interface(b),
           bundles' \subseteq Bundle, bundles \ {b} \subseteq bundles'
    PROVE  IfInv'
<1>1. PICK id : id = l3_intf[b].id
  OBVIOUS
<1>2. id \in L3If /\ \A c \in Bundle \ {b} : l3_intf[c] # NULL => l3_intf[c].id # id
  BY <1>1 DEF IfInv, InterfaceReady
<1>3. /\ if_id_to_name_map' = [if_id_to_name_map EXCEPT ![id] = NULL]
      /\ l3_intf' = [l3_intf EXCEPT ![b] = NULL] /\ UNCHANGED <<mac_once, hung>>
      /\ \/ UNCHANGED <<hw_l3, hfaults>>
         \/ \E refused \in SUBSET {"create", "bind"} :
              /\ hw_l3' = [hw_l3 EXCEPT ![id] = IF "create" \notin refused THEN {}
                                                ELSE hw_l3[id] \ ({"bind"} \ refused)]
              /\ Refused(refused = {})
  BY <1>1, Zenon DEF disable_l3_interface
<1>4. /\ hw_l3' \in [L3If -> SUBSET (Complete("system") \union Complete("internal"))]
      /\ \A i \in L3If \ {id} : hw_l3'[i] = hw_l3[i]
      /\ hfaults' \in 0..MaxFaults
  <2>1. CASE UNCHANGED <<hw_l3, hfaults>>
    BY <2>1 DEF IfInv
  <2>2. ASSUME NEW refused \in SUBSET {"create", "bind"}, NEW S,
               S = IF "create" \notin refused THEN {} ELSE hw_l3[id] \ ({"bind"} \ refused),
               hw_l3' = [hw_l3 EXCEPT ![id] = S],
               Refused(refused = {})
        PROVE  /\ hw_l3' \in [L3If -> SUBSET (Complete("system") \union Complete("internal"))]
               /\ \A i \in L3If \ {id} : hw_l3'[i] = hw_l3[i]
               /\ hfaults' \in 0..MaxFaults
    <3>1. S \subseteq Complete("system") \union Complete("internal")
      BY <1>2, <2>2 DEF IfInv
    <3>2. hfaults' \in 0..MaxFaults
      BY <2>2 DEF IfInv, Constants, Refused
    <3> QED BY <1>2, <2>2, <3>1, <3>2, Zenon DEF IfInv
  <2> QED BY <1>3, <2>1, <2>2, Zenon
<1>5. /\ l3_intf' \in [Bundle -> {NULL} \union [id : L3If, vlan_id : Nat]]
      /\ l3_intf'[b] = NULL /\ \A c \in Bundle \ {b} : l3_intf'[c] = l3_intf[c]
      /\ if_id_to_name_map' \in [L3If -> {NULL} \union Bundle]
      /\ if_id_to_name_map'[id] = NULL
      /\ \A i \in L3If \ {id} : if_id_to_name_map'[i] = if_id_to_name_map[i]
  BY <1>2, <1>3 DEF IfInv
<1>6. InterfaceReady'
  <2> SUFFICES ASSUME NEW c \in Bundle, l3_intf'[c] # NULL
               PROVE  /\ c \in bundles' /\ mac_once' = "done"
                      /\ hw_l3'[l3_intf'[c].id] = Complete(Type[c])
                      /\ if_id_to_name_map'[l3_intf'[c].id] = c
                      /\ \A d \in Bundle \ {c} : l3_intf'[d] # NULL =>
                            l3_intf'[d].id # l3_intf'[c].id
    BY DEF InterfaceReady
  <2>1. c # b /\ l3_intf'[c] = l3_intf[c] /\ l3_intf[c].id # id
    BY <1>2, <1>5, Zenon
  <2>2. /\ c \in bundles /\ mac_once = "done" /\ l3_intf[c].id \in L3If
        /\ hw_l3[l3_intf[c].id] = Complete(Type[c])
        /\ if_id_to_name_map[l3_intf[c].id] = c
        /\ \A d \in Bundle \ {c} : l3_intf[d] # NULL => l3_intf[d].id # l3_intf[c].id
    BY <2>1, Zenon DEF IfInv, InterfaceReady
  <2>3. \A d \in Bundle \ {c} : l3_intf'[d] # NULL => l3_intf'[d].id # l3_intf'[c].id
    BY <1>5, <2>1, <2>2, Zenon
  <2> QED BY <1>3, <1>4, <1>5, <2>1, <2>2, <2>3, Zenon
<1>7. \A i \in L3If : if_id_to_name_map'[i] # NULL =>
        \E c \in Bundle : l3_intf'[c] # NULL /\ l3_intf'[c].id = i
  <2> SUFFICES ASSUME NEW i \in L3If, if_id_to_name_map'[i] # NULL
               PROVE  \E c \in Bundle : l3_intf'[c] # NULL /\ l3_intf'[c].id = i
    OBVIOUS
  <2>1. i # id /\ if_id_to_name_map[i] # NULL
    BY <1>5
  <2>2. PICK c \in Bundle : l3_intf[c] # NULL /\ l3_intf[c].id = i
    BY <2>1 DEF IfInv
  <2>3. c # b
    BY <1>1, <2>1, <2>2
  <2> QED BY <1>5, <2>2, <2>3
<1> QED BY <1>3, <1>4, <1>5, <1>6, <1>7 DEF IfInv

\* The interfaces and the count of refusals are left alone.
LEMMA IfFrame ==
    ASSUME IfInv, UNCHANGED <<l3_intf, hw_l3, if_id_to_name_map, mac_once, hung>>,
           hfaults' \in 0..MaxFaults, bundles' \subseteq Bundle, bundles \subseteq bundles'
    PROVE  IfInv'
BY Zenon DEF IfInv, InterfaceReady
-----------------------------------------------------------------------------
(* Work *)

\* The parts of a slot, by its kind.
LEMMA SlotFacts ==
    ASSUME NEW s \in Slot
    PROVE  /\ s[1] \in Bundle /\ s[2] \in Kind \union {"neighbour"}
           /\ s[2] \in Primary => s = <<s[1], s[2], NULL>>
           /\ s[2] \in {"secondary4", "secondary6", "neighbour"} =>
                 s = <<s[1], s[2], s[3]>> /\ s[3] \in Address
           /\ s[2] = "secondary4" => s[3] \in Address4
           /\ s[2] = "secondary6" => s[3] \in Address6
           /\ s[2] = "neighbour" => s[3] \in Neighbour
BY DEF Slot, Kind, Primary, Address

\* The slots of a bundle.
LEMMA SlotMembers ==
    ASSUME NEW b \in Bundle
    PROVE  /\ <<b, "ip4", NULL>> \in Slot /\ <<b, "ip6", NULL>> \in Slot
           /\ \A a \in Address4 : <<b, "secondary4", a>> \in Slot
           /\ \A a \in Address6 : <<b, "secondary6", a>> \in Slot
           /\ \A a \in Neighbour : <<b, "neighbour", a>> \in Slot
BY DEF Slot

\* The parts of a piece of work, by its operation.
LEMMA ItemFacts ==
    ASSUME NEW i \in Item
    PROVE  /\ i.op \in {"add", "delete", "lost"} /\ i.stage \in Nat /\ i.slot \in Slot
           /\ i.op = "add" => i.address \in Address
           /\ i.op = "delete" => i.drop \in BOOLEAN
BY DEF Item
-----------------------------------------------------------------------------
(* The work of a call *)

\* Work on different slots can be put together.
LEMMA SoundUnion ==
    ASSUME NEW V, NEW W, Sound(V), Sound(W), \A i \in V, j \in W : i.slot # j.slot
    PROVE  Sound(V \union W)
<1>1. /\ V \union W \subseteq Item
      /\ \A i \in V \union W : i.op # "add" => owner[i.slot] # NULL
      /\ \A i \in V \union W : i.op = "add" => i.slot[2] \in Kind /\ MayHave(i.slot, i.address)
  BY DEF Sound
<1>2. /\ \A i, j \in V \union W : i.slot = j.slot /\ (i.op = "add" <=> j.op = "add") => i = j
      /\ \A i, j \in V \union W : i.slot = j.slot /\ i.op = "add" /\ j.op # "add" =>
            j.op = "delete" /\ ~j.drop /\ j.stage < i.stage
  BY DEF Sound
<1>3. \A i \in V \union W : i.op = "add" /\ Owns(i.slot) =>
         \E j \in V \union W : j.op # "add" /\ j.slot = i.slot
  BY DEF Sound
<1>4. \A j \in V \union W : j.op = "delete" /\ ~j.drop =>
         \E i \in V \union W : i.op = "add" /\ i.slot = j.slot
  BY DEF Sound
<1> QED BY <1>1, <1>2, <1>3, <1>4, Zenon DEF Sound

\* No work is sound work.
LEMMA SoundEmpty == Sound({})
BY DEF Sound

\* The pieces themselves.
LEMMA AddPiece ==
    ASSUME NEW n \in Nat, NEW s \in Slot, NEW a \in Address
    PROVE  /\ Add(n, s, a) \in Item /\ Add(n, s, a).op = "add" /\ Add(n, s, a).slot = s
           /\ Add(n, s, a).address = a /\ Add(n, s, a).stage = n
BY DEF Add, Item

\* A deletion as a piece of work.
LEMMA DeletePiece ==
    ASSUME NEW n \in Nat, NEW s \in Slot, NEW drop \in BOOLEAN
    PROVE  /\ Delete(n, s, drop) \in Item /\ Delete(n, s, drop).op = "delete"
           /\ Delete(n, s, drop).slot = s /\ (Delete(n, s, drop).drop <=> drop)
           /\ Delete(n, s, drop).stage = n
BY Zenon DEF Delete, Item

\* The work on a primary address comes to the address that was asked for.
LEMMA PrimaryFacts ==
    ASSUME Constants, NEW n \in Nat, NEW b \in Bundle, NEW kind \in Primary,
           NEW a \in {NULL} \union Address, NEW s \in Slot, s = <<b, kind, NULL>>,
           a # NULL => MayHave(s, a)
    PROVE  /\ Sound(PrimaryWork(n, b, kind, a))
           /\ \A i \in PrimaryWork(n, b, kind, a) : i.slot = s
           /\ \A x \in Address : Holds(PrimaryWork(n, b, kind, a), s, x) <=> x = a
<1>1. s[2] \in Kind /\ s[2] = kind
  BY DEF Kind, Primary
<1>2. NULL \notin Address
  BY DEF Constants
<1>3. CASE a # NULL /\ owner[s] = NULL
  <2>1. PrimaryWork(n, b, kind, a) = {Add(n + 1, s, a)}
    BY <1>3 DEF PrimaryWork
  <2>2. PICK i : i = Add(n + 1, s, a)
    OBVIOUS
  <2>3. i \in Item /\ i.op = "add" /\ i.slot = s /\ i.address = a
    <3>1. a \in Address /\ n + 1 \in Nat
      BY <1>3
    <3>2. /\ Add(n + 1, s, a) \in Item /\ Add(n + 1, s, a).op = "add"
          /\ Add(n + 1, s, a).slot = s /\ Add(n + 1, s, a).address = a
          /\ Add(n + 1, s, a).stage = n + 1
      BY <3>1, AddPiece
    <3> QED BY <2>2, <3>2, Zenon
  <2> QED BY <1>1, <1>3, <2>1, <2>2, <2>3, Zenon DEF Sound, Holds, Owns
<1>4. CASE a # NULL /\ owner[s] # NULL /\ owner[s].address = a
  <2>1. PrimaryWork(n, b, kind, a) = {}
    BY <1>4 DEF PrimaryWork
  <2> QED BY <1>4, <2>1, Zenon DEF Sound, Holds
<1>5. CASE a # NULL /\ owner[s] # NULL /\ owner[s].address # a
  <2>1. PrimaryWork(n, b, kind, a) = {Delete(n, s, FALSE), Add(n + 1, s, a)}
    BY <1>5 DEF PrimaryWork
  <2>2. PICK i, j : i = Add(n + 1, s, a) /\ j = Delete(n, s, FALSE)
    BY Zenon
  <2>3. i \in Item /\ i.op = "add" /\ i.slot = s /\ i.address = a /\ i.stage = n + 1
    <3>1. a \in Address /\ n + 1 \in Nat
      BY <1>5
    <3>2. /\ Add(n + 1, s, a) \in Item /\ Add(n + 1, s, a).op = "add"
          /\ Add(n + 1, s, a).slot = s /\ Add(n + 1, s, a).address = a
          /\ Add(n + 1, s, a).stage = n + 1
      BY <3>1, AddPiece
    <3> QED BY <2>2, <3>2
  <2>4. j \in Item /\ j.op = "delete" /\ j.slot = s /\ ~j.drop /\ j.stage = n
    BY <2>2 DEF Delete, Item
  <2>5. Sound({j, i})
    <3>1. \A k \in {j, i} : k.op # "add" => k = j
      BY <2>3, <2>4
    <3>2. \A k \in {j, i} : k.op = "add" => k = i
      BY <2>3, <2>4
    <3>3. n < n + 1
      OBVIOUS
    <3> QED BY <1>1, <1>5, <2>3, <2>4, <3>1, <3>2, <3>3 DEF Sound
  <2>6. \A x \in Address : Holds({j, i}, s, x) <=> x = a
    BY <2>3, <2>4 DEF Holds
  <2> QED BY <2>1, <2>2, <2>3, <2>4, <2>5, <2>6, Zenon
<1>6. CASE a = NULL /\ owner[s] # NULL
  <2>1. PrimaryWork(n, b, kind, a) = {Delete(n, s, TRUE)}
    BY <1>6 DEF PrimaryWork
  <2>2. PICK j : j = Delete(n, s, TRUE)
    BY Zenon
  <2>3. j \in Item /\ j.op = "delete" /\ j.slot = s /\ j.drop
    BY <2>2, Zenon DEF Delete, Item
  <2> QED BY <1>2, <1>6, <2>1, <2>2, <2>3, Zenon DEF Sound, Holds
<1>7. CASE a = NULL /\ owner[s] = NULL
  <2>1. PrimaryWork(n, b, kind, a) = {}
    BY <1>7 DEF PrimaryWork
  <2> QED BY <1>2, <1>7, <2>1, Zenon DEF Sound, Holds
<1> QED BY <1>3, <1>4, <1>5, <1>6, <1>7, Zenon

\* The work on secondary addresses comes to the set that was asked for.
LEMMA SecondaryFacts ==
    ASSUME Constants, SlotsInv, NEW n \in Nat, NEW b \in Bundle,
           NEW kind \in {"secondary4", "secondary6"}, NEW as \in SUBSET Address,
           \A s \in SlotsOf(b, kind) : s[3] \in as => MayHave(s, s[3])
    PROVE  /\ Sound(SecondaryWork(n, b, kind, as))
           /\ \A i \in SecondaryWork(n, b, kind, as) : i.slot \in SlotsOf(b, kind)
           /\ \A s \in SlotsOf(b, kind) : \A x \in Address :
                 Holds(SecondaryWork(n, b, kind, as), s, x) <=> s[3] = x /\ x \in as
<1>1. PICK W : W = SecondaryWork(n, b, kind, as)
  BY Zenon
<1>2. \A s \in SlotsOf(b, kind) :
         s \in Slot /\ s[2] = kind /\ s[2] \in Kind /\ s[3] \in Address
  BY SlotFacts DEF SlotsOf, Kind
<1>3. \A i \in W :
         \E s \in SlotsOf(b, kind) :
            \/ owner[s] # NULL /\ s[3] \notin as /\ i = Delete(n, s, TRUE)
            \/ owner[s] = NULL /\ s[3] \in as /\ i = Add(n + 1, s, s[3])
  BY <1>1, Zenon DEF SecondaryWork
<1>4. \A i \in W :
         /\ i \in Item /\ i.slot \in SlotsOf(b, kind)
         /\ \/ /\ i.op = "delete" /\ i.drop /\ owner[i.slot] # NULL /\ i.slot[3] \notin as
               /\ i = Delete(n, i.slot, TRUE)
            \/ /\ i.op = "add" /\ owner[i.slot] = NULL /\ i.slot[3] \in as
               /\ i.address = i.slot[3] /\ i = Add(n + 1, i.slot, i.slot[3])
  <2> TAKE i \in W
  <2>1. PICK s \in SlotsOf(b, kind) :
           \/ owner[s] # NULL /\ s[3] \notin as /\ i = Delete(n, s, TRUE)
           \/ owner[s] = NULL /\ s[3] \in as /\ i = Add(n + 1, s, s[3])
    BY <1>3, Zenon
  <2>2. s \in Slot /\ s[3] \in Address /\ n + 1 \in Nat /\ TRUE \in BOOLEAN
    BY <1>2
  <2>3. CASE owner[s] # NULL /\ s[3] \notin as /\ i = Delete(n, s, TRUE)
    <3>1. /\ Delete(n, s, TRUE) \in Item /\ Delete(n, s, TRUE).op = "delete"
          /\ Delete(n, s, TRUE).slot = s /\ Delete(n, s, TRUE).drop
      BY <2>2 DEF Delete, Item
    <3>2. i \in Item /\ i.op = "delete" /\ i.slot = s /\ i.drop
      BY <2>3, <3>1, Zenon
    <3> QED BY <2>3, <3>2, Zenon
  <2>4. CASE owner[s] = NULL /\ s[3] \in as /\ i = Add(n + 1, s, s[3])
    <3>1. /\ Add(n + 1, s, s[3]) \in Item /\ Add(n + 1, s, s[3]).op = "add"
          /\ Add(n + 1, s, s[3]).slot = s /\ Add(n + 1, s, s[3]).address = s[3]
      BY <2>2, AddPiece
    <3>2. i \in Item /\ i.op = "add" /\ i.slot = s /\ i.address = s[3]
      BY <2>4, <3>1
    <3> QED BY <2>4, <3>2, Zenon
  <2> QED BY <2>1, <2>3, <2>4, Zenon
<1>5. Sound(W)
  <2>1. /\ W \subseteq Item
        /\ \A i \in W : i.op # "add" => owner[i.slot] # NULL
        /\ \A i \in W : i.op = "add" => i.slot[2] \in Kind /\ MayHave(i.slot, i.address)
    BY <1>2, <1>4, Zenon
  <2>2. \A i, j \in W : i.slot = j.slot /\ (i.op = "add" <=> j.op = "add") => i = j
    BY <1>4, Zenon
  <2>3. \A i, j \in W : i.slot = j.slot /\ i.op = "add" => j.op = "add"
    BY <1>4, Zenon
  <2>4. \A i \in W : i.op = "add" => ~Owns(i.slot)
    BY <1>4, Zenon DEF Owns
  <2>5. \A i \in W : i.op = "delete" => i.drop
    BY <1>4, Zenon
  <2> QED BY <2>1, <2>2, <2>3, <2>4, <2>5 DEF Sound
<1>6. ASSUME NEW s \in SlotsOf(b, kind), NEW x \in Address
      PROVE  Holds(W, s, x) <=> s[3] = x /\ x \in as
  <2>1. owner[s] # NULL => owner[s].address = s[3]
    BY <1>2 DEF SlotsInv, MayHave
  <2>2. CASE owner[s] = NULL /\ s[3] \in as
    <3>1. Add(n + 1, s, s[3]) \in W
      BY <1>1, <2>2, Zenon DEF SecondaryWork
    <3>2. Add(n + 1, s, s[3]).op = "add" /\ Add(n + 1, s, s[3]).slot = s
          /\ Add(n + 1, s, s[3]).address = s[3]
      BY <1>2, AddPiece
    <3>3. \A i \in W : i.op = "add" /\ i.slot = s => i.address = s[3]
      BY <1>4, Zenon
    <3> QED BY <2>2, <3>1, <3>2, <3>3, Zenon DEF Holds
  <2>3. CASE owner[s] # NULL /\ s[3] \notin as
    <3>1. Delete(n, s, TRUE) \in W
      BY <1>1, <2>3, Zenon DEF SecondaryWork
    <3>2. Delete(n, s, TRUE).slot = s
      BY <1>2, DeletePiece, Zenon
    <3>3. \A i \in W : i.slot = s => i.op # "add"
      BY <1>4, <2>3, Zenon
    <3> QED BY <2>3, <3>1, <3>2, <3>3, Zenon DEF Holds
  <2>4. CASE (owner[s] = NULL /\ s[3] \notin as) \/ (owner[s] # NULL /\ s[3] \in as)
    <3>1. \A i \in W : i.slot # s
      BY <1>4, <2>4, Zenon
    <3> QED BY <2>1, <2>4, <3>1, Zenon DEF Holds
  <2> QED BY <2>2, <2>3, <2>4, Zenon
<1> QED BY <1>1, <1>4, <1>5, <1>6, Zenon
-----------------------------------------------------------------------------
(* The work of a bundle *)

\* Only the pieces of work for a slot count for it.
LEMMA HoldsPart ==
    ASSUME NEW V, NEW W, V \subseteq W, NEW t, \A i \in W : i.slot = t => i \in V, NEW a
    PROVE  Holds(W, t, a) <=> Holds(V, t, a)
BY DEF Holds

\* What port_ip_reconfigure is asked for, kind by kind.
LEMMA AskedAfter ==
    ASSUME Constants, AskedInv, NEW b \in Bundle, NEW st \in Setting,
           l3_asked' = [l3_asked EXCEPT ![b] =
                          [k \in Kind |-> IF k \in st.ip_change THEN st[k] ELSE @[k]]]
    PROVE  /\ AskedTyped'
           /\ \A c \in Bundle \ {b} : l3_asked'[c] = l3_asked[c]
           /\ l3_asked'[b]["ip4"] = IF "ip4" \in st.ip_change THEN st.ip4
                                    ELSE l3_asked[b]["ip4"]
           /\ l3_asked'[b]["ip6"] = IF "ip6" \in st.ip_change THEN st.ip6
                                    ELSE l3_asked[b]["ip6"]
           /\ l3_asked'[b]["secondary4"] = IF "secondary4" \in st.ip_change THEN st.secondary4
                                           ELSE l3_asked[b]["secondary4"]
           /\ l3_asked'[b]["secondary6"] = IF "secondary6" \in st.ip_change THEN st.secondary6
                                           ELSE l3_asked[b]["secondary6"]
<1>1. PICK f : f = [k \in Kind |-> IF k \in st.ip_change THEN st[k] ELSE l3_asked[b][k]]
  BY Zenon
<1>2. l3_asked' = [l3_asked EXCEPT ![b] = f]
  BY <1>1
<1>3. /\ f["ip4"] = IF "ip4" \in st.ip_change THEN st.ip4 ELSE l3_asked[b]["ip4"]
      /\ f["ip6"] = IF "ip6" \in st.ip_change THEN st.ip6 ELSE l3_asked[b]["ip6"]
      /\ f["secondary4"] = IF "secondary4" \in st.ip_change THEN st.secondary4
                           ELSE l3_asked[b]["secondary4"]
      /\ f["secondary6"] = IF "secondary6" \in st.ip_change THEN st.secondary6
                           ELSE l3_asked[b]["secondary6"]
  BY <1>1 DEF Kind
<1>4. st.ip4 \in {NULL} \union Address /\ st.ip6 \in {NULL} \union Address
      /\ st.secondary4 \in SUBSET Address /\ st.secondary6 \in SUBSET Address
  BY DEF Setting, Address
<1>5. \A k \in Kind : f[k] \in {NULL} \union Address \union SUBSET Address
  <2>1. \A k \in Kind : l3_asked[b][k] \in {NULL} \union Address \union SUBSET Address
    BY DEF AskedInv, AskedTyped
  <2> QED BY <1>3, <1>4, <2>1 DEF Kind
<1>6. f \in [Kind -> {NULL} \union Address \union SUBSET Address]
  BY <1>1, <1>5
<1> QED BY <1>2, <1>3, <1>6 DEF AskedInv, AskedTyped

\* port_ip_reconfigure: its work can be done, and comes to what it is asked for.
LEMMA ReconfigureWork ==
    ASSUME Constants, SlotsInv, AskedInv, Left = {}, NEW b \in Bundle, NEW st \in Settings[b],
           reconfigure(b, st), UNCHANGED owner
    PROVE  Sound(work)' /\ Left' = work' /\ AskedInv'
<1>1. st \in Setting
  BY DEF Constants
<1>2. PICK V4, V6, S4, S6 :
        /\ V4 = IF "ip4" \in st.ip_change THEN PrimaryWork(1, b, "ip4", st.ip4) ELSE {}
        /\ V6 = IF "ip6" \in st.ip_change THEN PrimaryWork(3, b, "ip6", st.ip6) ELSE {}
        /\ S4 = IF "secondary4" \in st.ip_change
                THEN SecondaryWork(5, b, "secondary4", st.secondary4) ELSE {}
        /\ S6 = IF "secondary6" \in st.ip_change
                THEN SecondaryWork(7, b, "secondary6", st.secondary6) ELSE {}
  BY Zenon
<1>3. work' = V4 \union V6 \union S4 \union S6
  BY <1>2 DEF reconfigure, port_ip_reconfigure
<1>4. /\ Sound(V4) /\ \A i \in V4 : i.slot[1] = b /\ i.slot[2] = "ip4"
      /\ "ip4" \in st.ip_change => \A t \in Slot : t[1] = b /\ t[2] = "ip4" =>
            \A x \in Address : Holds(V4, t, x) <=> x = st.ip4
  <2>1. CASE "ip4" \notin st.ip_change
    BY <1>2, <2>1, SoundEmpty
  <2>2. CASE "ip4" \in st.ip_change
    <3>1. PICK s \in Slot : s = <<b, "ip4", NULL>>
      BY SlotMembers, Zenon
    <3>2. st.ip4 \in {NULL} \union Address /\ 1 \in Nat /\ "ip4" \in Primary
      BY <1>1 DEF Setting, Address, Primary
    <3>3. st.ip4 # NULL => MayHave(s, st.ip4)
      BY <2>2, <3>1 DEF MayHave
    <3>4. /\ Sound(PrimaryWork(1, b, "ip4", st.ip4))
          /\ \A i \in PrimaryWork(1, b, "ip4", st.ip4) : i.slot = s
          /\ \A x \in Address : Holds(PrimaryWork(1, b, "ip4", st.ip4), s, x) <=> x = st.ip4
      BY <3>1, <3>2, <3>3, PrimaryFacts
    <3>5. \A t \in Slot : t[1] = b /\ t[2] = "ip4" => t = s
      BY <3>1, <3>2, SlotFacts
    <3>6. s[1] = b /\ s[2] = "ip4"
      BY <3>1
    <3> QED BY <1>2, <2>2, <3>4, <3>5, <3>6
  <2> QED BY <2>1, <2>2
<1>5. /\ Sound(V6) /\ \A i \in V6 : i.slot[1] = b /\ i.slot[2] = "ip6"
      /\ "ip6" \in st.ip_change => \A t \in Slot : t[1] = b /\ t[2] = "ip6" =>
            \A x \in Address : Holds(V6, t, x) <=> x = st.ip6
  <2>1. CASE "ip6" \notin st.ip_change
    BY <1>2, <2>1, SoundEmpty
  <2>2. CASE "ip6" \in st.ip_change
    <3>1. PICK s \in Slot : s = <<b, "ip6", NULL>>
      BY SlotMembers, Zenon
    <3>2. st.ip6 \in {NULL} \union Address /\ 3 \in Nat /\ "ip6" \in Primary
      BY <1>1 DEF Setting, Address, Primary
    <3>3. st.ip6 # NULL => MayHave(s, st.ip6)
      BY <2>2, <3>1 DEF MayHave
    <3>4. /\ Sound(PrimaryWork(3, b, "ip6", st.ip6))
          /\ \A i \in PrimaryWork(3, b, "ip6", st.ip6) : i.slot = s
          /\ \A x \in Address : Holds(PrimaryWork(3, b, "ip6", st.ip6), s, x) <=> x = st.ip6
      BY <3>1, <3>2, <3>3, PrimaryFacts
    <3>5. \A t \in Slot : t[1] = b /\ t[2] = "ip6" => t = s
      BY <3>1, <3>2, SlotFacts
    <3>6. s[1] = b /\ s[2] = "ip6"
      BY <3>1
    <3> QED BY <1>2, <2>2, <3>4, <3>5, <3>6
  <2> QED BY <2>1, <2>2
<1>6. /\ Sound(S4) /\ \A i \in S4 : i.slot[1] = b /\ i.slot[2] = "secondary4"
      /\ "secondary4" \in st.ip_change => \A t \in Slot : t[1] = b /\ t[2] = "secondary4" =>
            \A x \in Address : Holds(S4, t, x) <=> t[3] = x /\ x \in st.secondary4
  <2>1. CASE "secondary4" \notin st.ip_change
    BY <1>2, <2>1, SoundEmpty
  <2>2. CASE "secondary4" \in st.ip_change
    <3>1. st.secondary4 \in SUBSET Address /\ 5 \in Nat
      BY <1>1 DEF Setting, Address
    <3>2. \A s \in SlotsOf(b, "secondary4") : s[3] \in st.secondary4 => MayHave(s, s[3])
      BY <2>2 DEF SlotsOf, MayHave
    <3>3. /\ Sound(SecondaryWork(5, b, "secondary4", st.secondary4))
          /\ \A i \in SecondaryWork(5, b, "secondary4", st.secondary4) :
                i.slot \in SlotsOf(b, "secondary4")
          /\ \A s \in SlotsOf(b, "secondary4") : \A x \in Address :
                Holds(SecondaryWork(5, b, "secondary4", st.secondary4), s, x)
                   <=> s[3] = x /\ x \in st.secondary4
      BY <3>1, <3>2, SecondaryFacts
    <3> QED BY <1>2, <2>2, <3>3 DEF SlotsOf
  <2> QED BY <2>1, <2>2
<1>7. /\ Sound(S6) /\ \A i \in S6 : i.slot[1] = b /\ i.slot[2] = "secondary6"
      /\ "secondary6" \in st.ip_change => \A t \in Slot : t[1] = b /\ t[2] = "secondary6" =>
            \A x \in Address : Holds(S6, t, x) <=> t[3] = x /\ x \in st.secondary6
  <2>1. CASE "secondary6" \notin st.ip_change
    BY <1>2, <2>1, SoundEmpty
  <2>2. CASE "secondary6" \in st.ip_change
    <3>1. st.secondary6 \in SUBSET Address /\ 7 \in Nat
      BY <1>1 DEF Setting, Address
    <3>2. \A s \in SlotsOf(b, "secondary6") : s[3] \in st.secondary6 => MayHave(s, s[3])
      BY <2>2 DEF SlotsOf, MayHave
    <3>3. /\ Sound(SecondaryWork(7, b, "secondary6", st.secondary6))
          /\ \A i \in SecondaryWork(7, b, "secondary6", st.secondary6) :
                i.slot \in SlotsOf(b, "secondary6")
          /\ \A s \in SlotsOf(b, "secondary6") : \A x \in Address :
                Holds(SecondaryWork(7, b, "secondary6", st.secondary6), s, x)
                   <=> s[3] = x /\ x \in st.secondary6
      BY <3>1, <3>2, SecondaryFacts
    <3> QED BY <1>2, <2>2, <3>3 DEF SlotsOf
  <2> QED BY <2>1, <2>2
<1>8. Sound(V4 \union V6 \union S4 \union S6)
  <2>1. Sound(V4 \union V6)
    BY <1>4, <1>5, SoundUnion, Zenon
  <2>2. Sound(V4 \union V6 \union S4)
    BY <2>1, <1>4, <1>5, <1>6, SoundUnion
  <2> QED BY <2>2, <1>4, <1>5, <1>6, <1>7, SoundUnion
<1>9. Sound(work)'
  BY <1>3, <1>8 DEF Sound, MayHave, Owns
<1>10. Left' = work'
  BY <1>9, ItemFacts DEF Left, Sound
<1>11. AskedInv'
  <2>1. /\ AskedTyped'
        /\ \A c \in Bundle \ {b} : l3_asked'[c] = l3_asked[c]
        /\ l3_asked'[b]["ip4"] = IF "ip4" \in st.ip_change THEN st.ip4
                                 ELSE l3_asked[b]["ip4"]
        /\ l3_asked'[b]["ip6"] = IF "ip6" \in st.ip_change THEN st.ip6
                                 ELSE l3_asked[b]["ip6"]
        /\ l3_asked'[b]["secondary4"] = IF "secondary4" \in st.ip_change THEN st.secondary4
                                        ELSE l3_asked[b]["secondary4"]
        /\ l3_asked'[b]["secondary6"] = IF "secondary6" \in st.ip_change THEN st.secondary6
                                        ELSE l3_asked[b]["secondary6"]
    BY <1>1, AskedAfter, Zenon DEF reconfigure
  <2>2. \A c \in Bundle : /\ l3_asked'[c]["ip4"] \in {NULL} \union Address4
                          /\ l3_asked'[c]["ip6"] \in {NULL} \union Address6
                          /\ l3_asked'[c]["secondary4"] \subseteq Address4
                          /\ l3_asked'[c]["secondary6"] \subseteq Address6
    BY <1>1, <2>1, Zenon DEF AskedInv, Setting
  <2>3. ASSUME NEW t \in Slot, t[2] \in Kind, NEW a \in Address
        PROVE  Holds(work', t, a) <=> AskedFor(t, a)'
    <3>1. Holds({}, t, a) <=> AskedFor(t, a)
      BY <2>3, Zenon DEF AskedInv
    <3>2. t[1] \in Bundle
      BY SlotFacts
    <3>3. CASE t[1] # b
      <4>1. Holds(work', t, a) <=> Holds({}, t, a)
        <5>1. \A i \in work' : i.slot # t
          BY <3>3, <1>3, <1>4, <1>5, <1>6, <1>7
        <5> QED BY <5>1, HoldsPart
      <4>2. AskedFor(t, a)' <=> AskedFor(t, a)
        BY <3>2, <3>3, <2>1 DEF AskedFor
      <4> QED BY <3>1, <4>1, <4>2
    <3>4. CASE t[1] = b /\ t[2] = "ip4"
      <4>1. Holds(work', t, a) <=> Holds(V4, t, a)
        <5>1. \A i \in work' : i.slot = t => i \in V4
          BY <3>4, <1>3, <1>4, <1>5, <1>6, <1>7, Zenon
        <5>2. V4 \subseteq work'
          BY <1>3
        <5> QED BY <5>1, <5>2, HoldsPart
      <4>2. CASE "ip4" \in st.ip_change
        BY <1>4, <2>1, <3>4, <4>1, <4>2 DEF AskedFor, Primary
      <4>3. CASE "ip4" \notin st.ip_change
        BY <1>2, <2>1, <3>1, <3>4, <4>1, <4>3, Zenon DEF AskedFor, Primary
      <4> QED BY <4>2, <4>3
    <3>5. CASE t[1] = b /\ t[2] = "ip6"
      <4>1. Holds(work', t, a) <=> Holds(V6, t, a)
        <5>1. \A i \in work' : i.slot = t => i \in V6
          BY <3>5, <1>3, <1>4, <1>5, <1>6, <1>7, Zenon
        <5>2. V6 \subseteq work'
          BY <1>3
        <5> QED BY <5>1, <5>2, HoldsPart
      <4>2. CASE "ip6" \in st.ip_change
        BY <1>5, <2>1, <3>5, <4>1, <4>2 DEF AskedFor, Primary
      <4>3. CASE "ip6" \notin st.ip_change
        BY <1>2, <2>1, <3>1, <3>5, <4>1, <4>3, Zenon DEF AskedFor, Primary
      <4> QED BY <4>2, <4>3, Zenon
    <3>6. CASE t[1] = b /\ t[2] = "secondary4"
      <4>1. Holds(work', t, a) <=> Holds(S4, t, a)
        <5>1. \A i \in work' : i.slot = t => i \in S4
          BY <3>6, <1>3, <1>4, <1>5, <1>6, <1>7
        <5>2. S4 \subseteq work'
          BY <1>3
        <5> QED BY <5>1, <5>2, HoldsPart
      <4>2. CASE "secondary4" \in st.ip_change
        BY <1>6, <2>1, <3>6, <4>1, <4>2 DEF AskedFor, Primary
      <4>3. CASE "secondary4" \notin st.ip_change
        BY <1>2, <2>1, <3>1, <3>6, <4>1, <4>3 DEF AskedFor, Primary
      <4> QED BY <4>2, <4>3, Zenon
    <3>7. CASE t[1] = b /\ t[2] = "secondary6"
      <4>1. Holds(work', t, a) <=> Holds(S6, t, a)
        <5>1. \A i \in work' : i.slot = t => i \in S6
          BY <3>7, <1>3, <1>4, <1>5, <1>6, <1>7
        <5>2. S6 \subseteq work'
          BY <1>3
        <5> QED BY <5>1, <5>2, HoldsPart
      <4>2. CASE "secondary6" \in st.ip_change
        BY <1>7, <2>1, <3>7, <4>1, <4>2 DEF AskedFor, Primary
      <4>3. CASE "secondary6" \notin st.ip_change
        BY <1>2, <2>1, <3>1, <3>7, <4>1, <4>3, Zenon DEF AskedFor, Primary
      <4> QED BY <4>2, <4>3
    <3> QED BY <2>3, <3>3, <3>4, <3>5, <3>6, <3>7, Zenon DEF Kind
  <2>4. \A t \in Slot : \A a \in Address : Holds(work, t, a)' <=> Holds(work', t, a)
    BY Zenon DEF Holds
  <2> QED BY <1>10, <2>1, <2>2, <2>3, <2>4, Zenon DEF AskedInv
<1> QED BY <1>9, <1>10, <1>11

\* port_unconfigure_ips: its work can be done, and leaves no address.
LEMMA UnconfigureWork ==
    ASSUME Constants, SlotsInv, AskedInv, Left = {}, NEW b \in Bundle,
           work' = port_unconfigure_ips(b), UNCHANGED owner,
           l3_asked' = [l3_asked EXCEPT ![b] = [k \in Kind |-> NoAddress(k)]]
    PROVE  Sound(work)' /\ Left' = work' /\ AskedInv'
<1>1. PICK W : W = work'
  OBVIOUS
<1>2. ASSUME NEW i \in W
      PROVE  /\ i \in Item /\ i.op # "add" /\ i.slot \in Slot /\ owner[i.slot] # NULL
             /\ i.slot[1] = b /\ i.slot[2] \in Kind
             /\ i.op = "delete" => i.drop
             /\ \/ i = Delete(1, i.slot, TRUE) /\ i.slot[2] = "ip4"
                \/ i = Delete(2, i.slot, TRUE) /\ i.slot[2] = "secondary4"
                \/ i = Delete(3, i.slot, TRUE) /\ i.slot[2] = "ip6"
                \/ /\ i.slot[2] = "secondary6"
                   /\ \E p : i = [op |-> "lost", stage |-> 4, slot |-> i.slot, primary |-> p]
  <2>1. CASE \E n \in {1, 2, 3}, s \in Slot : i = Delete(n, s, TRUE) /\ s[1] = b /\ owner[s] # NULL
             /\ \/ n = 1 /\ s[2] = "ip4"
                \/ n = 2 /\ s[2] = "secondary4"
                \/ n = 3 /\ s[2] = "ip6"
    <3>1. PICK n \in {1, 2, 3}, s \in Slot : /\ i = Delete(n, s, TRUE) /\ s[1] = b
             /\ owner[s] # NULL
             /\ \/ n = 1 /\ s[2] = "ip4"
                \/ n = 2 /\ s[2] = "secondary4"
                \/ n = 3 /\ s[2] = "ip6"
      BY <2>1, Zenon
    <3>2. i \in Item /\ i.op = "delete" /\ i.slot = s /\ i.drop
      BY <3>1 DEF Delete, Item
    <3> QED BY <3>1, <3>2, Zenon DEF Kind
  <2>2. CASE \E s \in Slot, p \in BOOLEAN : /\ s[1] = b /\ s[2] = "secondary6" /\ owner[s] # NULL
             /\ i = [op |-> "lost", stage |-> 4, slot |-> s, primary |-> p]
    <3>1. PICK s \in Slot, p \in BOOLEAN : /\ s[1] = b /\ s[2] = "secondary6" /\ owner[s] # NULL
             /\ i = [op |-> "lost", stage |-> 4, slot |-> s, primary |-> p]
      BY <2>2
    <3>2. i \in Item /\ i.op = "lost" /\ i.slot = s
      BY <3>1 DEF Item
    <3> QED BY <3>1, <3>2, Zenon DEF Kind
  <2>3. \/ \E s \in SlotsOf(b, "ip4") : owner[s] # NULL /\ i = Delete(1, s, TRUE)
        \/ \E s \in SlotsOf(b, "secondary4") : owner[s] # NULL /\ i = Delete(2, s, TRUE)
        \/ \E s \in SlotsOf(b, "ip6") : owner[s] # NULL /\ i = Delete(3, s, TRUE)
        \/ \E s \in SlotsOf(b, "secondary6") : owner[s] # NULL
             /\ i = [op |-> "lost", stage |-> 4, slot |-> s,
                     primary |-> {u \in SlotsOf(b, "ip6") : owner[u] # NULL} # {}]
    BY <1>1, <1>2, Zenon DEF port_unconfigure_ips
  <2> QED BY <2>1, <2>2, <2>3, Zenon DEF SlotsOf
<1>3. \A i, j \in W : i.slot = j.slot => i = j
  <2> SUFFICES ASSUME NEW i \in W, NEW j \in W, i.slot = j.slot PROVE i = j
    OBVIOUS
  <2>1. CASE i.slot[2] # "secondary6"
    BY <1>2, <2>1, Zenon
  <2>2. CASE i.slot[2] = "secondary6"
    <3>1. /\ \E s \in SlotsOf(b, "secondary6") :
             i = [op |-> "lost", stage |-> 4, slot |-> s,
                  primary |-> {u \in SlotsOf(b, "ip6") : owner[u] # NULL} # {}]
          /\ \E s \in SlotsOf(b, "secondary6") :
             j = [op |-> "lost", stage |-> 4, slot |-> s,
                  primary |-> {u \in SlotsOf(b, "ip6") : owner[u] # NULL} # {}]
      <4>1. ASSUME NEW h \in W, h.slot[2] = "secondary6"
            PROVE  \E s \in SlotsOf(b, "secondary6") :
                     h = [op |-> "lost", stage |-> 4, slot |-> s,
                          primary |-> {u \in SlotsOf(b, "ip6") : owner[u] # NULL} # {}]
        <5>1. \A k \in Kind \ {"secondary6"}, n \in Nat : \A s \in SlotsOf(b, k) :
                 h # Delete(n, s, TRUE)
          BY <4>1 DEF SlotsOf, Delete
        <5>2. \/ \E s \in SlotsOf(b, "ip4") : h = Delete(1, s, TRUE)
              \/ \E s \in SlotsOf(b, "secondary4") : h = Delete(2, s, TRUE)
              \/ \E s \in SlotsOf(b, "ip6") : h = Delete(3, s, TRUE)
              \/ \E s \in SlotsOf(b, "secondary6") :
                   h = [op |-> "lost", stage |-> 4, slot |-> s,
                        primary |-> {u \in SlotsOf(b, "ip6") : owner[u] # NULL} # {}]
          BY <1>1, <4>1, Zenon DEF port_unconfigure_ips
        <5> QED BY <5>1, <5>2, Zenon DEF Kind
      <4> QED BY <2>2, <4>1
    <3> QED BY <3>1
  <2> QED BY <2>1, <2>2
<1>4. Sound(W)
  BY <1>2, <1>3, Zenon DEF Sound
<1>5. Sound(work)'
  BY <1>1, <1>4, Zenon DEF Sound, MayHave, Owns
<1>6. Left' = work'
  BY <1>5, ItemFacts, Zenon DEF Left, Sound
<1>7. \A t \in Slot : t[1] = b /\ t[2] \in Kind /\ owner[t] # NULL => \E i \in W : i.slot = t
  <2> SUFFICES ASSUME NEW t \in Slot, t[1] = b, t[2] \in Kind, owner[t] # NULL
               PROVE  \E i \in W : i.slot = t
    OBVIOUS
  <2>1. t \in SlotsOf(b, t[2])
    BY DEF SlotsOf
  <2>2. CASE t[2] # "secondary6"
    <3>1. PICK n : n \in {1, 2, 3} /\ Delete(n, t, TRUE) \in W
      BY <1>1, <2>1, <2>2, Zenon DEF port_unconfigure_ips, Kind
    <3> QED BY <3>1 DEF Delete
  <2>3. CASE t[2] = "secondary6"
    <3>1. PICK i \in W : i = [op |-> "lost", stage |-> 4, slot |-> t,
                              primary |-> {u \in SlotsOf(b, "ip6") : owner[u] # NULL} # {}]
      BY <1>1, <2>1, <2>3, Zenon DEF port_unconfigure_ips
    <3> QED BY <3>1
  <2> QED BY <2>2, <2>3
<1>8. AskedInv'
  <2>1. PICK f : f = [k \in Kind |-> NoAddress(k)]
    BY Zenon
  <2>2. /\ f["ip4"] = NULL /\ f["ip6"] = NULL /\ f["secondary4"] = {} /\ f["secondary6"] = {}
        /\ f \in [Kind -> {NULL} \union Address \union SUBSET Address]
    BY <2>1 DEF Kind, NoAddress
  <2>3. AskedTyped' /\ l3_asked'[b] = f /\ \A c \in Bundle \ {b} : l3_asked'[c] = l3_asked[c]
    BY <2>1, <2>2 DEF AskedInv, AskedTyped
  <2>4. \A c \in Bundle : /\ l3_asked'[c]["ip4"] \in {NULL} \union Address4
                          /\ l3_asked'[c]["ip6"] \in {NULL} \union Address6
                          /\ l3_asked'[c]["secondary4"] \subseteq Address4
                          /\ l3_asked'[c]["secondary6"] \subseteq Address6
    BY <2>2, <2>3 DEF AskedInv
  <2>5. ASSUME NEW t \in Slot, t[2] \in Kind, NEW a \in Address
        PROVE  Holds(W, t, a) <=> AskedFor(t, a)'
    <3>1. CASE t[1] # b
      <4>1. Holds({}, t, a) <=> AskedFor(t, a)
        BY <2>5 DEF AskedInv
      <4>2. Holds(W, t, a) <=> Holds({}, t, a)
        BY <3>1, <1>2, HoldsPart, Zenon
      <4>3. AskedFor(t, a)' <=> AskedFor(t, a)
        BY <2>3, <3>1, SlotFacts DEF AskedFor
      <4> QED BY <4>1, <4>2, <4>3
    <3>2. CASE t[1] = b
      <4>1. ~Holds(W, t, a)
        BY <1>2, <1>7, <2>5, <3>2, Zenon DEF Holds
      <4>2. ~AskedFor(t, a)'
        <5>1. CASE t[2] \in Primary
          <6>1. l3_asked'[t[1]][t[2]] = NULL
            BY <2>2, <2>3, <3>2, <5>1 DEF Primary
          <6> QED BY <5>1, <6>1 DEF AskedFor, Constants
        <5>2. CASE t[2] \notin Primary
          <6>1. l3_asked'[t[1]][t[2]] = {}
            BY <2>2, <2>3, <2>5, <3>2, <5>2 DEF Primary, Kind
          <6> QED BY <5>2, <6>1 DEF AskedFor
        <5> QED BY <5>1, <5>2
      <4> QED BY <4>1, <4>2
    <3> QED BY <3>1, <3>2
  <2>6. \A t \in Slot : \A a \in Address : Holds(work, t, a)' <=> Holds(W, t, a)
    BY <1>1 DEF Holds
  <2> QED BY <1>6, <2>3, <2>4, <2>5, <2>6 DEF AskedInv
<1> QED BY <1>5, <1>6, <1>8

\* A call that makes no pieces of work and leaves the bundles' addresses alone.
LEMMA NoWorkFrame ==
    ASSUME AskedInv, Left = {}, Left' = {}, l3_asked' = l3_asked,
           \A t \in Slot : t[2] \in Kind => owner'[t] = owner[t]
    PROVE  Sound(Left)' /\ AskedInv'
<1>1. Sound(Left)'
  BY SoundEmpty DEF Sound
<1>2. \A t \in Slot : t[2] \in Kind => \A a \in Address :
         Holds(Left, t, a)' <=> Holds(Left, t, a)
  BY DEF Holds
<1>3. AskedInv'
  BY <1>2, Zenon DEF AskedInv, AskedTyped, AskedFor
<1> QED BY <1>1, <1>3

\* Between calls, a step that leaves the addresses of bundles alone keeps what is said of them.
LEMMA AskedFrame ==
    ASSUME AskedInv, work = {}, work' = {}, l3_asked' = l3_asked,
           \A t \in Slot : t[2] \in Kind => owner'[t] = owner[t]
    PROVE  WorkInv' /\ AskedInv'
<1>1. Left = {} /\ Left' = {} /\ Left' = work'
  BY DEF Left
<1>2. Sound(Left)' /\ AskedInv'
  BY <1>1, NoWorkFrame
<1> QED BY <1>1, <1>2 DEF WorkInv
-----------------------------------------------------------------------------
(* Lists of IDs *)

OnceEach(list) == \A i, j \in DOMAIN list : list[i] = list[j] => i = j

\* An ID comes to the front of a list.
LEMMA FrontOfList ==
    ASSUME NEW list \in Seq(Nat), NEW id \in Nat, OnceEach(list), id \notin Range(list)
    PROVE  /\ <<id>> \o list \in Seq(Nat) /\ OnceEach(<<id>> \o list)
           /\ Range(<<id>> \o list) = {id} \union Range(list)
<1>0. <<id>> \in Seq(Nat) /\ Len(<<id>>) = 1 /\ <<id>>[1] = id
  OBVIOUS
<1>1. PICK s \in Seq(Nat) : s = <<id>> \o list
  <2>1. <<id>> \o list \in Seq(Nat)
    BY <1>0
  <2> QED BY <2>1, Zenon
<1>2. /\ Len(s) = 1 + Len(list) /\ s[1] = id /\ DOMAIN s = 1..(1 + Len(list))
      /\ \A i \in 1..Len(list) : s[i + 1] = list[i]
      /\ DOMAIN list = 1..Len(list) /\ Len(list) \in Nat
  BY <1>0, <1>1
<1>3. \A i \in DOMAIN s : i = 1 \/ (i - 1 \in DOMAIN list /\ s[i] = list[i - 1])
  BY <1>2
<1>4. OnceEach(s)
  <2> SUFFICES ASSUME NEW i \in DOMAIN s, NEW j \in DOMAIN s, s[i] = s[j] PROVE i = j
    BY DEF OnceEach
  <2>1. \A k \in DOMAIN list : list[k] # id
    BY DEF Range
  <2>2. CASE i = 1 \/ j = 1
    BY <2>1, <2>2, <1>2, <1>3
  <2>3. CASE i # 1 /\ j # 1
    <3>1. i - 1 \in DOMAIN list /\ j - 1 \in DOMAIN list /\ list[i - 1] = list[j - 1]
      BY <2>3, <1>3
    <3>2. i - 1 = j - 1
      BY <3>1 DEF OnceEach
    <3> QED BY <3>2, <1>2
  <2> QED BY <2>2, <2>3
<1>5. Range(s) = {id} \union Range(list)
  <2>1. \A x \in Range(s) : x = id \/ x \in Range(list)
    BY <1>2, <1>3 DEF Range
  <2>2. id \in Range(s)
    BY <1>2 DEF Range
  <2>3. ASSUME NEW i \in DOMAIN list PROVE list[i] \in Range(s)
    <3>1. i + 1 \in DOMAIN s /\ s[i + 1] = list[i]
      BY <1>2
    <3> QED BY <3>1 DEF Range
  <2> QED BY <2>1, <2>2, <2>3, Zenon DEF Range
<1> QED BY <1>1, <1>4, <1>5

\* The ID at the front of a list is taken from it.
LEMMA RestOfList ==
    ASSUME NEW list \in Seq(Nat), list # <<>>, OnceEach(list)
    PROVE  /\ Head(list) \in Nat /\ Head(list) \in Range(list)
           /\ Tail(list) \in Seq(Nat) /\ OnceEach(Tail(list))
           /\ Range(Tail(list)) = Range(list) \ {Head(list)}
<1>1. PICK s \in Seq(Nat) : s = Tail(list)
  <2>1. Tail(list) \in Seq(Nat)
    OBVIOUS
  <2> QED BY <2>1, Zenon
<1>2. PICK n \in Nat : /\ DOMAIN list = 1..(n + 1) /\ Head(list) = list[1]
                       /\ DOMAIN s = 1..n /\ \A i \in 1..n : s[i] = list[i + 1]
  <2>1. Len(list) \in Nat /\ Len(list) # 0 /\ DOMAIN list = 1..Len(list) /\ Head(list) = list[1]
    OBVIOUS
  <2>2. /\ Len(s) = Len(list) - 1 /\ DOMAIN s = 1..Len(s) /\ Len(s) \in Nat
        /\ \A i \in 1..Len(s) : s[i] = list[i + 1]
    BY <1>1
  <2>3. Len(list) = Len(s) + 1
    BY <2>1, <2>2
  <2> QED BY <2>1, <2>2, <2>3, Zenon
<1>3. Head(list) \in Nat /\ Head(list) \in Range(list)
  <2>1. 1 \in DOMAIN list /\ list[1] \in Nat
    BY <1>2
  <2> QED BY <1>2, <2>1 DEF Range
<1>4. \A i \in DOMAIN s : i \in Nat /\ i + 1 \in DOMAIN list /\ i + 1 # 1 /\ s[i] = list[i + 1]
  BY <1>2
<1>5. \A i \in DOMAIN list : i = 1 \/ (i - 1 \in DOMAIN s /\ i = (i - 1) + 1)
  BY <1>2
<1>6. OnceEach(s)
  <2> SUFFICES ASSUME NEW i \in DOMAIN s, NEW j \in DOMAIN s, s[i] = s[j] PROVE i = j
    BY DEF OnceEach
  <2>1. i \in Nat /\ j \in Nat /\ i + 1 = j + 1
    BY <1>4 DEF OnceEach
  <2> QED BY <2>1
<1>7. Range(s) = Range(list) \ {Head(list)}
  <2>1. ASSUME NEW i \in DOMAIN s PROVE s[i] \in Range(list) /\ s[i] # Head(list)
    <3>1. i + 1 \in DOMAIN list /\ s[i] = list[i + 1] /\ i + 1 # 1 /\ 1 \in DOMAIN list
      BY <1>2, <1>4
    <3> QED BY <3>1, <1>2, Zenon DEF Range, OnceEach
  <2>2. ASSUME NEW i \in DOMAIN list, list[i] # Head(list) PROVE list[i] \in Range(s)
    <3>1. i - 1 \in DOMAIN s /\ i = (i - 1) + 1
      BY <1>2, <1>5, <2>2
    <3>2. s[i - 1] = list[i]
      BY <1>4, <3>1
    <3> QED BY <3>1, <3>2 DEF Range
  <2> QED BY <2>1, <2>2 DEF Range
<1> QED BY <1>1, <1>3, <1>6, <1>7
-----------------------------------------------------------------------------
(* IDs *)

\* host_entry_alloc takes an ID no entry has, and the others stay accounted for.
LEMMA AllocFacts ==
    ASSUME EntriesTyped, IdsUnique
    PROVE  /\ AllocId \in Nat /\ AllocId \notin DOMAIN host_id_map
           /\ NextIdAfterAlloc \in Nat
           /\ AfterAlloc \in Seq(Nat) /\ OnceEach(AfterAlloc) /\ AllocId \notin Range(AfterAlloc)
           /\ Range(AfterAlloc) \intersect DOMAIN host_id_map = {}
           /\ Range(AfterAlloc) \union DOMAIN host_id_map \union {AllocId}
                 = 0..(NextIdAfterAlloc - 1)
<1>1. dummy_host_list \in Seq(Nat) /\ next_host_id \in Nat /\ OnceEach(dummy_host_list)
      /\ DOMAIN host_id_map \subseteq Nat
  BY DEF EntriesTyped, IdsUnique, OnceEach
<1>2. CASE dummy_host_list = <<>>
  <2>1. AllocId = next_host_id /\ AfterAlloc = <<>> /\ NextIdAfterAlloc = next_host_id + 1
    BY <1>2 DEF AllocId, AfterAlloc, NextIdAfterAlloc
  <2>2. Range(<<>>) = {} /\ OnceEach(<<>>) /\ <<>> \in Seq(Nat)
    BY DEF Range, OnceEach
  <2>3. DOMAIN host_id_map = 0..(next_host_id - 1)
    BY <1>2, <2>2, Zenon DEF IdsUnique
  <2> QED BY <1>1, <2>1, <2>2, <2>3
<1>3. CASE dummy_host_list # <<>>
  <2>1. /\ AllocId = Head(dummy_host_list) /\ AfterAlloc = Tail(dummy_host_list)
        /\ NextIdAfterAlloc = next_host_id
    BY <1>3 DEF AllocId, AfterAlloc, NextIdAfterAlloc
  <2>2. /\ AllocId \in Nat /\ AllocId \in Range(dummy_host_list)
        /\ AfterAlloc \in Seq(Nat) /\ OnceEach(AfterAlloc)
        /\ Range(AfterAlloc) = Range(dummy_host_list) \ {AllocId}
    BY <1>1, <1>3, <2>1, RestOfList
  <2> QED BY <1>1, <2>1, <2>2 DEF IdsUnique
<1> QED BY <1>2, <1>3

\* IDs stay accounted for when one is taken for an entry, given back or freed.
LEMMA IdsAfterAdd ==
    ASSUME EntriesTyped, IdsUnique,
           DOMAIN host_id_map' = DOMAIN host_id_map \union {AllocId},
           next_host_id' = NextIdAfterAlloc, dummy_host_list' = AfterAlloc
    PROVE  IdsUnique'
BY AllocFacts DEF IdsUnique, OnceEach

\* An addition that the hardware refuses gives its ID back.
LEMMA IdsAfterFailure ==
    ASSUME EntriesTyped, IdsUnique, add_host_entry_fails
    PROVE  IdsUnique' /\ dummy_host_list' \in Seq(Nat) /\ next_host_id' \in Nat
<1>1. /\ dummy_host_list' \in Seq(Nat) /\ OnceEach(dummy_host_list')
      /\ Range(dummy_host_list') = {AllocId} \union Range(AfterAlloc)
  BY AllocFacts, FrontOfList DEF add_host_entry_fails
<1>2. next_host_id' = NextIdAfterAlloc /\ host_id_map' = host_id_map
  BY DEF add_host_entry_fails
<1> QED BY <1>1, <1>2, AllocFacts DEF IdsUnique, OnceEach

\* A deletion gives the ID of its entry back, whatever the hardware says.
LEMMA IdsAfterDelete ==
    ASSUME EntriesTyped, IdsUnique, NEW id, NEW ok, delete_host_entry(id, ok)
    PROVE  IdsUnique' /\ dummy_host_list' \in Seq(Nat) /\ next_host_id' \in Nat
<1>1. CASE id \notin DOMAIN host_id_map
  BY <1>1 DEF delete_host_entry, IdsUnique, EntriesTyped
<1>2. CASE id \in DOMAIN host_id_map
  <2>1. /\ DOMAIN host_id_map' = DOMAIN host_id_map \ {id}
        /\ dummy_host_list' = <<id>> \o dummy_host_list /\ next_host_id' = next_host_id
    BY <1>2 DEF delete_host_entry, Restrict
  <2>2. id \in Nat /\ dummy_host_list \in Seq(Nat) /\ OnceEach(dummy_host_list)
        /\ id \notin Range(dummy_host_list)
    BY <1>2 DEF EntriesTyped, IdsUnique, OnceEach
  <2>3. /\ dummy_host_list' \in Seq(Nat) /\ OnceEach(dummy_host_list')
        /\ Range(dummy_host_list') = {id} \union Range(dummy_host_list)
    BY <2>1, <2>2, FrontOfList
  <2>4. Range(dummy_host_list') \intersect DOMAIN host_id_map' = {}
    BY <2>1, <2>3 DEF IdsUnique
  <2>5. Range(dummy_host_list') \union DOMAIN host_id_map' = 0..(next_host_id' - 1)
    BY <1>2, <2>1, <2>3 DEF IdsUnique
  <2> QED BY <2>1, <2>3, <2>4, <2>5, Zenon DEF IdsUnique, OnceEach, EntriesTyped
<1> QED BY <1>1, <1>2
-----------------------------------------------------------------------------
(* Entries *)

\* Where the hardware puts an address: where it is already, at a free index, or at one
\* whose entry moves to a free index.
Placed(address, hash, rehash) ==
    \/ hw_host[hash] = address /\ rehash = hash
    \/ /\ \A i \in Index : hw_host[i] # address
       /\ \/ hw_host[hash] = NULL /\ rehash = hash
          \/ hw_host[hash] # NULL /\ hw_host[rehash] = NULL

\* What add_host_entry does to the entries and to the table.
AddedAt(address, hash, rehash) ==
    /\ Placed(address, hash, rehash)
    /\ DOMAIN host_id_map' = DOMAIN host_id_map \union {AllocId}
    /\ host_id_map'[AllocId] \in Entry
    /\ host_id_map'[AllocId].address = address /\ host_id_map'[AllocId].index = hash
    /\ \A id \in DOMAIN host_id_map :
          /\ host_id_map'[id] \in Entry
          /\ host_id_map'[id].address = host_id_map[id].address
          /\ host_id_map'[id].index = IF host_id_map[id].index = hash THEN rehash
                                      ELSE host_id_map[id].index
    /\ hw_host' \in [Index -> Address \union {NULL}]
    /\ hw_host'[hash] = address
    /\ hash # rehash => hw_host'[rehash] = hw_host[hash]
    /\ \A i \in Index \ {hash, rehash} : hw_host'[i] = hw_host[i]

\* An addition places the entry so, at an index and a second one the hardware chooses.
LEMMA AddFacts ==
    ASSUME EntriesTyped, IdsUnique, NEW address \in Address, add_host_entry(address)
    PROVE  \E hash, rehash \in Index : AddedAt(address, hash, rehash)
<1>1. PICK place \in HwPlaces(address) :
        LET moved == [id \in DOMAIN host_id_map |->
                         IF host_id_map[id].index = place[1]
                         THEN [host_id_map[id] EXCEPT !.index = place[2]]
                         ELSE host_id_map[id]]
        IN  /\ host_id_map' = [id \in DOMAIN moved \union {AllocId} |->
                                  IF id = AllocId
                                  THEN [address |-> address, index |-> place[1]]
                                  ELSE moved[id]]
            /\ hw_host' = HwAdd(address, place[1], place[2])
  BY Zenon DEF add_host_entry
<1>2. PICK hash \in Index, rehash \in Index :
         place[1] = hash /\ place[2] = rehash /\ Placed(address, hash, rehash)
  <2>1. CASE {i \in Index : hw_host[i] = address} # {}
    BY <2>1 DEF HwPlaces, Placed
  <2>2. CASE {i \in Index : hw_host[i] = address} = {}
    BY <2>2 DEF HwPlaces, Placed
  <2> QED BY <2>1, <2>2
<1>3. /\ \A id \in DOMAIN host_id_map : host_id_map[id] \in Entry
      /\ hw_host \in [Index -> Address \union {NULL}]
  BY DEF EntriesTyped
<1>4. AllocId \notin DOMAIN host_id_map
  BY AllocFacts
<1>5. host_id_map' = [id \in DOMAIN host_id_map \union {AllocId} |->
                         IF id = AllocId THEN [address |-> address, index |-> hash]
                         ELSE IF host_id_map[id].index = hash
                              THEN [host_id_map[id] EXCEPT !.index = rehash]
                              ELSE host_id_map[id]]
  BY <1>1, <1>2
<1>6. hw_host' = [[hw_host EXCEPT ![rehash] = hw_host[hash]] EXCEPT ![hash] = address]
  BY <1>1, <1>2 DEF HwAdd
<1>7. ASSUME NEW id \in DOMAIN host_id_map
      PROVE  /\ host_id_map'[id] \in Entry
             /\ host_id_map'[id].address = host_id_map[id].address
             /\ host_id_map'[id].index = IF host_id_map[id].index = hash THEN rehash
                                         ELSE host_id_map[id].index
  <2>1. PICK e \in Entry : e = host_id_map[id]
    BY <1>3
  <2>2. host_id_map'[id] = IF e.index = hash THEN [e EXCEPT !.index = rehash] ELSE e
    BY <1>4, <1>5, <2>1
  <2> QED BY <2>1, <2>2 DEF Entry
<1>8. host_id_map'[AllocId] \in Entry /\ host_id_map'[AllocId].address = address
      /\ host_id_map'[AllocId].index = hash
  BY <1>5 DEF Entry
<1>9. DOMAIN host_id_map' = DOMAIN host_id_map \union {AllocId}
  BY <1>5
<1>10. /\ hw_host' \in [Index -> Address \union {NULL}]
       /\ hw_host'[hash] = address
       /\ hash # rehash => hw_host'[rehash] = hw_host[hash]
       /\ \A i \in Index \ {hash, rehash} : hw_host'[i] = hw_host[i]
  BY <1>3, <1>6
<1> QED BY <1>2, <1>7, <1>8, <1>9, <1>10 DEF AddedAt
-----------------------------------------------------------------------------
(* Slots and their entries *)

\* A slot is given a new entry.
LEMMA AddKeeps ==
    ASSUME Constants, HostInv, NEW s \in Slot, NEW a \in Address, MayHave(s, a), ~Owns(s),
           s[2] = "neighbour" =>
              \A t \in Slot : t[2] = "neighbour" /\ t[3] = s[3] => owner[t] = NULL,
           add_host_entry(a),
           owner' = [owner EXCEPT ![s] = [address |-> a, id |-> AllocId, own |-> TRUE]],
           UNCHANGED <<strayed, orphans>>
    PROVE  HostInv'
<1> USE DEF HostInv
<1>1. PICK hash \in Index, rehash \in Index : AddedAt(a, hash, rehash)
  BY AddFacts
<1>2. PICK o \in Owned : o = [address |-> a, id |-> AllocId, own |-> TRUE]
  BY AllocFacts, Zenon DEF Owned
<1>3. o # NULL /\ o.address = a /\ o.id = AllocId /\ o.own
  BY <1>2, Zenon DEF Constants
<1>4. owner'[s] = o /\ \A t \in Slot \ {s} : owner'[t] = owner[t]
  BY <1>2 DEF EntriesTyped
<1>5. EntriesTyped'
  <2>1. owner' \in [Slot -> {NULL} \union Owned]
    BY <1>2, Zenon DEF EntriesTyped
  <2>2. next_host_id' = NextIdAfterAlloc /\ dummy_host_list' = AfterAlloc
    BY DEF add_host_entry
  <2> QED BY <1>1, <2>1, <2>2, AllocFacts DEF EntriesTyped, AddedAt
<1>6. IdsUnique'
  BY <1>1, IdsAfterAdd DEF AddedAt, add_host_entry
<1>7. SlotsInv'
  <2> SUFFICES ASSUME NEW t \in Slot, owner'[t] # NULL
               PROVE  /\ MayHave(t, owner'[t].address)
                      /\ t[2] = "neighbour" =>
                           /\ owner'[t].own
                           /\ \A u \in Slot : u[2] = "neighbour" /\ u[3] = t[3] /\ owner'[u] # NULL
                                                => u = t
    BY Zenon DEF SlotsInv, MayHave
  <2>1. CASE t = s
    BY <2>1, <1>3, <1>4
  <2>2. CASE t # s
    BY <2>2, <1>4 DEF SlotsInv
  <2> QED BY <2>1, <2>2
<1>8. AllocId \notin DOMAIN host_id_map
  BY AllocFacts
<1>9. KeepInv'
  <2> SUFFICES ASSUME ~strayed'
               PROVE  /\ \A t \in Slot : Owns(t)' => /\ owner'[t].id \in DOMAIN host_id_map'
                                                     /\ host_id_map'[owner'[t].id].address
                                                          = owner'[t].address
                      /\ \A t, u \in Slot : Owns(t)' /\ Owns(u)' /\ owner'[t].id = owner'[u].id
                                               => t = u
    BY DEF KeepInv, OwnersKeepHosts, Owns
  <2>1. \A t \in Slot : Owns(t) => /\ owner[t].id \in DOMAIN host_id_map
                                   /\ host_id_map[owner[t].id].address = owner[t].address
    BY Zenon DEF KeepInv, OwnersKeepHosts, Owns
  <2>2. \A t \in Slot \ {s} : Owns(t)' <=> Owns(t)
    BY <1>4 DEF Owns
  <2>3. \A t \in Slot : Owns(t)' => /\ owner'[t].id \in DOMAIN host_id_map'
                                    /\ host_id_map'[owner'[t].id].address = owner'[t].address
    BY <2>1, <2>2, <1>1, <1>3, <1>4 DEF AddedAt
  <2>4. \A t \in Slot \ {s} : Owns(t)' => owner'[t].id # AllocId
    BY <2>1, <2>2, <1>4, <1>8, Zenon
  <2>5. \A t, u \in Slot : Owns(t)' /\ Owns(u)' /\ owner'[t].id = owner'[u].id => t = u
    BY <2>2, <2>4, <1>3, <1>4 DEF KeepInv
  <2> QED BY <2>3, <2>5
<1>10. MirrorInv'
  <2> SUFFICES ASSUME OneHome, orphans = {}
               PROVE  /\ HostsMirrorHardware'
                      /\ \A id \in DOMAIN host_id_map' :
                            \E t \in Slot : /\ Owns(t)' /\ owner'[t].id = id
                                            /\ owner'[t].address = host_id_map'[id].address
    BY Zenon DEF MirrorInv, OneHome, MayHave
  <2>1. ASSUME NEW id \in DOMAIN host_id_map PROVE host_id_map[id].address # a
    <3>1. PICK t \in Slot : /\ Owns(t) /\ owner[t].id = id
                            /\ owner[t].address = host_id_map[id].address
      BY DEF MirrorInv
    <3>2. t # s /\ MayHave(t, host_id_map[id].address)
      BY <3>1, Zenon DEF SlotsInv, Owns
    <3>3. CASE s[2] = "neighbour" /\ t[2] = "neighbour"
      BY <3>1, <3>2, <3>3 DEF Owns, MayHave
    <3>4. CASE ~(s[2] = "neighbour" /\ t[2] = "neighbour")
      BY <3>2, <3>4 DEF OneHome
    <3> QED BY <3>3, <3>4
  <2>2. /\ \A id \in DOMAIN host_id_map :
              /\ hw_host[host_id_map[id].index] = host_id_map[id].address
              /\ host_id_map[id] \in Entry /\ host_id_map[id].address # NULL
              /\ host_id_map[id].index \in Index
        /\ \A i, j \in DOMAIN host_id_map : host_id_map[i].index = host_id_map[j].index => i = j
    BY Zenon DEF MirrorInv, HostsMirrorHardware, EntriesTyped, Entry, Constants
  <2>3. \A id \in DOMAIN host_id_map :
           /\ host_id_map[id].index = hash => hash # rehash /\ hw_host[rehash] = NULL
           /\ host_id_map[id].index # hash =>
                 host_id_map[id].index # rehash
    BY <2>1, <2>2, <1>1 DEF AddedAt, Placed
  <2>4. \A id \in DOMAIN host_id_map :
           /\ hw_host'[host_id_map'[id].index] = host_id_map'[id].address
           /\ host_id_map'[id].index # hash
    BY <2>2, <2>3, <1>1 DEF AddedAt
  <2>5. \A i, j \in DOMAIN host_id_map : host_id_map'[i].index = host_id_map'[j].index => i = j
    BY <2>2, <2>3, <1>1 DEF AddedAt
  <2>6. HostsMirrorHardware'
    BY <2>4, <2>5, <1>1 DEF AddedAt, HostsMirrorHardware
  <2>7. ASSUME NEW id \in DOMAIN host_id_map'
        PROVE  \E t \in Slot : /\ Owns(t)' /\ owner'[t].id = id
                               /\ owner'[t].address = host_id_map'[id].address
    <3>1. CASE id = AllocId
      <4>1. Owns(s)' /\ owner'[s].id = id
        BY <3>1, <1>3, <1>4, Zenon DEF Owns
      <4>2. owner'[s].address = host_id_map'[id].address
        BY <3>1, <1>1, <1>3, <1>4 DEF AddedAt
      <4> QED BY <4>1, <4>2
    <3>2. CASE id # AllocId
      <4>1. id \in DOMAIN host_id_map
        BY <3>2, <1>1 DEF AddedAt
      <4>2. PICK t \in Slot : /\ Owns(t) /\ owner[t].id = id
                              /\ owner[t].address = host_id_map[id].address
        BY <4>1, Zenon DEF MirrorInv
      <4>3. t # s /\ owner'[t] = owner[t]
        BY <4>2, <1>4, Zenon
      <4> QED BY <4>1, <4>2, <4>3, <1>1 DEF AddedAt, Owns
    <3> QED BY <3>1, <3>2
  <2> QED BY <2>6, <2>7
<1> QED BY <1>5, <1>6, <1>7, <1>9, <1>10

\* The insertion fails; the slot, if it is one of a bundle, has its address without an entry.
LEMMA FailKeeps ==
    ASSUME Constants, HostInv, add_host_entry_fails, UNCHANGED <<strayed, orphans>>,
           \/ UNCHANGED owner
           \/ \E s \in Slot, o \in Owned :
                /\ owner' = [owner EXCEPT ![s] = o] /\ ~o.own
                /\ MayHave(s, o.address) /\ s[2] # "neighbour" /\ ~Owns(s)
    PROVE  HostInv'
<1> USE DEF HostInv
<1>1. host_id_map' = host_id_map /\ hw_host' = hw_host
  BY DEF add_host_entry_fails
<1>  DEFINE OwnedKept ==
              /\ \A t \in Slot : Owns(t)' <=> Owns(t)
              /\ \A t \in Slot : Owns(t) \/ t[2] = "neighbour" => owner'[t] = owner[t]
              /\ \A t \in Slot : owner'[t] = owner[t] \/ MayHave(t, owner'[t].address)
              /\ owner' \in [Slot -> {NULL} \union Owned]
<1>2. OwnedKept
  <2>1. CASE UNCHANGED owner
    BY <2>1 DEF EntriesTyped, Owns
  <2>2. ASSUME NEW s \in Slot, NEW o \in Owned, owner' = [owner EXCEPT ![s] = o], ~o.own,
               MayHave(s, o.address), s[2] # "neighbour", ~Owns(s)
        PROVE  OwnedKept
    <3>1. owner'[s] = o /\ \A t \in Slot \ {s} : owner'[t] = owner[t]
      BY <2>2 DEF EntriesTyped
    <3>2. ~Owns(s)' /\ \A t \in Slot \ {s} : Owns(t)' <=> Owns(t)
      BY <2>2, <3>1 DEF Owns
    <3>3. owner' \in [Slot -> {NULL} \union Owned]
      BY <2>2 DEF EntriesTyped
    <3> QED BY <2>2, <3>1, <3>2, <3>3
  <2> QED BY <2>1, <2>2
<1>3. IdsUnique' /\ dummy_host_list' \in Seq(Nat) /\ next_host_id' \in Nat
  BY IdsAfterFailure
<1>4. EntriesTyped'
  BY <1>1, <1>2, <1>3 DEF EntriesTyped
<1>5. SlotsInv'
  <2> SUFFICES ASSUME NEW t \in Slot, owner'[t] # NULL
               PROVE  /\ MayHave(t, owner'[t].address)
                      /\ t[2] = "neighbour" =>
                           /\ owner'[t].own
                           /\ \A u \in Slot : u[2] = "neighbour" /\ u[3] = t[3] /\ owner'[u] # NULL
                                                => u = t
    BY Zenon DEF SlotsInv, MayHave
  <2> QED BY <1>2 DEF SlotsInv
<1>6. KeepInv'
  BY <1>1, <1>2, Zenon DEF KeepInv, OwnersKeepHosts, Owns
<1>7. MirrorInv'
  <2> SUFFICES ASSUME OneHome, orphans = {}
               PROVE  /\ HostsMirrorHardware'
                      /\ \A id \in DOMAIN host_id_map' :
                            \E t \in Slot : /\ Owns(t)' /\ owner'[t].id = id
                                            /\ owner'[t].address = host_id_map'[id].address
    BY Zenon DEF MirrorInv, OneHome, MayHave
  <2>1. HostsMirrorHardware'
    BY <1>1, Zenon DEF MirrorInv, HostsMirrorHardware
  <2>2. ASSUME NEW id \in DOMAIN host_id_map'
        PROVE  \E t \in Slot : /\ Owns(t)' /\ owner'[t].id = id
                               /\ owner'[t].address = host_id_map'[id].address
    <3>1. PICK t \in Slot : /\ Owns(t) /\ owner[t].id = id
                            /\ owner[t].address = host_id_map[id].address
      BY <1>1, Zenon DEF MirrorInv
    <3> QED BY <1>1, <1>2, <3>1, Zenon
  <2> QED BY <2>1, <2>2, Zenon
<1> QED BY <1>3, <1>4, <1>5, <1>6, <1>7

\* What delete_host_entry does to the entries and to the table.
LEMMA DeleteFacts ==
    ASSUME EntriesTyped, NEW id, NEW ok, delete_host_entry(id, ok)
    PROVE  /\ DOMAIN host_id_map' = DOMAIN host_id_map \ {id}
           /\ \A i \in DOMAIN host_id_map' : host_id_map'[i] = host_id_map[i]
           /\ hw_host' \in [Index -> Address \union {NULL}]
           /\ \A i \in Index : \/ hw_host'[i] = hw_host[i]
                               \/ id \in DOMAIN host_id_map /\ i = host_id_map[id].index
<1>1. CASE id \notin DOMAIN host_id_map
  BY <1>1, Zenon DEF delete_host_entry, EntriesTyped
<1>2. CASE id \in DOMAIN host_id_map
  <2>1. host_id_map' = [i \in DOMAIN host_id_map \ {id} |-> host_id_map[i]]
    BY <1>2 DEF delete_host_entry, Restrict
  <2>2. PICK index : index = host_id_map[id].index
    OBVIOUS
  <2>3. hw_host' = hw_host \/ hw_host' = [hw_host EXCEPT ![index] = NULL]
    BY <1>2, <2>2 DEF delete_host_entry
  <2>4. /\ hw_host' \in [Index -> Address \union {NULL}]
        /\ \A i \in Index : hw_host'[i] = hw_host[i] \/ i = index
    BY <2>3 DEF EntriesTyped
  <2> QED BY <1>2, <2>1, <2>2, <2>4
<1> QED BY <1>1, <1>2

\* The entry of a slot is deleted; the slot goes, or keeps its address without an entry.
LEMMA DeleteKeeps ==
    ASSUME Constants, HostInv, NEW s \in Slot, owner[s] # NULL, NEW ok,
           delete_host_entry(owner[s].id, ok),
           NEW o \in {NULL} \union Owned,
           o # NULL => ~o.own /\ o.address = owner[s].address /\ s[2] # "neighbour",
           owner' = [owner EXCEPT ![s] = o],
           strayed' \in BOOLEAN,
           ~strayed' => ~strayed /\ (Owns(s) \/ owner[s].id \notin DOMAIN host_id_map),
           UNCHANGED orphans
    PROVE  HostInv'
<1> USE DEF HostInv
<1>1. PICK id : id = owner[s].id
  OBVIOUS
<1>2. /\ DOMAIN host_id_map' = DOMAIN host_id_map \ {id}
      /\ \A i \in DOMAIN host_id_map' : host_id_map'[i] = host_id_map[i]
      /\ hw_host' \in [Index -> Address \union {NULL}]
      /\ \A i \in Index : \/ hw_host'[i] = hw_host[i]
                          \/ id \in DOMAIN host_id_map /\ i = host_id_map[id].index
  BY <1>1, DeleteFacts, Zenon
<1>3. IdsUnique' /\ dummy_host_list' \in Seq(Nat) /\ next_host_id' \in Nat
  BY IdsAfterDelete
<1>4. owner'[s] = o /\ \A t \in Slot \ {s} : owner'[t] = owner[t]
  BY DEF EntriesTyped
<1>5. ~Owns(s)' /\ \A t \in Slot \ {s} : Owns(t)' <=> Owns(t)
  BY <1>4 DEF Owns
<1>6. EntriesTyped'
  <2>1. owner' \in [Slot -> {NULL} \union Owned]
    BY Zenon DEF EntriesTyped
  <2> QED BY <1>2, <1>3, <2>1, Zenon DEF EntriesTyped
<1>7. SlotsInv'
  <2> SUFFICES ASSUME NEW t \in Slot, owner'[t] # NULL
               PROVE  /\ MayHave(t, owner'[t].address)
                      /\ t[2] = "neighbour" =>
                           /\ owner'[t].own
                           /\ \A u \in Slot : u[2] = "neighbour" /\ u[3] = t[3] /\ owner'[u] # NULL
                                                => u = t
    BY Zenon DEF SlotsInv, MayHave
  <2> QED BY <1>4 DEF SlotsInv
<1>8. KeepInv'
  <2> SUFFICES ASSUME ~strayed'
               PROVE  /\ \A t \in Slot : Owns(t)' => /\ owner'[t].id \in DOMAIN host_id_map'
                                                     /\ host_id_map'[owner'[t].id].address
                                                          = owner'[t].address
                      /\ \A t, u \in Slot : Owns(t)' /\ Owns(u)' /\ owner'[t].id = owner'[u].id
                                               => t = u
    BY Zenon DEF KeepInv, OwnersKeepHosts, Owns
  <2>1. \A t \in Slot : Owns(t) => /\ owner[t].id \in DOMAIN host_id_map
                                   /\ host_id_map[owner[t].id].address = owner[t].address
    BY DEF KeepInv, OwnersKeepHosts, Owns
  <2>2. \A t \in Slot \ {s} : Owns(t) => owner[t].id # id
    BY <2>1, <1>1 DEF KeepInv
  <2>3. ASSUME NEW t \in Slot, Owns(t)'
        PROVE  /\ owner'[t].id \in DOMAIN host_id_map'
               /\ host_id_map'[owner'[t].id].address = owner'[t].address
    <3>1. t \in Slot \ {s} /\ Owns(t) /\ owner'[t] = owner[t]
      BY <1>4, <1>5, <2>3, Zenon
    <3>2. owner[t].id \in DOMAIN host_id_map'
      BY <1>2, <2>1, <2>2, <3>1, Zenon
    <3> QED BY <1>2, <2>1, <3>1, <3>2, Zenon
  <2>4. \A t, u \in Slot : Owns(t)' /\ Owns(u)' /\ owner'[t].id = owner'[u].id => t = u
    BY <1>4, <1>5, Zenon DEF KeepInv
  <2> QED BY <2>3, <2>4, Zenon
<1>9. MirrorInv'
  <2> SUFFICES ASSUME OneHome, orphans = {}
               PROVE  /\ HostsMirrorHardware'
                      /\ \A i \in DOMAIN host_id_map' :
                            \E t \in Slot : /\ Owns(t)' /\ owner'[t].id = i
                                            /\ owner'[t].address = host_id_map'[i].address
    BY Zenon DEF MirrorInv, OneHome, MayHave
  <2>1. /\ \A i \in DOMAIN host_id_map : /\ host_id_map[i].index \in Index
                                         /\ hw_host[host_id_map[i].index] = host_id_map[i].address
        /\ \A i, j \in DOMAIN host_id_map : host_id_map[i].index = host_id_map[j].index => i = j
    BY DEF MirrorInv, HostsMirrorHardware, EntriesTyped, Entry
  <2>2. HostsMirrorHardware'
    BY <2>1, <1>2 DEF HostsMirrorHardware
  <2>3. ASSUME NEW i \in DOMAIN host_id_map'
        PROVE  \E t \in Slot : /\ Owns(t)' /\ owner'[t].id = i
                               /\ owner'[t].address = host_id_map'[i].address
    <3>1. PICK t \in Slot : /\ Owns(t) /\ owner[t].id = i
                            /\ owner[t].address = host_id_map[i].address
      BY <1>2, Zenon DEF MirrorInv
    <3>2. t # s
      BY <3>1, <1>1, <1>2, Zenon
    <3> QED BY <3>1, <3>2, <1>2, <1>4, <1>5
  <2> QED BY <2>2, <2>3
<1> QED BY <1>3, <1>6, <1>7, <1>8, <1>9

\* A slot is lost to its entry: port_unconfigure_ips with an ID that is any, or a
\* neighbour without its bundle.
LEMMA LostKeeps ==
    ASSUME Constants, HostInv, NEW s \in Slot, NEW id, NEW ok, delete_host_entry(id, ok),
           owner' = [owner EXCEPT ![s] = NULL],
           strayed' \in BOOLEAN, ~strayed' => ~strayed /\ id \notin DOMAIN host_id_map,
           orphans' \subseteq Address, orphans' # {}
    PROVE  HostInv'
<1> USE DEF HostInv
<1>1. /\ DOMAIN host_id_map' = DOMAIN host_id_map \ {id}
      /\ \A i \in DOMAIN host_id_map' : host_id_map'[i] = host_id_map[i]
      /\ hw_host' \in [Index -> Address \union {NULL}]
  BY DeleteFacts, Zenon
<1>2. IdsUnique' /\ dummy_host_list' \in Seq(Nat) /\ next_host_id' \in Nat
  BY IdsAfterDelete
<1>3. owner'[s] = NULL /\ \A t \in Slot \ {s} : owner'[t] = owner[t]
  BY DEF EntriesTyped
<1>4. ~Owns(s)' /\ \A t \in Slot \ {s} : Owns(t)' <=> Owns(t)
  BY <1>3 DEF Owns
<1>5. EntriesTyped'
  <2>1. owner' \in [Slot -> {NULL} \union Owned]
    BY DEF EntriesTyped
  <2> QED BY <1>1, <1>2, <2>1 DEF EntriesTyped
<1>6. SlotsInv'
  <2> SUFFICES ASSUME NEW t \in Slot, owner'[t] # NULL
               PROVE  /\ MayHave(t, owner'[t].address)
                      /\ t[2] = "neighbour" =>
                           /\ owner'[t].own
                           /\ \A u \in Slot : u[2] = "neighbour" /\ u[3] = t[3] /\ owner'[u] # NULL
                                                => u = t
    BY Zenon DEF SlotsInv, MayHave
  <2> QED BY <1>3 DEF SlotsInv
<1>7. KeepInv'
  <2> SUFFICES ASSUME ~strayed'
               PROVE  /\ \A t \in Slot : Owns(t)' => /\ owner'[t].id \in DOMAIN host_id_map'
                                                     /\ host_id_map'[owner'[t].id].address
                                                          = owner'[t].address
                      /\ \A t, u \in Slot : Owns(t)' /\ Owns(u)' /\ owner'[t].id = owner'[u].id
                                               => t = u
    BY Zenon DEF KeepInv, OwnersKeepHosts, Owns
  <2>1. ASSUME NEW t \in Slot, Owns(t)'
        PROVE  /\ owner'[t].id \in DOMAIN host_id_map'
               /\ host_id_map'[owner'[t].id].address = owner'[t].address
    <3>1. Owns(t) /\ owner'[t] = owner[t]
      BY <1>3, <1>4, <2>1, Zenon
    <3>2. /\ owner[t].id \in DOMAIN host_id_map
          /\ host_id_map[owner[t].id].address = owner[t].address
      BY <3>1, Zenon DEF KeepInv, OwnersKeepHosts, Owns
    <3>3. owner[t].id \in DOMAIN host_id_map'
      BY <1>1, <3>2, Zenon
    <3> QED BY <1>1, <3>1, <3>2, <3>3, Zenon
  <2>2. \A t, u \in Slot : Owns(t)' /\ Owns(u)' /\ owner'[t].id = owner'[u].id => t = u
    BY <1>3, <1>4, Zenon DEF KeepInv
  <2> QED BY <2>1, <2>2, Zenon
<1>8. MirrorInv'
  BY Zenon DEF MirrorInv
<1> QED BY <1>2, <1>5, <1>6, <1>7, <1>8

\* The manager is destroyed with its entries, and no slot is left.
LEMMA DestroyKeeps ==
    ASSUME Constants, HostInv, NEW kept, l3_mgr_destroy(kept)
    PROVE  HostInv'
<1> USE DEF HostInv
<1>1. /\ host_id_map' = <<>> /\ dummy_host_list' = <<>> /\ next_host_id' = 0
      /\ owner' = [s \in Slot |-> NULL] /\ orphans' = {} /\ strayed' = strayed
  BY DEF l3_mgr_destroy
<1>2. hw_host' \in [Index -> Address \union {NULL}]
  BY DEF l3_mgr_destroy, EntriesTyped
<1>3. DOMAIN host_id_map' = {}
  BY <1>1
<1>4. EntriesTyped'
  BY <1>1, <1>2, <1>3 DEF EntriesTyped
<1>5. IdsUnique'
  BY <1>1, <1>3 DEF IdsUnique, Range
<1>6. SlotsInv' /\ KeepInv' /\ MirrorInv'
  BY <1>1, <1>3, Zenon DEF SlotsInv, KeepInv, MirrorInv, OwnersKeepHosts, HostsMirrorHardware, Owns
<1> QED BY <1>4, <1>5, <1>6

\* The invariant is about these variables only.
LEMMA HostFrame ==
    ASSUME HostInv, UNCHANGED <<host_id_map, dummy_host_list, next_host_id, hw_host, owner,
                                strayed, orphans>>
    PROVE  HostInv'
<1> USE DEF HostInv
<1>1. EntriesTyped' /\ IdsUnique'
  BY DEF EntriesTyped, IdsUnique
<1>2. SlotsInv' /\ KeepInv'
  BY Zenon DEF SlotsInv, MayHave, KeepInv, OwnersKeepHosts, Owns
<1>3. MirrorInv'
  BY Zenon DEF MirrorInv, OneHome, MayHave, HostsMirrorHardware, Owns
<1> QED BY <1>1, <1>2, <1>3
-----------------------------------------------------------------------------
(* A piece of work is done *)

\* Pieces of work are done: an address was added to a slot ...
LEMMA WorkAfterAdd ==
    ASSUME NEW item \in work, item.op = "add", Left = work, Sound(work), AskedInv,
           \A j \in work : j.op # "add" => j.slot # item.slot,
           work' = work \ {item}, l3_asked' = l3_asked,
           owner'[item.slot] # NULL, owner'[item.slot].address = item.address,
           \A t \in Slot \ {item.slot} : owner'[t] = owner[t]
    PROVE  Sound(work)' /\ Left' = work' /\ AskedInv'
<1>1. PICK s \in Slot : s = item.slot
  BY ItemFacts DEF Sound
<1>2. \A j \in work' : j.slot \in Slot /\ j.slot # s /\ j \in work
  BY <1>1, ItemFacts DEF Sound
<1>3. \A t \in Slot \ {s} : owner'[t] = owner[t] /\ (Owns(t)' <=> Owns(t))
  BY <1>1 DEF Owns
<1>4. \A t \in Slot : \A a : MayHave(t, a)' <=> MayHave(t, a)
  BY DEF MayHave
<1>5. Sound(work)'
  <2>1. /\ work' \subseteq Item
        /\ \A i \in work' : i.op # "add" => owner'[i.slot] # NULL
        /\ \A i \in work' : i.op = "add" => i.slot[2] \in Kind /\ MayHave(i.slot, i.address)
    BY <1>2, <1>3, Zenon DEF Sound
  <2>2. /\ \A i, j \in work' : i.slot = j.slot /\ (i.op = "add" <=> j.op = "add") => i = j
        /\ \A i, j \in work' : i.slot = j.slot /\ i.op = "add" /\ j.op # "add" =>
              j.op = "delete" /\ ~j.drop /\ j.stage < i.stage
    <3>1. work' \subseteq work
      OBVIOUS
    <3>2. \A i, j \in work : i.slot = j.slot /\ (i.op = "add" <=> j.op = "add") => i = j
      BY DEF Sound
    <3>3. \A i, j \in work : i.slot = j.slot /\ i.op = "add" /\ j.op # "add" =>
             j.op = "delete" /\ ~j.drop /\ j.stage < i.stage
      BY DEF Sound
    <3>4. \A i, j \in work' : i.slot = j.slot /\ (i.op = "add" <=> j.op = "add") => i = j
      BY <3>1, <3>2
    <3>5. \A i, j \in work' : i.slot = j.slot /\ i.op = "add" /\ j.op # "add" =>
             j.op = "delete" /\ ~j.drop /\ j.stage < i.stage
      BY <3>1, <3>3
    <3> QED BY <3>4, <3>5
  <2>3. \A i \in work' : i.op = "add" /\ Owns(i.slot)' =>
           \E j \in work' : j.op # "add" /\ j.slot = i.slot
    BY <1>2, <1>3 DEF Sound
  <2>4. ASSUME NEW j \in work', j.op = "delete", ~j.drop
        PROVE  \E i \in work' : i.op = "add" /\ i.slot = j.slot
    <3>1. j \in work /\ j.slot # s
      BY <1>2
    <3>2. PICK i \in work : i.op = "add" /\ i.slot = j.slot
      BY <2>4, <3>1 DEF Sound
    <3> QED BY <1>1, <3>1, <3>2
  <2> QED BY <2>1, <2>2, <2>3, <2>4, <1>4, Zenon DEF Sound, MayHave, Owns
<1>6. Left' = work'
  BY DEF Left
<1>7. AskedInv'
  <2> SUFFICES ASSUME NEW t \in Slot, t[2] \in Kind, NEW a \in Address
               PROVE  Holds(work, t, a)' <=> AskedFor(t, a)
    BY <1>6, Zenon DEF AskedInv, AskedFor, AskedTyped
  <2>1. Holds(work, t, a) <=> AskedFor(t, a)
    BY Zenon DEF AskedInv
  <2>2. CASE t = s
    <3>1. Holds(work, s, a) <=> a = item.address
      BY <1>1, Zenon DEF Holds, Sound
    <3>2. Holds(work, s, a)' <=> a = item.address
      BY <1>1, <1>2 DEF Holds
    <3> QED BY <2>1, <2>2, <3>1, <3>2
  <2>3. CASE t # s
    <3>1. Holds(work, t, a)' <=> Holds(work, t, a)
      BY <1>1, <1>3, <2>3, Zenon DEF Holds
    <3> QED BY <2>1, <3>1
  <2> QED BY <2>2, <2>3
<1> QED BY <1>5, <1>6, <1>7

\* ... or a slot's entry was deleted.
LEMMA WorkAfterDelete ==
    ASSUME NEW item \in work, item.op # "add", Left = work, Sound(work), AskedInv,
           work' = work \ {item}, l3_asked' = l3_asked,
           item.op = "delete" /\ ~item.drop => owner'[item.slot] # NULL /\ ~owner'[item.slot].own,
           ~(item.op = "delete" /\ ~item.drop) => owner'[item.slot] = NULL,
           \A t \in Slot \ {item.slot} : owner'[t] = owner[t]
    PROVE  Sound(work)' /\ Left' = work' /\ AskedInv'
<1>1. PICK s \in Slot : s = item.slot
  BY ItemFacts, Zenon DEF Sound
<1>2. \A j \in work' : /\ j.slot \in Slot /\ j \in work
                       /\ j.slot = s => j.op = "add" /\ item.op = "delete" /\ ~item.drop
  BY <1>1, ItemFacts, Zenon DEF Sound
<1>3. /\ \A t \in Slot \ {s} : owner'[t] = owner[t] /\ (Owns(t)' <=> Owns(t))
      /\ ~Owns(s)'
  BY <1>1 DEF Owns
<1>4. Sound(work)'
  <2>1. /\ work' \subseteq Item
        /\ \A i \in work' : i.op # "add" => owner'[i.slot] # NULL
        /\ \A i \in work' : i.op = "add" => i.slot[2] \in Kind /\ MayHave(i.slot, i.address)
    BY <1>2, <1>3, Zenon DEF Sound
  <2>2. /\ \A i, j \in work' : i.slot = j.slot /\ (i.op = "add" <=> j.op = "add") => i = j
        /\ \A i, j \in work' : i.slot = j.slot /\ i.op = "add" /\ j.op # "add" =>
              j.op = "delete" /\ ~j.drop /\ j.stage < i.stage
    <3>1. work' \subseteq work
      OBVIOUS
    <3>2. \A i, j \in work : i.slot = j.slot /\ (i.op = "add" <=> j.op = "add") => i = j
      BY Zenon DEF Sound
    <3>3. \A i, j \in work : i.slot = j.slot /\ i.op = "add" /\ j.op # "add" =>
             j.op = "delete" /\ ~j.drop /\ j.stage < i.stage
      BY DEF Sound
    <3>4. \A i, j \in work' : i.slot = j.slot /\ (i.op = "add" <=> j.op = "add") => i = j
      BY <3>1, <3>2
    <3>5. \A i, j \in work' : i.slot = j.slot /\ i.op = "add" /\ j.op # "add" =>
             j.op = "delete" /\ ~j.drop /\ j.stage < i.stage
      BY <3>1, <3>3
    <3> QED BY <3>4, <3>5, Zenon
  <2>3. \A i \in work' : i.op = "add" /\ Owns(i.slot)' =>
           \E j \in work' : j.op # "add" /\ j.slot = i.slot
    BY <1>1, <1>2, <1>3 DEF Sound
  <2>4. ASSUME NEW j \in work', j.op = "delete", ~j.drop
        PROVE  \E i \in work' : i.op = "add" /\ i.slot = j.slot
    <3>1. PICK i \in work : i.op = "add" /\ i.slot = j.slot
      BY <1>2, <2>4 DEF Sound
    <3> QED BY <3>1
  <2> QED BY <2>1, <2>2, <2>3, <2>4, Zenon DEF Sound, MayHave, Owns
<1>5. Left' = work'
  BY Zenon DEF Left
<1>6. AskedInv'
  <2> SUFFICES ASSUME NEW t \in Slot, t[2] \in Kind, NEW a \in Address
               PROVE  Holds(work, t, a)' <=> AskedFor(t, a)
    BY <1>5, Zenon DEF AskedInv, AskedFor, AskedTyped
  <2>1. Holds(work, t, a) <=> AskedFor(t, a)
    BY Zenon DEF AskedInv
  <2>2. CASE t = s
    <3>1. CASE item.op = "delete" /\ ~item.drop
      <4>1. PICK i \in work : i.op = "add" /\ i.slot = s
        BY <1>1, <3>1 DEF Sound
      <4>2. i \in work'
        BY <4>1
      <4> QED BY <1>1, <2>1, <2>2, <4>1, <4>2 DEF Holds
    <3>2. CASE ~(item.op = "delete" /\ ~item.drop)
      <4>1. \A i \in work : i.op = "add" => i.slot # s
        BY <1>1, <3>2, Zenon DEF Sound
      <4> QED BY <1>1, <2>1, <2>2, <3>2, <4>1 DEF Holds
    <3> QED BY <3>1, <3>2
  <2>3. CASE t # s
    <3>1. Holds(work, t, a)' <=> Holds(work, t, a)
      BY <1>1, <1>3, <2>3, Zenon DEF Holds
    <3> QED BY <2>1, <3>1, Zenon
  <2> QED BY <2>2, <2>3
<1> QED BY <1>4, <1>5, <1>6

\* A piece of work is done.
LEMMA WorkStep ==
    ASSUME Constants, L3Inv, do_work, UNCHANGED ifVars
    PROVE  L3Inv'
<1>1. PICK item \in Current, ok \in BOOLEAN :
         /\ do_add(item, ok) \/ do_delete(item, ok) \/ do_delete_lost(item, ok)
         /\ work' = work \ {item}
  BY DEF do_work
<1>2. HostInv /\ WorkInv /\ AskedInv /\ IfInv /\ l3_asked' = l3_asked
  BY DEF L3Inv, ifVars
<1>3. item \in work /\ \A other \in work : item.stage <= other.stage
  BY <1>1 DEF Current
<1>4. item.op # "enable"
  BY <1>1 DEF do_add, do_delete, do_delete_lost
<1>5. Left = work /\ Sound(work)
  BY <1>2, <1>3, <1>4 DEF WorkInv, EnableLeft
<1>6. /\ item \in Item /\ item.slot \in Slot /\ item.stage \in Nat
      /\ item.op = "add" => item.address \in Address
      /\ item.op = "delete" => item.drop \in BOOLEAN
  BY <1>3, <1>5, ItemFacts DEF Sound
<1>7. owner \in [Slot -> {NULL} \union Owned]
  BY <1>2 DEF HostInv, EntriesTyped
<1>8. CASE do_add(item, ok)
  <2>1. item.op = "add"
    BY <1>8 DEF do_add
  <2>2. \A j \in work : j.op # "add" => j.slot # item.slot
    <3> SUFFICES ASSUME NEW j \in work, j.op # "add", j.slot = item.slot PROVE FALSE
      OBVIOUS
    <3>1. j.stage < item.stage /\ j.stage \in Nat
      BY <1>3, <1>5, <2>1, ItemFacts, Zenon DEF Sound
    <3> QED BY <1>3, <1>6, <3>1
  <2>3. ~Owns(item.slot) /\ item.slot[2] \in Kind /\ MayHave(item.slot, item.address)
    BY <1>3, <1>5, <2>1, <2>2, Zenon DEF Sound
  <2>4. item.slot[2] # "neighbour"
    BY <2>3, Zenon DEF Kind
  <2>5. UNCHANGED <<strayed, orphans>>
    BY <1>8 DEF do_add
  <2>6. CASE /\ add_host_entry(item.address) /\ UNCHANGED hfaults
             /\ owner' = [owner EXCEPT ![item.slot] = [address |-> item.address,
                                                       id |-> AllocId, own |-> TRUE]]
    <3>1. HostInv'
      BY <1>2, <1>6, <2>1, <2>3, <2>4, <2>5, <2>6, AddKeeps, Zenon
    <3>2. PICK o : o = [address |-> item.address, id |-> AllocId, own |-> TRUE]
      BY Zenon
    <3>3. o \in Owned /\ o # NULL /\ o.address = item.address
      <4>1. AllocId \in Nat /\ TRUE \in BOOLEAN
        BY <1>2, AllocFacts DEF HostInv
      <4>2. o \in Owned /\ o.address = item.address
        BY <1>6, <2>1, <3>2, <4>1, Zenon DEF Owned
      <4> QED BY <4>2, Zenon DEF Constants
    <3>4. owner'[item.slot] = o /\ \A t \in Slot \ {item.slot} : owner'[t] = owner[t]
      BY <1>6, <1>7, <2>6, <3>2
    <3>5. Sound(work)' /\ Left' = work' /\ AskedInv'
      BY <1>1, <1>2, <1>3, <1>5, <2>1, <2>2, <3>3, <3>4, WorkAfterAdd, Zenon
    <3>6. IfInv'
      BY <1>2, <2>6, Zenon DEF IfInv, InterfaceReady, ifVars
    <3> QED BY <3>1, <3>5, <3>6, Zenon DEF L3Inv, WorkInv
  <2>7. CASE /\ add_host_entry_fails
             /\ hfaults' = IF HwPlaces(item.address) = {} THEN hfaults ELSE hfaults + 1
             /\ hfaults' <= MaxFaults
             /\ owner' = [owner EXCEPT ![item.slot] =
                            [address |-> item.address,
                             id |-> IF owner[item.slot] = NULL THEN 0 ELSE owner[item.slot].id,
                             own |-> FALSE]]
    <3>1. PICK id : id = IF owner[item.slot] = NULL THEN 0 ELSE owner[item.slot].id
      OBVIOUS
    <3>2. id \in Nat
      BY <1>6, <1>7, <3>1 DEF Owned
    <3>3. PICK o : o = [address |-> item.address, id |-> id, own |-> FALSE]
      BY Zenon
    <3>4. o \in Owned /\ o.address = item.address /\ ~o.own
      BY <1>6, <2>1, <3>2, <3>3 DEF Owned
    <3>5. owner' = [owner EXCEPT ![item.slot] = o]
      BY <2>7, <3>1, <3>3
    <3>6. HostInv'
      BY <1>2, <1>6, <2>3, <2>4, <2>5, <2>7, <3>4, <3>5, FailKeeps, Zenon
    <3>7. /\ owner'[item.slot] = o /\ o # NULL
          /\ \A t \in Slot \ {item.slot} : owner'[t] = owner[t]
      BY <1>6, <1>7, <3>4, <3>5 DEF Constants
    <3>8. Sound(work)' /\ Left' = work' /\ AskedInv'
      BY <1>1, <1>2, <1>3, <1>5, <2>1, <2>2, <3>4, <3>7, WorkAfterAdd, Zenon
    <3>9. hfaults' \in 0..MaxFaults
      BY <1>2, <2>7 DEF IfInv, Constants
    <3>10. IfInv'
      BY <1>2, <3>9, Zenon DEF IfInv, InterfaceReady, ifVars
    <3> QED BY <3>6, <3>8, <3>10 DEF L3Inv, WorkInv
  <2> QED BY <1>8, <2>6, <2>7 DEF do_add
<1>9. ASSUME Refused(ok) PROVE IfInv'
  <2>1. hfaults' \in 0..MaxFaults
    BY <1>2, <1>9 DEF IfInv, Constants, Refused
  <2> QED BY <1>2, <2>1, Zenon DEF IfInv, InterfaceReady, ifVars
<1>10. CASE do_delete(item, ok)
  <2>1. item.op = "delete" /\ owner[item.slot] # NULL /\ owner[item.slot] \in Owned
    BY <1>3, <1>5, <1>6, <1>7, <1>10 DEF do_delete, Sound
  <2>2. PICK o : o = IF item.drop THEN NULL ELSE [owner[item.slot] EXCEPT !.own = FALSE]
    BY Zenon
  <2>3. /\ item.drop => o = NULL
        /\ ~item.drop => o \in Owned /\ o # NULL /\ ~o.own /\ o.address = owner[item.slot].address
    BY <2>1, <2>2, Zenon DEF Owned, Constants
  <2>4. owner' = [owner EXCEPT ![item.slot] = o]
    BY <1>10, <2>2 DEF do_delete
  <2>5. ~item.drop => item.slot[2] # "neighbour"
    BY <1>3, <1>5, <2>1 DEF Sound, Kind
  <2>6. /\ delete_host_entry(owner[item.slot].id, ok)
        /\ strayed' = (strayed \/ (~owner[item.slot].own
                                   /\ owner[item.slot].id \in DOMAIN host_id_map))
        /\ UNCHANGED orphans /\ Refused(ok)
    BY <1>10 DEF do_delete
  <2>7. strayed' \in BOOLEAN
    BY <1>2, <2>1, <2>6, Zenon DEF HostInv, EntriesTyped, Owned
  <2>8. ~strayed' => ~strayed /\ (Owns(item.slot) \/ owner[item.slot].id \notin DOMAIN host_id_map)
    BY <2>1, <2>6, Zenon DEF Owns
  <2>9. /\ o \in {NULL} \union Owned
        /\ o # NULL => /\ ~o.own /\ o.address = owner[item.slot].address
                       /\ item.slot[2] # "neighbour"
    BY <1>6, <2>1, <2>3, <2>5
  <2>10. HostInv'
    BY <1>2, <1>6, <2>1, <2>4, <2>6, <2>7, <2>8, <2>9, DeleteKeeps, Zenon
  <2>11. owner'[item.slot] = o /\ \A t \in Slot \ {item.slot} : owner'[t] = owner[t]
    BY <1>6, <1>7, <2>4
  <2>12. Sound(work)' /\ Left' = work' /\ AskedInv'
    BY <1>1, <1>2, <1>3, <1>5, <1>6, <2>1, <2>3, <2>11, WorkAfterDelete, Zenon
  <2> QED BY <1>9, <2>6, <2>10, <2>12 DEF L3Inv, WorkInv
<1>11. CASE do_delete_lost(item, ok)
  <2>1. item.op = "lost" /\ owner[item.slot] # NULL /\ owner[item.slot] \in Owned
    BY <1>3, <1>5, <1>6, <1>7, <1>11, Zenon DEF do_delete_lost, Sound
  <2>2. PICK id \in 0..next_host_id : /\ delete_host_entry(id, ok)
                                      /\ strayed' = (strayed \/ id \in DOMAIN host_id_map)
    BY <1>11 DEF do_delete_lost
  <2>3. /\ owner' = [owner EXCEPT ![item.slot] = NULL]
        /\ orphans' = orphans \union {owner[item.slot].address} /\ Refused(ok)
    BY <1>11 DEF do_delete_lost
  <2>4. orphans' \subseteq Address /\ orphans' # {} /\ strayed' \in BOOLEAN
    BY <1>2, <2>1, <2>2, <2>3 DEF HostInv, EntriesTyped, Owned
  <2>5. HostInv'
    BY <1>2, <1>6, <2>2, <2>3, <2>4, LostKeeps, Zenon
  <2>6. owner'[item.slot] = NULL /\ \A t \in Slot \ {item.slot} : owner'[t] = owner[t]
    BY <1>6, <1>7, <2>3
  <2>7. Sound(work)' /\ Left' = work' /\ AskedInv'
    BY <1>1, <1>2, <1>3, <1>5, <2>1, <2>6, WorkAfterDelete, Zenon
  <2> QED BY <1>9, <2>3, <2>5, <2>7, Zenon DEF L3Inv, WorkInv
<1> QED BY <1>1, <1>8, <1>10, <1>11
-----------------------------------------------------------------------------
(* Bundles and neighbours *)

\* An interface comes, with the addresses asked for, in a call or in its second half.
LEMMA UpdateEnableKeeps ==
    ASSUME Constants, L3Inv, Left = {}, NEW b \in Bundle, NEW st \in Settings[b],
           update_enable(b, st), HostsUnchanged,
           bundles' \subseteq Bundle, bundles \union {b} \subseteq bundles'
    PROVE  L3Inv'
<1>1. HostInv'
  BY HostFrame DEF L3Inv, HostsUnchanged
<1>2. st \in Setting
  BY DEF Constants
<1>3. VlanId(b, st) \in Nat
  BY <1>2 DEF VlanId, Setting
<1>4. IfInv'
  BY <1>3, EnableKeeps, Zenon DEF update_enable, L3Inv
<1>5. CASE reconfigure(b, st)
  <2>1. Sound(work)' /\ Left' = work' /\ AskedInv'
    BY <1>5, ReconfigureWork, Zenon DEF L3Inv, HostInv, HostsUnchanged
  <2> QED BY <1>1, <1>4, <2>1, Zenon DEF L3Inv, WorkInv
<1>6. CASE work' = {} /\ UNCHANGED l3_asked
  <2>1. Left' = {} /\ Left' = work'
    BY <1>6 DEF Left
  <2>2. \A t \in Slot : owner'[t] = owner[t]
    BY DEF HostsUnchanged
  <2>3. Sound(Left)' /\ AskedInv'
    BY <1>6, <2>1, <2>2, NoWorkFrame DEF L3Inv
  <2> QED BY <1>1, <1>4, <2>1, <2>3, Zenon DEF L3Inv, WorkInv
<1> QED BY <1>5, <1>6, Zenon DEF update_enable

\* bundle_update_l3_config.
LEMMA UpdateKeeps ==
    ASSUME Constants, L3Inv, NEW b \in Bundle, NEW st \in Settings[b],
           bundle_update_l3_config(b, st)
    PROVE  L3Inv'
<1>1. work = {} /\ Left = {} /\ HostsUnchanged /\ bundles' = bundles \union {b}
  BY DEF bundle_update_l3_config, Idle, Left
<1>2. HostInv /\ WorkInv /\ AskedInv /\ IfInv /\ HostInv'
  BY <1>1, HostFrame DEF L3Inv, HostsUnchanged
<1>3. bundles' \subseteq Bundle /\ bundles \union {b} \subseteq bundles'
  BY <1>1, <1>2 DEF IfInv
<1>4. ASSUME reconfigure(b, st)
      PROVE  WorkInv' /\ AskedInv'
  BY <1>1, <1>2, <1>4, ReconfigureWork, Zenon DEF HostInv, HostsUnchanged, WorkInv
<1>5. CASE update_loopback(b, st)
  <2>1. IfInv'
    BY <1>2, <1>3, <1>5, IfFrame, Zenon DEF update_loopback, IfInv
  <2> QED BY <1>2, <1>4, <1>5, <2>1, Zenon DEF update_loopback, L3Inv
<1>6. CASE update_disable(b, st)
  <2>1. IfInv'
    BY <1>2, <1>3, <1>6, DisableKeeps, Zenon DEF update_disable
  <2>2. AskedInv' /\ Left' = {} /\ Sound(Left)'
    <3>1. Left' = {}
      <4>1. work' = {} \/ work' = {EnableLeft(b, st)}
        BY <1>6 DEF update_disable, EnableLeft
      <4>2. \A item \in work' : item.op = "enable"
        BY <4>1 DEF EnableLeft
      <4> QED BY <4>2 DEF Left
    <3>2. l3_asked' = l3_asked /\ \A t \in Slot : owner'[t] = owner[t]
      BY <1>1, <1>6, Zenon DEF HostsUnchanged, update_disable
    <3> QED BY <1>1, <1>2, <3>1, <3>2, NoWorkFrame, Zenon
  <2>3. Left' = work' \/ work' = {EnableLeft(b, st)}
    <3>1. work' = {} \/ work' = {EnableLeft(b, st)}
      BY <1>6 DEF update_disable, EnableLeft
    <3> QED BY <2>2, <3>1
  <2>4. WorkInv'
    BY <1>1, <2>2, <2>3 DEF WorkInv, EnableLeft
  <2> QED BY <1>2, <2>1, <2>2, <2>4 DEF L3Inv
<1>7. CASE update_enable(b, st)
  BY <1>1, <1>3, <1>7, UpdateEnableKeeps
<1>8. CASE update_keep(b, st)
  <2>1. IfInv'
    <3>1. hfaults' \in 0..MaxFaults
      BY <1>2, <1>8 DEF update_keep, update_l3_interface, Refused, IfInv, Constants
    <3>2. UNCHANGED <<l3_intf, hw_l3, if_id_to_name_map, mac_once, hung>>
      BY <1>8, Zenon DEF update_keep, update_l3_interface
    <3> QED BY <1>2, <1>3, <3>1, <3>2, IfFrame
  <2>2. CASE reconfigure(b, st)
    BY <1>2, <1>4, <2>1, <2>2 DEF L3Inv
  <2>3. CASE work' = {} /\ UNCHANGED l3_asked
    BY <1>1, <1>2, <2>1, <2>3, AskedFrame, Zenon DEF L3Inv, HostsUnchanged
  <2> QED BY <1>8, <2>2, <2>3, Zenon DEF update_keep
<1> QED BY <1>5, <1>6, <1>7, <1>8 DEF bundle_update_l3_config

\* Its second half, after an interface went and before the next one comes.
LEMMA ReenableKeeps ==
    ASSUME Constants, L3Inv, update_reenable
    PROVE  L3Inv'
<1>1. PICK item \in Current : item.op = "enable" /\ update_enable(item.bundle, item.settings)
  BY DEF update_reenable
<1>2. item \in work /\ Left # work
  BY <1>1 DEF Current, Left
<1>3. PICK b \in bundles : \E st \in Settings[b] : work = {EnableLeft(b, st)}
  BY <1>2 DEF L3Inv, WorkInv
<1>4. PICK st \in Settings[b] : work = {EnableLeft(b, st)}
  BY <1>3
<1>5. item.bundle = b /\ item.settings = st /\ Left = {}
  BY <1>2, <1>4 DEF EnableLeft, Left
<1>6. HostsUnchanged /\ bundles' = bundles /\ b \in Bundle /\ bundles \subseteq Bundle
  BY DEF update_reenable, L3Inv, IfInv
<1> QED BY <1>1, <1>4, <1>5, <1>6, UpdateEnableKeeps

\* The L3 part of bundle_destroy.
LEMMA DestroyBundleKeeps ==
    ASSUME Constants, L3Inv, NEW b \in Bundle, bundle_destroy(b)
    PROVE  L3Inv'
<1>1. work = {} /\ Left = {} /\ HostsUnchanged /\ bundles' = bundles \ {b}
  BY DEF bundle_destroy, Idle, Left
<1>2. HostInv /\ AskedInv /\ IfInv /\ HostInv'
  BY <1>1, HostFrame DEF L3Inv, HostsUnchanged
<1>3. bundles' \subseteq Bundle /\ bundles \ {b} \subseteq bundles'
  BY <1>1, <1>2 DEF IfInv
<1>4. WorkInv' /\ AskedInv'
  BY <1>1, <1>2, UnconfigureWork, Zenon DEF bundle_destroy, HostInv, HostsUnchanged, WorkInv
<1>5. IfInv'
  <2>1. CASE l3_intf[b] # NULL
    BY <1>2, <1>3, <2>1, DisableKeeps DEF bundle_destroy
  <2>2. CASE l3_intf[b] = NULL
    <3>1. UNCHANGED <<l3_intf, hw_l3, if_id_to_name_map, mac_once, hung, hfaults>>
      BY <2>2 DEF bundle_destroy
    <3> QED BY <1>1, <1>2, <1>3, <2>2, <3>1, Zenon DEF IfInv, InterfaceReady
  <2> QED BY <2>1, <2>2
<1> QED BY <1>2, <1>4, <1>5 DEF L3Inv

\* A neighbour's slot is not an address of a bundle.
LEMMA NeighbourFrame ==
    ASSUME WorkInv, AskedInv, owner \in [Slot -> {NULL} \union Owned], NEW s \in Slot,
           s[2] = "neighbour", NEW o, owner' = [owner EXCEPT ![s] = o] \/ owner' = owner,
           work = {}, UNCHANGED work, UNCHANGED l3_asked
    PROVE  WorkInv' /\ AskedInv'
<1>1. \A t \in Slot : t[2] \in Kind => owner'[t] = owner[t]
  BY DEF Kind
<1> QED BY <1>1, AskedFrame

\* A neighbour is added (add_l3_host_entry).
LEMMA AddNeighbourKeeps ==
    ASSUME Constants, L3Inv, NEW b \in Bundle, NEW a \in Neighbour, NEW ok \in BOOLEAN,
           add_l3_host_entry(b, a, ok), UNCHANGED ifVars
    PROVE  L3Inv'
<1>1. PICK s : s = <<b, "neighbour", a>>
  BY Zenon
<1>2. s \in Slot /\ s[1] = b /\ s[2] = "neighbour" /\ s[3] = a /\ a \in Address
  BY <1>1, SlotMembers, Zenon DEF Address
<1>3. HostInv /\ WorkInv /\ AskedInv /\ IfInv /\ owner \in [Slot -> {NULL} \union Owned]
  BY DEF L3Inv, HostInv, EntriesTyped
<1>4. /\ UNCHANGED <<work, strayed, orphans>> /\ work = {} /\ UNCHANGED l3_asked
      /\ bundles' = bundles /\ UNCHANGED <<l3_intf, hw_l3, if_id_to_name_map, mac_once, hung>>
  BY DEF add_l3_host_entry, ifVars
<1>5. \A t \in Slot : t[2] = "neighbour" /\ t[3] = a => owner[t] = NULL
  <2> SUFFICES ASSUME NEW t \in Slot, t[2] = "neighbour", t[3] = a PROVE owner[t] = NULL
    OBVIOUS
  <2>1. t[1] \in Bundle /\ t = <<t[1], "neighbour", a>>
    BY SlotFacts
  <2> QED BY <2>1 DEF add_l3_host_entry
<1>6. MayHave(s, a) /\ ~Owns(s)
  BY <1>2, <1>5 DEF MayHave, Owns
<1>7. CASE /\ add_host_entry(a) /\ UNCHANGED hfaults
           /\ owner' = [owner EXCEPT ![s] = [address |-> a, id |-> AllocId, own |-> TRUE]]
  <2>1. HostInv'
    BY <1>2, <1>3, <1>4, <1>5, <1>6, <1>7, AddKeeps, Zenon
  <2>2. WorkInv' /\ AskedInv'
    BY <1>2, <1>3, <1>4, <1>7, NeighbourFrame, Zenon
  <2>3. IfInv'
    BY <1>3, <1>4, <1>7, IfFrame, Zenon DEF IfInv
  <2> QED BY <2>1, <2>2, <2>3 DEF L3Inv
<1>8. CASE /\ add_host_entry_fails /\ UNCHANGED owner
           /\ hfaults' = IF HwPlaces(a) = {} THEN hfaults ELSE hfaults + 1
           /\ hfaults' <= MaxFaults
  <2>1. HostInv'
    BY <1>3, <1>4, <1>8, FailKeeps
  <2>2. WorkInv' /\ AskedInv'
    BY <1>3, <1>4, <1>8, AskedFrame
  <2>3. hfaults' \in 0..MaxFaults
    BY <1>3, <1>8 DEF IfInv, Constants
  <2>4. IfInv'
    BY <1>3, <1>4, <2>3, IfFrame, Zenon DEF IfInv
  <2> QED BY <2>1, <2>2, <2>4 DEF L3Inv
<1> QED BY <1>1, <1>7, <1>8 DEF add_l3_host_entry

\* A neighbour is deleted (delete_l3_host_entry), whether or not its bundle still exists.
LEMMA DeleteNeighbourKeeps ==
    ASSUME Constants, L3Inv, NEW b \in Bundle, NEW a \in Neighbour, NEW ok \in BOOLEAN,
           NEW exists \in BOOLEAN, delete_l3_host_entry(b, a, exists, ok), UNCHANGED ifVars
    PROVE  L3Inv'
<1>1. PICK s : s = <<b, "neighbour", a>>
  BY Zenon
<1>2. s \in Slot /\ s[1] = b /\ s[2] = "neighbour" /\ s[3] = a /\ a \in Address
  BY <1>1, SlotMembers, Zenon DEF Address
<1>3. HostInv /\ WorkInv /\ AskedInv /\ IfInv /\ owner \in [Slot -> {NULL} \union Owned]
  BY DEF L3Inv, HostInv, EntriesTyped
<1>4. /\ UNCHANGED <<work, strayed>> /\ work = {} /\ UNCHANGED l3_asked
      /\ bundles' = bundles /\ UNCHANGED <<l3_intf, hw_l3, if_id_to_name_map, mac_once, hung>>
      /\ owner[s] # NULL /\ owner' = [owner EXCEPT ![s] = NULL]
  BY <1>1, Zenon DEF delete_l3_host_entry, ifVars
<1>5. WorkInv' /\ AskedInv'
  BY <1>2, <1>3, <1>4, NeighbourFrame, Zenon
<1>6. strayed' \in BOOLEAN
  BY <1>3, <1>4 DEF HostInv, EntriesTyped
<1>7. CASE /\ delete_host_entry(owner[s].id, ok) /\ Refused(ok) /\ UNCHANGED orphans
  <2>1. Owns(s)
    BY <1>2, <1>3, <1>4 DEF HostInv, SlotsInv, Owns
  <2>2. HostInv'
    BY <1>2, <1>3, <1>4, <1>6, <1>7, <2>1, DeleteKeeps, Zenon
  <2>3. hfaults' \in 0..MaxFaults
    BY <1>3, <1>7 DEF IfInv, Constants, Refused
  <2>4. IfInv'
    BY <1>3, <1>4, <2>3, IfFrame, Zenon DEF IfInv
  <2> QED BY <1>5, <2>2, <2>4 DEF L3Inv
<1>8. CASE /\ orphans' = orphans \union {a}
           /\ UNCHANGED <<host_id_map, dummy_host_list, next_host_id, hw_host, hfaults>>
  <2>1. PICK id : id = next_host_id
    OBVIOUS
  <2>2. id \notin DOMAIN host_id_map
    BY <1>3, <2>1 DEF HostInv, IdsUnique, EntriesTyped
  <2>3. delete_host_entry(id, ok)
    BY <1>8, <2>2 DEF delete_host_entry
  <2>4. orphans' \subseteq Address /\ orphans' # {}
    BY <1>2, <1>3, <1>8 DEF HostInv, EntriesTyped
  <2>5. HostInv'
    BY <1>2, <1>3, <1>4, <1>6, <2>2, <2>3, <2>4, LostKeeps, Zenon
  <2>6. IfInv'
    BY <1>3, <1>4, <1>8, IfFrame, Zenon DEF IfInv
  <2> QED BY <1>5, <2>5, <2>6 DEF L3Inv
<1> QED BY <1>1, <1>7, <1>8, Zenon DEF delete_l3_host_entry

\* The L3 manager is destroyed; entries the hardware refuses to delete stay in it.
LEMMA DestroyManagerKeeps ==
    ASSUME Constants, L3Inv, NEW kept \in SUBSET DOMAIN host_id_map, l3_mgr_destroy(kept),
           UNCHANGED ifVars
    PROVE  L3Inv'
<1>1. HostInv /\ WorkInv /\ AskedInv /\ IfInv /\ HostInv'
  BY DestroyKeeps DEF L3Inv
<1>2. WorkInv' /\ AskedInv'
  <2>1. \A t \in Slot : t[2] \in Kind => owner'[t] = owner[t]
    BY DEF l3_mgr_destroy, Kind
  <2> QED BY <1>1, <2>1, AskedFrame, Zenon DEF l3_mgr_destroy, ifVars
<1>3. hfaults' \in 0..MaxFaults
  BY <1>1 DEF l3_mgr_destroy, IfInv, Constants, Refused
<1>4. IfInv'
  BY <1>1, <1>3, IfFrame, Zenon DEF ifVars, IfInv
<1> QED BY <1>1, <1>2, <1>4 DEF L3Inv
-----------------------------------------------------------------------------
(* Theorems *)

\* The invariant holds at the start: no entries, no interfaces, no work.
LEMMA InitHolds ==
    ASSUME Constants, L3Init
    PROVE  L3Inv
<1>1. /\ host_id_map = <<>> /\ DOMAIN host_id_map = {} /\ dummy_host_list = <<>>
      /\ next_host_id = 0 /\ DOMAIN dummy_host_list = {}
      /\ work = {} /\ strayed = FALSE /\ orphans = {} /\ hfaults = 0
      /\ hw_host = [i \in Index |-> NULL] /\ owner = [s \in Slot |-> NULL]
  BY DEF L3Init, HostsInit
<1>2. /\ bundles = {} /\ l3_intf = [b \in Bundle |-> NULL] /\ hw_l3 = [i \in L3If |-> {}]
      /\ if_id_to_name_map = [i \in L3If |-> NULL] /\ mac_once = "new" /\ hung = FALSE
      /\ l3_asked = [b \in Bundle |-> [k \in Kind |-> NoAddress(k)]]
  BY DEF L3Init
<1>3. EntriesTyped
  <2>1. hw_host \in [Index -> Address \union {NULL}] /\ owner \in [Slot -> {NULL} \union Owned]
    BY <1>1
  <2>2. strayed \in BOOLEAN
    BY <1>1, Zenon
  <2>3. next_host_id \in Nat /\ dummy_host_list \in Seq(Nat)
    BY <1>1
  <2> QED BY <1>1, <2>1, <2>2, <2>3 DEF EntriesTyped
<1>4. IdsUnique
  BY <1>1 DEF IdsUnique, Range
<1>5. SlotsInv /\ KeepInv /\ MirrorInv
  BY <1>1, Zenon DEF SlotsInv, KeepInv, OwnersKeepHosts, Owns, MirrorInv, HostsMirrorHardware
<1>6. Left = {} /\ WorkInv
  BY <1>1, SoundEmpty, Zenon DEF Left, WorkInv
<1>7. AskedInv
  <2>1. PICK f : f = [k \in Kind |-> NoAddress(k)]
    BY Zenon
  <2>2. /\ f["ip4"] = NULL /\ f["ip6"] = NULL /\ f["secondary4"] = {} /\ f["secondary6"] = {}
        /\ f \in [Kind -> {NULL} \union Address \union SUBSET Address]
    BY <2>1 DEF Kind, NoAddress
  <2>3. l3_asked = [b \in Bundle |-> f]
    BY <1>2, <2>1
  <2>4. AskedTyped /\ \A b \in Bundle : l3_asked[b] = f
    BY <2>2, <2>3 DEF AskedTyped
  <2>5. ASSUME NEW t \in Slot, t[2] \in Kind, NEW a \in Address
        PROVE  ~Holds(Left, t, a) /\ ~AskedFor(t, a)
    <3>1. ~Holds(Left, t, a)
      BY <1>1, <1>6, Zenon DEF Holds
    <3>2. CASE t[2] \in Primary
      <4>1. l3_asked[t[1]][t[2]] = NULL
        BY <2>2, <2>4, <3>2, SlotFacts, Zenon DEF Primary
      <4> QED BY <3>1, <3>2, <4>1 DEF AskedFor, Constants
    <3>3. CASE t[2] \notin Primary
      <4>1. l3_asked[t[1]][t[2]] = {}
        BY <2>2, <2>4, <2>5, <3>3, SlotFacts, Zenon DEF Primary, Kind
      <4> QED BY <3>1, <3>3, <4>1 DEF AskedFor
    <3> QED BY <3>2, <3>3
  <2> QED BY <2>2, <2>4, <2>5 DEF AskedInv
<1>8. IfInv
  <2>1. hung \in BOOLEAN
    BY <1>2, Zenon
  <2>2. /\ l3_intf \in [Bundle -> {NULL} \union [id : L3If, vlan_id : Nat]]
        /\ hw_l3 \in [L3If -> SUBSET (Complete("system") \union Complete("internal"))]
        /\ if_id_to_name_map \in [L3If -> {NULL} \union Bundle]
        /\ \A b \in Bundle : l3_intf[b] = NULL
        /\ \A i \in L3If : if_id_to_name_map[i] = NULL
    BY <1>2
  <2>3. hfaults \in 0..MaxFaults
    BY <1>1 DEF Constants
  <2> QED BY <1>2, <2>1, <2>2, <2>3 DEF IfInv, InterfaceReady
<1> QED BY <1>3, <1>4, <1>5, <1>6, <1>7, <1>8 DEF L3Inv, HostInv

\* Nothing changes.
LEMMA StutterKeeps ==
    ASSUME L3Inv, UNCHANGED l3Vars
    PROVE  L3Inv'
<1>1. /\ UNCHANGED <<host_id_map, dummy_host_list, next_host_id, hw_host, owner, work, strayed,
                     orphans, hfaults>>
      /\ UNCHANGED <<bundles, l3_intf, hw_l3, if_id_to_name_map, mac_once, hung, l3_asked>>
  BY DEF l3Vars, hostVars, ifVars
<1>2. HostInv'
  BY <1>1, HostFrame DEF L3Inv
<1>3. Left' = Left /\ Sound(Left)'
  BY <1>1, Zenon DEF L3Inv, WorkInv, Left, Sound, MayHave, Owns
<1>4. WorkInv'
  BY <1>1, <1>3 DEF L3Inv, WorkInv, EnableLeft
<1>5. AskedInv'
  BY <1>1, <1>3, Zenon DEF L3Inv, AskedInv, AskedTyped, AskedFor, Holds
<1>6. IfInv'
  BY <1>1, Zenon DEF L3Inv, IfInv, InterfaceReady
<1> QED BY <1>2, <1>4, <1>5, <1>6 DEF L3Inv

\* The invariant is inductive: host entries, work, addresses and interfaces.
THEOREM L3Invariant ==
    ASSUME Constants
    PROVE  L3Spec => []L3Inv
<1>1. L3Init => L3Inv
  BY InitHolds
<1>2. L3Inv /\ [L3Next]_l3Vars => L3Inv'
  <2> SUFFICES ASSUME L3Inv, [L3Next]_l3Vars PROVE L3Inv'
    OBVIOUS
  <2>1. CASE do_work /\ UNCHANGED ifVars
    BY <2>1, WorkStep
  <2>2. CASE update_reenable
    BY <2>2, ReenableKeeps
  <2>3. ASSUME NEW b \in Bundle, NEW s \in Settings[b], bundle_update_l3_config(b, s)
        PROVE  L3Inv'
    BY <2>3, UpdateKeeps
  <2>4. ASSUME NEW b \in Bundle, bundle_destroy(b) PROVE L3Inv'
    BY <2>4, DestroyBundleKeeps
  <2>5. ASSUME NEW b \in Bundle, NEW a \in Neighbour, NEW ok \in BOOLEAN,
               add_l3_host_entry(b, a, ok), UNCHANGED ifVars
        PROVE  L3Inv'
    BY <2>5, AddNeighbourKeeps
  <2>6. ASSUME NEW b \in Bundle, NEW a \in Neighbour, NEW ok \in BOOLEAN,
               delete_l3_host_entry(b, a, b \in bundles, ok), UNCHANGED ifVars
        PROVE  L3Inv'
    <3>1. (b \in bundles) \in BOOLEAN
      OBVIOUS
    <3> QED BY <2>6, <3>1, DeleteNeighbourKeeps, Zenon
  <2>7. ASSUME NEW kept \in SUBSET DOMAIN host_id_map, l3_mgr_destroy(kept), UNCHANGED ifVars
        PROVE  L3Inv'
    BY <2>7, DestroyManagerKeeps
  <2>8. CASE UNCHANGED l3Vars
    BY <2>8, StutterKeeps
  <2> QED BY <2>1, <2>2, <2>3, <2>4, <2>5, <2>6, <2>7, <2>8, Zenon DEF L3Next
<1> QED BY <1>1, <1>2, PTL DEF L3Spec

\* The structures keep their types: no ID, address or interface of another kind gets
\* into the maps of ops-xp-routing.c, whatever calls the hardware refuses.
THEOREM L3TypesCorrect ==
    ASSUME Constants
    PROVE  L3Spec => []L3TypeOK
<1>1. L3Inv => L3TypeOK
  <2> SUFFICES ASSUME L3Inv PROVE L3TypeOK
    OBVIOUS
  <2>1. \A item \in work : item.op = "enable" \/ item \in Item
    BY Zenon DEF L3Inv, WorkInv, Sound, EnableLeft, Left
  <2>2. HostsTypeOK
    BY <2>1 DEF L3Inv, HostInv, EntriesTyped, Entry, IfInv, HostsTypeOK
  <2> QED BY <2>2, Zenon DEF L3Inv, IfInv, AskedInv, AskedTyped, L3TypeOK
<1> QED BY <1>1, L3Invariant, PTL

\* IDs of host entries are never lost and never used twice (host_entry_alloc,
\* host_entry_free).
THEOREM HostIdsUnique ==
    ASSUME Constants
    PROVE  L3Spec => []IdsUnique
<1>1. L3Inv => IdsUnique
  BY DEF L3Inv, HostInv
<1> QED BY <1>1, L3Invariant, PTL

\* Whoever was given the ID of a host entry still has that entry, unless a call
\* deleted an entry by an ID it was not given.
THEOREM OwnersKeepTheirHosts ==
    ASSUME Constants
    PROVE  L3Spec => []OwnersKeepHosts
<1>1. L3Inv => OwnersKeepHosts
  BY DEF L3Inv, HostInv, KeepInv
<1> QED BY <1>1, L3Invariant, PTL

\* A bundle with an L3 interface has one of its own that the hardware configured to
\* the last step (l3_*_iface_create, l3_iface_mac_set, bundle_update_l3_config).
THEOREM InterfacesReady ==
    ASSUME Constants
    PROVE  L3Spec => []InterfaceReady
<1>1. L3Inv => InterfaceReady
  BY DEF L3Inv, IfInv
<1> QED BY <1>1, L3Invariant, PTL

\* When a call has done its work, the addresses of a bundle are the ones it was last
\* asked for (port_ip_reconfigure, port_unconfigure_ips).
THEOREM AddressesMatch ==
    ASSUME Constants
    PROVE  L3Spec => []AddressesAsAsked
<1>1. L3Inv => AddressesAsAsked
  <2> SUFFICES ASSUME L3Inv, work = {}, NEW b \in Bundle
               PROVE  /\ \A kind \in {"ip4", "ip6"} :
                            l3_asked[b][kind] = IF owner[<<b, kind, NULL>>] = NULL THEN NULL
                                                ELSE owner[<<b, kind, NULL>>].address
                      /\ \A kind \in {"secondary4", "secondary6"} :
                            l3_asked[b][kind]
                              = {s[3] : s \in {s \in SlotsOf(b, kind) : owner[s] # NULL}}
    BY Zenon DEF AddressesAsAsked
  <2>1. \A s \in Slot : s[2] \in Kind => \A a \in Address :
           (owner[s] # NULL /\ owner[s].address = a) <=> AskedFor(s, a)
    BY Zenon DEF L3Inv, AskedInv, Holds, Left
  <2>2. \A s \in Slot : owner[s] # NULL =>
           owner[s].address \in Address /\ MayHave(s, owner[s].address)
    BY DEF L3Inv, HostInv, EntriesTyped, SlotsInv, Owned
  <2>3. ASSUME NEW kind \in {"ip4", "ip6"}, NEW s, s = <<b, kind, NULL>>
        PROVE  l3_asked[b][kind] = IF owner[s] = NULL THEN NULL ELSE owner[s].address
    <3>1. s \in Slot /\ s[1] = b /\ s[2] = kind /\ s[2] \in Kind /\ s[2] \in Primary
      BY <2>3, SlotMembers, Zenon DEF Kind, Primary
    <3>2. \A a \in Address : (owner[s] # NULL /\ owner[s].address = a) <=> l3_asked[b][kind] = a
      BY <2>1, <3>1 DEF AskedFor
    <3>3. l3_asked[b][kind] \in {NULL} \union Address
      BY DEF L3Inv, AskedInv, Address
    <3>4. CASE owner[s] = NULL
      BY <3>2, <3>3, <3>4
    <3>5. CASE owner[s] # NULL
      BY <2>2, <3>1, <3>2, <3>5
    <3> QED BY <3>4, <3>5
  <2>4. ASSUME NEW kind \in {"secondary4", "secondary6"}
        PROVE  l3_asked[b][kind] = {s[3] : s \in {s \in SlotsOf(b, kind) : owner[s] # NULL}}
    <3>1. \A s \in SlotsOf(b, kind) : /\ s \in Slot /\ s[1] = b /\ s[2] = kind
                                      /\ s[2] \in Kind /\ s[2] \notin Primary
      BY DEF SlotsOf, Kind, Primary
    <3>2. ASSUME NEW a \in l3_asked[b][kind]
          PROVE  \E s \in SlotsOf(b, kind) : owner[s] # NULL /\ s[3] = a
      <4>1. a \in Address /\ (kind = "secondary4" => a \in Address4)
            /\ (kind = "secondary6" => a \in Address6)
        BY <3>2 DEF L3Inv, AskedInv, Address
      <4>2. PICK s \in Slot : s = <<b, kind, a>>
        BY <4>1, SlotMembers, Zenon
      <4>3. s[1] = b /\ s[2] = kind /\ s[3] = a /\ s \in SlotsOf(b, kind)
        BY <4>2 DEF SlotsOf
      <4>4. AskedFor(s, a)
        BY <3>1, <3>2, <4>3 DEF AskedFor
      <4> QED BY <2>1, <3>1, <4>1, <4>3, <4>4, Zenon
    <3>3. ASSUME NEW s \in SlotsOf(b, kind), owner[s] # NULL
          PROVE  s[3] \in l3_asked[b][kind]
      <4>1. owner[s].address = s[3] /\ owner[s].address \in Address
        BY <2>2, <3>1, <3>3 DEF MayHave
      <4>2. AskedFor(s, s[3])
        BY <2>1, <3>1, <3>3, <4>1
      <4> QED BY <3>1, <4>2 DEF AskedFor
    <3> QED BY <3>2, <3>3
  <2> QED BY <2>3, <2>4, Zenon
<1> QED BY <1>1, L3Invariant, PTL

\* As long as no entry lost its owner, every host entry is in the hardware at the index
\* the software has for it, if no address is configured in two places (add_host_entry
\* with its rehash, delete_host_entry).
THEOREM HostsMirrored ==
    ASSUME Constants, OneHome
    PROVE  L3Spec => []HostsMirrorHardware
<1>1. L3Inv => HostsMirrorHardware
  BY DEF L3Inv, HostInv, MirrorInv, HostsMirrorHardware
<1> QED BY <1>1, L3Invariant, PTL
=============================================================================
