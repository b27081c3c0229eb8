------------------------------- MODULE L3Hosts -------------------------------
(***************************************************************************)
(* L3 host entries (ops-xp-routing.c) and those who own them: the IP       *)
(* addresses of a bundle and the neighbours that ovs-vswitchd resolves     *)
(* (ops-xp-ofproto-provider.c).  A host entry has an ID, which its owner   *)
(* keeps, and an index in the hardware's hash table, which changes when    *)
(* the insertion of another entry moves it.  IDs of deleted entries are    *)
(* used again, the last one first.                                         *)
(*                                                                         *)
(* The main thread alone calls these functions.  A call that works on      *)
(* several addresses is a first step that puts what is to be done, stage   *)
(* by stage, into `work' and one step for each add_host_entry and          *)
(* delete_host_entry; no other call starts before `work' is empty.         *)
(***************************************************************************)
EXTENDS Common, Integers, Sequences, Functions

CONSTANTS
    Bundle,             \* bundles that get IP addresses and neighbours
    Address4, Address6, \* addresses a bundle is configured with
    Neighbour,          \* addresses of neighbours
    Index,              \* indexes of the hardware's host table
    MaxIds              \* bound on the IDs: entries whose owner is lost add up

Address == Address4 \union Address6 \union Neighbour

VARIABLES
    host_id_map,        \* the host entries by ID; their index is their hash in host_map
    dummy_host_list,    \* IDs to be used again
    next_host_id,
    hw_host,            \* the hardware's table
    owner,              \* who keeps which ID: xp_net_addr_t, and the neighbours'
    work,               \* what is left to do of the current call
    strayed,            \* history: a call deleted an entry with an ID not its own
    orphans,            \* history: addresses with an entry that lost its owner
    hfaults             \* history: the calls that met a refusal of the hardware, full
                        \* table aside

hostVars == <<host_id_map, dummy_host_list, next_host_id, hw_host, owner, work,
              strayed, orphans, hfaults>>
-----------------------------------------------------------------------------
(* Types *)

\* Where an ID is kept: ip4addr and ip6addr of a bundle, its maps of secondary
\* addresses, and the l3_egress_id of a neighbour.
Slot == (Bundle \X {"ip4", "ip6"} \X {NULL})
           \union (Bundle \X {"secondary4"} \X Address4)
           \union (Bundle \X {"secondary6"} \X Address6)
           \union (Bundle \X {"neighbour"} \X Neighbour)
SlotsOf(b, kind) == {s \in Slot : s[1] = b /\ s[2] = kind}

\* `own' is history: the last add_host_entry for the slot succeeded, so that `id' is
\* the ID it returned.
Owned == [address : Address, id : Nat, own : BOOLEAN]

\* A piece of work: add `address' for a slot, or delete the slot's entry and, with
\* `drop', the slot itself.  "lost" is the deletion in the last loop of
\* port_unconfigure_ips, which reads the ID from the primary address if there is one.
\* The pieces of a stage are done in any order, after those of the stages before it.
Item == [op : {"add"}, stage : Nat, slot : Slot, address : Address]
           \union [op : {"delete"}, stage : Nat, slot : Slot, drop : BOOLEAN]
           \union [op : {"lost"}, stage : Nat, slot : Slot, primary : BOOLEAN]

HostsTypeOK ==
    /\ next_host_id \in Nat
    /\ DOMAIN host_id_map \subseteq Nat
    /\ \A id \in DOMAIN host_id_map : host_id_map[id] \in [address : Address, index : Index]
    /\ dummy_host_list \in Seq(Nat)
    /\ hw_host \in [Index -> Address \union {NULL}]
    /\ owner \in [Slot -> {NULL} \union Owned]
    /\ \A item \in work : item.op = "enable" \/ item \in Item
    /\ strayed \in BOOLEAN /\ orphans \subseteq Address /\ hfaults \in 0..MaxFaults
-----------------------------------------------------------------------------
(* Entries *)

\* Fault of AllocId: a new ID is taken although one is in the list.
AllocId_Next == next_host_id

\* host_entry_alloc: the ID it takes, and what is left.
AllocId == IF dummy_host_list = <<>> THEN next_host_id ELSE Head(dummy_host_list)
\* Fault of AfterAlloc: the ID stays in the list.
AfterAlloc_Kept == dummy_host_list

AfterAlloc == IF dummy_host_list = <<>> THEN <<>> ELSE Tail(dummy_host_list)
NextIdAfterAlloc == IF dummy_host_list = <<>> THEN next_host_id + 1 ELSE next_host_id

\* xpsL3AddIpHostEntry and xpsL3AddIpHostControlEntry: the index `hash' for the
\* address; the entry that was there, if any, moves to `rehash'.  An address that is
\* in the table keeps its index.
HwPlaces(address) ==
    LET at == {i \in Index : hw_host[i] = address}
        free == {i \in Index : hw_host[i] = NULL}
    IN  IF at # {} THEN {<<i, i>> : i \in at}
        ELSE {<<i, i>> : i \in free} \union ((Index \ free) \X free)

HwAdd(address, hash, rehash) ==
    [hw_host EXCEPT ![rehash] = hw_host[hash], ![hash] = address]

\* ops_xp_routing_add_host_entry when it fails: host_entry_free puts the ID that
\* was taken to the front of the list.  *l3_egress_id is left as it was.
add_host_entry_fails ==
    /\ dummy_host_list' = <<AllocId>> \o AfterAlloc
    /\ next_host_id' = NextIdAfterAlloc /\ next_host_id' <= MaxIds
    /\ UNCHANGED <<host_id_map, hw_host>>

\* Fault of add_host_entry: the entry that moved keeps its old hash.
add_host_entry_NoRehash(address) ==
    /\ \E place \in HwPlaces(address) :
         /\ host_id_map' = [id \in DOMAIN host_id_map \union {AllocId} |->
                              IF id = AllocId THEN [address |-> address, index |-> place[1]]
                              ELSE host_id_map[id]]
         /\ hw_host' = HwAdd(address, place[1], place[2])
    /\ next_host_id' = NextIdAfterAlloc /\ next_host_id' <= MaxIds
    /\ dummy_host_list' = AfterAlloc

\* ... and when it succeeds.  host_map follows the entry that moved.
add_host_entry(address) ==
    /\ \E place \in HwPlaces(address) :
         LET hash == place[1]
             rehash == place[2]
             moved == [id \in DOMAIN host_id_map |->
                         IF host_id_map[id].index = hash
                         THEN [host_id_map[id] EXCEPT !.index = rehash]
                         ELSE host_id_map[id]]
         IN  /\ host_id_map' = [id \in DOMAIN moved \union {AllocId} |->
                                  IF id = AllocId
                                  THEN [address |-> address, index |-> hash]
                                  ELSE moved[id]]
             /\ hw_host' = HwAdd(address, hash, rehash)
    /\ next_host_id' = NextIdAfterAlloc /\ next_host_id' <= MaxIds
    /\ dummy_host_list' = AfterAlloc

\* ops_xp_routing_delete_host_entry.  An unknown ID is a warning; an entry the
\* hardware does not remove is forgotten all the same.
delete_host_entry(id, ok) ==
    IF id \notin DOMAIN host_id_map
    THEN UNCHANGED <<host_id_map, dummy_host_list, next_host_id, hw_host>>
    ELSE /\ host_id_map' = Restrict(host_id_map, DOMAIN host_id_map \ {id})
         /\ dummy_host_list' = <<id>> \o dummy_host_list
         /\ hw_host' = IF ok THEN [hw_host EXCEPT ![host_id_map[id].index] = NULL]
                       ELSE hw_host
         /\ UNCHANGED next_host_id

Refused(ok) ==
    /\ ~ok => hfaults < MaxFaults
    /\ hfaults' = IF ok THEN hfaults ELSE hfaults + 1
-----------------------------------------------------------------------------
(* Work *)

\* What is next: the pieces of the first stage that is left.
Current == {item \in work : \A other \in work : item.stage <= other.stage}

\* The struct is allocated, with 0 as its ID, if there is none; then the host entry
\* is added.  The caller ignores the outcome.
do_add(item, ok) ==
    /\ item.op = "add"
    /\ LET s == item.slot
           id == IF owner[s] = NULL THEN 0 ELSE owner[s].id
       IN  \/ /\ ok /\ add_host_entry(item.address)
              /\ owner' = [owner EXCEPT ![s] = [address |-> item.address,
                                                id |-> AllocId, own |-> TRUE]]
              /\ UNCHANGED hfaults
           \/ /\ ~ok /\ add_host_entry_fails
              /\ hfaults' = IF HwPlaces(item.address) = {} THEN hfaults ELSE hfaults + 1
              /\ hfaults' <= MaxFaults
              /\ owner' = [owner EXCEPT ![s] = [address |-> item.address,
                                                id |-> id, own |-> FALSE]]
    /\ UNCHANGED <<strayed, orphans>>

do_delete(item, ok) ==
    /\ item.op = "delete"
    /\ LET s == item.slot
           id == owner[s].id
       IN  /\ id \notin DOMAIN host_id_map => ok
           /\ delete_host_entry(id, ok)
           /\ owner' = [owner EXCEPT ![s] = IF item.drop THEN NULL
                                            ELSE [@ EXCEPT !.own = FALSE]]
           /\ strayed' = (strayed \/ (~owner[s].own /\ id \in DOMAIN host_id_map))
    /\ Refused(ok)
    /\ UNCHANGED orphans

\* bundle->ip6addr->id is read after bundle->ip6addr was freed: any value.  Without a
\* primary IPv6 address the pointer is null and the program ends: no step.
do_delete_lost(item, ok) ==
    /\ item.op = "lost" /\ item.primary
    /\ \E id \in 0..next_host_id :
          /\ id \notin DOMAIN host_id_map => ok
          /\ delete_host_entry(id, ok)
          /\ strayed' = (strayed \/ id \in DOMAIN host_id_map)
    /\ owner' = [owner EXCEPT ![item.slot] = NULL]
    /\ orphans' = orphans \union {owner[item.slot].address}
    /\ Refused(ok)

do_work ==
    \E item \in Current, ok \in BOOLEAN :
       /\ do_add(item, ok) \/ do_delete(item, ok) \/ do_delete_lost(item, ok)
       /\ work' = work \ {item}

-----------------------------------------------------------------------------
(* Addresses of a bundle *)

Delete(n, s, drop) == [op |-> "delete", stage |-> n, slot |-> s, drop |-> drop]
Add(n, s, a) == [op |-> "add", stage |-> n, slot |-> s, address |-> a]

\* Fault of PrimaryWork: an address that was removed is taken for one that changed.
PrimaryWork_Changed(n, b, kind, a) ==
    LET s == <<b, kind, NULL>>
    IN  IF owner[s] = NULL THEN {Add(n + 1, s, a)} ELSE {Delete(n, s, FALSE), Add(n + 1, s, a)}

\* A primary address of port_ip_reconfigure, in the stages n and n + 1; `a' is NULL
\* when it was removed.
PrimaryWork(n, b, kind, a) ==
    LET s == <<b, kind, NULL>>
        old == owner[s]
    IN  CASE a # NULL /\ old = NULL -> {Add(n + 1, s, a)}
          [] a # NULL /\ old # NULL -> IF old.address = a THEN {}
                                       ELSE {Delete(n, s, FALSE), Add(n + 1, s, a)}
          [] a = NULL -> IF old = NULL THEN {} ELSE {Delete(n, s, TRUE)}

\* Fault of SecondaryWork: obsolete addresses stay.
SecondaryWork_AddOnly(n, b, kind, as) ==
    {Add(n, s, s[3]) : s \in {s \in SlotsOf(b, kind) : owner[s] = NULL /\ s[3] \in as}}

\* port_config_secondary_ipv4_addr and port_config_secondary_ipv6_addr: the
\* obsolete addresses go, then the new ones come; others are left alone.
SecondaryWork(n, b, kind, as) ==
    {Delete(n, s, TRUE) : s \in {s \in SlotsOf(b, kind) : owner[s] # NULL /\ s[3] \notin as}}
      \union
    {Add(n + 1, s, s[3]) : s \in {s \in SlotsOf(b, kind) : owner[s] = NULL /\ s[3] \in as}}

\* port_ip_reconfigure.  ip_change says which of the settings count.
port_ip_reconfigure(b, s) ==
    (IF "ip4" \in s.ip_change THEN PrimaryWork(1, b, "ip4", s.ip4) ELSE {})
      \union (IF "ip6" \in s.ip_change THEN PrimaryWork(3, b, "ip6", s.ip6) ELSE {})
      \union (IF "secondary4" \in s.ip_change
              THEN SecondaryWork(5, b, "secondary4", s.secondary4) ELSE {})
      \union (IF "secondary6" \in s.ip_change
              THEN SecondaryWork(7, b, "secondary6", s.secondary6) ELSE {})

\* port_unconfigure_ips.
port_unconfigure_ips(b) ==
    LET InUse(kind) == {s \in SlotsOf(b, kind) : owner[s] # NULL}
        Drop(n, kind) == {Delete(n, s, TRUE) : s \in InUse(kind)}
    IN  Drop(1, "ip4") \union Drop(2, "secondary4") \union Drop(3, "ip6")
          \union {[op |-> "lost", stage |-> 4, slot |-> s, primary |-> InUse("ip6") # {}] :
                     s \in InUse("secondary6")}
-----------------------------------------------------------------------------
(* Neighbours.  ovs-vswitchd keeps the ID of an entry that was added. *)

add_l3_host_entry(b, a, ok) ==
    LET s == <<b, "neighbour", a>>
    IN  /\ work = {} /\ \A c \in Bundle : owner[<<c, "neighbour", a>>] = NULL
        /\ \/ /\ ok /\ add_host_entry(a)
              /\ owner' = [owner EXCEPT ![s] = [address |-> a, id |-> AllocId,
                                                own |-> TRUE]]
              /\ UNCHANGED hfaults
           \/ /\ ~ok /\ add_host_entry_fails
              /\ hfaults' = IF HwPlaces(a) = {} THEN hfaults ELSE hfaults + 1
              /\ hfaults' <= MaxFaults
              /\ UNCHANGED owner
        /\ UNCHANGED <<work, strayed, orphans>>

\* Without its bundle nothing is deleted, and the ID is forgotten.
delete_l3_host_entry(b, a, exists, ok) ==
    LET s == <<b, "neighbour", a>>
    IN  /\ work = {} /\ owner[s] # NULL
        /\ owner' = [owner EXCEPT ![s] = NULL]
        /\ \/ /\ exists
              /\ owner[s].id \notin DOMAIN host_id_map => ok
              /\ delete_host_entry(owner[s].id, ok)
              /\ Refused(ok)
              /\ UNCHANGED orphans
           \/ /\ ~exists /\ ok
              /\ orphans' = orphans \union {a}
              /\ UNCHANGED <<host_id_map, dummy_host_list, next_host_id, hw_host, hfaults>>
        /\ UNCHANGED <<work, strayed>>

\* The part of ops_xp_l3_mgr_destroy about hosts, once every bundle is gone, and the
\* creation of the next manager.  The hardware may keep entries.
l3_mgr_destroy(kept) ==
    /\ work = {}
    /\ \A s \in Slot : owner[s] # NULL => s[2] = "neighbour"
    /\ kept \subseteq DOMAIN host_id_map
    /\ Refused(kept = {})
    /\ hw_host' = [i \in Index |->
                     IF \E id \in DOMAIN host_id_map \ kept : host_id_map[id].index = i
                     THEN NULL ELSE hw_host[i]]
    /\ host_id_map' = <<>> /\ dummy_host_list' = <<>> /\ next_host_id' = 0
    /\ owner' = [s \in Slot |-> NULL] /\ orphans' = {}
    /\ UNCHANGED <<work, strayed>>

-----------------------------------------------------------------------------
(* Properties *)

\* Every host entry is in the hardware at the index the software has for it, however
\* often later insertions moved it, and no two entries share an index: deleting by
\* index removes the entry that was meant (add_host_entry with hash # rehash,
\* delete_host_entry).  Once an entry has lost its owner, its address may be added a
\* second time; what the hardware makes of that is not known.
HostsMirrorHardware ==
    orphans = {} =>
        /\ \A id \in DOMAIN host_id_map :
              hw_host[host_id_map[id].index] = host_id_map[id].address
        /\ \A i, j \in DOMAIN host_id_map :
              host_id_map[i].index = host_id_map[j].index => i = j

\* IDs are never lost and never used twice: each one handed out so far is either that
\* of one entry or once in the list of IDs to be used again (host_entry_alloc and
\* host_entry_free, on the failing paths of add_host_entry too).
IdsUnique ==
    /\ \A i, j \in DOMAIN dummy_host_list :
          dummy_host_list[i] = dummy_host_list[j] => i = j
    /\ Range(dummy_host_list) \intersect DOMAIN host_id_map = {}
    /\ Range(dummy_host_list) \union DOMAIN host_id_map = 0..(next_host_id - 1)

\* Whoever was given the ID of a host entry still has that entry, as long as no call
\* deleted an entry by an ID it was not given (`strayed').
OwnersKeepHosts ==
    ~strayed => \A s \in Slot : owner[s] # NULL /\ owner[s].own =>
                   /\ owner[s].id \in DOMAIN host_id_map
                   /\ host_id_map[owner[s].id].address = owner[s].address

\* Every host entry belongs to an address of a bundle or to a neighbour: what
\* port_unconfigure_ips promises, "unconfigure and free all port ip's".
HostsHaveOwners ==
    work = {} => \A id \in DOMAIN host_id_map :
                      \E s \in Slot : owner[s] # NULL /\ owner[s].id = id
-----------------------------------------------------------------------------
HostsInit ==
    /\ host_id_map = <<>> /\ dummy_host_list = <<>> /\ next_host_id = 0
    /\ hw_host = [i \in Index |-> NULL]
    /\ owner = [s \in Slot |-> NULL]
    /\ work = {} /\ strayed = FALSE /\ orphans = {} /\ hfaults = 0
=============================================================================
