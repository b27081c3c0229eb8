---------------------------- MODULE MacLearning ----------------------------
(***************************************************************************)
(* The MAC learning component (ops-xp-mac-learning.c): the software table  *)
(* ml->table, a copy of the hardware forwarding database (FDB) keyed by    *)
(* the hardware index of each entry, and the two buffers of learn and      *)
(* expire events the bridge reads.                                         *)
(*                                                                         *)
(* Every handler runs under the write lock ml->rwlock.  A handler that     *)
(* touches one entry is one step; a handler that loops over the table      *)
(* keeps the lock over several steps, one per entry of `todo'; a learning  *)
(* event is checked against the VLAN table in one step and applied in the  *)
(* next, because the VLAN table changes without ml->rwlock.                *)
(*                                                                         *)
(* The hardware (the xpsFdb calls) is external.  Any call may fail.  An    *)
(* entry that is added takes a free slot, or takes the slot `index' of     *)
(* another entry, which the hardware moves to the free slot `reHashIndex'. *)
(***************************************************************************)
EXTENDS Naturals, Sequences, FiniteSets

CONSTANTS
    Vlan, Mac, Intf,    \* VLAN IDs, unicast MAC addresses, interface IDs
    Index,              \* slots of the hardware FDB
    MaxEntries,         \* ml->max_entries
    BufferSize,         \* BUFFER_SIZE, nodes of one event buffer
    NoEntry, NoVlan, NoTable, NoData, NoIntf

ASSUME BufferSizeAssumption == BufferSize \in Nat \ {0}
ASSUME MaxEntriesAssumption == MaxEntries \in Nat
ASSUME SentinelAssumption ==
    /\ NoEntry \notin [vlanId : Vlan, macAddr : Mac, intfId : Intf,
                      isStatic : BOOLEAN]
    /\ NoVlan \notin Vlan
    /\ NoTable \notin {0, 1}
    /\ NoIntf \notin Intf
    /\ NoData \notin [fdb : [vlanId : Vlan, macAddr : Mac, intfId : Intf,
                             isStatic : BOOLEAN],
                      reasonCode : {"SA_NEW", "SA_MOVE"}]

VARIABLES
    hw,                 \* the hardware FDB
    table,              \* ml->table
    mlearn,             \* the event buffers
    plugin_interface,   \* ml->plugin_interface # NULL
    vlans,              \* VLANs that exist (vlan_mgr->table[].is_existing)
    holder,             \* the thread that holds ml->rwlock for writing
    pending,            \* the learning event its holder is about to apply
    todo,               \* the entries its holder has yet to expire
    removing,           \* the VLAN set_vlan has removed and is about to flush
    reading,            \* the event buffer the bridge is reading
    failed              \* history: removed VLANs whose flush the hardware refused

vars == <<hw, table, mlearn, plugin_interface, vlans, holder, pending, todo,
          removing, reading, failed>>
-----------------------------------------------------------------------------
(* Types *)

\* xpsFdbEntry_t.  pktCmd, isControl and serviceInstId are the same in every
\* entry this build installs.
FdbEntry == [vlanId : Vlan, macAddr : Mac, intfId : Intf, isStatic : BOOLEAN]

\* struct xp_mac_entry: hash is hmap_node.hash.
MacEntry == [hash : Index, fdb : FdbEntry]

\* struct mlearn_hmap_node.
Node == [hash : Index, vlan : Vlan, mac : Mac, port : Intf,
         oper : {"MLEARN_ADD", "MLEARN_DEL"}]

\* struct xp_ml_learning_data.  XP_BRIDGE_RC_IVIF_SA_MISS is handled as SA_NEW,
\* other reason codes change nothing.
LearningData == [fdb : FdbEntry, reasonCode : {"SA_NEW", "SA_MOVE"}]

\* What the bridge is told of an entry.
Report == [vlan : Vlan, mac : Mac, port : Intf]

\* mlearn.tables and mlearn.curr are mlearn_event_tables and
\* curr_mlearn_table_in_use.  The nodes of a table are in the order in which
\* they were put in buffer.nodes, so Len is buffer.actual_size.
\* mlearn.handed is history: the bindings in the buffers handed to the bridge
\* that no later event of the same key has made stale.
MlearnState == [curr : {0, 1}, tables : [{0, 1} -> Seq(Node)],
                handed : SUBSET Report]

Key(f) == <<f.vlanId, f.macAddr>>
ReportOf(f) == [vlan |-> f.vlanId, mac |-> f.macAddr, port |-> f.intfId]

\* A node of a buffer without its place.
ReportOfNode(n) == [vlan |-> n.vlan, mac |-> n.mac, port |-> n.port]
-----------------------------------------------------------------------------
(* The event buffers *)

Current(m) == m.tables[m.curr]

\* Faults of process_mlearn: the index of the table in use is not toggled but
\* counted up, and the table taken into use is not emptied.
process_mlearn_CountsUp(m) ==
    IF plugin_interface /\ Current(m) # <<>>
    THEN [m EXCEPT !.curr = @ + 1]
    ELSE m

process_mlearn_NotCleared(m) ==
    IF plugin_interface /\ Current(m) # <<>>
    THEN [m EXCEPT !.curr = 1 - @]
    ELSE m

\* Hands the current table over and goes on with the other one, emptied.
\* Without the plugin nothing happens.
process_mlearn(m) ==
    IF plugin_interface /\ Current(m) # <<>>
    THEN [curr |-> 1 - m.curr,
          tables |-> [m.tables EXCEPT ![1 - m.curr] = <<>>],
          handed |-> m.handed \union
                     {ReportOfNode(n) : n \in
                         {Current(m)[p] : p \in
                             {q \in 1..Len(Current(m)) :
                                 Current(m)[q].oper = "MLEARN_ADD"}}}]
    ELSE m

\* ops_xp_mac_learning_mlearn_entry_fill_data.
NodeFor(f, hash, oper) ==
    [hash |-> hash, vlan |-> f.vlanId, mac |-> f.macAddr, port |-> f.intfId,
     oper |-> oper]

\* The places of the nodes with a hash, and the one hmap_first_with_hash finds:
\* hmap_insert puts a node in front of its bucket, and the buckets, reserved for
\* BUFFER_SIZE nodes in ops_xp_mac_learning_create, are never rearranged.
Places(q, hash) == {p \in 1..Len(q) : q[p].hash = hash}
Newest(q, hash) ==
    CHOOSE p \in Places(q, hash) : \A r \in Places(q, hash) : r <= p

\* Fault of AddNode: the node of an entry that was moved is lost.
AddNode_NoCopy(q, f, index, reHashIndex, oper) ==
    IF Places(q, index) # {}
    THEN [q EXCEPT ![Newest(q, index)] = NodeFor(f, index, oper)]
    ELSE IF Len(q) < BufferSize THEN Append(q, NodeFor(f, index, oper)) ELSE q

\* The table after an event: a node at the same index is overwritten, after it
\* has been copied to reHashIndex if the hardware moved its entry there.
AddNode(q, f, index, reHashIndex, oper) ==
    LET room == Len(q) < BufferSize
        p == Newest(q, index)
        moved == IF index # reHashIndex /\ room
                 THEN Append(q, [q[p] EXCEPT !.hash = reHashIndex])
                 ELSE q
    IN  IF Places(q, index) # {}
        THEN [moved EXCEPT ![p] = NodeFor(f, index, oper)]
        ELSE IF room THEN Append(q, NodeFor(f, index, oper)) ELSE q

\* What the bridge was told that an event of f's key does not make stale.
Fresh(handed, f) == {r \in handed : <<r.vlan, r.mac>> # Key(f)}

\* Fault of mlearn_action_add: a full table waits for the timer.
mlearn_action_add_NoNotify(m, f, index, reHashIndex, oper) ==
    [m EXCEPT !.tables[m.curr] = AddNode(@, f, index, reHashIndex, oper),
              !.handed = Fresh(@, f)]

mlearn_action_add(m, f, index, reHashIndex, oper) ==
    LET q == AddNode(Current(m), f, index, reHashIndex, oper)
        added == [m EXCEPT !.tables[m.curr] = q, !.handed = Fresh(@, f)]
    IN  IF Len(q) = BufferSize THEN process_mlearn(added) ELSE added
-----------------------------------------------------------------------------
(* Threads and the lock *)

LockFree == holder = "none"

\* The main thread runs set_vlan, bundle_set, the timers, the unixctl commands
\* and the bridge's reader: one at a time.
MainIdle == holder # "main" /\ removing = NoVlan /\ reading = NoTable

\* The handler of the lock's holder is done.
Unlock == holder' = "none" /\ pending' = NoData /\ todo' = {}

Init ==
    /\ hw = [i \in Index |-> NoEntry]
    /\ table = {}
    /\ mlearn = [curr |-> 0, tables |-> [t \in {0, 1} |-> <<>>], handed |-> {}]
    /\ plugin_interface \in BOOLEAN
    /\ vlans = {}
    /\ holder = "none"
    /\ pending = NoData
    /\ todo = {}
    /\ removing = NoVlan
    /\ reading = NoTable
    /\ failed = {}
-----------------------------------------------------------------------------
(* Learning *)

\* The entries a table lookup by index can return, and by key.
EntriesAt(index) == {e \in table : e.hash = index}
EntriesOf(key) == {e \in table : Key(e.fdb) = key}

\* ops_xp_mac_learning_lookup, when there is an entry.
lookup(index) == CHOOSE e \in table : e.hash = index

\* The hardware's slots of a key (xpsFdbFindEntry, xpsFdbRemoveEntry).
HwSlots(key) == {i \in Index : hw[i] # NoEntry /\ Key(hw[i]) = key}

\* Where the hardware can put a new entry: <<index, reHashIndex>>.
HwPlacements ==
    {p \in Index \X Index :
        hw[p[2]] = NoEntry /\ (hw[p[1]] = NoEntry => p[1] = p[2])}

\* Some of the slots are cleared: each removal may fail.
HwClearSome(h, slots) ==
    {[i \in Index |-> IF i \in s THEN NoEntry ELSE h[i]] : s \in SUBSET slots}

may_learn(f) == f.vlanId \in vlans

\* A packet with an unknown source address, or with a known one on another
\* interface, reaches the receive thread: ops_xp_mac_learning_on_learning.
on_learning(d) ==
    /\ LockFree
    /\ ~d.fdb.isStatic
    /\ may_learn(d.fdb)
    /\ holder' = "rx"
    /\ pending' = d
    /\ UNCHANGED <<hw, table, mlearn, plugin_interface, vlans, todo, removing,
                   reading, failed>>

\* The operator adds an entry: xp_unixctl_fdb_add_entry.
fdb_add_entry(f) ==
    /\ MainIdle
    /\ LockFree
    /\ may_learn(f)
    /\ holder' = "main"
    /\ pending' = [fdb |-> f, reasonCode |-> "SA_NEW"]
    /\ UNCHANGED <<hw, table, mlearn, plugin_interface, vlans, todo, removing,
                   reading, failed>>

\* Fault of Relocate: the displaced entry keeps its old index.
Relocate_Skipped(i, j) == table

\* The software table after the hardware put f at i and moved the entry that
\* was there to j.
Relocate(i, j) ==
    IF i = j THEN table
    ELSE (table \ {lookup(i)}) \union {[lookup(i) EXCEPT !.hash = j]}

\* ops_xp_mac_learning_insert, once the hardware has accepted f.  If the entry
\* that was displaced is not known to the software table both are removed.
insert(f, i, j) ==
    LET added == [hw EXCEPT ![j] = hw[i], ![i] = f]
    IN  IF i # j /\ EntriesAt(i) = {}
        THEN /\ hw' \in HwClearSome(added, {i, j})
             /\ UNCHANGED <<table, mlearn>>
        ELSE /\ hw' = added
             /\ table' = Relocate(i, j) \union {[hash |-> i, fdb |-> f]}
             /\ mlearn' = mlearn_action_add(mlearn, f, i, j, "MLEARN_ADD")

\* ops_xp_mac_learning_learn, SA_NEW: the key is not in the hardware, the
\* software table has room and the hardware takes the entry.
LearnNew ==
    /\ pending # NoData
    /\ pending.reasonCode = "SA_NEW"
    /\ HwSlots(Key(pending.fdb)) = {}
    /\ Cardinality(table) < MaxEntries
    /\ \E p \in HwPlacements : insert(pending.fdb, p[1], p[2])
    /\ Unlock
    /\ UNCHANGED <<plugin_interface, vlans, removing, reading, failed>>

\* Fault of ExpireOk: no event is recorded.
ExpireOk_Silent(e) ==
    /\ hw' = [hw EXCEPT ![e.hash] = NoEntry]
    /\ table' = table \ {e}
    /\ UNCHANGED mlearn

\* ops_xp_mac_learning_expire: nothing changes if the hardware fails.
ExpireOk(e) ==
    /\ hw' = [hw EXCEPT ![e.hash] = NoEntry]
    /\ table' = table \ {e}
    /\ mlearn' = mlearn_action_add(mlearn, e.fdb, e.hash, e.hash, "MLEARN_DEL")
ExpireFailed == UNCHANGED <<hw, table, mlearn>>

\* ops_xp_mac_learning_learn, SA_MOVE, the software entry e of the moved key at
\* index i: the entry and its event are updated first, then the hardware; if
\* that fails the entry is expired, if that fails too it stays.
UpdateEntry(e, i, intfId) ==
    LET upd == [e EXCEPT !.fdb.intfId = intfId]
        events == mlearn_action_add(mlearn, upd.fdb, i, i, "MLEARN_ADD")
    IN  \/ /\ hw' = [hw EXCEPT ![i] = upd.fdb]
           /\ table' = (table \ {e}) \union {upd}
           /\ mlearn' = events
        \/ /\ hw' = [hw EXCEPT ![i] = NoEntry]
           /\ table' = table \ {e}
           /\ mlearn' = mlearn_action_add(events, upd.fdb, i, i, "MLEARN_DEL")
        \/ /\ table' = (table \ {e}) \union {upd}
           /\ mlearn' = events
           /\ UNCHANGED hw

LearnMove ==
    /\ pending # NoData
    /\ pending.reasonCode = "SA_MOVE"
    /\ \E i \in HwSlots(Key(pending.fdb)) :
          IF EntriesAt(i) = {}
          THEN /\ hw' \in HwClearSome(hw, {i})
               /\ UNCHANGED <<table, mlearn>>
          ELSE UpdateEntry(lookup(i), i, pending.fdb.intfId)
    /\ Unlock
    /\ UNCHANGED <<plugin_interface, vlans, removing, reading, failed>>

\* The event is dropped: the hardware lookup fails or finds a key that should
\* be new, the table is full or the hardware refuses the entry.
LearnRejected ==
    /\ pending # NoData
    /\ Unlock
    /\ UNCHANGED <<hw, table, mlearn, plugin_interface, vlans, removing, reading,
                   failed>>
-----------------------------------------------------------------------------
(* Expiry *)

\* The hardware's age FIFO holds an index: on_idle_timer_expired, on_aging,
\* age_by_index.
on_aging(index) ==
    /\ MainIdle
    /\ LockFree
    /\ \E e \in EntriesAt(index) : ExpireOk(e)
    /\ UNCHANGED <<plugin_interface, vlans, holder, pending, todo, removing,
                   reading, failed>>

\* The operator removes an entry: xp_unixctl_fdb_remove_entry.
fdb_remove_entry(key) ==
    /\ MainIdle
    /\ LockFree
    /\ key[1] \in vlans
    /\ \E e \in EntriesOf(key) : ExpireOk(e)
    /\ UNCHANGED <<plugin_interface, vlans, holder, pending, todo, removing,
                   reading, failed>>

\* A thread takes the lock and will expire the entries in victims.
Flush(thread, victims) ==
    /\ LockFree
    /\ victims # {}
    /\ holder' = thread
    /\ todo' = victims
    /\ UNCHANGED <<hw, table, mlearn, plugin_interface, vlans, pending, reading,
                   failed>>

\* xp_unixctl_fdb_flush.
flush(dynamic_only) ==
    /\ MainIdle
    /\ Flush("main", {e \in table : ~dynamic_only \/ ~e.fdb.isStatic})
    /\ UNCHANGED removing

\* bundle_flush_macs: all the entries of the interface.
flush_intfId(intfId) ==
    /\ MainIdle
    /\ Flush("main", {e \in table : e.fdb.intfId = intfId})
    /\ UNCHANGED removing

\* The link went down, seen by the port event thread: the dynamic entries.
on_port_down(intfId) ==
    /\ Flush("port", {e \in table : e.fdb.intfId = intfId /\ ~e.fdb.isStatic})
    /\ UNCHANGED removing

\* ops_xp_vlan_member_remove's flush.
flush_vlan_intf(vlan, intfId) ==
    /\ MainIdle
    /\ Flush("main", {e \in table : e.fdb.vlanId = vlan /\ e.fdb.intfId = intfId})
    /\ UNCHANGED removing

\* One round of a flush loop; the last one releases the lock.
FlushStep ==
    /\ \E e \in todo :
          /\ \/ ExpireOk(e) /\ UNCHANGED failed
             \/ /\ ExpireFailed
                /\ failed' = IF e.fdb.vlanId \in vlans THEN failed
                             ELSE failed \union {e.fdb.vlanId}
          /\ todo' = todo \ {e}
    /\ holder' = IF todo' = {} THEN "none" ELSE holder
    /\ UNCHANGED <<plugin_interface, vlans, pending, removing, reading>>
-----------------------------------------------------------------------------
(* VLANs: ofproto_xpliant_set_vlan, in the main thread, without ml->rwlock *)

set_vlan_add(vid) ==
    /\ MainIdle
    /\ vid \notin vlans
    /\ vlans' = vlans \union {vid}
    /\ failed' = failed \ {vid}
    /\ UNCHANGED <<hw, table, mlearn, plugin_interface, holder, pending, todo,
                   removing, reading>>

\* The VLAN is removed, or kept because it still has members; the flush of its
\* entries follows.  The loop before it, which takes the bundles out of the VLAN,
\* is a sequence of flush_vlan_intf steps here (set_vlan returns if one fails).
\* If the hardware refuses the removal the VLAN is gone in software all the same
\* and set_vlan returns without the flush.
set_vlan_del(vid) ==
    /\ MainIdle
    /\ \/ /\ vlans' \in {vlans \ {vid}, vlans}
          /\ removing' = vid
          /\ UNCHANGED failed
       \/ /\ vid \in vlans
          /\ vlans' = vlans \ {vid}
          /\ failed' = failed \union {vid}
          /\ UNCHANGED removing
    /\ UNCHANGED <<hw, table, mlearn, plugin_interface, holder, pending, todo,
                   reading>>

\* Fault of on_vlan_removed: static entries are kept.
on_vlan_removed_DynamicOnly ==
    LET victims == {e \in table : e.fdb.vlanId = removing /\ ~e.fdb.isStatic}
    IN  /\ removing # NoVlan
        /\ removing' = NoVlan
        /\ LockFree
        /\ holder' = IF victims = {} THEN "none" ELSE "main"
        /\ todo' = victims
        /\ UNCHANGED <<hw, table, mlearn, plugin_interface, vlans, pending,
                       reading, failed>>

\* ops_xp_mac_learning_on_vlan_removed: waits for the lock, then flushes.
on_vlan_removed ==
    LET victims == {e \in table : e.fdb.vlanId = removing}
    IN  /\ removing # NoVlan
        /\ removing' = NoVlan
        /\ LockFree
        /\ holder' = IF victims = {} THEN "none" ELSE "main"
        /\ todo' = victims
        /\ UNCHANGED <<hw, table, mlearn, plugin_interface, vlans, pending,
                       reading, failed>>
-----------------------------------------------------------------------------
(* Reports to the bridge *)

\* Fault of on_mlearn_timer_expired: only a full table is handed over.
on_mlearn_timer_expired_WhenFull ==
    /\ MainIdle
    /\ LockFree
    /\ Len(Current(mlearn)) = BufferSize
    /\ mlearn' = process_mlearn(mlearn)
    /\ UNCHANGED <<hw, table, plugin_interface, vlans, holder, pending, todo,
                   removing, reading, failed>>

on_mlearn_timer_expired ==
    /\ MainIdle
    /\ LockFree
    /\ mlearn' = process_mlearn(mlearn)
    /\ UNCHANGED <<hw, table, plugin_interface, vlans, holder, pending, todo,
                   removing, reading, failed>>

\* The bridge gets the table that is not in use and reads it, without the lock.
hmap_get ==
    /\ MainIdle
    /\ LockFree
    /\ mlearn.tables[1 - mlearn.curr] # <<>>
    /\ reading' = 1 - mlearn.curr
    /\ UNCHANGED <<hw, table, mlearn, plugin_interface, vlans, holder, pending,
                   todo, removing, failed>>

\* The bridge has read it.
ReaderDone ==
    /\ reading # NoTable
    /\ reading' = NoTable
    /\ UNCHANGED <<hw, table, mlearn, plugin_interface, vlans, holder, pending,
                   todo, removing, failed>>
-----------------------------------------------------------------------------
Next ==
    \/ \E d \in LearningData : on_learning(d)
    \/ \E f \in FdbEntry : fdb_add_entry(f)
    \/ LearnNew
    \/ LearnMove
    \/ LearnRejected
    \/ \E i \in Index : on_aging(i)
    \/ \E k \in Vlan \X Mac : fdb_remove_entry(k)
    \/ \E dynamic_only \in BOOLEAN : flush(dynamic_only)
    \/ \E i \in Intf : flush_intfId(i)
    \/ \E i \in Intf : on_port_down(i)
    \/ \E v \in Vlan, i \in Intf : flush_vlan_intf(v, i)
    \/ FlushStep
    \/ \E v \in Vlan : set_vlan_add(v)
    \/ \E v \in Vlan : set_vlan_del(v)
    \/ on_vlan_removed
    \/ on_mlearn_timer_expired
    \/ hmap_get
    \/ ReaderDone

Spec == Init /\ [][Next]_vars

\* A handler that holds the lock goes on, and so does the bridge when it reads.
\* Whoever waits for ml->rwlock gets it in the end, however often it is taken:
\* the main thread blocks in on_vlan_removed and in the timer's handler, which
\* ofproto_xpliant's run calls in every round of the main loop.
Fairness ==
    /\ WF_vars(LearnNew \/ LearnMove \/ LearnRejected)
    /\ WF_vars(FlushStep)
    /\ WF_vars(ReaderDone)
    /\ SF_vars(on_vlan_removed)
    /\ SF_vars(on_mlearn_timer_expired)

FairSpec == Spec /\ Fairness
-----------------------------------------------------------------------------
(* Properties *)

\* The values the state variables take (struct xp_mac_learning).
TypeOK ==
    /\ hw \in [Index -> FdbEntry \union {NoEntry}]
    /\ table \in SUBSET MacEntry
    /\ mlearn \in MlearnState
    /\ plugin_interface \in BOOLEAN
    /\ vlans \in SUBSET Vlan
    /\ holder \in {"none", "rx", "main", "port"}
    /\ pending \in LearningData \union {NoData}
    /\ todo \in SUBSET MacEntry
    /\ removing \in Vlan \union {NoVlan}
    /\ reading \in {0, 1, NoTable}
    /\ failed \in SUBSET Vlan

\* The software table and the hardware FDB hold the same (VLAN, MAC) pairs at
\* the same indices, each pair once: whatever call fails, and however the
\* hardware relocates entries, ops_xp_mac_learning_lookup finds the entry the
\* hardware means and the recovery code for an unknown index is never needed.
FdbInSync ==
    /\ \A i \in Index :
          /\ hw[i] = NoEntry => EntriesAt(i) = {}
          /\ hw[i] # NoEntry => \E e \in table :
                /\ EntriesAt(i) = {e}
                /\ Key(e.fdb) = Key(hw[i])
    /\ \A e, g \in table : Key(e.fdb) = Key(g.fdb) => e = g

\* With a plugin registered the buffer in use always has a free node, so no
\* event of mlearn_action_add is dropped for want of room, the copy it makes
\* on a relocation included.
BufferHasRoom == plugin_interface => Len(Current(mlearn)) < BufferSize

\* A buffered MLEARN_ADD is true when it is handed over: it names an entry that
\* is in the table, at the node's index and on the node's port.  Expiry,
\* relocation by the hardware and a failed update each rewrite the node.
PendingAddIsLive ==
    plugin_interface =>
        \A p \in 1..Len(Current(mlearn)) :
            LET n == Current(mlearn)[p]
            IN  n.oper = "MLEARN_ADD" =>
                    \E e \in EntriesAt(n.hash) : ReportOf(e.fdb) = ReportOfNode(n)

\* Every entry has been reported to the bridge with the port it has now, or
\* its MLEARN_ADD is in the buffer in use: coalescing events by index never
\* loses the addition of a live entry.
EveryEntryReported ==
    plugin_interface =>
        \A e \in table :
            \/ ReportOf(e.fdb) \in mlearn.handed
            \/ \E p \in 1..Len(Current(mlearn)) :
                  /\ Current(mlearn)[p].oper = "MLEARN_ADD"
                  /\ ReportOfNode(Current(mlearn)[p]) = ReportOf(e.fdb)

\* An entry outlives its VLAN only until the flush that set_vlan starts after
\* the removal has reached it, or if the hardware refused the removal: a
\* learning event checked before the removal is applied before the flush.
NoEntryOutlivesVlan ==
    \A e \in table :
        \/ e.fdb.vlanId \in vlans \union failed
        \/ e.fdb.vlanId = removing
        \/ e \in todo

\* The buffer the bridge reads is not the one events are added to ("in order to
\* allow simultaneous read access to bridge.c and ops-xp-mac-learning.c code
\* from different threads", ops-xp-mac-learning.h).
ReaderUndisturbed == reading # NoTable => reading # mlearn.curr

\* The expiry of an entry that has been reported is reported: once the bridge
\* has an MLEARN_ADD of a (VLAN, MAC) pair in the table handed to it, an
\* MLEARN_DEL of that pair leaves the buffer in use only for a later event of
\* the same pair ("Tables which store mac learning events destined for main
\* processing in OPS mac-learning-plugin", ops-xp-mac-learning.h).
ExpiryReported ==
    [][LET before == Current(mlearn)
           after == mlearn'.tables[mlearn.curr]
           handed == mlearn.tables[1 - mlearn.curr]
           SamePair(n, q, opers) ==
               \E r \in 1..Len(q) : /\ q[r].vlan = n.vlan /\ q[r].mac = n.mac
                                    /\ q[r].oper \in opers
       IN  \A p \in 1..Len(before) :
              /\ before[p].oper = "MLEARN_DEL"
              /\ SamePair(before[p], handed, {"MLEARN_ADD"})
              => SamePair(before[p], after, {"MLEARN_ADD", "MLEARN_DEL"})]_vars
-----------------------------------------------------------------------------
(* The service the component implements *)

\* The interface a key is bound to in the software table.
BoundTo(key) ==
    IF EntriesOf(key) = {} THEN NoIntf
    ELSE (CHOOSE e \in EntriesOf(key) : TRUE).fdb.intfId

\* The keys with an entry the bridge has not been handed.
Owed == {key \in Vlan \X Mac :
            \E e \in EntriesOf(key) : ReportOf(e.fdb) \notin mlearn.handed}

Service == INSTANCE FdbService
    WITH Keys <- Vlan \X Mac,
         fdb <- [key \in Vlan \X Mac |-> BoundTo(key)],
         owed <- Owed

\* The component implements FdbService: each handler changes at most one
\* binding at a time, and whenever reports are handed over, by the timer or by
\* a full buffer in the middle of a handler, no live entry is left out of them.
ServiceSpec == Service!Spec

\* An entry that has not been reported is reported in the end (the mlearn timer
\* of on_mlearn_timer_expired), or it is removed before that.
EventuallyReported ==
    \A key \in Vlan \X Mac :
        (plugin_interface /\ key \in Owed) ~> key \notin Owed
=============================================================================
