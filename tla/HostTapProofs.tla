---------------------------- MODULE HostTapProofs ----------------------------
(***************************************************************************)
(* Proofs about HostTap: the maps of TAP interfaces, the listener's copy   *)
(* of the descriptors and the packets on their way agree for any number of *)
(* ports and descriptors, whatever the three threads interleave.           *)
(***************************************************************************)
EXTENDS HostTap, TLAPS

\* NULL stands for no descriptor and no port, and the other files are no TAP interface.
Constants == /\ NULL \notin Fd /\ NULL \notin Port /\ NULL \notin TapEntry
             /\ Other # NULL /\ Other \notin Port
-----------------------------------------------------------------------------
(* The inductive invariant *)

HasEntry(fd) == fd_to_tap_if_map[fd] # NULL
MainHas(fd) == tap_main.pc \in {"insert", "close"} /\ tap_main.fd = fd

\* What MapsConsistent needs besides itself: netdevs and entries point to each other, and
\* a descriptor that is open for a TAP interface has an entry, unless tap_if_create has
\* not inserted it yet or tap_if_delete is about to close it.
MapsInv ==
    /\ MapsConsistent
    /\ \A fd \in Fd : HasEntry(fd) => xpnet_if_id[fd_to_tap_if_map[fd].if_id] = fd
    /\ \A p \in Port : xpnet_if_id[p] # NULL =>
          HasEntry(xpnet_if_id[p]) /\ fd_to_tap_if_map[xpnet_if_id[p]].if_id = p
    /\ \A fd \in Fd : file[fd] \in Port => HasEntry(fd) \/ MainHas(fd)
    /\ tap_main.pc \in {"insert", "close"} =>
          /\ ~HasEntry(tap_main.fd) /\ file[tap_main.fd] \in Port
          /\ xpnet_if_id[file[tap_main.fd]] = NULL
    /\ tap_main.pc = "insert" => file[tap_main.fd] = tap_main.port

\* What select returned can still be read unless it was closed; a packet that was read
\* came from the file that is still there.
ListenerInv ==
    /\ listener.pc \in {"ready", "lookup", "send"} =>
          \A fd \in listener.set \ listener.lost : Readable(fd)
    /\ listener.pc = "lookup" /\ listener.fd \notin listener.lost =>
          listener.packet = file[listener.fd] /\ file[listener.fd] # NULL
    /\ listener.pc = "send" /\ listener.fd \notin listener.lost =>
          listener.packet = listener.egress

DriverInv ==
    driver.pc = "write" /\ driver.fd \notin driver.lost => file[driver.fd] = driver.if_id

IInv == TapTypeOK /\ MapsInv /\ NoLostWakeup /\ ListenerInv /\ DriverInv
-----------------------------------------------------------------------------
(* Entries of the maps *)

\* A flag of an entry changes and nothing else of it.
LEMMA EntryFlags ==
    ASSUME NEW e \in TapEntry, NEW flag \in BOOLEAN
    PROVE  /\ [e EXCEPT !.filter_created = flag] \in TapEntry
           /\ [e EXCEPT !.filter_created = flag].if_id = e.if_id
           /\ [e EXCEPT !.filter_created = flag].filter_created = flag
           /\ [e EXCEPT !.control = flag] \in TapEntry
           /\ [e EXCEPT !.control = flag].if_id = e.if_id
           /\ [e EXCEPT !.control = flag].filter_created = e.filter_created
BY DEF TapEntry

\* The descriptor a netdev was given has its entry.
LEMMA EntryOfNetdev ==
    ASSUME Constants, TapTypeOK, MapsInv, NEW p \in Port, xpnet_if_id[p] # NULL
    PROVE  /\ xpnet_if_id[p] \in Fd /\ fd_to_tap_if_map[xpnet_if_id[p]] \in TapEntry
           /\ fd_to_tap_if_map[xpnet_if_id[p]].if_id = p
           /\ if_id_to_tap_if_map[p] \in {NULL, xpnet_if_id[p]}
<1>1. xpnet_if_id[p] \in Fd /\ HasEntry(xpnet_if_id[p])
      /\ fd_to_tap_if_map[xpnet_if_id[p]].if_id = p
  BY DEF TapTypeOK, MapsInv
<1>2. fd_to_tap_if_map[xpnet_if_id[p]] \in TapEntry
  BY <1>1 DEF TapTypeOK, HasEntry
<1>3. ASSUME if_id_to_tap_if_map[p] # NULL PROVE if_id_to_tap_if_map[p] = xpnet_if_id[p]
  <2>1. PICK fd \in Fd : fd = if_id_to_tap_if_map[p]
    BY <1>3 DEF TapTypeOK
  <2>2. fd \in read_fd_set /\ fd_to_tap_if_map[fd].if_id = p
    BY <1>3, <2>1 DEF MapsInv, MapsConsistent
  <2>3. HasEntry(fd)
    BY <2>2 DEF MapsInv, MapsConsistent, HasEntry
  <2> QED BY <2>1, <2>2, <2>3 DEF MapsInv
<1> QED BY <1>1, <1>2, <1>3

\* The entry of one descriptor changes its flags; if its filter comes or goes, so does
\* its place in if_id_to_tap_if_map.
LEMMA EntryChanges ==
    ASSUME Constants, TapTypeOK, MapsInv, NEW fd \in Fd, HasEntry(fd), NEW e \in TapEntry,
           e.if_id = fd_to_tap_if_map[fd].if_id,
           fd_to_tap_if_map' = [fd_to_tap_if_map EXCEPT ![fd] = e],
           NEW entry \in {NULL, fd},
           if_id_to_tap_if_map' = [if_id_to_tap_if_map EXCEPT ![e.if_id] = entry],
           e.filter_created <=> entry = fd,
           UNCHANGED <<file, xpnet_if_id, read_fd_set, tap_main>>
    PROVE  MapsInv'
<1>1. e # NULL /\ e.if_id \in Port /\ fd # NULL
  BY DEF Constants, TapEntry
<1>2. /\ fd_to_tap_if_map'[fd] = e
      /\ \A g \in Fd : g # fd => fd_to_tap_if_map'[g] = fd_to_tap_if_map[g]
      /\ \A g \in Fd : HasEntry(g)' <=> HasEntry(g)
      /\ \A g \in Fd : HasEntry(g) =>
            fd_to_tap_if_map'[g].if_id = fd_to_tap_if_map[g].if_id
  BY <1>1 DEF TapTypeOK, HasEntry
<1>3. /\ if_id_to_tap_if_map'[e.if_id] = entry
      /\ \A p \in Port : p # e.if_id => if_id_to_tap_if_map'[p] = if_id_to_tap_if_map[p]
  BY <1>1 DEF TapTypeOK
<1>4. \A g \in Fd : HasEntry(g) /\ g # fd => fd_to_tap_if_map[g].if_id # e.if_id
  BY DEF MapsInv
<1>5. \A g \in Fd : HasEntry(g) => fd_to_tap_if_map[g].if_id \in Port
  BY DEF HasEntry, TapTypeOK, TapEntry
<1>6. MapsConsistent'
  <2>1. read_fd_set' = {g \in Fd : fd_to_tap_if_map'[g] # NULL}
    BY <1>2 DEF MapsInv, MapsConsistent, HasEntry
  <2>2. ASSUME NEW g \in read_fd_set'
        PROVE  /\ file'[g] = fd_to_tap_if_map'[g].if_id
               /\ fd_to_tap_if_map'[g].filter_created
                     <=> if_id_to_tap_if_map'[fd_to_tap_if_map'[g].if_id] = g
    <3>1. g \in Fd /\ g \in read_fd_set /\ HasEntry(g)
      BY <2>2 DEF MapsInv, MapsConsistent, HasEntry
    <3>2. file'[g] = fd_to_tap_if_map'[g].if_id
      BY <3>1, <1>2 DEF MapsInv, MapsConsistent
    <3>3. CASE g = fd
      BY <3>2, <3>3, <1>2, <1>3
    <3>4. CASE g # fd
      BY <3>1, <3>2, <3>4, <1>2, <1>3, <1>4, <1>5 DEF MapsInv, MapsConsistent
    <3> QED BY <3>3, <3>4
  <2>3. ASSUME NEW p \in Port, if_id_to_tap_if_map'[p] # NULL
        PROVE  /\ if_id_to_tap_if_map'[p] \in read_fd_set'
               /\ fd_to_tap_if_map'[if_id_to_tap_if_map'[p]].if_id = p
    <3>1. CASE p = e.if_id
      BY <2>3, <3>1, <1>2, <1>3 DEF MapsInv, MapsConsistent, HasEntry
    <3>2. CASE p # e.if_id
      <4>1. if_id_to_tap_if_map'[p] = if_id_to_tap_if_map[p]
        BY <3>2, <1>3
      <4>2. if_id_to_tap_if_map[p] \in read_fd_set
            /\ fd_to_tap_if_map[if_id_to_tap_if_map[p]].if_id = p
        BY <2>3, <4>1 DEF MapsInv, MapsConsistent
      <4>3. if_id_to_tap_if_map[p] \in Fd /\ HasEntry(if_id_to_tap_if_map[p])
        BY <4>2 DEF MapsInv, MapsConsistent, HasEntry
      <4> QED BY <4>1, <4>2, <4>3, <1>2
    <3> QED BY <3>1, <3>2
  <2> QED BY <2>1, <2>2, <2>3 DEF MapsConsistent
<1>7. \A g \in Fd : HasEntry(g)' => xpnet_if_id'[fd_to_tap_if_map'[g].if_id] = g
  BY <1>2 DEF MapsInv
<1>8. \A p \in Port : xpnet_if_id'[p] # NULL =>
         HasEntry(xpnet_if_id[p])' /\ fd_to_tap_if_map'[xpnet_if_id'[p]].if_id = p
  BY <1>2 DEF MapsInv, TapTypeOK, HasEntry
<1>9. \A g \in Fd : file'[g] \in Port => HasEntry(g)' \/ MainHas(g)'
  BY <1>2 DEF MapsInv, MainHas
<1>10. tap_main.pc \in {"insert", "close"} => tap_main.fd \in Fd
  BY DEF TapTypeOK, TapIdle
<1>11. tap_main'.pc \in {"insert", "close"} =>
          /\ ~HasEntry(tap_main.fd)' /\ file'[tap_main'.fd] \in Port
          /\ xpnet_if_id'[file'[tap_main'.fd]] = NULL
  BY <1>2, <1>10 DEF MapsInv, HasEntry
<1>12. tap_main'.pc = "insert" => file'[tap_main'.fd] = tap_main'.port
  BY DEF MapsInv
<1> QED BY <1>6, <1>7, <1>8, <1>9, <1>11, <1>12 DEF MapsInv
-----------------------------------------------------------------------------
(* The main thread: types and maps *)

\* What the maps say does not depend on the rest.
LEMMA MapsFrame ==
    ASSUME MapsInv,
           UNCHANGED <<file, xpnet_if_id, fd_to_tap_if_map, if_id_to_tap_if_map, read_fd_set,
                       tap_main>>
    PROVE  MapsInv'
BY DEF MapsInv, MapsConsistent, HasEntry, MainHas

\* A TAP interface has one descriptor.
LEMMA OneDescriptor ==
    ASSUME Constants, TapTypeOK, MapsInv, NEW fd \in Fd, NEW g \in Fd,
           file[fd] \in Port, file[g] = file[fd]
    PROVE  g = fd
<1>1. \A h \in Fd : HasEntry(h) => xpnet_if_id[file[h]] = h
  BY DEF MapsInv, MapsConsistent, HasEntry
<1>2. \A h \in Fd : MainHas(h) => xpnet_if_id[file[h]] = NULL
  BY DEF MapsInv, MainHas
<1>3. (HasEntry(fd) \/ MainHas(fd)) /\ (HasEntry(g) \/ MainHas(g))
  BY DEF MapsInv
<1>4. CASE HasEntry(fd)
  BY <1>1, <1>2, <1>3, <1>4 DEF Constants
<1>5. CASE MainHas(fd)
  BY <1>1, <1>2, <1>3, <1>5 DEF Constants, MainHas
<1> QED BY <1>3, <1>4, <1>5

\* tap_if_create opens a descriptor without an entry.
LEMMA CreateMaps ==
    ASSUME Constants, TapTypeOK, MapsInv, NEW p \in Port, NEW fd \in Fd, tap_if_create(p, fd)
    PROVE  TapTypeOK' /\ MapsInv'
<1>1. TapTypeOK'
  BY DEF tap_if_create, TapTypeOK, netdevs, maps
<1>2. ~HasEntry(fd) /\ fd \notin read_fd_set
  BY DEF tap_if_create, MapsInv, MapsConsistent, HasEntry, TapTypeOK, TapEntry, Constants
<1>3. /\ file'[fd] = p /\ \A g \in Fd : g # fd => file'[g] = file[g]
      /\ xpnet_if_id' = xpnet_if_id /\ fd_to_tap_if_map' = fd_to_tap_if_map
      /\ if_id_to_tap_if_map' = if_id_to_tap_if_map /\ read_fd_set' = read_fd_set
      /\ tap_main'.pc = "insert" /\ tap_main'.fd = fd /\ tap_main'.port = p
      /\ tap_main.pc = "idle" /\ xpnet_if_id[p] = NULL
  BY DEF tap_if_create, TapTypeOK, netdevs, maps, TapIdle
<1>4. MapsConsistent'
  <2>1. read_fd_set \subseteq Fd
    BY DEF TapTypeOK
  <2> QED BY <1>2, <1>3, <2>1 DEF MapsInv, MapsConsistent
<1>5. \A g \in Fd : file'[g] \in Port => HasEntry(g)' \/ MainHas(g)'
  BY <1>3 DEF MapsInv, HasEntry, MainHas
<1>6. /\ \A g \in Fd : HasEntry(g)' => xpnet_if_id'[fd_to_tap_if_map'[g].if_id] = g
      /\ \A q \in Port : xpnet_if_id'[q] # NULL =>
            HasEntry(xpnet_if_id[q])' /\ fd_to_tap_if_map'[xpnet_if_id'[q]].if_id = q
  BY <1>3 DEF MapsInv, HasEntry
<1>7. ~HasEntry(tap_main.fd)' /\ file'[tap_main'.fd] = p /\ xpnet_if_id'[p] = NULL
  BY <1>2, <1>3 DEF HasEntry
<1> QED BY <1>1, <1>3, <1>4, <1>5, <1>6, <1>7 DEF MapsInv

\* tap_if_filter_create marks the entry and makes it known by its interface ID.
LEMMA FilterCreateMaps ==
    ASSUME Constants, TapTypeOK, MapsInv, NEW p \in Port, tap_if_filter_create(p)
    PROVE  TapTypeOK' /\ MapsInv'
<1>1. PICK fd \in Fd : fd = xpnet_if_id[p] /\ fd_to_tap_if_map[fd] \in TapEntry
                       /\ fd_to_tap_if_map[fd].if_id = p
  BY EntryOfNetdev DEF tap_if_filter_create
<1>0. PICK e : e = [fd_to_tap_if_map[fd] EXCEPT !.filter_created = TRUE]
  BY Zenon
<1>2. e \in TapEntry /\ e.if_id = p /\ e.filter_created = TRUE
  <2>1. TRUE \in BOOLEAN
    OBVIOUS
  <2> QED BY <1>1, <1>0, <2>1, EntryFlags, Zenon
<1>3. fd_to_tap_if_map' = [fd_to_tap_if_map EXCEPT ![fd] = e]
  BY <1>1, <1>0, <1>2, Zenon DEF tap_if_filter_create
<1>4. /\ if_id_to_tap_if_map' = [if_id_to_tap_if_map EXCEPT ![e.if_id] = fd]
      /\ UNCHANGED <<file, packets, xpnet_if_id, read_fd_set, if_upd, tap_main, listener,
                     driver>>
      /\ xpnet_port_filter_id' = [xpnet_port_filter_id EXCEPT ![p] = TRUE]
  BY <1>1, <1>0, <1>2, Zenon DEF tap_if_filter_create
<1>5. TapTypeOK'
  BY <1>2, <1>3, <1>4 DEF TapTypeOK
<1>6. HasEntry(fd)
  BY <1>1 DEF HasEntry, Constants
<1>7. MapsInv'
  BY <1>1, <1>2, <1>3, <1>4, <1>6, EntryChanges, Zenon
<1> QED BY <1>5, <1>7

\* tap_if_filter_delete undoes both, if they were done.
LEMMA FilterDeleteMaps ==
    ASSUME Constants, TapTypeOK, MapsInv, NEW p \in Port, tap_if_filter_delete(p)
    PROVE  TapTypeOK' /\ MapsInv'
<1>1. /\ fd_to_tap_if_map' = FilterDeleted(p, fd_to_tap_if_map)
      /\ if_id_to_tap_if_map' = [if_id_to_tap_if_map EXCEPT ![p] = NULL]
      /\ UNCHANGED <<file, packets, xpnet_if_id, read_fd_set, if_upd, tap_main, listener,
                     driver>>
      /\ xpnet_port_filter_id' = [xpnet_port_filter_id EXCEPT ![p] = FALSE]
  BY DEF tap_if_filter_delete
<1>2. CASE if_id_to_tap_if_map[p] = NULL
  <2>1. fd_to_tap_if_map' = fd_to_tap_if_map /\ if_id_to_tap_if_map' = if_id_to_tap_if_map
    BY <1>1, <1>2 DEF FilterDeleted, TapTypeOK
  <2>2. TapTypeOK'
    BY <1>1, <2>1 DEF TapTypeOK
  <2> QED BY <1>1, <2>1, <2>2, MapsFrame
<1>3. CASE if_id_to_tap_if_map[p] # NULL
  <2>1. PICK fd \in Fd : fd = if_id_to_tap_if_map[p]
    BY <1>3 DEF TapTypeOK
  <2>2. fd \in read_fd_set /\ fd_to_tap_if_map[fd].if_id = p
    BY <1>3, <2>1 DEF MapsInv, MapsConsistent
  <2>3. HasEntry(fd) /\ fd_to_tap_if_map[fd] \in TapEntry
    BY <2>2 DEF MapsInv, MapsConsistent, HasEntry, TapTypeOK
  <2>0. PICK e : e = [fd_to_tap_if_map[fd] EXCEPT !.filter_created = FALSE]
    BY Zenon
  <2>4. e \in TapEntry /\ e.if_id = p /\ e.filter_created = FALSE
    <3>1. FALSE \in BOOLEAN
      OBVIOUS
    <3> QED BY <2>2, <2>3, <2>0, <3>1, EntryFlags, Zenon
  <2>5. fd_to_tap_if_map' = [fd_to_tap_if_map EXCEPT ![fd] = e]
    BY <1>1, <1>3, <2>1, <2>0, Zenon DEF FilterDeleted
  <2>6. TapTypeOK'
    BY <1>1, <2>4, <2>5 DEF TapTypeOK
  <2>7. MapsInv'
    <3>1. NULL \in {NULL, fd} /\ (e.filter_created <=> NULL = fd)
      BY <2>4 DEF Constants
    <3>2. if_id_to_tap_if_map' = [if_id_to_tap_if_map EXCEPT ![e.if_id] = NULL]
      BY <1>1, <2>4
    <3>3. e.if_id = fd_to_tap_if_map[fd].if_id
      BY <2>2, <2>4
    <3> QED BY <1>1, <2>3, <2>4, <2>5, <3>1, <3>2, <3>3, EntryChanges, Zenon
  <2> QED BY <2>6, <2>7
<1> QED BY <1>2, <1>3

\* tap_if_control_id_set touches the flag only.
LEMMA ControlMaps ==
    ASSUME Constants, TapTypeOK, MapsInv, NEW p \in Port, NEW set \in BOOLEAN,
           tap_if_control_id_set(p, set)
    PROVE  TapTypeOK' /\ MapsInv'
<1>1. PICK fd \in Fd : /\ fd = xpnet_if_id[p] /\ fd_to_tap_if_map[fd] \in TapEntry
                       /\ fd_to_tap_if_map[fd].if_id = p /\ if_id_to_tap_if_map[p] \in {NULL, fd}
  BY EntryOfNetdev DEF tap_if_control_id_set
<1>0. PICK e : e = [fd_to_tap_if_map[fd] EXCEPT !.control = set]
  BY Zenon
<1>2. /\ e \in TapEntry /\ e.if_id = p
      /\ e.filter_created = fd_to_tap_if_map[fd].filter_created
  <2>1. PICK old \in TapEntry : old = fd_to_tap_if_map[fd]
    BY <1>1
  <2>2. e = [old EXCEPT !.control = set]
    BY <1>0, <2>1
  <2>3. e \in TapEntry /\ e.if_id = old.if_id /\ e.filter_created = old.filter_created
    BY <2>2, EntryFlags, Zenon
  <2> QED BY <1>1, <2>1, <2>3
<1>3. fd_to_tap_if_map' = [fd_to_tap_if_map EXCEPT ![fd] = e]
  BY <1>1, <1>0, Zenon DEF tap_if_control_id_set
<1>4. UNCHANGED <<file, packets, xpnet_if_id, xpnet_port_filter_id, if_id_to_tap_if_map,
                  read_fd_set, if_upd, tap_main, listener, driver>>
  BY DEF tap_if_control_id_set, netdevs
<1>5. TapTypeOK'
  BY <1>2, <1>3, <1>4 DEF TapTypeOK
<1>6. HasEntry(fd)
  BY <1>1 DEF HasEntry, Constants
<1>7. PICK entry \in {NULL, fd} : entry = if_id_to_tap_if_map[p]
  BY <1>1
<1>8. e.filter_created <=> entry = fd
  BY <1>1, <1>2, <1>6, <1>7 DEF MapsInv, MapsConsistent, HasEntry
<1>9. if_id_to_tap_if_map' = [if_id_to_tap_if_map EXCEPT ![e.if_id] = entry]
  BY <1>2, <1>4, <1>7 DEF TapTypeOK
<1>10. MapsInv'
  BY <1>1, <1>2, <1>3, <1>4, <1>6, <1>8, <1>9, EntryChanges, Zenon
<1> QED BY <1>5, <1>10

\* tap_if_delete takes the entry from both maps and from the set.
LEMMA DeleteMaps ==
    ASSUME Constants, TapTypeOK, MapsInv, NEW p \in Port, tap_if_delete(p)
    PROVE  TapTypeOK' /\ MapsInv'
<1>1. PICK fd \in Fd : /\ fd = xpnet_if_id[p] /\ fd_to_tap_if_map[fd] \in TapEntry
                       /\ fd_to_tap_if_map[fd].if_id = p /\ if_id_to_tap_if_map[p] \in {NULL, fd}
  BY EntryOfNetdev DEF tap_if_delete
<1>2. /\ if_id_to_tap_if_map' = [if_id_to_tap_if_map EXCEPT ![p] = NULL]
      /\ read_fd_set' = read_fd_set \ {fd}
      /\ xpnet_if_id' = [xpnet_if_id EXCEPT ![p] = NULL]
      /\ xpnet_port_filter_id' = [xpnet_port_filter_id EXCEPT ![p] = FALSE]
      /\ tap_main = TapIdle /\ tap_main' = [pc |-> "close", fd |-> fd]
      /\ UNCHANGED <<file, packets, if_upd, listener, driver>>
      /\ fd_to_tap_if_map' = [FilterDeleted(p, fd_to_tap_if_map) EXCEPT ![fd] = NULL]
  BY <1>1 DEF tap_if_delete
<1>3. fd_to_tap_if_map' = [fd_to_tap_if_map EXCEPT ![fd] = NULL]
  <2>1. CASE if_id_to_tap_if_map[p] = NULL
    BY <1>2, <2>1 DEF FilterDeleted
  <2>2. CASE if_id_to_tap_if_map[p] # NULL
    <3>1. PICK e : e = [fd_to_tap_if_map[fd] EXCEPT !.filter_created = FALSE]
      BY Zenon
    <3>2. FilterDeleted(p, fd_to_tap_if_map) = [fd_to_tap_if_map EXCEPT ![fd] = e]
      BY <1>1, <2>2, <3>1, Zenon DEF FilterDeleted
    <3>3. [[fd_to_tap_if_map EXCEPT ![fd] = e] EXCEPT ![fd] = NULL]
             = [fd_to_tap_if_map EXCEPT ![fd] = NULL]
      BY Zenon DEF TapTypeOK
    <3> QED BY <1>2, <3>2, <3>3
  <2> QED BY <2>1, <2>2
<1>4. TapTypeOK'
  BY <1>2, <1>3, Zenon DEF TapTypeOK
<1>5. /\ fd # NULL
      /\ fd_to_tap_if_map'[fd] = NULL
      /\ \A g \in Fd : g # fd => fd_to_tap_if_map'[g] = fd_to_tap_if_map[g]
      /\ xpnet_if_id'[p] = NULL
      /\ \A q \in Port : q # p => xpnet_if_id'[q] = xpnet_if_id[q]
      /\ if_id_to_tap_if_map'[p] = NULL
      /\ \A q \in Port : q # p => if_id_to_tap_if_map'[q] = if_id_to_tap_if_map[q]
      /\ file' = file /\ tap_main'.pc = "close" /\ tap_main'.fd = fd /\ tap_main.pc = "idle"
  BY <1>2, <1>3 DEF TapTypeOK, Constants, TapIdle
<1>6. HasEntry(fd) /\ fd \in read_fd_set /\ file[fd] = p
  BY <1>1 DEF HasEntry, Constants, MapsInv, MapsConsistent
<1>7. \A g \in Fd : HasEntry(g) /\ g # fd =>
         fd_to_tap_if_map[g].if_id # p /\ fd_to_tap_if_map[g].if_id \in Port
  BY <1>1 DEF MapsInv, HasEntry, TapTypeOK, TapEntry
<1>8. MapsConsistent'
  <2>1. read_fd_set' = {g \in Fd : fd_to_tap_if_map'[g] # NULL}
    BY <1>2, <1>5 DEF MapsInv, MapsConsistent
  <2>2. ASSUME NEW g \in read_fd_set'
        PROVE  /\ file'[g] = fd_to_tap_if_map'[g].if_id
               /\ fd_to_tap_if_map'[g].filter_created
                     <=> if_id_to_tap_if_map'[fd_to_tap_if_map'[g].if_id] = g
    <3>1. g \in Fd /\ g \in read_fd_set /\ HasEntry(g) /\ g # fd
      BY <1>2 DEF MapsInv, MapsConsistent, HasEntry
    <3> QED BY <3>1, <1>5, <1>7 DEF MapsInv, MapsConsistent
  <2>3. ASSUME NEW q \in Port, if_id_to_tap_if_map'[q] # NULL
        PROVE  /\ if_id_to_tap_if_map'[q] \in read_fd_set'
               /\ fd_to_tap_if_map'[if_id_to_tap_if_map'[q]].if_id = q
    <3>1. q # p /\ if_id_to_tap_if_map'[q] = if_id_to_tap_if_map[q]
      BY <2>3, <1>5
    <3>2. if_id_to_tap_if_map[q] \in read_fd_set
          /\ fd_to_tap_if_map[if_id_to_tap_if_map[q]].if_id = q
      BY <2>3, <3>1 DEF MapsInv, MapsConsistent
    <3>3. if_id_to_tap_if_map[q] # fd /\ if_id_to_tap_if_map[q] \in Fd
      BY <1>1, <3>1, <3>2 DEF MapsInv, MapsConsistent
    <3> QED BY <1>2, <1>5, <3>1, <3>2, <3>3
  <2> QED BY <2>1, <2>2, <2>3 DEF MapsConsistent
<1>9. \A g \in Fd : HasEntry(g)' => xpnet_if_id'[fd_to_tap_if_map'[g].if_id] = g
  BY <1>5, <1>7 DEF MapsInv, HasEntry
<1>10. \A q \in Port : xpnet_if_id'[q] # NULL =>
          HasEntry(xpnet_if_id[q])' /\ fd_to_tap_if_map'[xpnet_if_id'[q]].if_id = q
  <2> SUFFICES ASSUME NEW q \in Port, xpnet_if_id'[q] # NULL
               PROVE  HasEntry(xpnet_if_id[q])' /\ fd_to_tap_if_map'[xpnet_if_id'[q]].if_id = q
    OBVIOUS
  <2>1. q # p /\ xpnet_if_id'[q] = xpnet_if_id[q] /\ xpnet_if_id[q] \in Fd
    BY <1>5 DEF TapTypeOK
  <2>2. HasEntry(xpnet_if_id[q]) /\ fd_to_tap_if_map[xpnet_if_id[q]].if_id = q
    BY <2>1 DEF MapsInv
  <2>3. xpnet_if_id[q] # fd
    BY <1>1, <2>1, <2>2
  <2> QED BY <1>5, <2>1, <2>2, <2>3 DEF HasEntry
<1>11. \A g \in Fd : file'[g] \in Port => HasEntry(g)' \/ MainHas(g)'
  BY <1>5 DEF MapsInv, HasEntry, MainHas
<1>12. ~HasEntry(tap_main.fd)' /\ file'[tap_main'.fd] = p /\ xpnet_if_id'[p] = NULL
  BY <1>5, <1>6 DEF HasEntry
<1> QED BY <1>4, <1>5, <1>8, <1>9, <1>10, <1>11, <1>12 DEF MapsInv

\* tap_if_create inserts the entry.
LEMMA InsertMaps ==
    ASSUME Constants, TapTypeOK, MapsInv, tap_if_create_insert
    PROVE  TapTypeOK' /\ MapsInv'
<1>1. TapTypeOK'
  BY DEF tap_if_create_insert, TapTypeOK, TapEntry, TapIdle
<1>2. PICK p \in Port, fd \in Fd : tap_main = [pc |-> "insert", port |-> p, fd |-> fd]
  BY DEF tap_if_create_insert, TapTypeOK, TapIdle
<1>3. PICK e \in TapEntry : e = [if_id |-> p, control |-> FALSE, filter_created |-> FALSE]
  BY Zenon DEF TapEntry
<1>4. e # NULL /\ fd # NULL /\ e.if_id = p /\ ~e.filter_created
  BY <1>3, Zenon DEF Constants
<1>5. ~HasEntry(fd) /\ fd \notin read_fd_set /\ file[fd] = p /\ xpnet_if_id[p] = NULL
  BY <1>2 DEF MapsInv, MapsConsistent, HasEntry
<1>6. /\ xpnet_if_id'[p] = fd /\ \A q \in Port : q # p => xpnet_if_id'[q] = xpnet_if_id[q]
      /\ fd_to_tap_if_map'[fd] = e
      /\ \A g \in Fd : g # fd => fd_to_tap_if_map'[g] = fd_to_tap_if_map[g]
      /\ read_fd_set' = read_fd_set \union {fd}
      /\ tap_main'.pc = "notify" /\ file' = file
      /\ if_id_to_tap_if_map' = if_id_to_tap_if_map
  BY <1>2, <1>3 DEF tap_if_create_insert, TapTypeOK
<1>7. \A g \in Fd : HasEntry(g) =>
         fd_to_tap_if_map[g].if_id # p /\ fd_to_tap_if_map[g].if_id \in Port /\ g # fd
  BY <1>5 DEF MapsInv, HasEntry, TapTypeOK, TapEntry, Constants
<1>8. if_id_to_tap_if_map[p] = NULL
  <2> SUFFICES ASSUME if_id_to_tap_if_map[p] # NULL PROVE FALSE
    OBVIOUS
  <2>1. if_id_to_tap_if_map[p] \in read_fd_set
        /\ fd_to_tap_if_map[if_id_to_tap_if_map[p]].if_id = p
    BY DEF MapsInv, MapsConsistent
  <2>2. if_id_to_tap_if_map[p] \in Fd /\ HasEntry(if_id_to_tap_if_map[p])
    BY <2>1 DEF MapsInv, MapsConsistent, HasEntry
  <2> QED BY <1>7, <2>1, <2>2
<1>9. MapsConsistent'
  <2>1. read_fd_set' = {g \in Fd : fd_to_tap_if_map'[g] # NULL}
    BY <1>4, <1>6 DEF MapsInv, MapsConsistent
  <2>2. ASSUME NEW g \in read_fd_set'
        PROVE  /\ file'[g] = fd_to_tap_if_map'[g].if_id
               /\ fd_to_tap_if_map'[g].filter_created
                     <=> if_id_to_tap_if_map'[fd_to_tap_if_map'[g].if_id] = g
    <3>1. CASE g = fd
      BY <3>1, <1>4, <1>5, <1>6, <1>8
    <3>2. CASE g # fd
      BY <3>2, <1>6, <1>7 DEF MapsInv, MapsConsistent, HasEntry
    <3> QED BY <3>1, <3>2
  <2>3. ASSUME NEW q \in Port, if_id_to_tap_if_map'[q] # NULL
        PROVE  /\ if_id_to_tap_if_map'[q] \in read_fd_set'
               /\ fd_to_tap_if_map'[if_id_to_tap_if_map'[q]].if_id = q
    BY <2>3, <1>5, <1>6 DEF MapsInv, MapsConsistent
  <2> QED BY <2>1, <2>2, <2>3 DEF MapsConsistent
<1>10. \A g \in Fd : HasEntry(g)' => xpnet_if_id'[fd_to_tap_if_map'[g].if_id] = g
  BY <1>4, <1>6, <1>7 DEF MapsInv, HasEntry
<1>11. \A q \in Port : xpnet_if_id'[q] # NULL =>
          HasEntry(xpnet_if_id[q])' /\ fd_to_tap_if_map'[xpnet_if_id'[q]].if_id = q
  <2> SUFFICES ASSUME NEW q \in Port, xpnet_if_id'[q] # NULL
               PROVE  HasEntry(xpnet_if_id[q])' /\ fd_to_tap_if_map'[xpnet_if_id'[q]].if_id = q
    OBVIOUS
  <2>1. CASE q = p
    BY <2>1, <1>4, <1>6 DEF HasEntry
  <2>2. CASE q # p
    <3>1. xpnet_if_id'[q] = xpnet_if_id[q] /\ xpnet_if_id[q] \in Fd
      BY <2>2, <1>6 DEF TapTypeOK
    <3>2. HasEntry(xpnet_if_id[q]) /\ fd_to_tap_if_map[xpnet_if_id[q]].if_id = q
      BY <3>1 DEF MapsInv
    <3>3. xpnet_if_id[q] # fd
      BY <1>5, <3>2
    <3> QED BY <1>6, <3>1, <3>2, <3>3 DEF HasEntry
  <2> QED BY <2>1, <2>2
<1>12. \A g \in Fd : file'[g] \in Port => HasEntry(g)' \/ MainHas(g)'
  BY <1>2, <1>4, <1>6 DEF MapsInv, HasEntry, MainHas
<1> QED BY <1>1, <1>6, <1>9, <1>10, <1>11, <1>12 DEF MapsInv

\* tap_if_create tells the listener.
LEMMA NotifyMaps ==
    ASSUME Constants, TapTypeOK, MapsInv, tap_if_create_notify
    PROVE  TapTypeOK' /\ MapsInv'
<1>1. TapTypeOK'
  BY DEF tap_if_create_notify, TapTypeOK, netdevs, maps
<1>2. MapsInv'
  BY DEF tap_if_create_notify, MapsInv, MapsConsistent, HasEntry, MainHas, TapIdle, netdevs, maps
<1> QED BY <1>1, <1>2

\* The main thread closes the descriptor it is about to give up.
LEMMA MainCloses ==
    ASSUME Constants, TapTypeOK, MapsInv, tap_if_create_fails \/ tap_if_delete_close
    PROVE  TapTypeOK' /\ MapsInv'
<1>1. TapTypeOK'
  <2>1. CASE tap_if_create_fails
    BY <2>1 DEF tap_if_create_fails, TapTypeOK, Close, TapIdle, netdevs, maps
  <2>2. CASE tap_if_delete_close
    BY <2>2 DEF tap_if_delete_close, TapTypeOK, Close, TapIdle, netdevs, maps
  <2> QED BY <2>1, <2>2
<1>2. PICK fd \in Fd : fd = tap_main.fd /\ MainHas(fd)
  BY DEF TapTypeOK, TapIdle, MainHas, tap_if_create_fails, tap_if_delete_close
<1>3. /\ file'[fd] = NULL /\ \A g \in Fd : g # fd => file'[g] = file[g]
      /\ UNCHANGED <<xpnet_if_id, fd_to_tap_if_map, if_id_to_tap_if_map, read_fd_set>>
      /\ tap_main'.pc = "idle"
  BY <1>2 DEF tap_if_create_fails, tap_if_delete_close, Close, TapTypeOK, TapIdle, netdevs, maps
<1>4. fd \notin read_fd_set /\ read_fd_set \subseteq Fd
  BY <1>2 DEF MapsInv, MapsConsistent, HasEntry, MainHas
<1>5. MapsConsistent'
  BY <1>3, <1>4 DEF MapsInv, MapsConsistent
<1>6. \A g \in Fd : file'[g] \in Port => HasEntry(g)' \/ MainHas(g)'
  BY <1>2, <1>3 DEF MapsInv, HasEntry, MainHas, Constants
<1>7. /\ \A g \in Fd : HasEntry(g)' => xpnet_if_id'[fd_to_tap_if_map'[g].if_id] = g
      /\ \A q \in Port : xpnet_if_id'[q] # NULL =>
            HasEntry(xpnet_if_id[q])' /\ fd_to_tap_if_map'[xpnet_if_id'[q]].if_id = q
  BY <1>3 DEF MapsInv, HasEntry
<1> QED BY <1>1, <1>3, <1>5, <1>6, <1>7 DEF MapsInv

\* Somebody else opens or closes a file of theirs.
LEMMA OtherFileMaps ==
    ASSUME Constants, TapTypeOK, MapsInv, NEW fd \in Fd, other_file(fd)
    PROVE  TapTypeOK' /\ MapsInv'
<1>1. TapTypeOK'
  <2>1. CASE file[fd] = NULL
    BY <2>1 DEF other_file, TapTypeOK, netdevs, maps
  <2>2. CASE file[fd] # NULL
    BY <2>2 DEF other_file, TapTypeOK, Close, TapIdle, netdevs, maps
  <2> QED BY <2>1, <2>2
<1>2. /\ file[fd] \notin Port /\ file'[fd] \notin Port
      /\ \A g \in Fd : g # fd => file'[g] = file[g]
      /\ UNCHANGED <<xpnet_if_id, fd_to_tap_if_map, if_id_to_tap_if_map, read_fd_set, tap_main>>
  BY DEF other_file, Close, TapTypeOK, netdevs, maps, Constants
<1>3. \A g \in read_fd_set : g \in Fd /\ file[g] \in Port
  BY DEF MapsInv, MapsConsistent, TapTypeOK, TapEntry
<1>4. MapsConsistent'
  <2>1. \A g \in read_fd_set : file'[g] = file[g]
    BY <1>2, <1>3
  <2> QED BY <1>2, <2>1 DEF MapsInv, MapsConsistent
<1>5. \A g \in Fd : file'[g] \in Port => HasEntry(g)' \/ MainHas(g)'
  BY <1>2 DEF MapsInv, HasEntry, MainHas
<1>6. /\ \A g \in Fd : HasEntry(g)' => xpnet_if_id'[fd_to_tap_if_map'[g].if_id] = g
      /\ \A q \in Port : xpnet_if_id'[q] # NULL =>
            HasEntry(xpnet_if_id[q])' /\ fd_to_tap_if_map'[xpnet_if_id'[q]].if_id = q
  BY <1>2 DEF MapsInv, HasEntry
<1>7. tap_main.pc \in {"insert", "close"} => tap_main.fd \in Fd /\ tap_main.fd # fd
  BY <1>2 DEF TapTypeOK, TapIdle, MapsInv
<1>8. tap_main'.pc \in {"insert", "close"} =>
          /\ ~HasEntry(tap_main.fd)' /\ file'[tap_main'.fd] \in Port
          /\ xpnet_if_id'[file'[tap_main'.fd]] = NULL
  BY <1>2, <1>7 DEF MapsInv, HasEntry
<1>9. tap_main'.pc = "insert" => file'[tap_main'.fd] = tap_main'.port
  BY <1>2, <1>7 DEF MapsInv
<1> QED BY <1>1, <1>4, <1>5, <1>6, <1>8, <1>9 DEF MapsInv
-----------------------------------------------------------------------------
(* The other threads: types *)

\* The listener's steps.
LEMMA ListenerTypes ==
    ASSUME TapTypeOK,
           \/ listener_copies \/ listener_selects \/ listener_wakes \/ listener_looks_up
           \/ listener_sends \/ listener_done \/ \E fd \in Fd : listener_reads(fd)
    PROVE  TapTypeOK'
<1>1. CASE listener_copies
  BY <1>1 DEF listener_copies, TapTypeOK, Listening, netdevs, maps
<1>2. CASE listener_selects
  BY <1>2 DEF listener_selects, TapTypeOK, TapIdle, netdevs, maps
<1>3. CASE listener_wakes
  <2>1. listener \in [pc : {"select", "blocked", "ready"}, set : SUBSET Fd, lost : SUBSET Fd]
    BY <1>3 DEF listener_wakes, TapTypeOK, TapIdle
  <2>2. PICK set \in SUBSET Fd : set = {fd \in listener.set : Readable(fd)}
    BY <2>1, Zenon
  <2>3. listener' = [listener EXCEPT !.pc = "ready", !.set = set]
    BY <1>3, <2>2 DEF listener_wakes
  <2> QED BY <1>3, <2>1, <2>3, Zenon DEF listener_wakes, TapTypeOK, netdevs, maps
<1>4. CASE listener_looks_up
  <2>1. listener \in [pc : {"lookup"}, set : SUBSET Fd, lost : SUBSET Fd, fd : Fd,
                      packet : Packet]
    BY <1>4 DEF listener_looks_up, TapTypeOK, TapIdle
  <2>2. CASE /\ fd_to_tap_if_map[listener.fd] # NULL
             /\ fd_to_tap_if_map[listener.fd].filter_created
    <3>1. PICK egress \in Port : egress = fd_to_tap_if_map[listener.fd].if_id
      BY <2>1, <2>2 DEF TapTypeOK, TapEntry
    <3>2. listener' \in [pc : {"send"}, set : SUBSET Fd, lost : SUBSET Fd, fd : Fd,
                         packet : Packet, egress : Port]
      BY <1>4, <2>1, <2>2, <3>1, Zenon DEF listener_looks_up
    <3> QED BY <1>4, <3>2 DEF listener_looks_up, TapTypeOK, netdevs, maps
  <2>3. CASE ~(/\ fd_to_tap_if_map[listener.fd] # NULL
               /\ fd_to_tap_if_map[listener.fd].filter_created)
    <3>1. listener' = [pc |-> "ready", set |-> listener.set, lost |-> listener.lost]
      BY <1>4, <2>3 DEF listener_looks_up
    <3> QED BY <1>4, <2>1, <3>1 DEF listener_looks_up, TapTypeOK, netdevs, maps
  <2> QED BY <2>2, <2>3
<1>5. CASE listener_sends
  BY <1>5 DEF listener_sends, TapTypeOK, TapIdle, netdevs, maps
<1>6. CASE listener_done
  BY <1>6 DEF listener_done, TapTypeOK, netdevs, maps
<1>7. ASSUME NEW fd \in Fd, listener_reads(fd) PROVE TapTypeOK'
  <2>1. listener \in [pc : {"select", "blocked", "ready"}, set : SUBSET Fd, lost : SUBSET Fd]
    BY <1>7 DEF listener_reads, TapTypeOK, TapIdle
  <2>2. CASE file[fd] = NULL
    BY <1>7, <2>1, <2>2 DEF listener_reads, TapTypeOK, netdevs, maps
  <2>3. CASE file[fd] # NULL
    <3>1. PICK packet \in Packet : packet = IF Readable(fd) THEN file[fd] ELSE NULL
      BY DEF Packet, TapTypeOK
    <3>2. listener' \in [pc : {"lookup"}, set : SUBSET Fd, lost : SUBSET Fd, fd : Fd,
                         packet : Packet]
      BY <1>7, <2>1, <2>3, <3>1 DEF listener_reads
    <3> QED BY <1>7, <3>2 DEF listener_reads, TapTypeOK, netdevs, maps
  <2> QED BY <2>2, <2>3
<1> QED BY <1>1, <1>2, <1>3, <1>4, <1>5, <1>6, <1>7

\* The callback's steps and the host's.
LEMMA DriverTypes ==
    ASSUME TapTypeOK, driver_writes \/ \E p \in Port : driver_looks_up(p) \/ host_sends(p)
    PROVE  TapTypeOK'
<1>1. CASE driver_writes
  BY <1>1 DEF driver_writes, TapTypeOK, netdevs, maps
<1>2. ASSUME NEW p \in Port, driver_looks_up(p) PROVE TapTypeOK'
  BY <1>2, Zenon DEF driver_looks_up, TapTypeOK, netdevs, maps
<1>3. ASSUME NEW p \in Port, host_sends(p) PROVE TapTypeOK'
  BY <1>3 DEF host_sends, TapTypeOK, netdevs, maps
<1> QED BY <1>1, <1>2, <1>3
-----------------------------------------------------------------------------
(* Packets on their way *)

\* The listener is not disturbed by a step after which what is open stays open and what
\* can be read can still be read.
LEMMA ListenerFrame ==
    ASSUME TapTypeOK, ListenerInv, listener' = listener, packets \subseteq packets',
           \A fd \in Fd : file[fd] # NULL => file'[fd] = file[fd], Constants
    PROVE  ListenerInv'
<1>1. \A fd \in Fd : Readable(fd) => Readable(fd)'
  BY DEF Readable, TapTypeOK, Constants
<1>2. listener.pc \in {"ready", "lookup", "send"} => listener.set \subseteq Fd
  BY DEF TapTypeOK, TapIdle
<1>3. listener.pc = "lookup" => listener.fd \in Fd
  BY DEF TapTypeOK, TapIdle
<1> QED BY <1>1, <1>2, <1>3 DEF ListenerInv

\* Nor is the callback by one after which what is open stays open.
LEMMA DriverFrame ==
    ASSUME Constants, TapTypeOK, DriverInv, driver' = driver,
           \A fd \in Fd : file[fd] # NULL => file'[fd] = file[fd]
    PROVE  DriverInv'
<1>1. driver.pc = "write" => driver.fd \in Fd /\ driver.if_id # NULL
  BY DEF TapTypeOK, TapIdle, Constants
<1> QED BY <1>1 DEF DriverInv

\* Closing a descriptor is noted by both: its file counts no longer.
LEMMA CloseKeeps ==
    ASSUME Constants, TapTypeOK, MapsInv, ListenerInv, DriverInv, NEW fd \in Fd, Close(fd),
           packets \ {file[fd]} \subseteq packets', file[fd] = Other => packets' = packets
    PROVE  ListenerInv' /\ DriverInv'
<1>1. \A g \in Fd : g # fd => file'[g] = file[g]
  BY DEF Close, TapTypeOK
<1>2. \A g \in Fd : g # fd /\ Readable(g) => Readable(g)'
  BY <1>1, OneDescriptor DEF Readable, TapTypeOK, Constants
<1>3. ListenerInv'
  <2>1. CASE listener.pc \in {"ready", "lookup", "send"}
    <3>1. "lost" \in DOMAIN listener /\ listener.set \subseteq Fd /\ listener.lost \subseteq Fd
      BY <2>1 DEF TapTypeOK, TapIdle
    <3>2. /\ listener'.pc = listener.pc /\ listener'.set = listener.set
          /\ listener'.lost = listener.lost \union {fd}
      BY <2>1, <3>1 DEF Close, TapTypeOK, TapIdle
    <3>3. listener.pc \in {"lookup", "send"} =>
            /\ listener.fd \in Fd /\ listener'.fd = listener.fd
            /\ listener'.packet = listener.packet
      BY <2>1, <3>1 DEF Close, TapTypeOK, TapIdle
    <3>4. listener.pc = "send" => listener'.egress = listener.egress
      BY <2>1, <3>1 DEF Close, TapTypeOK, TapIdle
    <3>5. \A g \in listener'.set \ listener'.lost : Readable(g)'
      BY <2>1, <3>1, <3>2, <1>2 DEF ListenerInv
    <3>6. listener.pc = "lookup" /\ listener.fd \notin listener'.lost =>
            listener.packet = file'[listener.fd] /\ file'[listener.fd] # NULL
      BY <3>2, <3>3, <1>1 DEF ListenerInv
    <3>7. listener.pc = "send" /\ listener.fd \notin listener'.lost =>
            listener.packet = listener.egress
      BY <3>2, <3>3 DEF ListenerInv
    <3> QED BY <2>1, <3>2, <3>3, <3>4, <3>5, <3>6, <3>7 DEF ListenerInv
  <2>2. CASE listener.pc \notin {"ready", "lookup", "send"}
    <3>1. listener'.pc = listener.pc
      BY <2>2 DEF Close, TapTypeOK, TapIdle
    <3> QED BY <2>2, <3>1 DEF ListenerInv
  <2> QED BY <2>1, <2>2
<1>4. DriverInv'
  <2>1. CASE driver.pc = "write"
    <3>1. /\ driver'.fd = driver.fd /\ driver'.if_id = driver.if_id /\ driver.fd \in Fd
          /\ driver'.lost = driver.lost \union {fd} /\ driver.lost \subseteq Fd
      BY <2>1 DEF Close, TapTypeOK, TapIdle
    <3> QED BY <2>1, <3>1, <1>1 DEF DriverInv
  <2>2. CASE driver.pc # "write"
    <3>1. driver' = TapIdle
      BY <2>2 DEF Close, TapTypeOK, TapIdle
    <3> QED BY <3>1 DEF DriverInv, TapIdle
  <2> QED BY <2>1, <2>2
<1> QED BY <1>3, <1>4

\* What the listener reads, looks up and sends.
LEMMA ListenerKeeps ==
    ASSUME Constants, TapTypeOK, MapsInv, ListenerInv,
           \/ listener_copies \/ listener_selects \/ listener_wakes \/ listener_looks_up
           \/ listener_sends \/ listener_done \/ \E fd \in Fd : listener_reads(fd)
    PROVE  ListenerInv'
<1>1. CASE listener_copies \/ listener_selects \/ listener_done
  <2>1. listener'.pc \notin {"ready", "lookup", "send"}
    BY <1>1 DEF listener_copies, listener_selects, listener_done, TapTypeOK, TapIdle, Listening
  <2> QED BY <2>1 DEF ListenerInv
<1>2. CASE listener_wakes
  <2>1. listener \in [pc : {"select", "blocked", "ready"}, set : SUBSET Fd, lost : SUBSET Fd]
    BY <1>2 DEF listener_wakes, TapTypeOK, TapIdle
  <2>2. PICK set \in SUBSET Fd : set = {fd \in listener.set : Readable(fd)}
    BY <2>1, Zenon
  <2>3. listener' = [listener EXCEPT !.pc = "ready", !.set = set]
    BY <1>2, <2>2 DEF listener_wakes
  <2>4. listener'.pc = "ready" /\ listener'.set = set /\ file' = file /\ packets' = packets
    BY <1>2, <2>1, <2>3, Zenon DEF listener_wakes
  <2> QED BY <2>2, <2>4 DEF ListenerInv, Readable
<1>3. ASSUME NEW fd \in Fd, listener_reads(fd) PROVE ListenerInv'
  <2>1. listener \in [pc : {"select", "blocked", "ready"}, set : SUBSET Fd, lost : SUBSET Fd]
    BY <1>3 DEF listener_reads, TapTypeOK, TapIdle
  <2>2. /\ listener.pc = "ready" /\ fd \in listener.set /\ file' = file
        /\ packets' = packets \ {file[fd]}
    BY <1>3 DEF listener_reads
  <2>3. \A g \in Fd : g # fd /\ Readable(g) => Readable(g)'
    BY <2>2, OneDescriptor DEF Readable, TapTypeOK, Constants
  <2>4. CASE file[fd] = NULL
    <3>1. /\ listener'.pc = "ready" /\ listener'.set = listener.set \ {fd}
          /\ listener'.lost = listener.lost
      BY <1>3, <2>1, <2>2, <2>4 DEF listener_reads
    <3> QED BY <2>1, <2>2, <2>3, <3>1 DEF ListenerInv
  <2>5. CASE file[fd] # NULL
    <3>1. PICK packet : packet = IF Readable(fd) THEN file[fd] ELSE NULL
      OBVIOUS
    <3>2. listener' = [pc |-> "lookup", set |-> listener.set \ {fd}, lost |-> listener.lost,
                       fd |-> fd, packet |-> packet]
      BY <1>3, <2>5, <3>1 DEF listener_reads
    <3>3. fd \notin listener.lost => packet = file[fd]
      BY <2>2, <3>1 DEF ListenerInv
    <3> QED BY <2>1, <2>2, <2>3, <2>5, <3>2, <3>3 DEF ListenerInv
  <2> QED BY <2>4, <2>5
<1>4. CASE listener_looks_up
  <2>1. listener \in [pc : {"lookup"}, set : SUBSET Fd, lost : SUBSET Fd, fd : Fd,
                      packet : Packet]
    BY <1>4 DEF listener_looks_up, TapTypeOK, TapIdle
  <2>2. file' = file /\ packets' = packets
    BY <1>4, Zenon DEF listener_looks_up
  <2>3. /\ listener'.pc \in {"ready", "send"} /\ listener'.set = listener.set
        /\ listener'.lost = listener.lost
    BY <1>4, <2>1 DEF listener_looks_up
  <2>4. ASSUME listener'.pc = "send"
        PROVE  /\ listener'.fd = listener.fd /\ listener'.packet = listener.packet
               /\ HasEntry(listener.fd)
               /\ listener'.egress = fd_to_tap_if_map[listener.fd].if_id
    BY <1>4, <2>1, <2>4 DEF listener_looks_up, HasEntry
  <2>5. HasEntry(listener.fd) => file[listener.fd] = fd_to_tap_if_map[listener.fd].if_id
    BY <2>1 DEF MapsInv, MapsConsistent, HasEntry
  <2> QED BY <2>1, <2>2, <2>3, <2>4, <2>5 DEF ListenerInv, Readable
<1>5. CASE listener_sends
  <2>1. listener \in [pc : {"send"}, set : SUBSET Fd, lost : SUBSET Fd, fd : Fd,
                      packet : Packet, egress : Port]
    BY <1>5 DEF listener_sends, TapTypeOK, TapIdle
  <2>2. /\ file' = file /\ packets' = packets /\ listener'.pc = "ready"
        /\ listener'.set = listener.set /\ listener'.lost = listener.lost
    BY <1>5, <2>1 DEF listener_sends
  <2> QED BY <2>1, <2>2 DEF ListenerInv, Readable
<1> QED BY <1>1, <1>2, <1>3, <1>4, <1>5

\* What the callback looks up: the descriptor is open for the interface.
LEMMA DriverKeeps ==
    ASSUME TapTypeOK, MapsInv, driver_writes \/ \E p \in Port : driver_looks_up(p)
    PROVE  DriverInv'
<1>1. CASE driver_writes
  BY <1>1 DEF driver_writes, DriverInv, TapIdle
<1>2. ASSUME NEW p \in Port, driver_looks_up(p) PROVE DriverInv'
  <2>1. PICK fd \in Fd : fd = if_id_to_tap_if_map[p]
    BY <1>2 DEF driver_looks_up, TapTypeOK
  <2>2. fd # NULL
    BY <1>2, <2>1 DEF driver_looks_up
  <2>3. fd \in read_fd_set /\ fd_to_tap_if_map[fd].if_id = p
    BY <2>1, <2>2 DEF MapsInv, MapsConsistent
  <2>4. file[fd] = p
    BY <2>3 DEF MapsInv, MapsConsistent
  <2> QED BY <1>2, <2>1, <2>4 DEF driver_looks_up, DriverInv
<1> QED BY <1>1, <1>2
-----------------------------------------------------------------------------
(* The listener's set *)

\* A descriptor that is closed leaves the listener where it is.
LEMMA CloseAsleep ==
    ASSUME TapTypeOK, NEW fd, Close(fd)
    PROVE  /\ listener'.pc = listener.pc
           /\ listener.pc \in {"select", "blocked"} => listener'.set = listener.set
BY DEF Close, TapTypeOK, TapIdle

\* The main thread never lets the listener sleep past a new interface: read_fd_set only
\* grows on the way to the notification.
LEMMA WakeupMain ==
    ASSUME TapTypeOK, NoLostWakeup,
           \/ \E p \in Port :
                \/ \E fd \in Fd : tap_if_create(p, fd)
                \/ tap_if_filter_create(p) \/ tap_if_filter_delete(p) \/ tap_if_delete(p)
                \/ \E set \in BOOLEAN : tap_if_control_id_set(p, set)
           \/ tap_if_create_fails \/ tap_if_create_insert \/ tap_if_create_notify
           \/ tap_if_delete_close
    PROVE  NoLostWakeup'
<1>1. ASSUME NEW p \in Port, NEW fd \in Fd, tap_if_create(p, fd) PROVE NoLostWakeup'
  BY <1>1 DEF tap_if_create, NoLostWakeup, TapIdle, maps
<1>2. ASSUME NEW p \in Port,
             \/ tap_if_filter_create(p) \/ tap_if_filter_delete(p)
             \/ \E set \in BOOLEAN : tap_if_control_id_set(p, set)
      PROVE  NoLostWakeup'
  <2>1. UNCHANGED <<read_fd_set, if_upd, tap_main, listener>>
    BY <1>2, Zenon DEF tap_if_filter_create, tap_if_filter_delete, tap_if_control_id_set
  <2> QED BY <2>1 DEF NoLostWakeup
<1>3. ASSUME NEW p \in Port, tap_if_delete(p) PROVE NoLostWakeup'
  BY <1>3 DEF tap_if_delete, NoLostWakeup, TapIdle
<1>4. CASE tap_if_create_insert
  <2>1. tap_main'.pc = "notify"
    BY <1>4 DEF tap_if_create_insert, TapTypeOK, TapIdle
  <2> QED BY <2>1 DEF NoLostWakeup
<1>5. CASE tap_if_create_notify
  BY <1>5 DEF tap_if_create_notify, NoLostWakeup
<1>6. CASE tap_if_create_fails \/ tap_if_delete_close
  <2>1. read_fd_set' = read_fd_set /\ if_upd' = if_upd /\ tap_main.pc # "notify"
    BY <1>6 DEF tap_if_create_fails, tap_if_delete_close, maps
  <2>2. PICK fd : Close(fd)
    BY <1>6 DEF tap_if_create_fails, tap_if_delete_close
  <2> QED BY <2>1, <2>2, CloseAsleep DEF NoLostWakeup
<1> QED BY <1>1, <1>2, <1>3, <1>4, <1>5, <1>6

\* The listener empties the pipe only on its way to a new copy of the set.
LEMMA WakeupOthers ==
    ASSUME TapTypeOK, NoLostWakeup,
           \/ listener_copies \/ listener_selects \/ listener_wakes \/ listener_looks_up
           \/ listener_sends \/ listener_done
           \/ \E fd \in Fd : listener_reads(fd) \/ other_file(fd)
           \/ driver_writes \/ \E p \in Port : driver_looks_up(p) \/ host_sends(p)
    PROVE  NoLostWakeup'
<1>1. CASE listener_copies
  BY <1>1 DEF listener_copies, NoLostWakeup, Listening, maps
<1>2. CASE listener_selects
  <2>1. /\ UNCHANGED <<read_fd_set, if_upd, tap_main>>
        /\ listener.pc = "select"
        /\ listener'.pc = "dead" \/ (listener'.pc = "blocked" /\ listener'.set = listener.set)
    <3>1. listener \in [pc : {"select", "blocked", "ready"}, set : SUBSET Fd, lost : SUBSET Fd]
      BY <1>2 DEF listener_selects, TapTypeOK, TapIdle
    <3> QED BY <1>2, <3>1 DEF listener_selects, maps
  <2> QED BY <2>1 DEF NoLostWakeup
<1>3. CASE listener_wakes \/ listener_looks_up \/ listener_sends \/ listener_done
           \/ \E fd \in Fd : listener_reads(fd)
  <2>1. listener'.pc \notin {"select", "blocked"}
    <3>1. CASE listener_wakes
      BY <3>1 DEF listener_wakes, TapTypeOK, TapIdle
    <3>2. CASE listener_looks_up
      BY <3>2 DEF listener_looks_up
    <3>3. CASE listener_sends \/ listener_done
      BY <3>3 DEF listener_sends, listener_done, TapIdle
    <3>4. ASSUME NEW fd \in Fd, listener_reads(fd) PROVE listener'.pc \in {"ready", "lookup"}
      BY <3>4 DEF listener_reads, TapTypeOK, TapIdle
    <3> QED BY <1>3, <3>1, <3>2, <3>3, <3>4
  <2> QED BY <2>1 DEF NoLostWakeup
<1>4. ASSUME NEW fd \in Fd, other_file(fd) PROVE NoLostWakeup'
  <2>1. UNCHANGED <<read_fd_set, if_upd, tap_main>>
    BY <1>4 DEF other_file, maps
  <2>2. CASE file[fd] = NULL
    BY <1>4, <2>1, <2>2 DEF other_file, NoLostWakeup
  <2>3. CASE file[fd] # NULL
    <3>1. Close(fd)
      BY <1>4, <2>3 DEF other_file
    <3> QED BY <2>1, <3>1, CloseAsleep DEF NoLostWakeup
  <2> QED BY <2>2, <2>3
<1>5. CASE driver_writes \/ \E p \in Port : driver_looks_up(p) \/ host_sends(p)
  <2>1. UNCHANGED <<read_fd_set, if_upd, tap_main, listener>>
    BY <1>5 DEF driver_writes, driver_looks_up, host_sends, maps
  <2> QED BY <2>1 DEF NoLostWakeup
<1> QED BY <1>1, <1>2, <1>3, <1>4, <1>5
-----------------------------------------------------------------------------
(* The invariant is inductive *)

\* The invariant holds at the start.
LEMMA TapInitOK ==
    ASSUME Constants, TapInit
    PROVE  IInv
<1>1. TapTypeOK
  BY Zenon DEF TapInit, TapTypeOK
<1>2. MapsInv
  BY Zenon DEF TapInit, MapsInv, MapsConsistent, HasEntry, MainHas, TapIdle, Constants
<1>3. NoLostWakeup /\ ListenerInv /\ DriverInv
  BY DEF TapInit, NoLostWakeup, ListenerInv, DriverInv, TapIdle
<1> QED BY <1>1, <1>2, <1>3 DEF IInv

\* Every step keeps the invariant.
LEMMA TapNextOK ==
    ASSUME Constants, IInv, TapNext
    PROVE  IInv'
<1> USE DEF IInv
<1>1. ASSUME NEW p \in Port, NEW fd \in Fd, tap_if_create(p, fd) PROVE IInv'
  <2>1. /\ UNCHANGED <<packets, listener, driver>>
        /\ \A g \in Fd : file[g] # NULL => file'[g] = file[g]
    BY <1>1 DEF tap_if_create, TapTypeOK
  <2> QED BY <1>1, <2>1, CreateMaps, WakeupMain, ListenerFrame, DriverFrame, Zenon
<1>2. ASSUME NEW p \in Port,
             \/ tap_if_filter_create(p) \/ tap_if_filter_delete(p) \/ tap_if_delete(p)
             \/ \E set \in BOOLEAN : tap_if_control_id_set(p, set)
      PROVE  IInv'
  <2>1. UNCHANGED <<file, packets, listener, driver>>
    BY <1>2, Zenon DEF tap_if_filter_create, tap_if_filter_delete, tap_if_delete, tap_if_control_id_set
  <2>2. TapTypeOK' /\ MapsInv'
    BY <1>2, FilterCreateMaps, FilterDeleteMaps, DeleteMaps, ControlMaps
  <2> QED BY <1>2, <2>1, <2>2, WakeupMain, ListenerFrame, DriverFrame
<1>3. CASE tap_if_create_insert \/ tap_if_create_notify
  <2>1. UNCHANGED <<file, packets, listener, driver>>
    BY <1>3 DEF tap_if_create_insert, tap_if_create_notify
  <2> QED BY <1>3, <2>1, InsertMaps, NotifyMaps, WakeupMain, ListenerFrame, DriverFrame
<1>4. CASE tap_if_create_fails \/ tap_if_delete_close
  <2>1. PICK fd \in Fd : /\ Close(fd) /\ packets' = packets \ {file[fd]}
                         /\ file[fd] \in Port
    BY <1>4 DEF tap_if_create_fails, tap_if_delete_close, MapsInv, TapTypeOK, TapIdle
  <2>2. ListenerInv' /\ DriverInv'
    BY <2>1, CloseKeeps DEF Constants
  <2> QED BY <1>4, <2>2, MainCloses, WakeupMain
<1>5. CASE \/ listener_copies \/ listener_selects \/ listener_wakes \/ listener_looks_up
           \/ listener_sends \/ listener_done \/ \E fd \in Fd : listener_reads(fd)
  <2>1. UNCHANGED <<file, xpnet_if_id, fd_to_tap_if_map, if_id_to_tap_if_map, read_fd_set,
                    tap_main, driver>>
    BY <1>5 DEF listener_copies, listener_selects, listener_wakes, listener_looks_up,
                listener_sends, listener_done, listener_reads, netdevs, maps
  <2>2. TapTypeOK' /\ MapsInv'
    BY <1>5, <2>1, ListenerTypes, MapsFrame
  <2>3. ListenerInv' /\ DriverInv' /\ NoLostWakeup'
    BY <1>5, <2>1, ListenerKeeps, DriverFrame, WakeupOthers
  <2> QED BY <2>2, <2>3
<1>6. CASE driver_writes \/ \E p \in Port : driver_looks_up(p)
  <2>1. UNCHANGED <<file, packets, xpnet_if_id, fd_to_tap_if_map, if_id_to_tap_if_map,
                    read_fd_set, tap_main, listener>>
    BY <1>6 DEF driver_writes, driver_looks_up, netdevs, maps
  <2> QED BY <1>6, <2>1, DriverTypes, MapsFrame, DriverKeeps, ListenerFrame, WakeupOthers
<1>7. ASSUME NEW p \in Port, host_sends(p) PROVE IInv'
  <2>1. /\ UNCHANGED <<file, xpnet_if_id, fd_to_tap_if_map, if_id_to_tap_if_map,
                       read_fd_set, tap_main, listener, driver>>
        /\ packets \subseteq packets'
    BY <1>7 DEF host_sends, netdevs, maps
  <2> QED BY <1>7, <2>1, DriverTypes, MapsFrame, DriverFrame, ListenerFrame, WakeupOthers
<1>8. ASSUME NEW fd \in Fd, other_file(fd) PROVE IInv'
  <2>1. ListenerInv' /\ DriverInv'
    <3>1. CASE file[fd] = NULL
      <4>1. /\ UNCHANGED <<packets, listener, driver>>
            /\ \A g \in Fd : file[g] # NULL => file'[g] = file[g]
        BY <1>8, <3>1 DEF other_file, TapTypeOK
      <4> QED BY <4>1, ListenerFrame, DriverFrame
    <3>2. CASE file[fd] # NULL
      <4>1. Close(fd) /\ packets' = packets
        BY <1>8, <3>2 DEF other_file
      <4> QED BY <4>1, CloseKeeps
    <3> QED BY <3>1, <3>2
  <2> QED BY <1>8, <2>1, OtherFileMaps, WakeupOthers
<1> QED BY <1>1, <1>2, <1>3, <1>4, <1>5, <1>6, <1>7, <1>8 DEF TapNext

\* So does a step that changes nothing.
LEMMA TapStutterOK ==
    ASSUME IInv, UNCHANGED tapVars
    PROVE  IInv'
<1> USE DEF IInv, tapVars
<1>1. TapTypeOK'
  BY DEF TapTypeOK
<1>2. MapsInv'
  BY MapsFrame
<1>3. NoLostWakeup'
  BY DEF NoLostWakeup
<1>4. ListenerInv' /\ DriverInv'
  BY DEF ListenerInv, DriverInv, Readable
<1> QED BY <1>1, <1>2, <1>3, <1>4

\* The invariant holds for any number of ports and descriptors.
THEOREM TapInvariant == ASSUME Constants PROVE TapSpec => []IInv
BY TapInitOK, TapNextOK, TapStutterOK, PTL DEF TapSpec
-----------------------------------------------------------------------------
(* Theorems *)

\* The variables keep their types, whatever the threads interleave.
THEOREM TapTypesCorrect == ASSUME Constants PROVE TapSpec => []TapTypeOK
<1>1. IInv => TapTypeOK
  BY DEF IInv
<1> QED BY <1>1, TapInvariant, PTL

\* tap_if_create, tap_if_delete and the filters keep fd_to_tap_if_map,
\* if_id_to_tap_if_map, read_fd_set and the open descriptors consistent.
THEOREM MapsStayConsistent == ASSUME Constants PROVE TapSpec => []MapsConsistent
<1>1. IInv => MapsConsistent
  BY DEF IInv, MapsInv
<1> QED BY <1>1, TapInvariant, PTL

\* tap_listener never sleeps in select on a set that lacks an interface without a wake-up
\* under way.
THEOREM NoWakeupLost == ASSUME Constants PROVE TapSpec => []NoLostWakeup
<1>1. IInv => NoLostWakeup
  BY DEF IInv
<1> QED BY <1>1, TapInvariant, PTL

\* tap_listener sends a packet out of the port whose TAP interface it was read from, and
\* tap_packet_driver_cb writes it to the TAP interface of the port it came from, unless
\* the descriptor was closed on the way.
THEOREM PacketsStayOnInterface == ASSUME Constants PROVE TapSpec => []PacketsKeepInterface
<1>1. IInv => PacketsKeepInterface
  BY DEF IInv, ListenerInv, DriverInv, PacketsKeepInterface
<1> QED BY <1>1, TapInvariant, PTL
=============================================================================
