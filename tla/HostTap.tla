------------------------------- MODULE HostTap -------------------------------
(***************************************************************************)
(* TAP interfaces of the host (ops-xp-host-tap.c), as netdevs use them     *)
(* (ops-xp-netdev.c).  Three threads share the maps of TAP interfaces      *)
(* under a mutex: the main thread creates and deletes interfaces and their *)
(* filters, the listener waits in select for packets of the host and sends *)
(* them out of the switch, and the packet driver calls back with packets   *)
(* for the host.  File descriptors are the kernel's: one that was closed   *)
(* is used again, for another TAP interface or for anything else.          *)
(***************************************************************************)
EXTENDS Common, Naturals, FiniteSets

CONSTANTS
    Port,               \* ports with a netdev; also their XPS interface IDs
    Fd,                 \* file descriptors, those of the two pipes aside
    Other               \* a file that is none of this module's

VARIABLES
    file,               \* what each descriptor is open for: a TAP, Other, or NULL
    packets,            \* TAP interfaces on which the host has sent a packet
    xpnet_if_id,        \* of each netdev: the descriptor it was given, or NULL
    xpnet_port_filter_id, \* of each netdev: whether it is other than 0
    fd_to_tap_if_map, if_id_to_tap_if_map, read_fd_set,
    if_upd,             \* the pipe if_upd_fds has something to read
    tap_main,           \* where the main thread is in tap_if_create or tap_if_delete
    listener,           \* where the listener is
    driver              \* where the callback of the packet driver is

tapVars == <<file, packets, xpnet_if_id, xpnet_port_filter_id, fd_to_tap_if_map,
             if_id_to_tap_if_map, read_fd_set, if_upd, tap_main, listener, driver>>
maps == <<fd_to_tap_if_map, if_id_to_tap_if_map, read_fd_set>>
netdevs == <<xpnet_if_id, xpnet_port_filter_id>>
-----------------------------------------------------------------------------
(* Types *)

TapEntry == [if_id : Port, control : BOOLEAN, filter_created : BOOLEAN]
TapIdle == [pc |-> "idle"]

\* `lost' is history: the descriptors closed since the listener copied read_fd_set,
\* or since the callback looked its descriptor up.
Listening(pc, set) == [pc |-> pc, set |-> set, lost |-> {}]

Packet == Port \union {Other, NULL}
TapTypeOK ==
    /\ file \in [Fd -> Port \union {Other, NULL}] /\ packets \subseteq Port
    /\ xpnet_if_id \in [Port -> Fd \union {NULL}]
    /\ xpnet_port_filter_id \in [Port -> BOOLEAN]
    /\ fd_to_tap_if_map \in [Fd -> {NULL} \union TapEntry]
    /\ if_id_to_tap_if_map \in [Port -> Fd \union {NULL}]
    /\ read_fd_set \subseteq Fd /\ if_upd \in BOOLEAN
    /\ \/ tap_main = TapIdle
       \/ tap_main \in [pc : {"insert", "notify"}, port : Port, fd : Fd]
       \/ tap_main \in [pc : {"close"}, fd : Fd]
    /\ \/ listener = TapIdle \/ listener = [pc |-> "dead"]
       \/ listener \in [pc : {"select", "blocked", "ready"}, set : SUBSET Fd, lost : SUBSET Fd]
       \/ listener \in [pc : {"lookup"}, set : SUBSET Fd, lost : SUBSET Fd, fd : Fd,
                        packet : Packet]
       \/ listener \in [pc : {"send"}, set : SUBSET Fd, lost : SUBSET Fd, fd : Fd,
                        packet : Packet, egress : Port]
    /\ \/ driver = TapIdle
       \/ driver \in [pc : {"write"}, if_id : Port, fd : Fd, lost : SUBSET Fd]
-----------------------------------------------------------------------------
(* The main thread *)

\* Fault of tap_if_create: the result of ops_xp_tun_alloc is not looked at.
tap_if_create_Unchecked(p, fd) ==
    /\ tap_main = TapIdle /\ xpnet_if_id[p] = NULL
    /\ tap_main' = [pc |-> "insert", port |-> p, fd |-> NULL]
    /\ UNCHANGED <<file, packets, netdevs, maps, if_upd, listener, driver>>

\* ops_xp_tun_alloc and the set-up of the interface; when that fails the descriptor is
\* closed again.
tap_if_create(p, fd) ==
    /\ tap_main = TapIdle /\ xpnet_if_id[p] = NULL /\ file[fd] = NULL
    /\ file' = [file EXCEPT ![fd] = p]
    /\ tap_main' = [pc |-> "insert", port |-> p, fd |-> fd]
    /\ UNCHANGED <<packets, netdevs, maps, if_upd, listener, driver>>

\* close() of a descriptor: whoever still uses its number has lost the file.
Close(fd) ==
    /\ file' = [file EXCEPT ![fd] = NULL]
    /\ listener' = IF "lost" \in DOMAIN listener THEN [listener EXCEPT !.lost = @ \union {fd}]
                   ELSE listener
    /\ driver' = IF "lost" \in DOMAIN driver THEN [driver EXCEPT !.lost = @ \union {fd}]
                 ELSE driver

tap_if_create_fails ==
    /\ tap_main.pc = "insert"
    /\ Close(tap_main.fd)
    /\ packets' = packets \ {tap_main.port}
    /\ tap_main' = TapIdle
    /\ UNCHANGED <<netdevs, maps, if_upd>>

tap_if_create_insert ==
    /\ tap_main.pc = "insert"
    /\ xpnet_if_id' = [xpnet_if_id EXCEPT ![tap_main.port] = tap_main.fd]
    /\ fd_to_tap_if_map' = [fd_to_tap_if_map EXCEPT ![tap_main.fd] =
                              [if_id |-> tap_main.port, control |-> FALSE,
                               filter_created |-> FALSE]]
    /\ read_fd_set' = read_fd_set \union {tap_main.fd}
    /\ tap_main' = [tap_main EXCEPT !.pc = "notify"]
    /\ UNCHANGED <<file, packets, xpnet_port_filter_id, if_id_to_tap_if_map, if_upd,
                   listener, driver>>

\* Fault of tap_if_create_notify: the listener is not told.
tap_if_create_notify_Silent ==
    /\ tap_main.pc = "notify"
    /\ tap_main' = TapIdle
    /\ UNCHANGED <<file, packets, netdevs, maps, if_upd, listener, driver>>

tap_if_create_notify ==
    /\ tap_main.pc = "notify"
    /\ if_upd' = TRUE
    /\ tap_main' = TapIdle
    /\ UNCHANGED <<file, packets, netdevs, maps, listener, driver>>

\* tap_if_filter_create and tap_if_filter_delete, as handle_xp_host_port_filters calls
\* them when a port is enabled or disabled.
tap_if_filter_create(p) ==
    LET fd == xpnet_if_id[p]
    IN  /\ tap_main = TapIdle /\ fd # NULL /\ ~xpnet_port_filter_id[p]
        /\ ~fd_to_tap_if_map[fd].filter_created
        /\ xpnet_port_filter_id' = [xpnet_port_filter_id EXCEPT ![p] = TRUE]
        /\ fd_to_tap_if_map' = [fd_to_tap_if_map EXCEPT ![fd].filter_created = TRUE]
        /\ if_id_to_tap_if_map' =
             [if_id_to_tap_if_map EXCEPT ![fd_to_tap_if_map[fd].if_id] = fd]
        /\ UNCHANGED <<file, packets, xpnet_if_id, read_fd_set, if_upd, tap_main, listener,
                       driver>>

\* Fault of FilterDeleted: the entry still says that it has a filter.
FilterDeleted_Unmarked(p, entries) == entries

FilterDeleted(p, entries) ==
    IF if_id_to_tap_if_map[p] = NULL THEN entries
    ELSE [entries EXCEPT ![if_id_to_tap_if_map[p]].filter_created = FALSE]

tap_if_filter_delete(p) ==
    /\ tap_main = TapIdle /\ xpnet_port_filter_id[p]
    /\ xpnet_port_filter_id' = [xpnet_port_filter_id EXCEPT ![p] = FALSE]
    /\ fd_to_tap_if_map' = FilterDeleted(p, fd_to_tap_if_map)
    /\ if_id_to_tap_if_map' = [if_id_to_tap_if_map EXCEPT ![p] = NULL]
    /\ UNCHANGED <<file, packets, xpnet_if_id, read_fd_set, if_upd, tap_main, listener, driver>>

\* tap_if_control_id_set: packets leave through the port's control interface or not.
\* Setting it does nothing for an interface that is no port, or when it is refused.
tap_if_control_id_set(p, set) ==
    /\ tap_main = TapIdle /\ xpnet_if_id[p] # NULL
    /\ fd_to_tap_if_map' = [fd_to_tap_if_map EXCEPT ![xpnet_if_id[p]].control = set]
    /\ UNCHANGED <<file, packets, netdevs, if_id_to_tap_if_map, read_fd_set, if_upd, tap_main,
                   listener, driver>>

\* Fault of tap_if_delete: the filter's entry stays in if_id_to_tap_if_map.
tap_if_delete_FilterLeft(p) ==
    LET fd == xpnet_if_id[p]
    IN  /\ tap_main = TapIdle /\ fd # NULL
        /\ fd_to_tap_if_map' = [fd_to_tap_if_map EXCEPT ![fd] = NULL]
        /\ read_fd_set' = read_fd_set \ {fd}
        /\ xpnet_if_id' = [xpnet_if_id EXCEPT ![p] = NULL]
        /\ xpnet_port_filter_id' = [xpnet_port_filter_id EXCEPT ![p] = FALSE]
        /\ tap_main' = [pc |-> "close", fd |-> fd]
        /\ UNCHANGED <<file, packets, if_id_to_tap_if_map, if_upd, listener, driver>>

\* netdev_xpliant_destruct calls tap_if_delete, which takes the interface and its
\* filter from the maps under the mutex and closes the descriptor after it.
tap_if_delete(p) ==
    LET fd == xpnet_if_id[p]
    IN  /\ tap_main = TapIdle /\ fd # NULL
        /\ fd_to_tap_if_map' = [FilterDeleted(fd_to_tap_if_map[fd].if_id, fd_to_tap_if_map)
                                  EXCEPT ![fd] = NULL]
        /\ if_id_to_tap_if_map' =
             [if_id_to_tap_if_map EXCEPT ![fd_to_tap_if_map[fd].if_id] = NULL]
        /\ read_fd_set' = read_fd_set \ {fd}
        /\ xpnet_if_id' = [xpnet_if_id EXCEPT ![p] = NULL]
        /\ xpnet_port_filter_id' = [xpnet_port_filter_id EXCEPT ![p] = FALSE]
        /\ tap_main' = [pc |-> "close", fd |-> fd]
        /\ UNCHANGED <<file, packets, if_upd, listener, driver>>

tap_if_delete_close ==
    /\ tap_main.pc = "close"
    /\ Close(tap_main.fd)
    /\ packets' = packets \ {file[tap_main.fd]}
    /\ tap_main' = TapIdle
    /\ UNCHANGED <<netdevs, maps, if_upd>>
-----------------------------------------------------------------------------
(* tap_listener *)

listener_copies ==
    /\ listener = TapIdle
    /\ listener' = Listening("select", read_fd_set)
    /\ UNCHANGED <<file, packets, netdevs, maps, if_upd, tap_main, driver>>

\* select fails at once when one of the descriptors is not open, and the thread ends.
listener_selects ==
    /\ listener.pc = "select"
    /\ listener' = IF \E fd \in listener.set : file[fd] = NULL THEN [pc |-> "dead"]
                   ELSE [listener EXCEPT !.pc = "blocked"]
    /\ UNCHANGED <<file, packets, netdevs, maps, if_upd, tap_main, driver>>

Readable(fd) == file[fd] \in packets \union {Other}

\* It returns with the descriptors that can be read; the pipe is read first.
listener_wakes ==
    /\ listener.pc = "blocked"
    /\ if_upd \/ \E fd \in listener.set : Readable(fd)
    /\ listener' = [listener EXCEPT !.pc = "ready", !.set = {fd \in @ : Readable(fd)}]
    /\ if_upd' = FALSE
    /\ UNCHANGED <<file, packets, netdevs, maps, tap_main, driver>>

\* The next descriptor is read; one that is closed by now is passed over, one without
\* a packet goes on with nothing.
listener_reads(fd) ==
    /\ listener.pc = "ready" /\ fd \in listener.set
    /\ listener' = IF file[fd] = NULL THEN [listener EXCEPT !.set = @ \ {fd}]
                   ELSE [pc |-> "lookup", set |-> listener.set \ {fd}, lost |-> listener.lost,
                         fd |-> fd, packet |-> IF Readable(fd) THEN file[fd] ELSE NULL]
    /\ packets' = packets \ {file[fd]}
    /\ UNCHANGED <<file, netdevs, maps, if_upd, tap_main, driver>>

listener_looks_up ==
    /\ listener.pc = "lookup"
    /\ LET e == fd_to_tap_if_map[listener.fd]
           rest == [pc |-> "ready", set |-> listener.set, lost |-> listener.lost]
       IN  listener' = IF e = NULL THEN rest
                       ELSE IF ~e.filter_created THEN rest
                       ELSE [pc |-> "send", set |-> listener.set, lost |-> listener.lost,
                             fd |-> listener.fd, packet |-> listener.packet,
                             egress |-> e.if_id]
    /\ UNCHANGED <<file, packets, netdevs, maps, if_upd, tap_main, driver>>

\* ops_xp_dev_send; in the first five seconds the packet is only drained.
listener_sends ==
    /\ listener.pc = "send"
    /\ listener' = [pc |-> "ready", set |-> listener.set, lost |-> listener.lost]
    /\ UNCHANGED <<file, packets, netdevs, maps, if_upd, tap_main, driver>>

listener_done ==
    /\ listener.pc = "ready" /\ listener.set = {}
    /\ listener' = TapIdle
    /\ UNCHANGED <<file, packets, netdevs, maps, if_upd, tap_main, driver>>
-----------------------------------------------------------------------------
(* tap_packet_driver_cb *)

driver_looks_up(p) ==
    /\ driver = TapIdle /\ if_id_to_tap_if_map[p] # NULL
    /\ driver' = [pc |-> "write", if_id |-> p, fd |-> if_id_to_tap_if_map[p], lost |-> {}]
    /\ UNCHANGED <<file, packets, netdevs, maps, if_upd, tap_main, listener>>

driver_writes ==
    /\ driver.pc = "write"
    /\ driver' = TapIdle
    /\ UNCHANGED <<file, packets, netdevs, maps, if_upd, tap_main, listener>>
-----------------------------------------------------------------------------
(* The host and the rest of the process *)

host_sends(p) ==
    /\ p \notin packets /\ \E fd \in Fd : file[fd] = p
    /\ packets' = packets \union {p}
    /\ UNCHANGED <<file, netdevs, maps, if_upd, tap_main, listener, driver>>

other_file(fd) ==
    /\ file[fd] \in {NULL, Other} /\ \A g \in Fd \ {fd} : file[g] # Other
    /\ IF file[fd] = NULL THEN file' = [file EXCEPT ![fd] = Other] /\ UNCHANGED <<listener, driver>>
       ELSE Close(fd)
    /\ UNCHANGED <<packets, netdevs, maps, if_upd, tap_main>>
-----------------------------------------------------------------------------
TapInit ==
    /\ file = [fd \in Fd |-> NULL] /\ packets = {}
    /\ xpnet_if_id = [p \in Port |-> NULL]
    /\ xpnet_port_filter_id = [p \in Port |-> FALSE]
    /\ fd_to_tap_if_map = [fd \in Fd |-> NULL]
    /\ if_id_to_tap_if_map = [p \in Port |-> NULL]
    /\ read_fd_set = {} /\ if_upd = FALSE
    /\ tap_main = TapIdle /\ listener = TapIdle /\ driver = TapIdle

TapNext ==
    \/ \E p \in Port :
         \/ \E fd \in Fd : tap_if_create(p, fd)
         \/ tap_if_filter_create(p) \/ tap_if_filter_delete(p) \/ tap_if_delete(p)
         \/ \E set \in BOOLEAN : tap_if_control_id_set(p, set)
         \/ driver_looks_up(p) \/ host_sends(p)
    \/ tap_if_create_fails \/ tap_if_create_insert \/ tap_if_create_notify
    \/ tap_if_delete_close
    \/ listener_copies \/ listener_selects \/ listener_wakes \/ listener_looks_up
    \/ listener_sends \/ listener_done
    \/ \E fd \in Fd : listener_reads(fd) \/ other_file(fd)
    \/ driver_writes

TapSpec == TapInit /\ [][TapNext]_tapVars
-----------------------------------------------------------------------------
(* Properties *)

\* The two maps, the set the listener copies and the kernel's descriptors say the same
\* of every TAP interface: an entry is in read_fd_set, its descriptor is open for it,
\* and it is found by its interface ID exactly while its filter is there.  So neither
\* thread finds an entry that is freed (tap_if_delete with its filter, both orders of
\* filter and interface).
MapsConsistent ==
    /\ read_fd_set = {fd \in Fd : fd_to_tap_if_map[fd] # NULL}
    /\ \A fd \in read_fd_set :
          /\ file[fd] = fd_to_tap_if_map[fd].if_id
          /\ fd_to_tap_if_map[fd].filter_created
                <=> if_id_to_tap_if_map[fd_to_tap_if_map[fd].if_id] = fd
    /\ \A p \in Port : LET fd == if_id_to_tap_if_map[p]
                       IN  fd # NULL => fd \in read_fd_set /\ fd_to_tap_if_map[fd].if_id = p

\* While the listener sleeps in select on a set without some TAP interface, it is going
\* to be woken: the pipe has been, or is about to be, written ("New TAP interface has
\* been added so need to listen to it as well").
NoLostWakeup ==
    listener.pc \in {"select", "blocked"} =>
        \A fd \in read_fd_set \ listener.set :
           if_upd \/ tap_main.pc = "notify"

\* A packet the host sent on a TAP interface leaves through that interface's port, and
\* one that came in on a port is written to that port's TAP interface, as long as the
\* descriptor was not closed on the way (tap_listener and tap_packet_driver_cb use
\* their descriptor outside the mutex).
PacketsKeepInterface ==
    /\ listener.pc = "send" /\ listener.fd \notin listener.lost =>
          listener.packet = listener.egress
    /\ driver.pc = "write" /\ driver.fd \notin driver.lost =>
          file[driver.fd] = driver.if_id

\* The listener handles packets received from TAP interfaces for as long as the program
\* runs: nothing but the exit pipe ends it (the loop of tap_listener).
ListenerLives == listener.pc # "dead"
=============================================================================
