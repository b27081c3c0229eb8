-------------------------------- MODULE Ports --------------------------------
(***************************************************************************)
(* Ports (ops-xp-port.c), the netdevs through which switchd configures     *)
(* them (ops-xp-netdev.c), and the references netdevs hold to the device   *)
(* (ops-xp-dev.c).  The main thread configures netdevs, step by step under *)
(* netdev->mutex; the event thread of the device polls the link of every   *)
(* port and tunes it.  XP_LOCK is held for single steps only, unless it is *)
(* leaked.  A port that can be split is used by its parent netdev and, in  *)
(* lanes, by the netdevs of its subports: the first lane has the parent's  *)
(* port number and so shares its port_info.                                *)
(***************************************************************************)
EXTENDS Common, Integers, FiniteSets

CONSTANTS
    Netdev, PortNum,
    Kind,               \* of each netdev: plain, parent, subport, internal, vlansubint
    port_num,           \* of each netdev that has a port
    Parent,             \* of a subport or a subinterface: the netdev of the parent
    Lanes,              \* of each port: the ports of its lanes, none if it cannot be split
    MaxRefs             \* bound on references to the device

VARIABLES
    netdev,             \* the netdevs that exist
    port_info,          \* struct xp_port_info of each port
    hw,                 \* the ports in hardware: enabled, link, tuned since enabled
    ref_cnt,            \* of the device
    locked,             \* XP_LOCK was left locked
    main, event,        \* where the two threads are
    asked,              \* history: whether a netdev's port was last asked to be up
    shared,             \* history: netdevs enabled while another used their lanes, or
                        \* whose port was left enabled by one that is gone
    undefined,          \* a pointer that is NULL or freed was used
    faults

vars == <<netdev, port_info, hw, ref_cnt, locked, main, event, asked, shared, undefined,
          faults>>
history == <<asked, shared>>
-----------------------------------------------------------------------------
HasPort(n) == Kind[n] \in {"plain", "parent", "subport"}
Mode == {"4x10", "1x40", "1x100"}
Config == [enable : BOOLEAN, mode : Mode]
Off == [enable |-> FALSE, mode |-> "4x10"]

\* `mode' of a configuration is what get_parent_mac_mode selects for its speed.
NetdevType == [initialized : BOOLEAN, xpdev : BOOLEAN, port_info : BOOLEAN,
               parent_port_info : BOOLEAN, pcfg : Config, link_status : BOOLEAN]
Idle == [pc |-> "idle"]

PortsTypeOK ==
    /\ \A n \in Netdev : netdev[n] = NULL \/ netdev[n] \in NetdevType
    /\ port_info \in [PortNum -> [initialized : BOOLEAN, mode : Mode, hw_enable : BOOLEAN,
                                  serdes_tuned : BOOLEAN]]
    /\ hw \in [PortNum -> [enabled : BOOLEAN, link : BOOLEAN, tuned : BOOLEAN]]
    /\ ref_cnt \in 1..MaxRefs /\ locked \in BOOLEAN /\ undefined \in BOOLEAN
    /\ \/ main = Idle
       \/ main \in [pc : {"mode", "lanes", "config", "enable", "record"}, netdev : Netdev,
                    cfg : Config, up : BOOLEAN, todo : SUBSET PortNum]
    /\ \/ event = Idle
       \/ event \in [pc : {"check", "poll", "callback", "tune"}, netdev : Netdev,
                     stale : BOOLEAN, link_status : BOOLEAN, link : BOOLEAN]
    /\ \A n \in Netdev : asked[n] \in {NULL} \union BOOLEAN
    /\ shared \subseteq Netdev /\ faults \in 0..MaxFaults

Refused == faults < MaxFaults /\ faults' = faults + 1
Accepted == UNCHANGED faults

\* A use of freed memory, or of a NULL pointer: nothing is said of what follows.
Undefined == /\ undefined' = TRUE
             /\ UNCHANGED <<netdev, port_info, hw, ref_cnt, locked, main, event, history, faults>>
-----------------------------------------------------------------------------
(* Netdevs come and go *)

SamePort(n) == {r \in Netdev : HasPort(r) /\ port_num[r] = port_num[n]}

netdev_construct(n) ==
    /\ main = Idle /\ netdev[n] = NULL
    /\ netdev' = [netdev EXCEPT ![n] =
                    [initialized |-> FALSE, xpdev |-> FALSE, port_info |-> FALSE,
                     parent_port_info |-> FALSE, pcfg |-> Off, link_status |-> FALSE]]
    /\ asked' = [asked EXCEPT ![n] = NULL]
    /\ UNCHANGED <<port_info, hw, ref_cnt, locked, main, event, shared, undefined, faults>>

\* Fault of netdev_destruct: a reference is dropped that was never taken.
netdev_destruct_Always(n) ==
    /\ main = Idle /\ netdev[n] # NULL
    /\ netdev' = [netdev EXCEPT ![n] = NULL]
    /\ ref_cnt' = ref_cnt - 1
    /\ asked' = [asked EXCEPT ![n] = NULL]
    /\ UNCHANGED <<port_info, hw, locked, main, event, shared, undefined, faults>>

\* ops_xp_dev_free drops the reference of a netdev that has one; the event thread may
\* still hold a pointer to the netdev.
netdev_destruct(n) ==
    /\ main = Idle /\ netdev[n] # NULL
    /\ netdev' = [netdev EXCEPT ![n] = NULL]
    /\ ref_cnt' = IF netdev[n].xpdev THEN ref_cnt - 1 ELSE ref_cnt
    /\ event' = IF event # Idle /\ event.netdev = n THEN [event EXCEPT !.stale = TRUE] ELSE event
    /\ asked' = [asked EXCEPT ![n] = NULL]
    /\ shared' = IF asked[n] = TRUE THEN shared \union SamePort(n) ELSE shared
    /\ UNCHANGED <<port_info, hw, locked, main, undefined, faults>>

\* netdev_xpliant_set_hw_intf_info, each time with a new reference to the device, until
\* the TAP interface is there.  It may end once it has the device (the hardware does not
\* know the port), or without the TAP interface; for a subport also without a parent.
set_hw_intf_info(n, tap) ==
    LET parent == Kind[n] = "subport" => netdev[Parent[n]] # NULL
    IN  /\ main = Idle /\ ~locked /\ netdev[n] # NULL /\ HasPort(n) /\ ~netdev[n].initialized
        /\ ref_cnt < MaxRefs /\ ref_cnt' = ref_cnt + 1
        /\ \/ /\ Refused
              /\ netdev' = [netdev EXCEPT ![n].xpdev = TRUE]
           \/ /\ ~parent /\ Accepted
              /\ netdev' = [netdev EXCEPT ![n].xpdev = TRUE, ![n].port_info = TRUE]
           \/ /\ parent
              /\ IF tap THEN Accepted ELSE Refused
              /\ netdev' = [netdev EXCEPT ![n].xpdev = TRUE, ![n].port_info = TRUE,
                              ![n].parent_port_info = Kind[n] = "subport"
                                                        /\ netdev[Parent[n]].port_info,
                              ![n].initialized = tap]
        /\ UNCHANGED <<port_info, hw, locked, main, event, history, undefined>>

\* netdev_xpliant_internal_set_hw_intf_info: only a bridge interface has the device, and
\* a TAP interface that may fail.
internal_set_hw_intf_info(n, bridge, tap) ==
    /\ main = Idle /\ ~locked /\ netdev[n] # NULL /\ ~HasPort(n) /\ ~netdev[n].initialized
    /\ ref_cnt' = IF bridge THEN ref_cnt + 1 ELSE ref_cnt
    /\ bridge => Kind[n] = "internal" /\ ref_cnt < MaxRefs
    /\ IF bridge /\ ~tap THEN Refused ELSE Accepted
    /\ netdev' = [netdev EXCEPT ![n].xpdev = @ \/ bridge, ![n].initialized = bridge => tap]
    /\ UNCHANGED <<port_info, hw, locked, main, event, history, undefined>>

internal_set_hw_intf_config(n, enable) ==
    /\ main = Idle /\ netdev[n] # NULL /\ ~HasPort(n) /\ netdev[n].initialized
    /\ netdev' = [netdev EXCEPT ![n].link_status = enable]
    /\ UNCHANGED <<port_info, hw, ref_cnt, locked, main, event, history, undefined, faults>>

\* Fault of subintf_set_config: the parent's device is used without a reference.
subintf_set_config_NoRef(n) ==
    /\ main = Idle /\ netdev[n] # NULL /\ Kind[n] = "vlansubint" /\ netdev[Parent[n]] # NULL
    /\ netdev' = [netdev EXCEPT ![n].xpdev = @ \/ netdev[Parent[n]].xpdev]
    /\ UNCHANGED <<port_info, hw, ref_cnt, locked, main, event, history, undefined, faults>>

\* A subinterface takes a reference to its parent's device, once.
subintf_set_config(n) ==
    /\ main = Idle /\ netdev[n] # NULL /\ Kind[n] = "vlansubint" /\ netdev[Parent[n]] # NULL
    /\ LET new == ~netdev[n].xpdev /\ netdev[Parent[n]].xpdev
       IN  /\ ref_cnt' = IF new THEN ref_cnt + 1 ELSE ref_cnt
           /\ new => ref_cnt < MaxRefs
           /\ netdev' = [netdev EXCEPT ![n].xpdev = @ \/ new]
    /\ UNCHANGED <<port_info, hw, locked, main, event, history, undefined, faults>>
-----------------------------------------------------------------------------
(* netdev_xpliant_set_hw_intf_config and netdev_xpliant_update_flags *)

\* Absent or equal configuration is passed over.
set_hw_intf_config(n, cfg) ==
    /\ main = Idle /\ netdev[n] # NULL /\ HasPort(n) /\ netdev[n].initialized
    /\ cfg # netdev[n].pcfg
    /\ main' = [pc |-> IF cfg.enable THEN "mode" ELSE "config", netdev |-> n, cfg |-> cfg,
                up |-> cfg.enable, todo |-> {}]
    /\ UNCHANGED <<netdev, port_info, hw, ref_cnt, locked, event, history, undefined, faults>>

Finish(pc) == main' = [main EXCEPT !.pc = pc]

\* The port whose MAC mode is set, and the mode: the parent's by its speed, otherwise
\* four lanes.
ModePort(n) == IF Kind[n] = "subport" THEN port_num[Parent[n]] ELSE port_num[n]
ModeOf(n, cfg) == IF Kind[n] = "parent" THEN cfg.mode ELSE "4x10"

\* ops_xp_port_mac_mode_set, up to the lanes; its result is not looked at.
mac_mode_set ==
    LET n == main.netdev  q == ModePort(n)  mode == ModeOf(n, main.cfg)
        known == Kind[n] = "subport" => netdev[n].parent_port_info
        init == ~port_info[q].initialized
        switch == port_info[q].mode # mode
        lanes == IF mode = "4x10" THEN Lanes[q] ELSE {q}
    IN  /\ main.pc = "mode"
        /\ IF ~known THEN Undefined
           ELSE /\ (init \/ switch) => ~locked
                /\ \/ /\ (init \/ switch) /\ Refused
                      /\ \E done \in BOOLEAN :
                           /\ done => init /\ switch
                           /\ port_info' = [port_info EXCEPT ![q].initialized = @ \/ done]
                      /\ Finish("config")
                   \/ /\ Accepted
                      /\ port_info' = [port_info EXCEPT ![q].initialized = TRUE]
                      /\ main' = IF switch THEN [main EXCEPT !.pc = "lanes", !.todo = lanes]
                                 ELSE [main EXCEPT !.pc = "config"]
                /\ UNCHANGED <<netdev, hw, ref_cnt, locked, event, history, undefined>>

\* Then its lanes are disabled; refused, the function returns with XP_LOCK locked.
mac_mode_set_lane(q) ==
    /\ main.pc = "lanes" /\ q \in main.todo /\ ~locked
    /\ port_info' = [port_info EXCEPT ![q].hw_enable = FALSE]
    /\ \/ /\ Accepted
          /\ hw' = [hw EXCEPT ![q].enabled = FALSE]
          /\ main' = [main EXCEPT !.todo = @ \ {q}]
          /\ UNCHANGED locked
       \/ /\ Refused
          /\ locked' = TRUE
          /\ main' = [main EXCEPT !.pc = "config", !.todo = {}]
          /\ UNCHANGED hw
    /\ UNCHANGED <<netdev, ref_cnt, event, history, undefined>>

mac_mode_set_done ==
    /\ main.pc = "lanes" /\ main.todo = {}
    /\ port_info' = [port_info EXCEPT ![ModePort(main.netdev)].mode =
                                        ModeOf(main.netdev, main.cfg)]
    /\ Finish("config")
    /\ UNCHANGED <<netdev, hw, ref_cnt, locked, event, history, undefined, faults>>

\* ops_xp_port_set_config: the policer under XP_LOCK, and the link of a port that is
\* disabled.
port_set_config ==
    LET n == main.netdev
        changed == netdev[n].pcfg.enable # main.cfg.enable
    IN  /\ main.pc = "config" /\ (changed => ~locked)
        /\ netdev' = IF changed /\ ~main.cfg.enable
                     THEN [netdev EXCEPT ![n].link_status = FALSE] ELSE netdev
        /\ Finish("enable")
        /\ UNCHANGED <<port_info, hw, ref_cnt, locked, event, history, undefined, faults>>

\* The flags: a disabled netdev has none.
update_flags(n, up) ==
    /\ main = Idle /\ netdev[n] # NULL /\ HasPort(n) /\ netdev[n].pcfg.enable
    /\ main' = [pc |-> "enable", netdev |-> n, cfg |-> netdev[n].pcfg, up |-> up, todo |-> {}]
    /\ UNCHANGED <<netdev, port_info, hw, ref_cnt, locked, event, history, undefined, faults>>

\* History: netdevs of the other kind configured in the port that this one is in.
Rivals(n) == {r \in Netdev : /\ HasPort(r) /\ netdev[r] # NULL /\ netdev[r].pcfg.enable
                             /\ Kind[r] # Kind[n] /\ ModePort(r) = ModePort(n)}
Applied(n, cfg, up) ==
    /\ netdev' = [netdev EXCEPT ![n].pcfg = cfg]
    /\ asked' = [asked EXCEPT ![n] = up]
    /\ shared' = IF cfg.enable /\ Rivals(n) # {} THEN shared \union Rivals(n) \union {n}
                 ELSE shared
    /\ main' = Idle

\* ops_xp_port_set_enable: the call under XP_LOCK ...
set_enable ==
    LET q == port_num[main.netdev]
    IN  /\ main.pc = "enable"
        /\ \/ /\ port_info[q].hw_enable = main.up
              /\ Applied(main.netdev, main.cfg, main.up)
              /\ UNCHANGED <<hw, faults>>
           \/ /\ port_info[q].hw_enable # main.up /\ ~locked
              /\ \/ /\ Accepted
                    /\ hw' = [hw EXCEPT ![q].enabled = main.up,
                                        ![q].tuned = @ /\ ~main.up]
                 \/ Refused /\ UNCHANGED hw
              /\ Finish("record")
              /\ UNCHANGED <<netdev, history>>
        /\ UNCHANGED <<port_info, ref_cnt, locked, event, undefined>>

\* Fault of Enabled: a port that is enabled again counts as tuned.
Enabled_StillTuned(info, up) == [info EXCEPT !.hw_enable = up]

\* Fault of Enabled: the new state is not noted.
Enabled_NotNoted(info, up) == [info EXCEPT !.serdes_tuned = @ /\ ~up]

\* ... and what is noted of it after that, whether it was refused or not.
Enabled(info, up) == [info EXCEPT !.hw_enable = up, !.serdes_tuned = @ /\ ~up]
set_enable_record ==
    LET q == port_num[main.netdev]
    IN  /\ main.pc = "record"
        /\ port_info' = [port_info EXCEPT ![q] = Enabled(@, main.up)]
        /\ Applied(main.netdev, main.cfg, main.up)
        /\ UNCHANGED <<hw, ref_cnt, locked, event, undefined, faults>>
-----------------------------------------------------------------------------
(* ops_xp_port_event_handler *)

\* ops_xp_netdev_from_port_num: a parent that is split is passed over.
from_port_num(q, n) ==
    /\ netdev[n] # NULL /\ HasPort(n) /\ netdev[n].xpdev /\ port_num[n] = q
    /\ ~(Kind[n] = "parent" /\ netdev[n].port_info /\ port_info[q].mode = "4x10")

event_finds(q, n) ==
    /\ event = Idle /\ from_port_num(q, n)
    /\ event' = [pc |-> "check", netdev |-> n, stale |-> FALSE, link_status |-> FALSE,
                 link |-> FALSE]
    /\ UNCHANGED <<netdev, port_info, hw, ref_cnt, locked, main, history, undefined, faults>>

MutexFree(n) == main # Idle => main.netdev # n

event_checks ==
    LET n == event.netdev
    IN  /\ event.pc = "check"
        /\ IF event.stale THEN Undefined
           ELSE /\ MutexFree(n)
                /\ event' = IF ~netdev[n].initialized \/ ~netdev[n].pcfg.enable THEN Idle
                            ELSE [event EXCEPT !.pc = "poll",
                                               !.link_status = netdev[n].link_status]
                /\ UNCHANGED <<netdev, port_info, hw, ref_cnt, locked, main, history,
                               undefined, faults>>

\* xpsMacGetLinkStatus; when it fails the variable has any value.
event_polls ==
    /\ event.pc = "poll" /\ ~locked
    /\ \E link \in BOOLEAN :
         /\ IF link = hw[port_num[event.netdev]].link THEN Accepted ELSE Refused
         /\ event' = [event EXCEPT !.pc = IF link # event.link_status THEN "callback" ELSE "tune",
                                   !.link = link]
    /\ UNCHANGED <<netdev, port_info, hw, ref_cnt, locked, main, history, undefined>>

\* ops_xp_netdev_link_state_callback
link_state_callback ==
    LET n == event.netdev
    IN  /\ event.pc = "callback"
        /\ IF event.stale THEN Undefined
           ELSE /\ MutexFree(n)
                /\ netdev' = [netdev EXCEPT ![n].link_status = event.link]
                /\ event' = [event EXCEPT !.pc = "tune"]
                /\ UNCHANGED <<port_info, hw, ref_cnt, locked, main, history, undefined, faults>>

\* A port is tuned once, when the hardware says that it can be; a tuning that fails counts.
event_tunes ==
    LET q == port_num[event.netdev]
    IN  /\ event.pc = "tune"
        /\ \/ port_info[q].serdes_tuned /\ UNCHANGED <<port_info, hw>>
           \/ ~port_info[q].serdes_tuned /\ ~locked /\ UNCHANGED <<port_info, hw>>
           \/ /\ ~port_info[q].serdes_tuned /\ ~locked
              /\ port_info' = [port_info EXCEPT ![q].serdes_tuned = TRUE]
              /\ hw' = [hw EXCEPT ![q].tuned = TRUE]
        /\ event' = Idle
        /\ UNCHANGED <<netdev, ref_cnt, locked, main, history, undefined, faults>>

link_changes(q) ==
    /\ hw' = [hw EXCEPT ![q].link = ~@]
    /\ hw[q].link \/ hw[q].enabled
    /\ UNCHANGED <<netdev, port_info, ref_cnt, locked, main, event, history, undefined, faults>>
-----------------------------------------------------------------------------
\* The device has been allocated and initialised (ops_xp_dev_alloc, ops_xp_dev_init).
PortsStart ==
    /\ hw = [q \in PortNum |-> [enabled |-> FALSE, link |-> FALSE, tuned |-> FALSE]]
    /\ locked = FALSE /\ undefined = FALSE
    /\ main = Idle /\ event = Idle
    /\ asked = [n \in Netdev |-> NULL] /\ shared = {} /\ faults = 0

PortsInit ==
    /\ netdev = [n \in Netdev |-> NULL] /\ ref_cnt = 1
    /\ port_info \in [PortNum -> [initialized : BOOLEAN, mode : {"4x10"}, hw_enable : {FALSE},
                                  serdes_tuned : {FALSE}]]
    /\ PortsStart

PortsNext ==
    /\ ~undefined
    /\ \/ \E n \in Netdev :
            \/ netdev_construct(n) \/ netdev_destruct(n)
            \/ \E tap \in BOOLEAN : set_hw_intf_info(n, tap)
            \/ \E bridge, tap \in BOOLEAN : internal_set_hw_intf_info(n, bridge, tap)
            \/ \E enable \in BOOLEAN : internal_set_hw_intf_config(n, enable)
            \/ subintf_set_config(n)
            \/ set_hw_intf_config(n, Off)
            \/ \E mode \in IF Kind[n] = "parent" THEN Mode \ {"4x10"} ELSE {"4x10"} :
                 set_hw_intf_config(n, [enable |-> TRUE, mode |-> mode])
            \/ \E up \in BOOLEAN : update_flags(n, up)
       \/ mac_mode_set \/ mac_mode_set_done
       \/ \E q \in PortNum : mac_mode_set_lane(q) \/ link_changes(q)
       \/ port_set_config \/ set_enable \/ set_enable_record
       \/ \E q \in PortNum, n \in Netdev : event_finds(q, n)
       \/ event_checks \/ event_polls \/ link_state_callback \/ event_tunes

PortsSpec == PortsInit /\ [][PortsNext]_vars
-----------------------------------------------------------------------------
(* Properties *)

\* Every reference of a netdev to the device is counted, whatever of its initialisation
\* failed and was tried again, in whatever order netdevs go: the last of them never
\* takes the device away (ops_xp_dev_by_id, ops_xp_dev_ref, ops_xp_dev_free).
DeviceKept ==
    ref_cnt >= 1 + Cardinality({n \in Netdev : netdev[n] # NULL /\ netdev[n].xpdev})

\* A port that is taken for tuned has been tuned since it was last enabled ("We must
\* tune port after it is enabled"), whatever the event thread did meanwhile.
TunedSinceEnabled ==
    \A q \in PortNum :
       port_info[q].serdes_tuned /\ hw[q].enabled
         /\ ~(main.pc = "record" /\ port_num[main.netdev] = q)
       => hw[q].tuned

\* Between two calls a port is enabled in hardware exactly when one of its netdevs was
\* last asked to be up, by its configuration or its flags, also after the MAC mode was
\* switched; as long as no call was refused, the parent and its subports were not up at
\* the same time, and none was deleted while it was up.
PortsAsAsked ==
    main = Idle /\ faults = 0 =>
        \A n \in Netdev \ shared : HasPort(n) /\ SamePort(n) \intersect shared = {} =>
            (hw[port_num[n]].enabled <=> \E r \in SamePort(n) : asked[r] = TRUE)
=============================================================================
