---------------------------- MODULE PortsProofs ----------------------------
(***************************************************************************)
(* Ports for every set of netdevs and ports: references to the device are  *)
(* counted, a port that is taken for tuned was tuned, and ports are        *)
(* enabled as asked.                                                       *)
(***************************************************************************)
EXTENDS Ports, FiniteSetTheorems, TLAPS

Ported == {n \in Netdev : HasPort(n)}
Constants ==
    /\ IsFiniteSet(Netdev) /\ NULL \notin NetdevType /\ NULL \notin BOOLEAN
    /\ port_num \in [Ported -> PortNum]
    /\ \A n \in Netdev : Kind[n] \in {"subport", "vlansubint"} => Parent[n] \in Ported
    /\ Lanes \in [PortNum -> SUBSET PortNum]

Holders == {n \in Netdev : netdev[n] # NULL /\ netdev[n].xpdev}

MainType == [pc : {"mode", "lanes", "config", "enable", "record"}, netdev : Ported,
             cfg : Config, up : BOOLEAN, todo : SUBSET PortNum]
EventType == [pc : {"check", "poll", "callback", "tune"}, netdev : Ported,
              stale : BOOLEAN, link_status : BOOLEAN, link : BOOLEAN]
InfoType == [initialized : BOOLEAN, mode : Mode, hw_enable : BOOLEAN, serdes_tuned : BOOLEAN]
HwType == [enabled : BOOLEAN, link : BOOLEAN, tuned : BOOLEAN]

\* The types, and that neither thread works on a netdev that is gone, unless the event
\* thread's pointer is stale.
Typed ==
    /\ netdev \in [Netdev -> {NULL} \union NetdevType]
    /\ port_info \in [PortNum -> InfoType] /\ hw \in [PortNum -> HwType]
    /\ main = Idle \/ main \in MainType
    /\ event = Idle \/ event \in EventType
    /\ main \in MainType => netdev[main.netdev] # NULL
    /\ event \in EventType /\ ~event.stale => netdev[event.netdev] # NULL

\* What a step does to the references: none is gained, one is gained by n and counted,
\* or one that n has is dropped.
RefStep(n) ==
    \/ Holders' \subseteq Holders /\ ref_cnt' = ref_cnt
    \/ Holders' \subseteq Holders \union {n} /\ ref_cnt' = ref_cnt + 1
    \/ n \in Holders /\ Holders' \subseteq Holders \ {n} /\ ref_cnt' = ref_cnt - 1

\* Each of these keeps a count that is large enough large enough.
LEMMA CountStep ==
    ASSUME NEW S, NEW T, NEW n, IsFiniteSet(S), NEW r \in Nat, NEW r2,
           r >= 1 + Cardinality(S),
           \/ T \subseteq S /\ r2 = r
           \/ T \subseteq S \union {n} /\ r2 = r + 1
           \/ n \in S /\ T \subseteq S \ {n} /\ r2 = r - 1
    PROVE  r2 \in Nat /\ r2 >= 1 + Cardinality(T)
<1>0. Cardinality(S) \in Nat
  BY FS_CardinalityType
<1>1. CASE T \subseteq S /\ r2 = r
  <2>1. Cardinality(T) <= Cardinality(S) /\ Cardinality(T) \in Nat
    BY <1>1, FS_Subset, FS_CardinalityType
  <2> QED BY <2>1, <1>0, <1>1
<1>2. CASE T \subseteq S \union {n} /\ r2 = r + 1
  <2>1. IsFiniteSet(S \union {n}) /\ Cardinality(S \union {n}) <= Cardinality(S) + 1
    <3>1. CASE n \in S
      <4>1. S \union {n} = S
        BY <3>1
      <4> QED BY <4>1, <1>0
    <3>2. CASE n \notin S
      BY <3>2, <1>0, FS_AddElement
    <3> QED BY <3>1, <3>2
  <2>2. Cardinality(T) <= Cardinality(S \union {n}) /\ Cardinality(T) \in Nat
    BY <1>2, <2>1, FS_Subset, FS_CardinalityType
  <2>3. Cardinality(S \union {n}) \in Nat
    BY <2>1, FS_CardinalityType
  <2> QED BY <2>1, <2>2, <2>3, <1>0, <1>2
<1>3. CASE n \in S /\ T \subseteq S \ {n} /\ r2 = r - 1
  <2>1. IsFiniteSet(S \ {n}) /\ Cardinality(S \ {n}) = Cardinality(S) - 1
    BY <1>3, FS_RemoveElement
  <2>2. Cardinality(T) <= Cardinality(S \ {n}) /\ Cardinality(T) \in Nat
    BY <1>3, <2>1, FS_Subset, FS_CardinalityType
  <2> QED BY <2>1, <2>2, <1>0, <1>3
<1> QED BY <1>1, <1>2, <1>3

\* The netdevs after one of them has become r.
LEMMA Replace ==
    ASSUME netdev \in [Netdev -> {NULL} \union NetdevType], NEW n \in Netdev,
           NEW r \in {NULL} \union NetdevType, netdev' = [netdev EXCEPT ![n] = r]
    PROVE  /\ netdev' \in [Netdev -> {NULL} \union NetdevType]
           /\ netdev'[n] = r /\ \A m \in Netdev : m # n => netdev'[m] = netdev[m]
           /\ Holders' \subseteq Holders \union {n}
           /\ r = NULL => Holders' \subseteq Holders \ {n}
           /\ (r # NULL /\ r.xpdev => netdev[n] # NULL /\ netdev[n].xpdev)
                 => Holders' \subseteq Holders
BY DEF Holders

\* The netdevs and the threads after the netdev n has become r.
LEMMA ReplaceTyped ==
    ASSUME Constants, Typed, NEW n \in Netdev, NEW r \in NetdevType,
           netdev' = [netdev EXCEPT ![n] = r],
           main' = main \/ main' = Idle, event' = event \/ event' = Idle,
           port_info' = port_info, hw' = hw
    PROVE  Typed'
<1>1. r # NULL
  BY DEF Constants
<1>2. netdev' \in [Netdev -> {NULL} \union NetdevType]
      /\ netdev'[n] = r /\ \A m \in Netdev : m # n => netdev'[m] = netdev[m]
  BY Replace DEF Typed
<1>3. \A m \in Netdev : netdev[m] # NULL => netdev'[m] # NULL
  BY <1>1, <1>2
<1>4. Idle \notin MainType /\ Idle \notin EventType
  BY DEF Idle, MainType, EventType
<1>5. \A m \in MainType : m.netdev \in Netdev
  BY DEF MainType, Ported
<1>6. \A e \in EventType : e.netdev \in Netdev
  BY DEF EventType, Ported
<1> QED BY <1>2, <1>3, <1>4, <1>5, <1>6 DEF Typed

\* A new netdev holds no reference (netdev_construct).
LEMMA ConstructStep ==
    ASSUME Constants, Typed, NEW n \in Netdev, netdev_construct(n)
    PROVE  Typed' /\ RefStep(n)
<1> PICK r : r = [initialized |-> FALSE, xpdev |-> FALSE, port_info |-> FALSE,
                  parent_port_info |-> FALSE, pcfg |-> Off, link_status |-> FALSE]
  BY Zenon
<1>1. r \in NetdevType /\ ~r.xpdev
  BY DEF NetdevType, Config, Off, Mode
<1>2. netdev' = [netdev EXCEPT ![n] = r]
  BY DEF netdev_construct
<1>3. Typed'
  BY <1>1, <1>2, ReplaceTyped, Zenon DEF netdev_construct
<1>4. Holders' \subseteq Holders
  BY <1>1, <1>2, Replace, Zenon DEF Typed
<1> QED BY <1>3, <1>4 DEF RefStep, netdev_construct

\* A netdev that goes drops the reference it has, and leaves the event thread a stale pointer.
LEMMA DestructStep ==
    ASSUME Constants, Typed, NEW n \in Netdev, netdev_destruct(n)
    PROVE  Typed' /\ RefStep(n)
<1>1. netdev' = [netdev EXCEPT ![n] = NULL] /\ netdev[n] # NULL /\ main = Idle /\ main' = main
      /\ port_info' = port_info /\ hw' = hw
  BY DEF netdev_destruct
<1>2. netdev' \in [Netdev -> {NULL} \union NetdevType]
      /\ (\A m \in Netdev : m # n => netdev'[m] = netdev[m])
      /\ Holders' \subseteq Holders \ {n}
  BY <1>1, Replace, Zenon DEF Typed
<1>3. RefStep(n)
  BY <1>1, <1>2 DEF RefStep, netdev_destruct, Holders
<1> SUFFICES Typed'
  BY <1>3
<1>4. Idle \notin MainType /\ Idle \notin EventType
  BY DEF Idle, MainType, EventType
<1>5. CASE event = Idle
  BY <1>1, <1>2, <1>4, <1>5 DEF Typed, netdev_destruct
<1>6. CASE event \in EventType
  <2>1. event # Idle
    BY <1>4, <1>6
  <2>2. CASE event.netdev = n
    <3>1. event' = [event EXCEPT !.stale = TRUE]
      BY <2>1, <2>2 DEF netdev_destruct
    <3>2. event' \in EventType /\ event'.stale
      BY <3>1, <1>6, Zenon DEF EventType
    <3> QED BY <1>1, <1>2, <1>4, <3>2 DEF Typed
  <2>3. CASE event.netdev # n
    <3>1. event' = event
      BY <2>1, <2>3 DEF netdev_destruct
    <3>2. event.netdev \in Netdev
      BY <1>6 DEF EventType, Ported
    <3> QED BY <1>1, <1>2, <1>4, <1>6, <2>3, <3>1, <3>2 DEF Typed
  <2> QED BY <2>2, <2>3
<1> QED BY <1>5, <1>6 DEF Typed

\* A netdev is given the device, and a reference is counted.
LEMMA InfoStep ==
    ASSUME Constants, Typed, NEW n \in Netdev, NEW tap \in BOOLEAN, set_hw_intf_info(n, tap)
    PROVE  Typed' /\ RefStep(n)
<1>1. PICK r \in NetdevType : netdev' = [netdev EXCEPT ![n] = r]
  <2>1. netdev[n] \in NetdevType /\ netdev \in [Netdev -> {NULL} \union NetdevType]
    BY DEF set_hw_intf_info, Typed
  <2>2. CASE netdev' = [netdev EXCEPT ![n].xpdev = TRUE]
    BY <2>1, <2>2, Zenon DEF NetdevType
  <2>3. CASE netdev' = [netdev EXCEPT ![n].xpdev = TRUE, ![n].port_info = TRUE]
    BY <2>1, <2>3, Zenon DEF NetdevType
  <2>4. CASE netdev' = [netdev EXCEPT ![n].xpdev = TRUE, ![n].port_info = TRUE,
                          ![n].parent_port_info = Kind[n] = "subport"
                                                    /\ netdev[Parent[n]].port_info,
                          ![n].initialized = tap]
    <3>1. (Kind[n] = "subport" /\ netdev[Parent[n]].port_info) \in BOOLEAN
      OBVIOUS
    <3> QED BY <2>1, <2>4, <3>1, Zenon DEF NetdevType
  <2> QED BY <2>2, <2>3, <2>4 DEF set_hw_intf_info
<1>2. Typed'
  BY <1>1, ReplaceTyped, Zenon DEF set_hw_intf_info
<1>3. Holders' \subseteq Holders \union {n}
  BY <1>1, Replace, Zenon DEF Typed
<1> QED BY <1>2, <1>3 DEF RefStep, set_hw_intf_info

\* A bridge interface takes and counts a reference (netdev_xpliant_internal_set_hw_intf_info).
LEMMA InternalInfoStep ==
    ASSUME Constants, Typed, NEW n \in Netdev, NEW bridge \in BOOLEAN, NEW tap \in BOOLEAN,
           internal_set_hw_intf_info(n, bridge, tap)
    PROVE  Typed' /\ RefStep(n)
<1>1. netdev[n] \in NetdevType /\ netdev \in [Netdev -> {NULL} \union NetdevType]
  BY DEF internal_set_hw_intf_info, Typed
<1>2. PICK r \in NetdevType : /\ netdev' = [netdev EXCEPT ![n] = r]
                              /\ r.xpdev <=> netdev[n].xpdev \/ bridge
  <2>1. PICK x \in BOOLEAN, y \in BOOLEAN :
           /\ x = (netdev[n].xpdev \/ bridge) /\ y = (bridge => tap)
           /\ netdev' = [netdev EXCEPT ![n].xpdev = x, ![n].initialized = y]
    BY Zenon DEF internal_set_hw_intf_info
  <2>2. [netdev[n] EXCEPT !.xpdev = x, !.initialized = y] \in NetdevType
        /\ [netdev[n] EXCEPT !.xpdev = x, !.initialized = y].xpdev = x
    BY <1>1, Zenon DEF NetdevType
  <2>3. netdev' = [netdev EXCEPT ![n] = [netdev[n] EXCEPT !.xpdev = x, !.initialized = y]]
    BY <2>1, Zenon
  <2> QED BY <2>1, <2>2, <2>3, Zenon
<1>3. Typed'
  BY <1>2, ReplaceTyped, Zenon DEF internal_set_hw_intf_info
<1>4. CASE bridge
  BY <1>2, <1>3, <1>4, Replace, Zenon DEF RefStep, internal_set_hw_intf_info, Typed
<1>5. CASE ~bridge
  <2>1. Holders' \subseteq Holders
    BY <1>1, <1>2, <1>5, Replace, Zenon DEF Constants
  <2> QED BY <1>3, <1>5, <2>1 DEF RefStep, internal_set_hw_intf_info
<1> QED BY <1>4, <1>5

\* The configuration of an internal netdev leaves references alone.
LEMMA InternalConfigStep ==
    ASSUME Constants, Typed, NEW n \in Netdev, NEW enable \in BOOLEAN,
           internal_set_hw_intf_config(n, enable)
    PROVE  Typed' /\ RefStep(n)
<1>1. netdev[n] \in NetdevType /\ netdev \in [Netdev -> {NULL} \union NetdevType]
  BY DEF internal_set_hw_intf_config, Typed
<1>2. PICK r \in NetdevType : /\ netdev' = [netdev EXCEPT ![n] = r]
                              /\ r.xpdev = netdev[n].xpdev
  <2>1. netdev' = [netdev EXCEPT ![n] = [netdev[n] EXCEPT !.link_status = enable]]
    BY DEF internal_set_hw_intf_config
  <2>2. [netdev[n] EXCEPT !.link_status = enable] \in NetdevType
        /\ [netdev[n] EXCEPT !.link_status = enable].xpdev = netdev[n].xpdev
    BY <1>1 DEF NetdevType
  <2> QED BY <2>1, <2>2, Zenon
<1>3. Typed'
  BY <1>2, ReplaceTyped, Zenon DEF internal_set_hw_intf_config
<1>4. Holders' \subseteq Holders
  BY <1>1, <1>2, Replace, Zenon DEF Constants
<1> QED BY <1>3, <1>4 DEF RefStep, internal_set_hw_intf_config

\* A subinterface takes the reference of its parent once (subintf_set_config).
LEMMA SubintfStep ==
    ASSUME Constants, Typed, NEW n \in Netdev, subintf_set_config(n)
    PROVE  Typed' /\ RefStep(n)
<1>1. netdev[n] \in NetdevType /\ netdev \in [Netdev -> {NULL} \union NetdevType]
  BY DEF subintf_set_config, Typed
<1>2. PICK new : /\ new = (~netdev[n].xpdev /\ netdev[Parent[n]].xpdev)
                 /\ ref_cnt' = IF new THEN ref_cnt + 1 ELSE ref_cnt
                 /\ netdev' = [netdev EXCEPT ![n].xpdev = @ \/ new]
  BY Zenon DEF subintf_set_config
<1>3. PICK r \in NetdevType : /\ netdev' = [netdev EXCEPT ![n] = r]
                              /\ r.xpdev <=> netdev[n].xpdev \/ new
  <2>1. PICK x \in BOOLEAN : /\ x = (netdev[n].xpdev \/ new)
                             /\ netdev' = [netdev EXCEPT ![n].xpdev = x]
    BY <1>2, Zenon
  <2>2. [netdev[n] EXCEPT !.xpdev = x] \in NetdevType
        /\ [netdev[n] EXCEPT !.xpdev = x].xpdev = x
    BY <1>1 DEF NetdevType
  <2>3. netdev' = [netdev EXCEPT ![n] = [netdev[n] EXCEPT !.xpdev = x]]
    BY <2>1
  <2> QED BY <2>1, <2>2, <2>3, Zenon
<1>4. Typed'
  BY <1>3, ReplaceTyped, Zenon DEF subintf_set_config
<1>5. CASE new
  BY <1>1, <1>2, <1>3, <1>4, <1>5, Replace, Zenon DEF RefStep
<1>6. CASE ~new
  <2>1. Holders' \subseteq Holders
    BY <1>1, <1>3, <1>6, Replace, Zenon DEF Constants
  <2> QED BY <1>2, <1>4, <1>6, <2>1 DEF RefStep
<1> QED BY <1>5, <1>6

\* Steps that leave the netdevs and the count alone.
LEMMA SameNetdevs ==
    ASSUME Typed, netdev' = netdev, ref_cnt' = ref_cnt,
           port_info' \in [PortNum -> InfoType], hw' \in [PortNum -> HwType],
           \/ main' = main \/ main' = Idle
           \/ main' \in MainType /\ netdev[main'.netdev] # NULL,
           \/ event' = event \/ event' = Idle
           \/ event' \in EventType /\ (event'.stale \/ netdev[event'.netdev] # NULL),
           NEW n
    PROVE  Typed' /\ RefStep(n)
<1>1. Idle \notin MainType /\ Idle \notin EventType
  BY DEF Idle, MainType, EventType
<1>2. Holders' = Holders
  BY DEF Holders
<1> QED BY <1>1, <1>2 DEF Typed, RefStep

\* A call of the main thread starts on a netdev that exists and has a port.
LEMMA StartStep ==
    ASSUME Constants, Typed, NEW n \in Netdev,
           \/ \E cfg \in Config : set_hw_intf_config(n, cfg)
           \/ \E up \in BOOLEAN : update_flags(n, up)
    PROVE  Typed' /\ RefStep(n)
<1>1. n \in Ported /\ netdev[n] # NULL /\ netdev[n] \in NetdevType
  BY DEF Ported, set_hw_intf_config, update_flags, Typed
<1>2. netdev[n].pcfg \in Config /\ \A cfg \in Config : cfg.enable \in BOOLEAN
  BY <1>1 DEF NetdevType, Config
<1>3. main' \in MainType /\ main'.netdev = n
  <2>1. CASE \E cfg \in Config : set_hw_intf_config(n, cfg)
    BY <1>1, <1>2, <2>1 DEF set_hw_intf_config, MainType
  <2>2. CASE \E up \in BOOLEAN : update_flags(n, up)
    BY <1>1, <1>2, <2>2 DEF update_flags, MainType
  <2> QED BY <2>1, <2>2
<1>4. UNCHANGED <<netdev, ref_cnt, port_info, hw, event>>
  BY DEF set_hw_intf_config, update_flags
<1>5. port_info' \in [PortNum -> InfoType] /\ hw' \in [PortNum -> HwType]
  BY <1>4 DEF Typed
<1> QED BY <1>1, <1>3, <1>4, <1>5, SameNetdevs

\* Where the main thread is, whenever it is in a call.
LEMMA InCall ==
    ASSUME Constants, Typed, main.pc # "idle"
    PROVE  /\ main \in MainType /\ main.netdev \in Ported /\ main.netdev \in Netdev
           /\ netdev[main.netdev] # NULL /\ netdev[main.netdev] \in NetdevType
           /\ port_num[main.netdev] \in PortNum /\ ModePort(main.netdev) \in PortNum
           /\ \A pc \in {"mode", "lanes", "config", "enable", "record"} :
                 [main EXCEPT !.pc = pc] \in MainType
<1>1. main \in MainType
  BY DEF Typed, Idle
<1>2. main.netdev \in Ported /\ main.netdev \in Netdev
  BY <1>1 DEF MainType, Ported
<1>3. netdev[main.netdev] # NULL /\ netdev[main.netdev] \in NetdevType
  BY <1>1, <1>2 DEF Typed
<1>4. port_num[main.netdev] \in PortNum
  BY <1>2 DEF Constants
<1>5. ModePort(main.netdev) \in PortNum
  BY <1>2, <1>4 DEF ModePort, Constants
<1>6. \A pc \in {"mode", "lanes", "config", "enable", "record"} :
                 [main EXCEPT !.pc = pc] \in MainType
  BY <1>1 DEF MainType
<1> QED BY <1>1, <1>2, <1>3, <1>4, <1>5, <1>6

\* Setting the MAC mode leaves netdevs and references alone (ops_xp_port_mac_mode_set).
LEMMA ModeStep ==
    ASSUME Constants, Typed, mac_mode_set, NEW n
    PROVE  Typed' /\ RefStep(n)
<1> PICK q : q = ModePort(main.netdev)
  OBVIOUS
<1> PICK mode : mode = ModeOf(main.netdev, main.cfg)
  OBVIOUS
<1> PICK lanes : lanes = IF mode = "4x10" THEN Lanes[q] ELSE {q}
  BY Zenon
<1>1. /\ main \in MainType /\ q \in PortNum /\ netdev[main.netdev] # NULL
      /\ [main EXCEPT !.pc = "config"] \in MainType
  BY InCall DEF mac_mode_set
<1>2. lanes \subseteq PortNum
  BY <1>1 DEF Constants
<1>3. [main EXCEPT !.pc = "lanes", !.todo = lanes] \in MainType
  BY <1>1, <1>2, Zenon DEF MainType
<1>4. [main EXCEPT !.pc = "lanes", !.todo = lanes].netdev = main.netdev
      /\ [main EXCEPT !.pc = "config"].netdev = main.netdev
  BY <1>1 DEF MainType
<1>5. \/ main' = main
      \/ main' = [main EXCEPT !.pc = "config"]
      \/ main' = [main EXCEPT !.pc = "lanes", !.todo = lanes]
  BY DEF mac_mode_set, Undefined, Finish
<1>6. UNCHANGED <<netdev, ref_cnt, hw, event>>
  BY DEF mac_mode_set, Undefined
<1>7. port_info' \in [PortNum -> InfoType]
  <2>0. port_info \in [PortNum -> InfoType]
    BY DEF Typed
  <2>1. PICK x \in BOOLEAN : \/ port_info' = port_info
                             \/ port_info' = [port_info EXCEPT ![q].initialized = x]
    <3>1. CASE port_info' = port_info
      BY <3>1, Zenon
    <3>2. CASE port_info' = [port_info EXCEPT ![q].initialized = TRUE]
      BY <3>2, Zenon
    <3>3. CASE \E done \in BOOLEAN : port_info' = [port_info EXCEPT ![q].initialized = @ \/ done]
      <4>1. PICK done \in BOOLEAN :
               port_info' = [port_info EXCEPT ![q].initialized = port_info[q].initialized \/ done]
        BY <3>3, Zenon
      <4>2. (port_info[q].initialized \/ done) \in BOOLEAN
        OBVIOUS
      <4> QED BY <4>1, <4>2, Zenon
    <3> QED BY <3>1, <3>2, <3>3, Zenon DEF mac_mode_set, Undefined
  <2>2. [port_info[q] EXCEPT !.initialized = x] \in InfoType
    BY <2>0, <1>1 DEF InfoType
  <2> QED BY <2>0, <2>1, <2>2
<1>8. hw' \in [PortNum -> HwType]
  BY <1>6 DEF Typed
<1> QED BY <1>1, <1>3, <1>4, <1>5, <1>6, <1>7, <1>8, SameNetdevs, Zenon

\* So does disabling one of its lanes.
LEMMA LaneStep ==
    ASSUME Constants, Typed, NEW q \in PortNum, mac_mode_set_lane(q), NEW n
    PROVE  Typed' /\ RefStep(n)
<1>1. main \in MainType /\ netdev[main.netdev] # NULL
  BY InCall DEF mac_mode_set_lane
<1>2. /\ [main EXCEPT !.todo = main.todo \ {q}] \in MainType
      /\ [main EXCEPT !.todo = main.todo \ {q}].netdev = main.netdev
      /\ [main EXCEPT !.pc = "config", !.todo = {}] \in MainType
      /\ [main EXCEPT !.pc = "config", !.todo = {}].netdev = main.netdev
  BY <1>1, Zenon DEF MainType
<1>3. \/ main' = [main EXCEPT !.todo = main.todo \ {q}]
      \/ main' = [main EXCEPT !.pc = "config", !.todo = {}]
  BY DEF mac_mode_set_lane
<1>4. [port_info[q] EXCEPT !.hw_enable = FALSE] \in InfoType
      /\ [hw[q] EXCEPT !.enabled = FALSE] \in HwType
  BY Zenon DEF Typed, InfoType, HwType
<1>5. port_info' \in [PortNum -> InfoType] /\ hw' \in [PortNum -> HwType]
  BY <1>4, Zenon DEF mac_mode_set_lane, Typed
<1>6. UNCHANGED <<netdev, ref_cnt, event>>
  BY DEF mac_mode_set_lane
<1> QED BY <1>1, <1>2, <1>3, <1>5, <1>6, SameNetdevs, Zenon

\* So does noting the mode.
LEMMA ModeDoneStep ==
    ASSUME Constants, Typed, mac_mode_set_done, NEW n
    PROVE  Typed' /\ RefStep(n)
<1> PICK q : q = ModePort(main.netdev)
  OBVIOUS
<1> PICK mode : mode = ModeOf(main.netdev, main.cfg)
  OBVIOUS
<1>1. /\ main \in MainType /\ netdev[main.netdev] # NULL /\ q \in PortNum
      /\ [main EXCEPT !.pc = "config"] \in MainType
  BY InCall DEF mac_mode_set_done
<1>2. main' = [main EXCEPT !.pc = "config"] /\ main'.netdev = main.netdev
  BY <1>1 DEF mac_mode_set_done, Finish, MainType
<1>3. mode \in Mode
  BY <1>1 DEF ModeOf, MainType, Config, Mode
<1>4. [port_info[q] EXCEPT !.mode = mode] \in InfoType
  BY <1>1, <1>3 DEF Typed, InfoType
<1>5. port_info' = [port_info EXCEPT ![q] = [port_info[q] EXCEPT !.mode = mode]]
  BY DEF mac_mode_set_done
<1>6. port_info' \in [PortNum -> InfoType] /\ hw' \in [PortNum -> HwType]
  <2>1. port_info \in [PortNum -> InfoType] /\ hw \in [PortNum -> HwType]
    BY DEF Typed
  <2>2. hw' = hw
    BY DEF mac_mode_set_done
  <2> QED BY <1>4, <1>5, <2>1, <2>2, Zenon
<1>7. UNCHANGED <<netdev, ref_cnt, event>>
  BY DEF mac_mode_set_done
<1> QED BY <1>1, <1>2, <1>6, <1>7, SameNetdevs

\* The main thread goes on with a netdev of which only other fields than xpdev change.
LEMMA ReplaceInCall ==
    ASSUME Constants, Typed, NEW n \in Netdev, NEW r \in NetdevType,
           netdev[n] # NULL, netdev' = [netdev EXCEPT ![n] = r], r.xpdev = netdev[n].xpdev,
           ref_cnt' = ref_cnt,
           \/ main' = main \/ main' = Idle
           \/ main' \in MainType /\ main \in MainType /\ main'.netdev = main.netdev,
           \/ event' = event
           \/ event' \in EventType /\ event \in EventType /\ event'.netdev = event.netdev
              /\ event'.stale = event.stale,
           port_info' \in [PortNum -> InfoType], hw' \in [PortNum -> HwType], NEW m
    PROVE  Typed' /\ RefStep(m)
<1>1. r # NULL
  BY DEF Constants
<1>2. /\ netdev' \in [Netdev -> {NULL} \union NetdevType]
      /\ netdev'[n] = r /\ \A k \in Netdev : k # n => netdev'[k] = netdev[k]
      /\ Holders' \subseteq Holders
  BY Replace, Zenon DEF Typed
<1>3. \A k \in Netdev : netdev[k] # NULL => netdev'[k] # NULL
  BY <1>1, <1>2
<1>4. Idle \notin MainType /\ Idle \notin EventType
  BY DEF Idle, MainType, EventType
<1>5. \A k \in MainType : k.netdev \in Netdev
  BY DEF MainType, Ported
<1>6. \A e \in EventType : e.netdev \in Netdev
  BY DEF EventType, Ported
<1>7. main' = Idle \/ main' \in MainType
  BY DEF Typed
<1>8. main' \in MainType => netdev'[main'.netdev] # NULL
  BY <1>3, <1>4, <1>5 DEF Typed
<1>9. event' = Idle \/ event' \in EventType
  BY DEF Typed
<1>10. event' \in EventType /\ ~event'.stale => netdev'[event'.netdev] # NULL
  BY <1>3, <1>4, <1>6 DEF Typed
<1> QED BY <1>2, <1>7, <1>8, <1>9, <1>10 DEF Typed, RefStep

\* ops_xp_port_set_config changes at most the link status of the netdev of the call.
LEMMA SetConfigStep ==
    ASSUME Constants, Typed, port_set_config, NEW m
    PROVE  Typed' /\ RefStep(m)
<1> PICK n : n = main.netdev
  OBVIOUS
<1>1. /\ main \in MainType /\ n \in Netdev /\ netdev[n] # NULL /\ netdev[n] \in NetdevType
      /\ [main EXCEPT !.pc = "enable"] \in MainType
  BY InCall DEF port_set_config
<1>2. main' = [main EXCEPT !.pc = "enable"] /\ main' \in MainType /\ main'.netdev = n
  BY <1>1 DEF port_set_config, Finish, MainType
<1>3. UNCHANGED <<port_info, hw, ref_cnt, event>>
  BY DEF port_set_config
<1>4. port_info' \in [PortNum -> InfoType] /\ hw' \in [PortNum -> HwType]
  BY <1>3 DEF Typed
<1>5. CASE netdev' = netdev
  BY <1>1, <1>2, <1>3, <1>4, <1>5, SameNetdevs
<1>6. CASE netdev' # netdev
  <2> PICK r : r = [netdev[n] EXCEPT !.link_status = FALSE]
    BY Zenon
  <2>1. r \in NetdevType /\ r.xpdev = netdev[n].xpdev
    BY <1>1, Zenon DEF NetdevType
  <2>2. netdev' = [netdev EXCEPT ![n] = r]
    BY <1>6 DEF port_set_config
  <2> QED BY <2>1, <2>2, <1>1, <1>2, <1>3, <1>4, ReplaceInCall, Zenon
<1> QED BY <1>5, <1>6

\* Noting a configuration on the netdev of the call, and going idle.
LEMMA AppliedStep ==
    ASSUME Constants, Typed, main.pc # "idle", Applied(main.netdev, main.cfg, main.up),
           port_info' \in [PortNum -> InfoType], hw' \in [PortNum -> HwType],
           UNCHANGED <<ref_cnt, event>>, NEW m
    PROVE  Typed' /\ RefStep(m)
<1> PICK n : n = main.netdev
  OBVIOUS
<1> PICK r : r = [netdev[n] EXCEPT !.pcfg = main.cfg]
  BY Zenon
<1>1. /\ main \in MainType /\ n \in Netdev /\ netdev[n] # NULL /\ netdev[n] \in NetdevType
  BY InCall
<1>2. r \in NetdevType /\ r.xpdev = netdev[n].xpdev
  BY <1>1 DEF NetdevType, MainType
<1>3. netdev' = [netdev EXCEPT ![n] = r] /\ main' = Idle
  BY DEF Applied
<1> QED BY <1>1, <1>2, <1>3, ReplaceInCall, Zenon

\* The call of ops_xp_port_set_enable leaves references alone.
LEMMA EnableStep ==
    ASSUME Constants, Typed, set_enable, NEW m
    PROVE  Typed' /\ RefStep(m)
<1> PICK q : q = port_num[main.netdev]
  OBVIOUS
<1>1. /\ main \in MainType /\ main.pc # "idle" /\ q \in PortNum /\ netdev[main.netdev] # NULL
      /\ [main EXCEPT !.pc = "record"] \in MainType
  BY InCall DEF set_enable
<1>2. [main EXCEPT !.pc = "record"].netdev = main.netdev /\ main.up \in BOOLEAN
  BY <1>1 DEF MainType
<1>3. hw' \in [PortNum -> HwType]
  <2>0. hw \in [PortNum -> HwType] /\ hw[q] \in HwType
    BY <1>1 DEF Typed
  <2>1. PICK t \in BOOLEAN : t = (hw[q].tuned /\ ~main.up)
    BY Zenon
  <2>2. [hw[q] EXCEPT !.enabled = main.up, !.tuned = t] \in HwType
    BY <2>0, <1>2, Zenon DEF HwType
  <2>3. \/ hw' = hw
        \/ hw' = [hw EXCEPT ![q] = [hw[q] EXCEPT !.enabled = main.up, !.tuned = t]]
    BY <2>0, <2>1, <1>1, Zenon DEF set_enable
  <2> QED BY <2>0, <2>2, <2>3
<1>4. port_info' \in [PortNum -> InfoType] /\ UNCHANGED <<ref_cnt, event>>
  BY DEF set_enable, Typed
<1>5. CASE Applied(main.netdev, main.cfg, main.up)
  BY <1>1, <1>3, <1>4, <1>5, AppliedStep
<1>6. CASE Finish("record") /\ UNCHANGED netdev
  BY <1>1, <1>2, <1>3, <1>4, <1>6, SameNetdevs DEF Finish
<1> QED BY <1>5, <1>6 DEF set_enable

\* So does what is noted after it.
LEMMA RecordStep ==
    ASSUME Constants, Typed, set_enable_record, NEW m
    PROVE  Typed' /\ RefStep(m)
<1> PICK q : q = port_num[main.netdev]
  OBVIOUS
<1>1. main \in MainType /\ main.pc # "idle" /\ q \in PortNum /\ main.up \in BOOLEAN
  BY InCall DEF set_enable_record, MainType
<1>2. port_info[q] \in InfoType /\ port_info \in [PortNum -> InfoType]
  BY <1>1 DEF Typed
<1>3. PICK t \in BOOLEAN : t = (port_info[q].serdes_tuned /\ ~main.up)
  BY Zenon
<1>4. Enabled(port_info[q], main.up)
         = [port_info[q] EXCEPT !.hw_enable = main.up, !.serdes_tuned = t]
  BY <1>2, <1>3 DEF Enabled, InfoType
<1>5. Enabled(port_info[q], main.up) \in InfoType
  BY <1>1, <1>2, <1>4, Zenon DEF InfoType
<1>6. port_info' = [port_info EXCEPT ![q] = Enabled(port_info[q], main.up)]
  BY DEF set_enable_record
<1>7. port_info' \in [PortNum -> InfoType] /\ hw' \in [PortNum -> HwType]
  BY <1>2, <1>5, <1>6, Zenon DEF set_enable_record, Typed
<1> QED BY <1>1, <1>7, AppliedStep DEF set_enable_record

\* Where the event thread is, whenever it handles a port.
LEMMA InEvent ==
    ASSUME Constants, Typed, event.pc # "idle"
    PROVE  /\ event \in EventType /\ event.netdev \in Netdev /\ port_num[event.netdev] \in PortNum
           /\ ~event.stale => netdev[event.netdev] # NULL /\ netdev[event.netdev] \in NetdevType
<1>1. event \in EventType
  BY DEF Typed, Idle
<1>2. event.netdev \in Ported /\ event.netdev \in Netdev
  BY <1>1 DEF EventType, Ported
<1>3. port_num[event.netdev] \in PortNum
  BY <1>2 DEF Constants
<1> QED BY <1>1, <1>2, <1>3 DEF Typed

\* The event thread finds a netdev that exists (ops_xp_netdev_from_port_num).
LEMMA FindsStep ==
    ASSUME Constants, Typed, NEW q \in PortNum, NEW n \in Netdev, event_finds(q, n), NEW m
    PROVE  Typed' /\ RefStep(m)
<1>1. event' \in EventType /\ event'.netdev = n /\ netdev[n] # NULL
  BY DEF event_finds, from_port_num, EventType, Ported
<1>2. UNCHANGED <<netdev, ref_cnt, main, port_info, hw>>
  BY DEF event_finds
<1>3. port_info' \in [PortNum -> InfoType] /\ hw' \in [PortNum -> HwType]
  BY <1>2 DEF Typed
<1> QED BY <1>1, <1>2, <1>3, SameNetdevs

\* A step to undefined behaviour, of which the model says no more.
LEMMA UndefinedStep ==
    ASSUME Constants, Typed, Undefined, NEW m
    PROVE  Typed' /\ RefStep(m)
<1>1. UNCHANGED <<netdev, ref_cnt, main, event, port_info, hw>>
  BY DEF Undefined
<1>2. port_info' \in [PortNum -> InfoType] /\ hw' \in [PortNum -> HwType]
  BY <1>1 DEF Typed
<1> QED BY <1>1, <1>2, SameNetdevs

\* It reads the netdev under its mutex.
LEMMA ChecksStep ==
    ASSUME Constants, Typed, event_checks, NEW m
    PROVE  Typed' /\ RefStep(m)
<1>1. event \in EventType /\ (~event.stale => netdev[event.netdev] # NULL
                                              /\ netdev[event.netdev] \in NetdevType)
  BY InEvent DEF event_checks
<1>2. CASE event.stale
  BY <1>2, UndefinedStep DEF event_checks
<1>3. CASE ~event.stale
  <2>1. PICK l : l = netdev[event.netdev].link_status
    OBVIOUS
  <2>2. l \in BOOLEAN
    BY <1>1, <1>3, <2>1 DEF NetdevType
  <2>3. PICK e : e = [event EXCEPT !.pc = "poll", !.link_status = l]
    OBVIOUS
  <2>4. e \in EventType /\ e.netdev = event.netdev
    BY <1>1, <2>2, <2>3, Zenon DEF EventType
  <2>5. event' = Idle \/ event' = e
    BY <1>3, <2>1, <2>3 DEF event_checks
  <2>6. UNCHANGED <<netdev, ref_cnt, main, port_info, hw>>
    BY <1>3 DEF event_checks
  <2>7. port_info' \in [PortNum -> InfoType] /\ hw' \in [PortNum -> HwType]
    BY <2>6 DEF Typed
  <2> QED BY <1>1, <1>3, <2>4, <2>5, <2>6, <2>7, SameNetdevs
<1> QED BY <1>2, <1>3

\* It polls the link of the port.
LEMMA PollsStep ==
    ASSUME Constants, Typed, event_polls, NEW m
    PROVE  Typed' /\ RefStep(m)
<1>1. event \in EventType /\ (~event.stale => netdev[event.netdev] # NULL)
  BY InEvent DEF event_polls
<1>2. PICK link \in BOOLEAN :
         event' = [event EXCEPT !.pc = IF link # event.link_status THEN "callback" ELSE "tune",
                                !.link = link]
  BY Zenon DEF event_polls
<1>3. event' \in EventType /\ event'.netdev = event.netdev /\ event'.stale = event.stale
  BY <1>1, <1>2, Zenon DEF EventType
<1>4. UNCHANGED <<netdev, ref_cnt, main, port_info, hw>>
  BY DEF event_polls
<1>5. port_info' \in [PortNum -> InfoType] /\ hw' \in [PortNum -> HwType]
  BY <1>4 DEF Typed
<1> QED BY <1>1, <1>3, <1>4, <1>5, SameNetdevs

\* It notes the link in a netdev that exists, or its pointer is stale.
LEMMA CallbackStep ==
    ASSUME Constants, Typed, link_state_callback, NEW m
    PROVE  Typed' /\ RefStep(m)
<1> PICK n : n = event.netdev
  OBVIOUS
<1>1. /\ event \in EventType /\ n \in Netdev
      /\ ~event.stale => netdev[n] # NULL /\ netdev[n] \in NetdevType
  BY InEvent DEF link_state_callback
<1>2. CASE event.stale
  BY <1>2, UndefinedStep DEF link_state_callback
<1>3. CASE ~event.stale
  <2> PICK r : r = [netdev[n] EXCEPT !.link_status = event.link]
    BY Zenon
  <2>1. r \in NetdevType /\ r.xpdev = netdev[n].xpdev
    BY <1>1, <1>3 DEF NetdevType, EventType
  <2>2. netdev' = [netdev EXCEPT ![n] = r] /\ event' = [event EXCEPT !.pc = "tune"]
        /\ UNCHANGED <<ref_cnt, main, port_info, hw>>
    BY <1>3 DEF link_state_callback
  <2>3. event' \in EventType /\ event'.netdev = event.netdev /\ event'.stale = event.stale
    BY <1>1, <2>2 DEF EventType
  <2>4. port_info' \in [PortNum -> InfoType] /\ hw' \in [PortNum -> HwType]
    BY <2>2 DEF Typed
  <2> QED BY <1>1, <1>3, <2>1, <2>2, <2>3, <2>4, ReplaceInCall, Zenon
<1> QED BY <1>2, <1>3

\* It tunes the port and is done with the netdev.
LEMMA TunesStep ==
    ASSUME Constants, Typed, event_tunes, NEW m
    PROVE  Typed' /\ RefStep(m)
<1> PICK q : q = port_num[event.netdev]
  OBVIOUS
<1>1. q \in PortNum
  BY InEvent DEF event_tunes
<1>2. [port_info[q] EXCEPT !.serdes_tuned = TRUE] \in InfoType
      /\ [hw[q] EXCEPT !.tuned = TRUE] \in HwType
  BY <1>1, Zenon DEF Typed, InfoType, HwType
<1>3. port_info' \in [PortNum -> InfoType] /\ hw' \in [PortNum -> HwType]
  BY <1>1, <1>2 DEF event_tunes, Typed
<1>4. UNCHANGED <<netdev, ref_cnt, main>> /\ event' = Idle
  BY DEF event_tunes
<1> QED BY <1>3, <1>4, SameNetdevs

\* A link that goes up or down changes the hardware only.
LEMMA LinkStep ==
    ASSUME Constants, Typed, NEW q \in PortNum, link_changes(q), NEW m
    PROVE  Typed' /\ RefStep(m)
<1>1. PICK l \in BOOLEAN : l = ~hw[q].link
  BY Zenon
<1>2. hw' = [hw EXCEPT ![q] = [hw[q] EXCEPT !.link = l]]
  BY <1>1 DEF link_changes, Typed, HwType
<1>3. [hw[q] EXCEPT !.link = l] \in HwType
  BY DEF Typed, HwType
<1>4. UNCHANGED <<netdev, ref_cnt, main, event, port_info>>
  BY DEF link_changes
<1>5. port_info' \in [PortNum -> InfoType] /\ hw' \in [PortNum -> HwType]
  BY <1>2, <1>3, <1>4 DEF Typed
<1> QED BY <1>4, <1>5, SameNetdevs

\* Each step keeps the types, and counts the references it takes and drops.
LEMMA NextStep ==
    ASSUME Constants, Typed, PortsNext
    PROVE  Typed' /\ \E m : RefStep(m)
<1>1. ASSUME NEW n \in Netdev,
             \/ netdev_construct(n) \/ netdev_destruct(n)
             \/ \E tap \in BOOLEAN : set_hw_intf_info(n, tap)
             \/ \E bridge, tap \in BOOLEAN : internal_set_hw_intf_info(n, bridge, tap)
             \/ \E enable \in BOOLEAN : internal_set_hw_intf_config(n, enable)
             \/ subintf_set_config(n)
      PROVE  Typed' /\ \E m : RefStep(m)
  BY <1>1, ConstructStep, DestructStep, InfoStep, InternalInfoStep, InternalConfigStep,
     SubintfStep
<1>2. Off \in Config /\ \A mode \in Mode : [enable |-> TRUE, mode |-> mode] \in Config
  BY DEF Off, Config, Mode
<1>3. ASSUME NEW n \in Netdev,
             \/ set_hw_intf_config(n, Off)
             \/ \E mode \in Mode : set_hw_intf_config(n, [enable |-> TRUE, mode |-> mode])
             \/ \E up \in BOOLEAN : update_flags(n, up)
      PROVE  Typed' /\ \E m : RefStep(m)
  BY <1>2, <1>3, StartStep, Zenon
<1>4. CASE mac_mode_set \/ mac_mode_set_done \/ port_set_config \/ set_enable \/ set_enable_record
  BY <1>4, ModeStep, ModeDoneStep, SetConfigStep, EnableStep, RecordStep
<1>5. CASE \E q \in PortNum : mac_mode_set_lane(q) \/ link_changes(q)
  BY <1>5, LaneStep, LinkStep
<1>6. CASE \E q \in PortNum, n \in Netdev : event_finds(q, n)
  BY <1>6, FindsStep
<1>7. CASE event_checks \/ event_polls \/ link_state_callback \/ event_tunes
  BY <1>7, ChecksStep, PollsStep, CallbackStep, TunesStep
<1>8. \A n \in Netdev :
         (IF Kind[n] = "parent" THEN Mode \ {"4x10"} ELSE {"4x10"}) \subseteq Mode
  BY DEF Mode
<1> QED BY <1>1, <1>3, <1>4, <1>5, <1>6, <1>7, <1>8 DEF PortsNext

\* What PortsInit says of types and of the references.
LEMMA InitStep ==
    ASSUME Constants, PortsInit
    PROVE  Typed /\ ref_cnt = 1 /\ Holders = {}
<1>1. Idle \notin MainType /\ Idle \notin EventType
  BY DEF Idle, MainType, EventType
<1>2. hw \in [PortNum -> HwType]
  BY DEF PortsInit, PortsStart, HwType
<1>3. port_info \in [PortNum -> InfoType]
  BY Zenon DEF PortsInit, InfoType, Mode
<1>4. netdev \in [Netdev -> {NULL} \union NetdevType] /\ Holders = {}
  BY DEF PortsInit, Holders
<1> QED BY <1>1, <1>2, <1>3, <1>4 DEF Typed, PortsInit, PortsStart

\* The count is large enough: the reference of switchd itself and those of the netdevs.
Counted == ref_cnt \in Nat /\ DeviceKept

\* The inductive invariant of the references.
LEMMA CountedInvariant ==
    ASSUME Constants
    PROVE  PortsSpec => [](Typed /\ Counted)
<1>1. \A S : S \in SUBSET Netdev => IsFiniteSet(S)
  BY FS_Subset DEF Constants
<1>2. IsFiniteSet(Holders) /\ IsFiniteSet(Holders')
  BY <1>1 DEF Holders
<1>3. PortsInit => Typed /\ Counted
  <2> SUFFICES ASSUME PortsInit
               PROVE  Typed /\ Counted
    OBVIOUS
  <2>1. Typed /\ ref_cnt = 1 /\ Holders = {}
    BY InitStep
  <2>2. Cardinality(Holders) = 0
    BY <2>1, FS_EmptySet
  <2> QED BY <2>1, <2>2 DEF Counted, DeviceKept, Holders
<1>4. Typed /\ Counted /\ [PortsNext]_vars => Typed' /\ Counted'
  <2> SUFFICES ASSUME Typed, Counted, [PortsNext]_vars
               PROVE  Typed' /\ Counted'
    OBVIOUS
  <2>1. CASE PortsNext
    <3>1. PICK m : Typed' /\ RefStep(m)
      BY <2>1, NextStep
    <3>2. ref_cnt \in Nat /\ ref_cnt >= 1 + Cardinality(Holders)
      BY DEF Counted, DeviceKept, Holders
    <3>3. ref_cnt' \in Nat /\ ref_cnt' >= 1 + Cardinality(Holders')
      BY <1>2, <3>1, <3>2, CountStep DEF RefStep
    <3> QED BY <3>1, <3>3 DEF Counted, DeviceKept, Holders
  <2>2. CASE UNCHANGED vars
    BY <2>2 DEF vars, Typed, Counted, DeviceKept
  <2> QED BY <2>1, <2>2
<1> QED BY <1>3, <1>4, PTL DEF PortsSpec

\* The last netdev to go never takes the device away (ops_xp_dev_free), however often its
\* initialisation was refused and tried again.
THEOREM DeviceIsKept ==
    ASSUME Constants
    PROVE  PortsSpec => []DeviceKept
<1>1. Typed /\ Counted => DeviceKept
  BY DEF Counted
<1> QED BY <1>1, CountedInvariant, PTL
-----------------------------------------------------------------------------
\* TunedSinceEnabled with the exception that it needs: a port is taken for tuned and is
\* not, only while the call that enables it has not noted so.
Enabling(q) == main.pc = "record" /\ main.up /\ port_num[main.netdev] = q
Tuned == \A q \in PortNum :
            port_info[q].serdes_tuned /\ hw[q].enabled /\ ~Enabling(q) => hw[q].tuned

\* A step that takes no port for tuned that was not, enables none, and starts from no
\* call that enables one (or does not touch the call), keeps it.
LEMMA TunedKept ==
    ASSUME Tuned, main.pc # "record" \/ main' = main,
           \A q \in PortNum :
              /\ port_info'[q].serdes_tuned => port_info[q].serdes_tuned
              /\ hw'[q].enabled => hw[q].enabled
              /\ hw'[q].tuned = hw[q].tuned
    PROVE  Tuned'
BY DEF Tuned, Enabling

\* So do the steps that leave the ports alone.
LEMMA TunedIdle ==
    ASSUME Tuned, UNCHANGED <<port_info, hw>>, main.pc # "record" \/ main' = main
    PROVE  Tuned'
BY TunedKept

\* Setting the MAC mode takes no port for tuned and enables none.
LEMMA TunedMode ==
    ASSUME Constants, Typed, Tuned, mac_mode_set \/ mac_mode_set_done
    PROVE  Tuned'
<1>1. main.pc # "record" /\ main.pc # "idle" /\ hw' = hw
  BY DEF mac_mode_set, mac_mode_set_done, Undefined
<1>2. ModePort(main.netdev) \in PortNum
  BY <1>1, InCall
<1>3. \A q \in PortNum : port_info'[q].serdes_tuned = port_info[q].serdes_tuned
  <2>0. port_info \in [PortNum -> InfoType]
    BY DEF Typed
  <2>1. PICK r : port_info' = [port_info EXCEPT ![r].initialized = TRUE]
                 \/ (\E b : port_info' = [port_info EXCEPT ![r].initialized = b])
                 \/ (\E b : port_info' = [port_info EXCEPT ![r].mode = b])
                 \/ port_info' = port_info
    BY Zenon DEF mac_mode_set, mac_mode_set_done, Undefined
  <2> QED BY <2>0, <2>1 DEF InfoType
<1> QED BY <1>1, <1>3, TunedKept

\* Disabling a lane does neither.
LEMMA TunedLane ==
    ASSUME Typed, Tuned, NEW r \in PortNum, mac_mode_set_lane(r)
    PROVE  Tuned'
<1>1. main.pc # "record"
  BY DEF mac_mode_set_lane
<1>2. \A q \in PortNum : /\ port_info'[q].serdes_tuned = port_info[q].serdes_tuned
                         /\ hw'[q].enabled => hw[q].enabled
                         /\ hw'[q].tuned = hw[q].tuned
  <2>1. port_info' = [port_info EXCEPT ![r].hw_enable = FALSE]
    BY DEF mac_mode_set_lane
  <2>2. hw' = hw \/ hw' = [hw EXCEPT ![r].enabled = FALSE]
    BY DEF mac_mode_set_lane
  <2> QED BY <2>1, <2>2 DEF Typed, InfoType, HwType
<1> QED BY <1>1, <1>2, TunedKept

\* The port in hardware is no longer tuned; until this is noted the port is excepted.
LEMMA TunedEnable ==
    ASSUME Constants, Typed, Tuned, set_enable
    PROVE  Tuned'
<1> PICK r : r = port_num[main.netdev]
  OBVIOUS
<1>1. main \in MainType /\ main.pc # "record" /\ r \in PortNum /\ port_info' = port_info
  BY InCall DEF set_enable
<1>2. CASE hw' = hw
  BY <1>1, <1>2, TunedIdle
<1>3. CASE hw' # hw
  <2>1. /\ hw' = [hw EXCEPT ![r].enabled = main.up, ![r].tuned = @ /\ ~main.up]
        /\ main' = [main EXCEPT !.pc = "record"]
    BY <1>3 DEF set_enable, Finish
  <2>2. /\ hw'[r].enabled = main.up
        /\ \A q \in PortNum \ {r} : hw'[q] = hw[q]
    BY <1>1, <2>1 DEF Typed, HwType
  <2>3. main.up => Enabling(r)'
    BY <1>1, <2>1 DEF Enabling, MainType
  <2>4. \A q \in PortNum \ {r} : ~Enabling(q)
    BY <1>1 DEF Enabling
  <2> QED BY <1>1, <2>2, <2>3, <2>4 DEF Tuned
<1> QED BY <1>2, <1>3

\* What is noted then ends the exception, and no longer takes the port for tuned.
LEMMA TunedRecord ==
    ASSUME Constants, Typed, Tuned, set_enable_record
    PROVE  Tuned'
<1> PICK r : r = port_num[main.netdev]
  OBVIOUS
<1>1. main \in MainType /\ r \in PortNum /\ hw' = hw
  BY InCall DEF set_enable_record
<1>2. port_info \in [PortNum -> InfoType] /\ port_info[r] \in InfoType
  BY <1>1 DEF Typed
<1>3. port_info' = [port_info EXCEPT ![r] = Enabled(port_info[r], main.up)]
  BY DEF set_enable_record
<1>4. Enabled(port_info[r], main.up).serdes_tuned => port_info[r].serdes_tuned /\ ~main.up
  BY <1>2, Zenon DEF Enabled, InfoType
<1>5. port_info'[r].serdes_tuned => port_info[r].serdes_tuned /\ ~main.up
  BY <1>1, <1>2, <1>3, <1>4
<1>6. \A q \in PortNum \ {r} : port_info'[q] = port_info[q] /\ ~Enabling(q)
  BY <1>1, <1>2, <1>3 DEF Enabling
<1>7. ~main.up => ~Enabling(r)
  BY DEF Enabling
<1> QED BY <1>1, <1>5, <1>6, <1>7 DEF Tuned

\* A port that the event thread takes for tuned has been tuned.
LEMMA TunedTunes ==
    ASSUME Constants, Typed, Tuned, event_tunes
    PROVE  Tuned'
<1> PICK r : r = port_num[event.netdev]
  OBVIOUS
<1>1. r \in PortNum /\ main' = main
  BY InEvent DEF event_tunes
<1>2. CASE UNCHANGED <<port_info, hw>>
  BY <1>1, <1>2, TunedIdle
<1>3. CASE /\ port_info' = [port_info EXCEPT ![r].serdes_tuned = TRUE]
           /\ hw' = [hw EXCEPT ![r].tuned = TRUE]
  <2>1. hw'[r].tuned
    BY <1>1, <1>3 DEF Typed, HwType
  <2>2. \A q \in PortNum \ {r} : port_info'[q] = port_info[q] /\ hw'[q] = hw[q]
    BY <1>1, <1>3 DEF Typed
  <2> QED BY <1>1, <2>1, <2>2 DEF Tuned, Enabling
<1> QED BY <1>2, <1>3 DEF event_tunes

\* A link that goes up or down leaves the tuning alone.
LEMMA TunedLink ==
    ASSUME Typed, Tuned, NEW r \in PortNum, link_changes(r)
    PROVE  Tuned'
<1>1. \A q \in PortNum : hw'[q].enabled = hw[q].enabled /\ hw'[q].tuned = hw[q].tuned
  BY DEF link_changes, Typed, HwType
<1> QED BY <1>1, TunedKept DEF link_changes

\* Each step keeps it.
LEMMA TunedNext ==
    ASSUME Constants, Typed, Tuned, PortsNext
    PROVE  Tuned'
<1>0. main = Idle => main.pc # "record"
  BY DEF Idle
<1>1. ASSUME NEW n \in Netdev,
             \/ netdev_construct(n) \/ netdev_destruct(n)
             \/ \E tap \in BOOLEAN : set_hw_intf_info(n, tap)
             \/ \E bridge, tap \in BOOLEAN : internal_set_hw_intf_info(n, bridge, tap)
             \/ \E enable \in BOOLEAN : internal_set_hw_intf_config(n, enable)
             \/ subintf_set_config(n)
      PROVE  Tuned'
  BY <1>1, TunedIdle, Zenon DEF netdev_construct, netdev_destruct, set_hw_intf_info,
     internal_set_hw_intf_info, internal_set_hw_intf_config, subintf_set_config
<1>2. ASSUME NEW n \in Netdev,
             (\E cfg : set_hw_intf_config(n, cfg)) \/ (\E up \in BOOLEAN : update_flags(n, up))
      PROVE  Tuned'
  BY <1>0, <1>2, TunedIdle DEF set_hw_intf_config, update_flags
<1>3. CASE mac_mode_set \/ mac_mode_set_done
  BY <1>3, TunedMode
<1>4. CASE \E q \in PortNum : mac_mode_set_lane(q) \/ link_changes(q)
  BY <1>4, TunedLane, TunedLink
<1>5. CASE port_set_config
  BY <1>5, TunedIdle DEF port_set_config
<1>6. CASE set_enable \/ set_enable_record
  BY <1>6, TunedEnable, TunedRecord
<1>7. CASE (\E q \in PortNum, n \in Netdev : event_finds(q, n)) \/ event_checks \/ event_polls
           \/ link_state_callback
  BY <1>7, TunedIdle, Zenon DEF event_finds, event_checks, event_polls, link_state_callback, Undefined
<1>8. CASE event_tunes
  BY <1>8, TunedTunes
<1> QED BY <1>1, <1>2, <1>3, <1>4, <1>5, <1>6, <1>7, <1>8, Zenon DEF PortsNext

\* A port that is taken for tuned has been tuned since it was last enabled
\* (ops_xp_port_set_enable, ops_xp_port_event_handler), for every set of netdevs and
\* ports, although the flag is cleared only after the port was enabled and XP_LOCK
\* released, and the event thread may tune the port in between.
THEOREM TunedIsTrue ==
    ASSUME Constants
    PROVE  PortsSpec => []TunedSinceEnabled
<1>1. PortsInit => Tuned
  BY DEF PortsInit, PortsStart, Tuned
<1>2. Typed /\ Tuned /\ [PortsNext]_vars => Tuned'
  <2> SUFFICES ASSUME Typed, Tuned, [PortsNext]_vars
               PROVE  Tuned'
    OBVIOUS
  <2>1. CASE PortsNext
    BY <2>1, TunedNext
  <2>2. CASE UNCHANGED vars
    BY <2>2, TunedIdle DEF vars
  <2> QED BY <2>1, <2>2
<1>3. Tuned => TunedSinceEnabled
  BY DEF Tuned, TunedSinceEnabled, Enabling
<1>4. PortsSpec => []Typed
  BY CountedInvariant, PTL
<1> QED BY <1>1, <1>2, <1>3, <1>4, PTL DEF PortsSpec
-----------------------------------------------------------------------------
(* Types and bounds *)

Limits == MaxRefs \in Nat \ {0} /\ MaxFaults \in Nat

\* The variables of which Typed and Counted do not speak, and the bounds.
Bounded ==
    /\ ref_cnt <= MaxRefs /\ faults \in 0..MaxFaults
    /\ locked \in BOOLEAN /\ undefined \in BOOLEAN
    /\ asked \in [Netdev -> {NULL} \union BOOLEAN] /\ shared \subseteq Netdev

\* A refused call is one more fault, up to the bound.
LEMMA RefusedBounded ==
    ASSUME Limits, faults \in 0..MaxFaults, Refused \/ Accepted
    PROVE  faults' \in 0..MaxFaults
BY DEF Limits, Refused, Accepted

\* Netdevs that come and go, and their initialisation, keep the bounds.
LEMMA BoundedNetdevs ==
    ASSUME Limits, Bounded, ref_cnt \in Nat, NEW n \in Netdev,
           \/ netdev_construct(n) \/ netdev_destruct(n)
           \/ \E tap \in BOOLEAN : set_hw_intf_info(n, tap)
           \/ \E bridge, tap \in BOOLEAN : internal_set_hw_intf_info(n, bridge, tap)
           \/ \E enable \in BOOLEAN : internal_set_hw_intf_config(n, enable)
           \/ subintf_set_config(n)
    PROVE  Bounded'
<1>1. MaxRefs \in Nat
  BY DEF Limits
<1>2. CASE netdev_construct(n)
  BY <1>2, Zenon DEF Bounded, netdev_construct
<1>3. CASE netdev_destruct(n)
  <2>1. ref_cnt' <= MaxRefs
    BY <1>1, <1>3 DEF Bounded, netdev_destruct
  <2>2. shared' \subseteq Netdev
    BY <1>3 DEF Bounded, netdev_destruct, SamePort
  <2>3. asked' \in [Netdev -> {NULL} \union BOOLEAN]
    BY <1>3, Zenon DEF Bounded, netdev_destruct
  <2> QED BY <1>3, <2>1, <2>2, <2>3 DEF Bounded, netdev_destruct
<1>4. ASSUME NEW tap \in BOOLEAN, set_hw_intf_info(n, tap)
      PROVE  Bounded'
  <2>1. ref_cnt' <= MaxRefs /\ (Refused \/ Accepted)
    BY <1>1, <1>4 DEF set_hw_intf_info
  <2>2. faults' \in 0..MaxFaults
    BY <2>1, RefusedBounded DEF Bounded
  <2> QED BY <1>4, <2>1, <2>2 DEF Bounded, set_hw_intf_info, history
<1>5. ASSUME NEW bridge \in BOOLEAN, NEW tap \in BOOLEAN, internal_set_hw_intf_info(n, bridge, tap)
      PROVE  Bounded'
  <2>1. ref_cnt' <= MaxRefs /\ (Refused \/ Accepted)
    BY <1>1, <1>5 DEF internal_set_hw_intf_info, Bounded
  <2>2. faults' \in 0..MaxFaults
    BY <2>1, RefusedBounded DEF Bounded
  <2> QED BY <1>5, <2>1, <2>2 DEF Bounded, internal_set_hw_intf_info, history
<1>6. ASSUME NEW enable \in BOOLEAN, internal_set_hw_intf_config(n, enable)
      PROVE  Bounded'
  BY <1>6 DEF Bounded, internal_set_hw_intf_config, history
<1>7. CASE subintf_set_config(n)
  <2>1. ref_cnt' <= MaxRefs
    BY <1>1, <1>7 DEF subintf_set_config, Bounded
  <2> QED BY <1>7, <2>1 DEF Bounded, subintf_set_config, history
<1> QED BY <1>2, <1>3, <1>4, <1>5, <1>6, <1>7

\* Noting a configuration keeps them.
LEMMA BoundedApplied ==
    ASSUME Bounded, NEW n \in Netdev, NEW cfg, NEW up \in BOOLEAN, Applied(n, cfg, up)
    PROVE  asked' \in [Netdev -> {NULL} \union BOOLEAN] /\ shared' \subseteq Netdev
<1>1. asked' \in [Netdev -> {NULL} \union BOOLEAN]
  BY Zenon DEF Bounded, Applied
<1>2. shared' \subseteq Netdev
  BY DEF Bounded, Applied, Rivals
<1> QED BY <1>1, <1>2

\* So do the calls of the main thread and the steps of the event thread.
LEMMA BoundedCalls ==
    ASSUME Constants, Typed, Limits, Bounded,
           \/ \E n \in Netdev : (\E cfg : set_hw_intf_config(n, cfg))
                                \/ (\E up \in BOOLEAN : update_flags(n, up))
           \/ mac_mode_set \/ mac_mode_set_done
           \/ \E q \in PortNum : mac_mode_set_lane(q) \/ link_changes(q)
           \/ port_set_config \/ set_enable \/ set_enable_record
           \/ \E q \in PortNum, n \in Netdev : event_finds(q, n)
           \/ event_checks \/ event_polls \/ link_state_callback \/ event_tunes
    PROVE  Bounded'
<1>1. faults \in 0..MaxFaults
  BY DEF Bounded
<1>2. CASE UNCHANGED <<ref_cnt, faults, locked, undefined, asked, shared>>
  BY <1>2 DEF Bounded
<1>3. CASE UNCHANGED <<ref_cnt, faults, locked, asked, shared>> /\ undefined' = TRUE
  BY <1>3 DEF Bounded
<1>4. CASE (Refused \/ Accepted) /\ locked' \in {locked, TRUE}
           /\ UNCHANGED <<ref_cnt, undefined, asked, shared>>
  BY <1>1, <1>4, RefusedBounded, Zenon DEF Bounded
<1>5. CASE mac_mode_set
  BY <1>3, <1>4, <1>5, Zenon DEF mac_mode_set, Undefined, history
<1>6. ASSUME NEW q \in PortNum, mac_mode_set_lane(q) \/ link_changes(q)
      PROVE  Bounded'
  BY <1>2, <1>4, <1>6, Zenon DEF mac_mode_set_lane, link_changes, history
<1>7. CASE set_enable
  <2>1. main.netdev \in Netdev /\ main.up \in BOOLEAN
    BY <1>7, InCall DEF set_enable, MainType
  <2>2. UNCHANGED <<ref_cnt, locked, undefined>> /\ (Refused \/ Accepted)
    BY <1>7 DEF set_enable, Accepted
  <2>3. faults' \in 0..MaxFaults
    BY <1>1, <2>2, RefusedBounded
  <2>4. CASE Applied(main.netdev, main.cfg, main.up)
    BY <2>1, <2>2, <2>3, <2>4, BoundedApplied DEF Bounded
  <2>5. CASE UNCHANGED history
    BY <2>2, <2>3, <2>5 DEF Bounded, history
  <2> QED BY <1>7, <2>4, <2>5 DEF set_enable
<1>8. CASE set_enable_record
  <2>1. main.netdev \in Netdev /\ main.up \in BOOLEAN
    BY <1>8, InCall DEF set_enable_record, MainType
  <2> QED BY <1>8, <2>1, BoundedApplied DEF set_enable_record, Bounded
<1>9. CASE event_checks \/ link_state_callback
  BY <1>2, <1>3, <1>9, Zenon DEF event_checks, link_state_callback, Undefined, history
<1>10. CASE event_polls
  <2>1. Refused \/ Accepted
    BY <1>10, Zenon DEF event_polls
  <2> QED BY <1>4, <1>10, <2>1, Zenon DEF event_polls, history
<1>11. CASE \/ \E n \in Netdev : (\E cfg : set_hw_intf_config(n, cfg))
                                 \/ (\E up \in BOOLEAN : update_flags(n, up))
            \/ mac_mode_set_done \/ port_set_config \/ event_tunes
            \/ \E q \in PortNum, n \in Netdev : event_finds(q, n)
  BY <1>2, <1>11, Zenon DEF set_hw_intf_config, update_flags, mac_mode_set_done, port_set_config,
     event_tunes, event_finds, history
<1> QED BY <1>5, <1>6, <1>7, <1>8, <1>9, <1>10, <1>11

\* The bounds hold of every reachable state.
LEMMA BoundedInvariant ==
    ASSUME Constants, Limits
    PROVE  PortsSpec => [](Typed /\ Counted /\ Bounded)
<1>1. PortsInit => Bounded
  <2> SUFFICES ASSUME PortsInit PROVE Bounded
    OBVIOUS
  <2>1. ref_cnt <= MaxRefs /\ faults \in 0..MaxFaults
    BY DEF PortsInit, PortsStart, Limits
  <2> QED BY <2>1, Zenon DEF PortsInit, PortsStart, Bounded
<1>2. Typed /\ Counted /\ Bounded /\ [PortsNext]_vars => Bounded'
  <2> SUFFICES ASSUME Typed, Counted, Bounded, [PortsNext]_vars
               PROVE  Bounded'
    OBVIOUS
  <2>1. CASE UNCHANGED vars
    BY <2>1 DEF vars, Bounded, history
  <2>2. CASE PortsNext
    BY <2>2, BoundedNetdevs, BoundedCalls, Zenon DEF PortsNext, Counted
  <2> QED BY <2>1, <2>2
<1> QED BY <1>1, <1>2, CountedInvariant, PTL DEF PortsSpec

\* The variables keep their types and the bounds are respected, for all netdevs and ports.
THEOREM PortsTypesCorrect ==
    ASSUME Constants, Limits
    PROVE  PortsSpec => []PortsTypeOK
<1>1. Typed /\ Counted /\ Bounded => PortsTypeOK
  <2> SUFFICES ASSUME Typed, Counted, Bounded
               PROVE  PortsTypeOK
    OBVIOUS
  <2>1. ref_cnt \in 1..MaxRefs
    <3>1. IsFiniteSet(Holders)
      BY FS_Subset DEF Constants, Holders
    <3>2. Cardinality(Holders) \in Nat
      BY <3>1, FS_CardinalityType
    <3>3. ref_cnt \in Nat /\ ref_cnt >= 1 + Cardinality(Holders) /\ ref_cnt <= MaxRefs
      BY DEF Counted, DeviceKept, Holders, Bounded
    <3> QED BY <3>2, <3>3 DEF Limits
  <2>2. /\ main = Idle \/ main \in [pc : {"mode", "lanes", "config", "enable", "record"},
                                    netdev : Netdev, cfg : Config, up : BOOLEAN,
                                    todo : SUBSET PortNum]
        /\ event = Idle \/ event \in [pc : {"check", "poll", "callback", "tune"}, netdev : Netdev,
                                      stale : BOOLEAN, link_status : BOOLEAN, link : BOOLEAN]
    BY DEF Typed, MainType, EventType, Ported
  <2>3. \A n \in Netdev : netdev[n] = NULL \/ netdev[n] \in NetdevType
    BY DEF Typed
  <2>4. \A n \in Netdev : asked[n] \in {NULL} \union BOOLEAN
    BY DEF Bounded
  <2> QED BY <2>1, <2>2, <2>3, <2>4, Zenon DEF PortsTypeOK, Typed, Bounded, InfoType, HwType
<1> QED BY <1>1, BoundedInvariant, PTL
-----------------------------------------------------------------------------
(* Ports are enabled as asked *)

\* How ports are wired: two netdevs of one port are of different kinds and in the same port
\* that can be split, and the lanes of a port belong to its own netdevs.
Wiring ==
    /\ \A r, s \in Ported : r # s /\ port_num[r] = port_num[s]
                              => Kind[r] # Kind[s] /\ ModePort(r) = ModePort(s)
    /\ \A q \in PortNum, r \in Ported : port_num[r] \in Lanes[q] => ModePort(r) = q

\* The netdevs configured to be enabled, those last asked to be up, those of a port, and
\* those of the other kind in the port that n is in.
On == {r \in Ported : netdev[r] # NULL /\ netdev[r].pcfg.enable}
Ups == {r \in Netdev : asked[r] = TRUE}
OnPort(p) == {r \in Ported : port_num[r] = p}
RivalsIn(on, n) == {r \in on : Kind[r] # Kind[n] /\ ModePort(r) = ModePort(n)}

\* The rivals that the call of the main thread will note in `shared'.
Coming == IF main # Idle /\ main.cfg.enable THEN RivalsIn(On, main.netdev) ELSE {}

\* hw_enable tells whether the port is enabled, but between the two steps of
\* ops_xp_port_set_enable.
Noted ==
    \A q \in PortNum :
       hw[q].enabled = IF main.pc = "record" /\ port_num[main.netdev] = q THEN main.up
                       ELSE port_info[q].hw_enable

\* A netdev that was asked to be up is enabled; one that is not has no other setting.
Configured ==
    /\ Ups \subseteq On
    /\ \A n \in Netdev : netdev[n] # NULL /\ ~netdev[n].pcfg.enable => netdev[n].pcfg = Off

\* Netdevs of two kinds that are enabled in one port are known to share it ...
Conflicts ==
    \A r, s \in On : Kind[r] # Kind[s] /\ ModePort(r) = ModePort(s) => r \in shared /\ s \in shared

\* ... and so are enabled subports of a port that is not split.
Split ==
    \A r \in On : Kind[r] = "subport" /\ port_info[ModePort(r)].mode # "4x10"
                    => r \in shared \union Coming

\* What the main thread is about to do to which ports.
Calling ==
    main # Idle =>
       /\ main.up => main.cfg.enable
       /\ ~main.up => main.netdev \in On
       /\ ~main.cfg.enable => main.cfg = Off
       /\ main.pc \in {"mode", "lanes"} => main.up
       /\ main.pc = "lanes" =>
             /\ port_info[ModePort(main.netdev)].mode # ModeOf(main.netdev, main.cfg)
             /\ main.todo \subseteq IF ModeOf(main.netdev, main.cfg) = "4x10"
                                    THEN Lanes[ModePort(main.netdev)]
                                    ELSE {ModePort(main.netdev)}
       /\ main.cfg.enable /\ Kind[main.netdev] = "subport" /\ main.pc \notin {"mode", "lanes"} =>
             port_info[ModePort(main.netdev)].mode = "4x10" \/ main.netdev \in shared

\* Ports that nobody shares are as asked, but for the one of the call.
AskedNow ==
    \A p \in PortNum :
       /\ OnPort(p) \intersect (shared \union Coming) = {}
       /\ ~(main # Idle /\ port_num[main.netdev] = p)
       => (hw[p].enabled <=> OnPort(p) \intersect Ups # {})

AskedInv == Noted /\ Configured /\ Conflicts /\ Split /\ Calling /\ AskedNow

\* Rivals in terms of the netdevs that are on.
LEMMA RivalsAre == \A n : Rivals(n) = RivalsIn(On, n)
BY DEF Rivals, RivalsIn, On, Ported

SamePcfg ==
    \A n \in Netdev : /\ netdev'[n] = NULL <=> netdev[n] = NULL
                      /\ netdev[n] # NULL => netdev'[n].pcfg = netdev[n].pcfg
SamePortState ==
    \A q \in PortNum : /\ port_info'[q].mode = port_info[q].mode
                       /\ port_info'[q].hw_enable = port_info[q].hw_enable
                       /\ hw'[q].enabled = hw[q].enabled

\* Every netdev with a port is in one that can be split, or in its own.
LEMMA InModePort ==
    ASSUME Constants
    PROVE  \A r \in Ported : ModePort(r) \in PortNum
BY DEF ModePort, Constants, Ported

\* A netdev that changes but for its configuration.
LEMMA KeepsPcfg ==
    ASSUME Constants, netdev \in [Netdev -> {NULL} \union NetdevType], NEW n \in Netdev,
           NEW r \in NetdevType, netdev[n] # NULL, r.pcfg = netdev[n].pcfg,
           netdev' = [netdev EXCEPT ![n] = r]
    PROVE  SamePcfg
<1>1. r # NULL
  BY DEF Constants
<1> QED BY <1>1 DEF SamePcfg

\* Steps that leave ports and the call alone, and the same netdevs on and up.
LEMMA AskedKept ==
    ASSUME Constants, Typed, AskedInv, On' = On, Ups' = Ups, Configured', SamePortState,
           UNCHANGED <<main, shared>>
    PROVE  AskedInv'
<1>1. Coming' = Coming
  BY DEF Coming
<1>2. Noted'
  BY DEF AskedInv, Noted, SamePortState
<1>3. Conflicts'
  BY DEF AskedInv, Conflicts
<1>4. Split'
  <2>1. \A r \in On : r \in Ported
    BY DEF On
  <2> QED BY <1>1, InModePort, <2>1 DEF AskedInv, Split, SamePortState
<1>5. Calling'
  <2>1. main # Idle => main.netdev \in Ported
    BY DEF Typed, MainType
  <2>2. main # Idle => port_info'[ModePort(main.netdev)].mode = port_info[ModePort(main.netdev)].mode
    BY InModePort, <2>1, Zenon DEF SamePortState
  <2> QED BY <1>1, <2>2, Zenon DEF AskedInv, Calling
<1>6. AskedNow'
  BY <1>1 DEF AskedInv, AskedNow, SamePortState
<1> QED BY <1>2, <1>3, <1>4, <1>5, <1>6 DEF AskedInv

\* Steps that leave configurations, ports and the call alone.
LEMMA AskedFrame ==
    ASSUME Constants, Typed, AskedInv, SamePcfg, SamePortState,
           UNCHANGED <<main, asked, shared>>
    PROVE  AskedInv'
<1>1. On' = On /\ Ups' = Ups
  BY DEF On, SamePcfg, Ported, Ups
<1>2. Configured'
  BY <1>1 DEF AskedInv, Configured, SamePcfg
<1> QED BY <1>1, <1>2, AskedKept

\* Initialisation of a netdev (set_hw_intf_info and its kin).
LEMMA AskedInfo ==
    ASSUME Constants, Typed, AskedInv, NEW n \in Netdev,
           \/ \E tap \in BOOLEAN : set_hw_intf_info(n, tap)
           \/ \E bridge, tap \in BOOLEAN : internal_set_hw_intf_info(n, bridge, tap)
           \/ \E enable \in BOOLEAN : internal_set_hw_intf_config(n, enable)
           \/ subintf_set_config(n)
    PROVE  AskedInv'
<1>1. netdev[n] # NULL /\ netdev[n] \in NetdevType
      /\ UNCHANGED <<port_info, hw, main, asked, shared>>
  BY Zenon DEF Typed, set_hw_intf_info, internal_set_hw_intf_info, internal_set_hw_intf_config,
         subintf_set_config, history
<1>2. netdev \in [Netdev -> {NULL} \union NetdevType]
  BY DEF Typed
<1>3. PICK r \in NetdevType : netdev' = [netdev EXCEPT ![n] = r] /\ r.pcfg = netdev[n].pcfg
  <2>1. ASSUME NEW tap \in BOOLEAN, set_hw_intf_info(n, tap)
        PROVE  \E r \in NetdevType : netdev' = [netdev EXCEPT ![n] = r] /\ r.pcfg = netdev[n].pcfg
    <3>1. CASE netdev' = [netdev EXCEPT ![n].xpdev = TRUE]
      <4>1. [netdev[n] EXCEPT !.xpdev = TRUE] \in NetdevType
            /\ [netdev[n] EXCEPT !.xpdev = TRUE].pcfg = netdev[n].pcfg
        BY <1>1, Zenon DEF NetdevType
      <4>2. netdev' = [netdev EXCEPT ![n] = [netdev[n] EXCEPT !.xpdev = TRUE]]
        BY <3>1
      <4> QED BY <4>1, <4>2, Zenon
    <3>2. CASE netdev' = [netdev EXCEPT ![n].xpdev = TRUE, ![n].port_info = TRUE]
      <4>1. [netdev[n] EXCEPT !.xpdev = TRUE, !.port_info = TRUE] \in NetdevType
            /\ [netdev[n] EXCEPT !.xpdev = TRUE, !.port_info = TRUE].pcfg = netdev[n].pcfg
        BY <1>1, Zenon DEF NetdevType
      <4>2. netdev' = [netdev EXCEPT ![n] = [netdev[n] EXCEPT !.xpdev = TRUE, !.port_info = TRUE]]
        BY <3>2, Zenon
      <4> QED BY <4>1, <4>2, Zenon
    <3>3. CASE netdev' = [netdev EXCEPT ![n].xpdev = TRUE, ![n].port_info = TRUE,
                            ![n].parent_port_info = Kind[n] = "subport"
                                                      /\ netdev[Parent[n]].port_info,
                            ![n].initialized = tap]
      <4>1. PICK y \in BOOLEAN : y = (Kind[n] = "subport" /\ netdev[Parent[n]].port_info)
        BY Zenon
      <4> PICK e : e = [netdev[n] EXCEPT !.xpdev = TRUE, !.port_info = TRUE,
                                         !.parent_port_info = y, !.initialized = tap]
        BY Zenon
      <4>2. e \in NetdevType /\ e.pcfg = netdev[n].pcfg
        BY <1>1, <2>1, Zenon DEF NetdevType
      <4>3. netdev' = [netdev EXCEPT ![n].xpdev = TRUE, ![n].port_info = TRUE,
                                     ![n].parent_port_info = y, ![n].initialized = tap]
        BY <3>3, <4>1, Zenon
      <4>4. netdev' = [netdev EXCEPT ![n] = e]
        BY <4>3, Zenon
      <4> QED BY <4>2, <4>4, Zenon
    <3> QED BY <2>1, <3>1, <3>2, <3>3 DEF set_hw_intf_info
  <2>2. ASSUME NEW bridge \in BOOLEAN, NEW tap \in BOOLEAN,
               internal_set_hw_intf_info(n, bridge, tap)
        PROVE  \E r \in NetdevType : netdev' = [netdev EXCEPT ![n] = r] /\ r.pcfg = netdev[n].pcfg
    <3>1. PICK x \in BOOLEAN, y \in BOOLEAN :
             netdev' = [netdev EXCEPT ![n].xpdev = x, ![n].initialized = y]
      BY <2>2, Zenon DEF internal_set_hw_intf_info
    <3>2. [netdev[n] EXCEPT !.xpdev = x, !.initialized = y] \in NetdevType
          /\ [netdev[n] EXCEPT !.xpdev = x, !.initialized = y].pcfg = netdev[n].pcfg
      BY <1>1, Zenon DEF NetdevType
    <3>3. netdev' = [netdev EXCEPT ![n] = [netdev[n] EXCEPT !.xpdev = x, !.initialized = y]]
      BY <3>1, Zenon
    <3> QED BY <3>2, <3>3, Zenon
  <2>3. ASSUME NEW enable \in BOOLEAN, internal_set_hw_intf_config(n, enable)
        PROVE  \E r \in NetdevType : netdev' = [netdev EXCEPT ![n] = r] /\ r.pcfg = netdev[n].pcfg
    <3>1. [netdev[n] EXCEPT !.link_status = enable] \in NetdevType
          /\ [netdev[n] EXCEPT !.link_status = enable].pcfg = netdev[n].pcfg
      BY <1>1, <2>3, Zenon DEF NetdevType
    <3>2. netdev' = [netdev EXCEPT ![n] = [netdev[n] EXCEPT !.link_status = enable]]
      BY <2>3 DEF internal_set_hw_intf_config
    <3> QED BY <3>1, <3>2, Zenon
  <2>4. ASSUME subintf_set_config(n)
        PROVE  \E r \in NetdevType : netdev' = [netdev EXCEPT ![n] = r] /\ r.pcfg = netdev[n].pcfg
    <3>1. PICK x \in BOOLEAN : netdev' = [netdev EXCEPT ![n].xpdev = x]
      BY <2>4, Zenon DEF subintf_set_config
    <3>2. [netdev[n] EXCEPT !.xpdev = x] \in NetdevType
          /\ [netdev[n] EXCEPT !.xpdev = x].pcfg = netdev[n].pcfg
      BY <1>1, Zenon DEF NetdevType
    <3>3. netdev' = [netdev EXCEPT ![n] = [netdev[n] EXCEPT !.xpdev = x]]
      BY <3>1
    <3> QED BY <3>2, <3>3, Zenon
  <2> QED BY <2>1, <2>2, <2>3, <2>4
<1>4. SamePcfg
  BY <1>1, <1>2, <1>3, KeepsPcfg, Zenon
<1>5. SamePortState
  BY <1>1 DEF SamePortState
<1> QED BY <1>1, <1>4, <1>5, AskedFrame

\* The event thread and the link change nothing of what was asked.
LEMMA AskedEvents ==
    ASSUME Constants, Typed, AskedInv,
           \/ \E q \in PortNum, n \in Netdev : event_finds(q, n)
           \/ \E q \in PortNum : link_changes(q)
           \/ event_checks \/ event_polls \/ link_state_callback \/ event_tunes
           \/ Undefined \/ UNCHANGED vars
    PROVE  AskedInv'
<1>1. UNCHANGED <<main, asked, shared>>
  BY Zenon DEF event_finds, link_changes, event_checks, event_polls, link_state_callback,
         event_tunes, Undefined, vars, history
<1>2. SamePcfg
  <2>1. CASE link_state_callback /\ ~event.stale
    <3>1. event \in EventType /\ event.netdev \in Netdev /\ event.link \in BOOLEAN
      BY <2>1 DEF link_state_callback, Typed, EventType, Ported, Idle
    <3> PICK n \in Netdev : n = event.netdev
      BY <3>1
    <3>2. netdev[n] # NULL /\ netdev[n] \in NetdevType
          /\ netdev \in [Netdev -> {NULL} \union NetdevType]
      BY <2>1, <3>1 DEF Typed
    <3>3. netdev' = [netdev EXCEPT ![n] = [netdev[n] EXCEPT !.link_status = event.link]]
      BY <2>1 DEF link_state_callback
    <3>4. [netdev[n] EXCEPT !.link_status = event.link] \in NetdevType
          /\ [netdev[n] EXCEPT !.link_status = event.link].pcfg = netdev[n].pcfg
      BY <3>1, <3>2, Zenon DEF NetdevType
    <3> QED BY <3>2, <3>3, <3>4, KeepsPcfg, Zenon
  <2>2. CASE netdev' = netdev
    BY <2>2 DEF SamePcfg
  <2> QED BY <2>1, <2>2, Zenon DEF event_finds, link_changes, event_checks, event_polls,
                            link_state_callback, event_tunes, Undefined, vars
<1>3. SamePortState
  <2>1. CASE event_tunes
    <3>1. CASE UNCHANGED <<port_info, hw>>
      BY <3>1 DEF SamePortState
    <3>2. CASE ~UNCHANGED <<port_info, hw>>
      <4> PICK q : q = port_num[event.netdev]
        BY Zenon
      <4>1. port_info' = [port_info EXCEPT ![q].serdes_tuned = TRUE]
            /\ hw' = [hw EXCEPT ![q].tuned = TRUE]
        BY <2>1, <3>2 DEF event_tunes
      <4>2. port_info \in [PortNum -> InfoType] /\ hw \in [PortNum -> HwType]
        BY DEF Typed
      <4> QED BY <4>1, <4>2 DEF SamePortState, InfoType, HwType
    <3> QED BY <3>1, <3>2
  <2>2. CASE \E q \in PortNum : link_changes(q)
    <3>1. port_info' = port_info /\ hw \in [PortNum -> HwType]
      BY <2>2 DEF Typed, link_changes
    <3> QED BY <2>2, <3>1 DEF link_changes, SamePortState, HwType
  <2>3. CASE UNCHANGED <<port_info, hw>>
    BY <2>3 DEF SamePortState
  <2> QED BY <2>1, <2>2, <2>3, Zenon DEF event_finds, event_checks, event_polls,
                            link_state_callback, Undefined, vars
<1> QED BY <1>1, <1>2, <1>3, AskedFrame

\* A new netdev is neither enabled nor asked to be up.
LEMMA AskedConstruct ==
    ASSUME Constants, Typed, AskedInv, asked \in [Netdev -> {NULL} \union BOOLEAN],
           NEW n \in Netdev, netdev_construct(n)
    PROVE  AskedInv'
<1> PICK r : r = [initialized |-> FALSE, xpdev |-> FALSE, port_info |-> FALSE,
                  parent_port_info |-> FALSE, pcfg |-> Off, link_status |-> FALSE]
  BY Zenon
<1>1. r.pcfg = Off /\ ~Off.enable
  BY DEF Off
<1>2. netdev' = [netdev EXCEPT ![n] = r] /\ netdev[n] = NULL /\ asked' = [asked EXCEPT ![n] = NULL]
      /\ UNCHANGED <<main, shared, port_info, hw>>
  BY DEF netdev_construct
<1>3. netdev'[n] = r /\ asked'[n] = NULL
      /\ \A m \in Netdev : m # n => netdev'[m] = netdev[m] /\ asked'[m] = asked[m]
  BY <1>2 DEF Typed
<1>4. On' = On
  BY <1>1, <1>2, <1>3 DEF On, Ported
<1>5. n \notin On
  BY <1>2 DEF On
<1>6. Ups' = Ups
  BY <1>3, <1>5, Zenon DEF Ups, AskedInv, Configured, Constants
<1>7. Configured'
  BY <1>1, <1>3, <1>4, <1>6 DEF AskedInv, Configured
<1>8. SamePortState
  BY <1>2 DEF SamePortState
<1> QED BY <1>2, <1>4, <1>6, <1>7, <1>8, AskedKept

\* A netdev that goes is neither; when it was up, its port counts as shared.
LEMMA AskedDestruct ==
    ASSUME Constants, Typed, AskedInv, asked \in [Netdev -> {NULL} \union BOOLEAN],
           NEW n \in Netdev, netdev_destruct(n)
    PROVE  AskedInv'
<1>1. netdev' = [netdev EXCEPT ![n] = NULL] /\ asked' = [asked EXCEPT ![n] = NULL]
      /\ UNCHANGED <<main, port_info, hw>> /\ main = Idle
      /\ shared' = IF asked[n] = TRUE THEN shared \union SamePort(n) ELSE shared
  BY DEF netdev_destruct
<1>2. netdev'[n] = NULL /\ asked'[n] = NULL
      /\ \A m \in Netdev : m # n => netdev'[m] = netdev[m] /\ asked'[m] = asked[m]
  BY <1>1 DEF Typed
<1>3. On' = On \ {n}
  BY <1>2 DEF On, Ported
<1>4. Ups' = Ups \ {n}
  BY <1>2, Zenon DEF Ups, Constants
<1>5. Coming = {} /\ Coming' = {}
  BY <1>1 DEF Coming
<1>6. Noted'
  BY <1>1 DEF AskedInv, Noted
<1>7. Configured'
  BY <1>2, <1>3, <1>4 DEF AskedInv, Configured
<1>8. Conflicts'
  BY <1>1, <1>3 DEF AskedInv, Conflicts
<1>9. Split'
  BY <1>1, <1>3, <1>5 DEF AskedInv, Split
<1>10. Calling'
  BY <1>1 DEF Calling
<1>11. AskedNow'
  <2> SUFFICES ASSUME NEW p \in PortNum, OnPort(p) \intersect shared' = {}
               PROVE  hw[p].enabled <=> OnPort(p) \intersect Ups' # {}
    BY <1>1, <1>5 DEF AskedNow, OnPort
  <2>1. hw[p].enabled <=> OnPort(p) \intersect Ups # {}
    BY <1>1, <1>5 DEF AskedInv, AskedNow
  <2>2. OnPort(p) \intersect Ups' = OnPort(p) \intersect Ups
    <3>1. CASE n \in Ups
      <4>1. n \in Ported /\ asked[n] = TRUE
        BY <3>1 DEF AskedInv, Configured, On, Ups
      <4>2. n \in SamePort(n)
        BY <4>1 DEF SamePort, Ported
      <4>3. n \notin OnPort(p)
        BY <1>1, <4>1, <4>2
      <4> QED BY <1>4, <4>3
    <3>2. CASE n \notin Ups
      BY <1>4, <3>2
    <3> QED BY <3>1, <3>2
  <2> QED BY <2>1, <2>2
<1> QED BY <1>6, <1>7, <1>8, <1>9, <1>10, <1>11 DEF AskedInv

\* A call of the main thread starts with what its netdev is configured to be.
LEMMA AskedStart ==
    ASSUME Constants, Typed, AskedInv, NEW n \in Netdev,
           \/ set_hw_intf_config(n, Off)
           \/ \E cfg \in Config : cfg.enable /\ set_hw_intf_config(n, cfg)
           \/ \E up \in BOOLEAN : update_flags(n, up)
    PROVE  AskedInv'
<1>1. UNCHANGED <<netdev, port_info, hw, asked, shared>> /\ main = Idle
      /\ netdev[n] # NULL /\ n \in Ported
  BY DEF set_hw_intf_config, update_flags, history, Ported
<1>2. On' = On /\ Ups' = Ups
  BY <1>1 DEF On, Ups
<1>3. Coming = {}
  BY <1>1 DEF Coming
<1>4. main'.pc \in {"mode", "config", "enable"} /\ main'.netdev = n /\ main' # Idle
  BY DEF set_hw_intf_config, update_flags, Idle
<1>5. Noted'
  <2>1. main'.pc # "record" /\ main.pc # "record"
    BY <1>1, <1>4 DEF Idle
  <2> QED BY <1>1, <2>1 DEF AskedInv, Noted
<1>6. Configured' /\ Conflicts'
  BY <1>1, <1>2 DEF AskedInv, Configured, Conflicts
<1>7. Split'
  BY <1>1, <1>2, <1>3 DEF AskedInv, Split
<1>8. Calling'
  <2>1. CASE set_hw_intf_config(n, Off)
    <3>1. netdev[n].pcfg # Off
      BY <2>1, Zenon DEF set_hw_intf_config
    <3>2. n \in On
      BY <1>1, <3>1 DEF AskedInv, Configured, On
    <3>3. main'.pc = "config" /\ main'.cfg = Off /\ main'.up = Off.enable
      BY <2>1 DEF set_hw_intf_config, Off
    <3> QED BY <1>2, <1>4, <3>2, <3>3, Zenon DEF Calling, Off
  <2>2. ASSUME NEW cfg \in Config, cfg.enable, set_hw_intf_config(n, cfg)
        PROVE  Calling'
    <3>1. cfg.enable = TRUE
      BY <2>2 DEF Config
    <3>2. main'.pc = "mode" /\ main'.cfg = cfg /\ main'.up = TRUE
      BY <2>2, <3>1, Zenon DEF set_hw_intf_config
    <3> QED BY <1>4, <3>1, <3>2 DEF Calling
  <2>3. ASSUME NEW up \in BOOLEAN, update_flags(n, up)
        PROVE  Calling'
    <3>1. main'.pc = "enable" /\ main'.cfg = netdev[n].pcfg /\ netdev[n].pcfg.enable
      BY <2>3, Zenon DEF update_flags
    <3>2. n \in On
      BY <1>1, <3>1 DEF On
    <3>3. Kind[n] = "subport" => port_info[ModePort(n)].mode = "4x10" \/ n \in shared
      BY <1>3, <3>2 DEF AskedInv, Split
    <3> QED BY <1>1, <1>2, <1>4, <3>1, <3>2, <3>3, Zenon DEF Calling
  <2> QED BY <2>1, <2>2, <2>3
<1>9. AskedNow'
  BY <1>1, <1>2, <1>3, Zenon DEF AskedInv, AskedNow, OnPort
<1> QED BY <1>5, <1>6, <1>7, <1>8, <1>9 DEF AskedInv

\* What is kept while a call goes on: the netdevs, what was asked, and what will be noted.
GoesOn ==
    /\ UNCHANGED <<asked, shared>> /\ On' = On /\ Configured'
    /\ main \in MainType /\ main' \in MainType
    /\ main'.netdev = main.netdev /\ main'.cfg = main.cfg /\ main'.up = main.up

\* The sets do not change during a call.
LEMMA CallKeeps ==
    ASSUME Typed, AskedInv, GoesOn
    PROVE  /\ Ups' = Ups /\ Coming' = Coming /\ Conflicts' /\ main # Idle /\ main' # Idle
<1>1. Idle \notin MainType
  BY DEF Idle, MainType
<1>2. Ups' = Ups /\ main # Idle /\ main' # Idle
  BY <1>1 DEF GoesOn, Ups
<1>3. Coming' = Coming
  BY <1>2 DEF Coming, GoesOn
<1> QED BY <1>2, <1>3 DEF GoesOn, AskedInv, Conflicts

\* The MAC mode is compared with the one that is wanted.
LEMMA AskedMode ==
    ASSUME Constants, Typed, AskedInv, mac_mode_set, ~Undefined, Accepted, faults' # faults + 1
    PROVE  AskedInv'
<1> PICK n \in Ported, q \in PortNum : n = main.netdev /\ q = ModePort(n)
  BY InCall DEF mac_mode_set
<1> PICK mode, lanes : /\ mode = ModeOf(n, main.cfg)
                       /\ lanes = IF mode = "4x10" THEN Lanes[q] ELSE {q}
  BY Zenon
<1>1. /\ main.pc = "mode" /\ UNCHANGED <<netdev, hw, asked, shared>>
      /\ port_info' = [port_info EXCEPT ![q].initialized = TRUE]
      /\ main' = IF port_info[q].mode # mode THEN [main EXCEPT !.pc = "lanes", !.todo = lanes]
                 ELSE [main EXCEPT !.pc = "config"]
  BY DEF mac_mode_set, Refused, history
<1>2. main \in MainType /\ lanes \in SUBSET PortNum
  BY <1>1, InCall DEF Constants
<1>3. main' \in MainType /\ main'.netdev = n /\ main'.cfg = main.cfg /\ main'.up = main.up
      /\ IF port_info[q].mode # mode THEN main'.pc = "lanes" /\ main'.todo = lanes
         ELSE main'.pc = "config"
  BY <1>1, <1>2, Zenon DEF MainType
<1>4. On' = On /\ Configured'
  BY <1>1 DEF On, AskedInv, Configured, Ups
<1>5. GoesOn
  BY <1>1, <1>2, <1>3, <1>4 DEF GoesOn
<1>6. Ups' = Ups /\ Coming' = Coming /\ Conflicts' /\ main # Idle /\ main' # Idle
  BY <1>5, CallKeeps
<1>7. \A p \in PortNum : port_info'[p].mode = port_info[p].mode
                         /\ port_info'[p].hw_enable = port_info[p].hw_enable
  BY <1>1 DEF Typed, InfoType
<1>8. Noted'
  BY <1>1, <1>3, <1>7 DEF AskedInv, Noted
<1>9. Split'
  <2>1. \A r \in On : r \in Ported
    BY DEF On
  <2> QED BY <1>1, <1>4, <1>6, <1>7, InModePort, <2>1 DEF AskedInv, Split
<1>10. Calling'
  <2>1. main.up /\ main.cfg.enable
    BY <1>1, <1>6 DEF AskedInv, Calling
  <2>2. Kind[n] = "subport" => mode = "4x10"
    BY DEF ModeOf
  <2>3. port_info'[q].mode = port_info[q].mode
    BY <1>7
  <2>4. CASE port_info[q].mode # mode
    <3>1. main'.pc = "lanes" /\ main'.todo = lanes
      BY <1>3, <2>4
    <3> QED BY <1>3, <2>1, <2>3, <2>4, <3>1 DEF Calling
  <2>5. CASE port_info[q].mode = mode
    <3>1. main'.pc = "config"
      BY <1>3, <2>5
    <3> QED BY <1>3, <2>1, <2>2, <2>3, <2>5, <3>1 DEF Calling
  <2> QED BY <2>4, <2>5
<1>11. AskedNow'
  BY <1>1, <1>3, <1>6 DEF AskedInv, AskedNow, OnPort
<1> QED BY <1>4, <1>6, <1>8, <1>9, <1>10, <1>11 DEF AskedInv

\* A lane that is disabled belongs to nobody else that was asked to be up, unless shared.
LEMMA AskedLane ==
    ASSUME Constants, Wiring, Typed, AskedInv, NEW q \in PortNum, mac_mode_set_lane(q),
           faults' # faults + 1
    PROVE  AskedInv'
<1> PICK n \in Ported, m \in PortNum : n = main.netdev /\ m = ModePort(n)
  BY InCall DEF mac_mode_set_lane
<1> PICK mode : mode = ModeOf(n, main.cfg)
  BY Zenon
<1>1. /\ main.pc = "lanes" /\ q \in main.todo /\ UNCHANGED <<netdev, asked, shared>>
      /\ port_info' = [port_info EXCEPT ![q].hw_enable = FALSE]
      /\ hw' = [hw EXCEPT ![q].enabled = FALSE]
      /\ main' = [main EXCEPT !.todo = main.todo \ {q}]
  BY DEF mac_mode_set_lane, Refused, history
<1>2. main \in MainType
  BY <1>1, InCall
<1>3. main' \in MainType /\ main'.netdev = n /\ main'.cfg = main.cfg /\ main'.up = main.up
      /\ main'.pc = "lanes" /\ main'.todo = main.todo \ {q}
  BY <1>1, <1>2 DEF MainType
<1>4. On' = On /\ Configured'
  BY <1>1 DEF On, AskedInv, Configured, Ups
<1>5. GoesOn
  BY <1>1, <1>2, <1>3, <1>4 DEF GoesOn
<1>6. Ups' = Ups /\ Coming' = Coming /\ Conflicts' /\ main # Idle /\ main' # Idle
  BY <1>5, CallKeeps
<1>7. \A p \in PortNum : /\ port_info'[p].mode = port_info[p].mode
                         /\ p # q => port_info'[p].hw_enable = port_info[p].hw_enable
                                     /\ hw'[p].enabled = hw[p].enabled
  BY <1>1, Zenon DEF Typed, InfoType, HwType
<1>8. port_info'[q].hw_enable = FALSE /\ hw'[q].enabled = FALSE
  BY <1>1 DEF Typed, InfoType, HwType
<1>9. Noted'
  <2>1. \A p \in PortNum : hw[p].enabled = port_info[p].hw_enable
    BY <1>1 DEF AskedInv, Noted
  <2>2. \A p \in PortNum : hw'[p].enabled = port_info'[p].hw_enable
    BY <1>7, <1>8, <2>1, Zenon
  <2> QED BY <1>3, <2>2 DEF Noted
<1>10. Split'
  <2>1. \A r \in On : r \in Ported
    BY DEF On
  <2> QED BY <1>1, <1>4, <1>6, <1>7, InModePort, <2>1 DEF AskedInv, Split
<1>11. main.up /\ main.cfg.enable /\ port_info[m].mode # mode
       /\ main.todo \subseteq IF mode = "4x10" THEN Lanes[m] ELSE {m}
  BY <1>1, <1>6 DEF AskedInv, Calling
<1>12. Calling'
  <2>1. port_info'[m].mode = port_info[m].mode
    BY <1>7
  <2>2. main'.todo \subseteq IF mode = "4x10" THEN Lanes[m] ELSE {m}
    BY <1>3, <1>11
  <2> QED BY <1>3, <1>11, <2>1, <2>2, Zenon DEF Calling
<1>13. AskedNow'
  <2> SUFFICES ASSUME NEW p \in PortNum, OnPort(p) \intersect (shared \union Coming) = {},
                      port_num[n] # p
               PROVE  hw'[p].enabled <=> OnPort(p) \intersect Ups # {}
    BY <1>1, <1>3, <1>6 DEF AskedNow, OnPort
  <2>1. CASE p # q
    BY <1>6, <1>7, <2>1 DEF AskedInv, AskedNow
  <2>2. CASE p = q
    <3> SUFFICES ASSUME NEW r \in OnPort(q), r \in Ups
                 PROVE  FALSE
      BY <1>8, <2>2
    <3>1. r \in On /\ r \in Ported /\ port_num[r] = q
      BY DEF AskedInv, Configured, OnPort
    <3>2. r \notin shared /\ r \notin Coming
      BY <2>2
    <3>4. CASE mode # "4x10"
      <4>1. m = port_num[n]
        BY <3>4 DEF ModeOf, ModePort
      <4>2. q = m
        BY <1>1, <1>11, <3>4
      <4> QED BY <2>2, <4>1, <4>2
    <3>5. CASE mode = "4x10"
      <4>1. q \in Lanes[m]
        BY <1>1, <1>11, <3>5
      <4>2. ModePort(r) = m
        BY <3>1, <4>1 DEF Wiring
      <4>3. Kind[r] = Kind[n]
        BY <1>6, <1>11, <3>1, <3>2, <4>2, Zenon DEF Coming, RivalsIn
      <4>4. Kind[r] # "subport"
        BY <1>11, <3>1, <3>2, <3>5, <4>2, Zenon DEF AskedInv, Split
      <4>5. port_num[r] = m /\ port_num[n] = m
        BY <4>2, <4>3, <4>4 DEF ModePort
      <4> QED BY <2>2, <3>1, <4>5
    <3> QED BY <3>4, <3>5
  <2> QED BY <2>1, <2>2
<1> QED BY <1>4, <1>6, <1>9, <1>10, <1>12, <1>13 DEF AskedInv

\* A port that is no longer split has subports that will be noted as sharing it.
LEMMA AskedDone ==
    ASSUME Constants, Typed, AskedInv, mac_mode_set_done
    PROVE  AskedInv'
<1> PICK n \in Ported, m \in PortNum : n = main.netdev /\ m = ModePort(n)
  BY InCall DEF mac_mode_set_done
<1> PICK mode : mode = ModeOf(n, main.cfg)
  BY Zenon
<1>1. /\ main.pc = "lanes" /\ UNCHANGED <<netdev, hw, asked, shared>>
      /\ port_info' = [port_info EXCEPT ![m].mode = mode]
      /\ main' = [main EXCEPT !.pc = "config"]
  BY DEF mac_mode_set_done, Finish, history
<1>2. main \in MainType
  BY <1>1, InCall
<1>3. main' \in MainType /\ main'.netdev = n /\ main'.cfg = main.cfg /\ main'.up = main.up
      /\ main'.pc = "config"
  BY <1>1, <1>2 DEF MainType
<1>4. On' = On /\ Configured'
  BY <1>1 DEF On, AskedInv, Configured, Ups
<1>5. GoesOn
  BY <1>1, <1>2, <1>3, <1>4 DEF GoesOn
<1>6. Ups' = Ups /\ Coming' = Coming /\ Conflicts' /\ main # Idle /\ main' # Idle
  BY <1>5, CallKeeps
<1>7. /\ \A p \in PortNum : /\ port_info'[p].hw_enable = port_info[p].hw_enable
                            /\ p # m => port_info'[p].mode = port_info[p].mode
      /\ port_info'[m].mode = mode
  BY <1>1 DEF Typed, InfoType
<1>8. Noted'
  BY <1>1, <1>3, <1>7 DEF AskedInv, Noted
<1>9. main.up /\ main.cfg.enable
  BY <1>1, <1>6 DEF AskedInv, Calling
<1>10. Split'
  <2> SUFFICES ASSUME NEW r \in On, Kind[r] = "subport", port_info'[ModePort(r)].mode # "4x10"
               PROVE  r \in shared \union Coming
    BY <1>1, <1>4, <1>6 DEF Split
  <2>1. ModePort(r) \in PortNum
    BY InModePort DEF On
  <2>2. CASE ModePort(r) # m
    BY <1>7, <2>1, <2>2 DEF AskedInv, Split
  <2>3. CASE ModePort(r) = m
    <3>1. Kind[n] # "subport"
      BY <1>7, <2>3 DEF ModeOf
    <3> QED BY <1>6, <1>9, <2>3, <3>1 DEF Coming, RivalsIn
  <2> QED BY <2>2, <2>3
<1>11. Calling'
  <2>1. Kind[n] = "subport" => mode = "4x10"
    BY DEF ModeOf
  <2> QED BY <1>3, <1>7, <1>9, <2>1 DEF Calling
<1>12. AskedNow'
  BY <1>1, <1>3, <1>6 DEF AskedInv, AskedNow, OnPort
<1> QED BY <1>4, <1>6, <1>8, <1>10, <1>11, <1>12 DEF AskedInv

\* The settings of the port leave its state alone.
LEMMA AskedConfig ==
    ASSUME Constants, Typed, AskedInv, port_set_config
    PROVE  AskedInv'
<1> PICK n \in Ported : n = main.netdev
  BY InCall DEF port_set_config
<1>1. /\ main.pc = "config" /\ UNCHANGED <<port_info, hw, asked, shared>>
      /\ main' = [main EXCEPT !.pc = "enable"]
  BY DEF port_set_config, Finish, history
<1>2. main \in MainType /\ n \in Netdev /\ netdev[n] # NULL /\ netdev[n] \in NetdevType
      /\ netdev \in [Netdev -> {NULL} \union NetdevType]
  BY <1>1, InCall DEF Typed
<1>3. main' \in MainType /\ main'.netdev = n /\ main'.cfg = main.cfg /\ main'.up = main.up
      /\ main'.pc = "enable"
  BY <1>1, <1>2 DEF MainType
<1>4. SamePcfg
  <2>1. CASE netdev' = netdev
    BY <2>1 DEF SamePcfg
  <2>2. CASE netdev' # netdev
    <3>1. netdev' = [netdev EXCEPT ![n] = [netdev[n] EXCEPT !.link_status = FALSE]]
      BY <2>2 DEF port_set_config
    <3>2. [netdev[n] EXCEPT !.link_status = FALSE] \in NetdevType
          /\ [netdev[n] EXCEPT !.link_status = FALSE].pcfg = netdev[n].pcfg
      BY <1>2, Zenon DEF NetdevType
    <3> QED BY <1>2, <3>1, <3>2, KeepsPcfg, Zenon
  <2> QED BY <2>1, <2>2
<1>5. On' = On /\ Configured'
  <2>1. On' = On /\ Ups' = Ups
    BY <1>1, <1>4 DEF On, SamePcfg, Ported, Ups
  <2> QED BY <1>4, <2>1 DEF AskedInv, Configured, SamePcfg
<1>6. GoesOn
  BY <1>1, <1>2, <1>3, <1>5 DEF GoesOn
<1>7. Ups' = Ups /\ Coming' = Coming /\ Conflicts' /\ main # Idle /\ main' # Idle
  BY <1>6, CallKeeps
<1>8. Noted'
  BY <1>1, <1>3 DEF AskedInv, Noted
<1>9. Split'
  BY <1>1, <1>5, <1>7 DEF AskedInv, Split
<1>10. Calling'
  BY <1>1, <1>3, <1>5, <1>7 DEF AskedInv, Calling
<1>11. AskedNow'
  BY <1>1, <1>3, <1>7 DEF AskedInv, AskedNow, OnPort
<1> QED BY <1>5, <1>7, <1>8, <1>9, <1>10, <1>11 DEF AskedInv

\* The end of a call: the port is as this netdev asked, and whoever shares it is noted.
LEMMA AskedApplied ==
    ASSUME Constants, Wiring, Typed, AskedInv, main.pc \in {"enable", "record"},
           asked \in [Netdev -> {NULL} \union BOOLEAN],
           Applied(main.netdev, main.cfg, main.up),
           hw[port_num[main.netdev]].enabled = main.up,
           \A q \in PortNum : /\ hw'[q].enabled = hw[q].enabled
                              /\ hw'[q].enabled = port_info'[q].hw_enable
                              /\ port_info'[q].mode = port_info[q].mode
    PROVE  AskedInv'
<1> PICK n \in Ported : n = main.netdev
  BY InCall
<1>1. /\ netdev' = [netdev EXCEPT ![n].pcfg = main.cfg]
      /\ asked' = [asked EXCEPT ![n] = main.up] /\ main' = Idle
      /\ shared' = IF main.cfg.enable /\ Rivals(n) # {} THEN shared \union Rivals(n) \union {n}
                   ELSE shared
  BY DEF Applied
<1>2. main \in MainType /\ n \in Netdev /\ netdev[n] # NULL /\ netdev[n] \in NetdevType
      /\ main # Idle /\ NULL \notin NetdevType
  BY InCall DEF Idle, Constants
<1>3. main.cfg \in Config /\ main.up \in BOOLEAN
  BY <1>2 DEF MainType
<1>4. /\ netdev'[n] # NULL /\ netdev'[n].pcfg = main.cfg
      /\ \A m \in Netdev : m # n => netdev'[m] = netdev[m]
  <2>1. netdev' = [netdev EXCEPT ![n] = [netdev[n] EXCEPT !.pcfg = main.cfg]]
    BY <1>1
  <2>2. [netdev[n] EXCEPT !.pcfg = main.cfg] \in NetdevType
        /\ [netdev[n] EXCEPT !.pcfg = main.cfg].pcfg = main.cfg
    BY <1>2, <1>3, Zenon DEF NetdevType
  <2>3. netdev \in [Netdev -> {NULL} \union NetdevType]
    BY DEF Typed
  <2> QED BY <1>2, <2>1, <2>2, <2>3, Zenon
<1>5. asked'[n] = main.up /\ \A m \in Netdev : m # n => asked'[m] = asked[m]
  BY <1>1, <1>2
<1>6. On' = IF main.cfg.enable THEN On \union {n} ELSE On \ {n}
  BY <1>4, Zenon DEF On, Ported
<1>7. Ups' = IF main.up THEN Ups \union {n} ELSE Ups \ {n}
  BY <1>2, <1>3, <1>5 DEF Ups
<1>8. Coming' = {} /\ shared \union Coming \subseteq shared'
      /\ (main.cfg.enable /\ Coming # {} => n \in shared')
      /\ (main.cfg.enable => Coming = RivalsIn(On, n))
  <2>1. Coming' = {}
    BY <1>1 DEF Coming
  <2>2. IF main.cfg.enable THEN Coming = RivalsIn(On, n) ELSE Coming = {}
    BY <1>2, Zenon DEF Coming
  <2> QED BY <1>1, <2>1, <2>2, RivalsAre
<1>9. /\ main.up => main.cfg.enable
      /\ ~main.up => n \in On
      /\ ~main.cfg.enable => main.cfg = Off
      /\ main.cfg.enable /\ Kind[n] = "subport" =>
            port_info[ModePort(n)].mode = "4x10" \/ n \in shared
  BY <1>2, Zenon DEF AskedInv, Calling
<1>10. Noted'
  BY <1>1 DEF Noted, Idle
<1>11. Configured'
  BY <1>4, <1>6, <1>7, <1>9, Zenon DEF AskedInv, Configured
<1>12. Conflicts'
  <2> SUFFICES ASSUME NEW r \in On', NEW s \in On', Kind[r] # Kind[s], ModePort(r) = ModePort(s)
               PROVE  r \in shared' /\ s \in shared'
    BY DEF Conflicts
  <2>1. CASE r # n /\ s # n
    BY <1>6, <1>8, <2>1, Zenon DEF AskedInv, Conflicts
  <2>2. CASE r = n
    <3>1. main.cfg.enable /\ s \in RivalsIn(On, n)
      BY <1>6, <2>2 DEF RivalsIn
    <3> QED BY <1>8, <2>2, <3>1
  <2>3. CASE s = n
    <3>1. main.cfg.enable /\ r \in RivalsIn(On, n)
      BY <1>6, <2>3, Zenon DEF RivalsIn
    <3> QED BY <1>8, <2>3, <3>1, Zenon
  <2> QED BY <2>1, <2>2, <2>3
<1>13. Split'
  <2> SUFFICES ASSUME NEW r \in On', Kind[r] = "subport", port_info'[ModePort(r)].mode # "4x10"
               PROVE  r \in shared'
    BY Zenon DEF Split
  <2>1. r \in Ported
    BY <1>6, Zenon DEF On
  <2>2. port_info[ModePort(r)].mode # "4x10"
    BY <2>1, InModePort, Zenon
  <2>3. CASE r = n
    BY <1>6, <1>8, <1>9, <2>2, <2>3, Zenon
  <2>4. CASE r # n
    BY <1>6, <1>8, <2>2, <2>4, Zenon DEF AskedInv, Split
  <2> QED BY <2>3, <2>4, Zenon
<1>14. Calling'
  BY <1>1 DEF Calling
<1>15. AskedNow'
  <2> SUFFICES ASSUME NEW p \in PortNum, OnPort(p) \intersect shared' = {}
               PROVE  hw[p].enabled <=> OnPort(p) \intersect Ups' # {}
    BY <1>1, <1>8 DEF AskedNow, OnPort
  <2>1. CASE p # port_num[n]
    <3>1. n \notin OnPort(p)
      BY <2>1, Zenon DEF OnPort
    <3>2. OnPort(p) \intersect Ups' = OnPort(p) \intersect Ups
      BY <1>7, <3>1, Zenon
    <3> QED BY <1>8, <2>1, <3>2, Zenon DEF AskedInv, AskedNow
  <2>2. CASE p = port_num[n] /\ main.up
    BY <1>7, <2>2, Zenon DEF OnPort
  <2>3. CASE p = port_num[n] /\ ~main.up
    <3> SUFFICES ASSUME NEW r \in OnPort(p), r \in Ups'
                 PROVE  FALSE
      BY <2>3, Zenon
    <3>1. r # n /\ r \in On /\ r \in Ported /\ port_num[r] = port_num[n] /\ n \in On
      BY <1>7, <1>9, <2>3 DEF AskedInv, Configured, OnPort
    <3>2. Kind[r] # Kind[n] /\ ModePort(r) = ModePort(n)
      BY <3>1 DEF Wiring
    <3>3. r \in shared
      BY <3>1, <3>2 DEF AskedInv, Conflicts
    <3> QED BY <1>8, <3>3, Zenon
  <2> QED BY <1>3, <2>1, <2>2, <2>3
<1> QED BY <1>10, <1>11, <1>12, <1>13, <1>14, <1>15 DEF AskedInv

\* ops_xp_port_set_enable: the port is told, unless it is already known to be as wanted.
LEMMA AskedEnable ==
    ASSUME Constants, Wiring, Typed, AskedInv, asked \in [Netdev -> {NULL} \union BOOLEAN],
           set_enable, faults' # faults + 1
    PROVE  AskedInv'
<1> PICK n \in Ported, q \in PortNum : n = main.netdev /\ q = port_num[n]
  BY InCall DEF set_enable
<1>1. main.pc = "enable" /\ UNCHANGED port_info
  BY DEF set_enable
<1>2. \A p \in PortNum : hw[p].enabled = port_info[p].hw_enable
  BY <1>1 DEF AskedInv, Noted
<1>3. CASE port_info[q].hw_enable = main.up /\ Applied(n, main.cfg, main.up) /\ hw' = hw
  BY <1>1, <1>2, <1>3, AskedApplied
<1>4. CASE /\ hw' = [hw EXCEPT ![q].enabled = main.up, ![q].tuned = @ /\ ~main.up]
           /\ Finish("record") /\ UNCHANGED <<netdev, asked, shared>>
  <2>1. main \in MainType /\ main' = [main EXCEPT !.pc = "record"]
    BY <1>1, <1>4, InCall DEF Finish
  <2>2. main' \in MainType /\ main'.netdev = n /\ main'.cfg = main.cfg /\ main'.up = main.up
        /\ main'.pc = "record"
    BY <2>1 DEF MainType
  <2>3. On' = On /\ Configured'
    BY <1>4 DEF On, AskedInv, Configured, Ups
  <2>4. GoesOn
    BY <1>4, <2>1, <2>2, <2>3 DEF GoesOn
  <2>5. Ups' = Ups /\ Coming' = Coming /\ Conflicts' /\ main # Idle /\ main' # Idle
    BY <2>4, CallKeeps
  <2>6. hw'[q].enabled = main.up /\ \A p \in PortNum : p # q => hw'[p].enabled = hw[p].enabled
    BY <1>4 DEF Typed, HwType
  <2>7. Noted'
    BY <1>1, <1>2, <2>2, <2>6 DEF Noted
  <2>8. Split'
    BY <1>1, <1>4, <2>3, <2>5 DEF AskedInv, Split
  <2>9. Calling'
    BY <1>1, <1>4, <2>2, <2>3, <2>5 DEF AskedInv, Calling
  <2>10. AskedNow'
    BY <1>4, <2>2, <2>5, <2>6, Zenon DEF AskedInv, AskedNow, OnPort
  <2> QED BY <2>3, <2>5, <2>7, <2>8, <2>9, <2>10 DEF AskedInv
<1> QED BY <1>3, <1>4 DEF set_enable, Refused, history

\* The new state of the port is recorded after the hardware took it.
LEMMA AskedRecord ==
    ASSUME Constants, Wiring, Typed, AskedInv, asked \in [Netdev -> {NULL} \union BOOLEAN],
           set_enable_record
    PROVE  AskedInv'
<1> PICK n \in Ported, q \in PortNum : n = main.netdev /\ q = port_num[n]
  BY InCall DEF set_enable_record
<1> PICK x \in BOOLEAN : x = (port_info[q].serdes_tuned /\ ~main.up)
  BY Zenon
<1>1. main.pc = "record" /\ UNCHANGED hw /\ Applied(n, main.cfg, main.up)
      /\ port_info' = [port_info EXCEPT ![q] = [port_info[q] EXCEPT !.hw_enable = main.up,
                                                                     !.serdes_tuned = x]]
  BY DEF set_enable_record, Enabled
<1>2. hw[q].enabled = main.up
      /\ \A p \in PortNum : p # q => hw[p].enabled = port_info[p].hw_enable
  BY <1>1 DEF AskedInv, Noted
<1>3. \A p \in PortNum : /\ port_info'[p].mode = port_info[p].mode
                         /\ port_info'[p].hw_enable = IF p = q THEN main.up
                                                      ELSE port_info[p].hw_enable
  BY <1>1 DEF Typed, InfoType
<1> QED BY <1>1, <1>2, <1>3, AskedApplied

\* Each step keeps it, unless a call is refused.
LEMMA AskedNext ==
    ASSUME Constants, Wiring, Typed, AskedInv, asked \in [Netdev -> {NULL} \union BOOLEAN],
           faults' # faults + 1, [PortsNext]_vars
    PROVE  AskedInv'
<1>1. ASSUME NEW n \in Netdev, netdev_construct(n) \/ netdev_destruct(n)
      PROVE  AskedInv'
  BY <1>1, AskedConstruct, AskedDestruct
<1>2. ASSUME NEW n \in Netdev,
             \/ \E tap \in BOOLEAN : set_hw_intf_info(n, tap)
             \/ \E bridge, tap \in BOOLEAN : internal_set_hw_intf_info(n, bridge, tap)
             \/ \E enable \in BOOLEAN : internal_set_hw_intf_config(n, enable)
             \/ subintf_set_config(n)
      PROVE  AskedInv'
  BY <1>2, AskedInfo
<1>3. ASSUME NEW n \in Netdev,
             \/ set_hw_intf_config(n, Off)
             \/ \E mode \in IF Kind[n] = "parent" THEN Mode \ {"4x10"} ELSE {"4x10"} :
                  set_hw_intf_config(n, [enable |-> TRUE, mode |-> mode])
             \/ \E up \in BOOLEAN : update_flags(n, up)
      PROVE  AskedInv'
  <2>1. \A mode \in IF Kind[n] = "parent" THEN Mode \ {"4x10"} ELSE {"4x10"} :
           [enable |-> TRUE, mode |-> mode] \in Config /\ [enable |-> TRUE, mode |-> mode].enable
    BY DEF Config, Mode
  <2> QED BY <1>3, <2>1, AskedStart, Zenon
<1>4. CASE mac_mode_set
  <2>1. Undefined \/ Accepted
    BY <1>4 DEF mac_mode_set, Refused
  <2> QED BY <1>4, <2>1, AskedMode, AskedEvents
<1>5. CASE mac_mode_set_done \/ port_set_config
  BY <1>5, AskedDone, AskedConfig
<1>6. ASSUME NEW q \in PortNum, mac_mode_set_lane(q)
      PROVE  AskedInv'
  BY <1>6, AskedLane
<1>7. CASE set_enable \/ set_enable_record
  BY <1>7, AskedEnable, AskedRecord
<1>8. CASE \/ \E q \in PortNum, n \in Netdev : event_finds(q, n)
           \/ \E q \in PortNum : link_changes(q)
           \/ event_checks \/ event_polls \/ link_state_callback \/ event_tunes
           \/ UNCHANGED vars
  BY <1>8, AskedEvents
<1> QED BY <1>1, <1>2, <1>3, <1>4, <1>5, <1>6, <1>7, <1>8, Zenon DEF PortsNext

\* Between two calls of the main thread a port is enabled exactly when one of its netdevs
\* was last asked to be up (ops_xp_port_set_enable, ops_xp_port_mac_mode_set), for every
\* set of netdevs and ports that are wired like this, as long as no call was refused.
THEOREM PortsStayAsAsked ==
    ASSUME Constants, Limits, Wiring
    PROVE  PortsSpec => []PortsAsAsked
<1> DEFINE I == faults = 0 => AskedInv
<1>1. PortsInit => I
  <2> SUFFICES ASSUME PortsInit PROVE AskedInv
    OBVIOUS
  <2>1. main = Idle /\ On = {} /\ Ups = {} /\ Coming = {} /\ (\A n \in Netdev : netdev[n] = NULL)
    <3>1. \A n \in Netdev : netdev[n] = NULL /\ asked[n] # TRUE
      BY Zenon DEF PortsInit, PortsStart, Constants
    <3> QED BY <3>1, Zenon DEF PortsInit, PortsStart, On, Ups, Coming, Ported
  <2>2. \A q \in PortNum : hw[q].enabled = FALSE /\ port_info[q].hw_enable = FALSE
    BY Zenon DEF PortsInit, PortsStart
  <2> QED BY <2>1, <2>2, Zenon DEF AskedInv, Noted, Configured, Conflicts, Split, Calling, AskedNow, Idle
<1>2. Typed /\ Bounded /\ I /\ [PortsNext]_vars /\ Bounded' => I'
  <2> SUFFICES ASSUME Typed, Bounded, I, [PortsNext]_vars, Bounded', faults' = 0
               PROVE  AskedInv'
    OBVIOUS
  <2>1. faults' = faults \/ faults' = faults + 1
    <3>1. CASE UNCHANGED vars
      BY <3>1 DEF vars
    <3>2. ASSUME NEW n \in Netdev,
                 \/ netdev_construct(n) \/ netdev_destruct(n)
                 \/ \E tap \in BOOLEAN : set_hw_intf_info(n, tap)
                 \/ \E bridge, tap \in BOOLEAN : internal_set_hw_intf_info(n, bridge, tap)
                 \/ \E enable \in BOOLEAN : internal_set_hw_intf_config(n, enable)
                 \/ subintf_set_config(n) \/ \E cfg : set_hw_intf_config(n, cfg)
                 \/ \E up \in BOOLEAN : update_flags(n, up)
          PROVE  faults' = faults \/ faults' = faults + 1
      <4>1. CASE netdev_construct(n) \/ netdev_destruct(n) \/ subintf_set_config(n)
        BY <4>1 DEF netdev_construct, netdev_destruct, subintf_set_config
      <4>2. ASSUME NEW tap \in BOOLEAN, set_hw_intf_info(n, tap)
            PROVE  faults' = faults \/ faults' = faults + 1
        BY <4>2, Zenon DEF Refused, Accepted, set_hw_intf_info
      <4>3. ASSUME NEW bridge \in BOOLEAN, NEW tap \in BOOLEAN,
                   internal_set_hw_intf_info(n, bridge, tap)
            PROVE  faults' = faults \/ faults' = faults + 1
        BY <4>3, Zenon DEF Refused, Accepted, internal_set_hw_intf_info
      <4>4. CASE \/ \E enable \in BOOLEAN : internal_set_hw_intf_config(n, enable)
                 \/ \E cfg : set_hw_intf_config(n, cfg)
                 \/ \E up \in BOOLEAN : update_flags(n, up)
        BY <4>4 DEF internal_set_hw_intf_config, set_hw_intf_config, update_flags
      <4> QED BY <3>2, <4>1, <4>2, <4>3, <4>4, Zenon
    <3>3. CASE \/ mac_mode_set \/ mac_mode_set_done
               \/ \E q \in PortNum : mac_mode_set_lane(q) \/ link_changes(q)
               \/ port_set_config \/ set_enable \/ set_enable_record
      BY <3>3, Zenon DEF Refused, Accepted, Undefined, mac_mode_set, mac_mode_set_done,
         mac_mode_set_lane, link_changes, port_set_config, set_enable, set_enable_record
    <3>4. CASE \/ \E q \in PortNum, n \in Netdev : event_finds(q, n)
               \/ event_checks \/ event_polls \/ link_state_callback \/ event_tunes
      BY <3>4, Zenon DEF Refused, Accepted, Undefined, event_finds, event_checks, event_polls,
         link_state_callback, event_tunes
    <3> QED BY <3>1, <3>2, <3>3, <3>4, Zenon DEF PortsNext
  <2>2. faults \in Nat
    BY DEF Bounded
  <2>3. faults = 0 /\ faults' # faults + 1
    BY <2>1, <2>2
  <2> QED BY <2>3, AskedNext DEF Bounded
<1>3. Typed /\ I => PortsAsAsked
  <2> SUFFICES ASSUME Typed, AskedInv, main = Idle, NEW n \in Netdev, HasPort(n),
                      SamePort(n) \intersect shared = {}
               PROVE  hw[port_num[n]].enabled <=> \E r \in SamePort(n) : asked[r] = TRUE
    BY Zenon DEF PortsAsAsked
  <2>1. port_num[n] \in PortNum /\ SamePort(n) = OnPort(port_num[n]) /\ Coming = {}
    BY DEF Constants, Ported, SamePort, OnPort, Coming
  <2>2. hw[port_num[n]].enabled <=> OnPort(port_num[n]) \intersect Ups # {}
    BY <2>1 DEF AskedInv, AskedNow
  <2>3. \A r \in SamePort(n) : r \in Netdev
    BY DEF SamePort
  <2> QED BY <2>1, <2>2, <2>3 DEF Ups
<1> QED BY <1>1, <1>2, <1>3, BoundedInvariant, PTL DEF PortsSpec
=============================================================================
