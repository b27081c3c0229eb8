------------------------- MODULE MacLearningProofs -------------------------
(***************************************************************************)
(* Proofs about MacLearning, for every set of VLANs, addresses, interfaces *)
(* and FDB slots, every table size and every buffer size.                  *)
(*                                                                         *)
(* The argument has two halves.  One is about the event buffers alone: an  *)
(* event that follows the change of the software table it reports keeps    *)
(* the buffer truthful (BufferInv).  The other shows that each handler's   *)
(* change of the table is of that form, because the table mirrors the      *)
(* hardware FDB (Mirror).  With both, every step of MacLearning is a step  *)
(* of FdbService on the mapped state, or none (ImplementsService).         *)
(***************************************************************************)
EXTENDS MacLearning, SequenceTheorems, WellFoundedInduction, TLAPS

-----------------------------------------------------------------------------
(* The event buffer *)

\* An MLEARN_ADD of buffer q names an entry of the table t.
Truthful(q, t) ==
    \A p \in 1..Len(q) :
        q[p].oper = "MLEARN_ADD" =>
            \E e \in t : e.hash = q[p].hash /\ ReportOf(e.fdb) = ReportOfNode(q[p])

\* Of the nodes with one hash only the newest can be an MLEARN_ADD.
OneAdd(q) ==
    \A p, r \in 1..Len(q) :
        p < r /\ q[p].hash = q[r].hash => q[p].oper = "MLEARN_DEL"

\* Every entry of t has been handed to the bridge or has an MLEARN_ADD in q.
Told(q, h, t) ==
    \A e \in t :
        \/ ReportOf(e.fdb) \in h
        \/ \E p \in 1..Len(q) :
              /\ q[p].oper = "MLEARN_ADD"
              /\ q[p].hash = e.hash
              /\ ReportOfNode(q[p]) = ReportOf(e.fdb)

BufferInv(m, t) ==
    /\ Len(Current(m)) < BufferSize
    /\ Truthful(Current(m), t)
    /\ OneAdd(Current(m))
    /\ Told(Current(m), m.handed, t)

\* The table changes from t to t2 the way the event (f, i, j, oper) says.
EventFor(t, t2, f, i, j, oper) ==
    /\ oper = "MLEARN_ADD" =>
          \E g \in t2 : g.hash = i /\ ReportOf(g.fdb) = ReportOf(f)
    /\ \A e \in t : e.hash # i => e \in t2
    /\ i # j => \A e \in t : /\ e.hash # j
                             /\ e.hash = i => [e EXCEPT !.hash = j] \in t2
    /\ \A g \in t2 :
          \/ g.hash = i /\ oper = "MLEARN_ADD" /\ ReportOf(g.fdb) = ReportOf(f)
          \/ g \in t /\ g.hash # i /\ Key(g.fdb) # Key(f)
          \/ /\ i # j
             /\ \E e \in t : /\ e.hash = i
                             /\ g = [e EXCEPT !.hash = j]
                             /\ Key(e.fdb) # Key(f)

\* A nonempty set of numbers up to n has a largest element.
LEMMA MaxExists ==
    ASSUME NEW n \in Nat, NEW S \in SUBSET (1..n), S # {}
    PROVE  \E m \in S : \A k \in S : k <= m
<1> DEFINE T == {n - s : s \in S}
<1>1. T \subseteq Nat /\ T # {}
  <2>1. \A s \in S : s \in 1..n
    OBVIOUS
  <2>2. \A s \in S : n - s \in Nat
    BY <2>1
  <2>3. PICK s \in S : TRUE
    BY Zenon
  <2>4. n - s \in T
    OBVIOUS
  <2> QED BY <2>2, <2>4
<1>2. PICK x \in T : \A y \in T : ~(y < x)
  <2> DEFINE R == OpToRel(<, Nat)
  <2>1. IsWellFoundedOn(R, Nat)
    BY NatLessThanWellFounded, Zenon
  <2>2. \A y, z \in Nat : y < z => <<y, z>> \in R
    BY DEF OpToRel
  <2> HIDE DEF R, T
  <2>3. \E x \in T : \A y \in T : ~(<<y, x>> \in R)
    BY <1>1, <2>1, WFMin, Zenon
  <2> QED BY <1>1, <2>2, <2>3, Zenon
<1>3. PICK m \in S : x = n - m
  BY <1>2
<1>4. \A k \in S : k <= m
  BY <1>2, <1>3
<1> QED BY <1>4

\* hmap_first_with_hash finds the newest node of a hash, if there is one.
LEMMA NewestNode ==
    ASSUME NEW q \in Seq(Node), NEW i \in Index, Places(q, i) # {}
    PROVE  /\ Newest(q, i) \in 1..Len(q)
           /\ q[Newest(q, i)].hash = i
           /\ \A r \in 1..Len(q) : q[r].hash = i => r <= Newest(q, i)
<1>1. Places(q, i) \in SUBSET (1..Len(q)) /\ Len(q) \in Nat
  BY LenProperties DEF Places
<1>2. \E m \in Places(q, i) : \A k \in Places(q, i) : k <= m
  BY <1>1, MaxExists, Zenon
<1>3. /\ Newest(q, i) \in Places(q, i)
      /\ \A k \in Places(q, i) : k <= Newest(q, i)
  BY <1>2 DEF Newest
<1> QED BY <1>3 DEF Places

\* mlearn_entry_fill_data makes a node of the buffer.
LEMMA NodeForType ==
    ASSUME NEW f \in FdbEntry, NEW i \in Index,
           NEW oper \in {"MLEARN_ADD", "MLEARN_DEL"}
    PROVE  NodeFor(f, i, oper) \in Node
BY DEF NodeFor, Node, FdbEntry

\* q2 is q after the node n was written at place p for the slot i, and the node
\* that was there was moved to slot j.
Written(q, q2, n, i, j, p) ==
    /\ q2[p] = n
    /\ p \in 1..Len(q) => q[p].hash = i
    /\ \A r \in 1..Len(q) : q[r].hash = i => (r <= p /\ p <= Len(q))
    /\ \A r \in 1..Len(q) : r # p => q2[r] = q[r]
    /\ \A r \in 1..Len(q2) : r # p =>
          \/ r \in 1..Len(q)
          \/ /\ i # j /\ r = Len(q) + 1 /\ p \in 1..Len(q)
             /\ q2[r] = [q[p] EXCEPT !.hash = j]
    /\ i # j /\ p \in 1..Len(q) => Len(q2) = Len(q) + 1

\* The node written for an event is the newest with its hash; the other nodes
\* stay, except that the newest node of a relocated entry moves to a new place.
LEMMA AddNodeShape ==
    ASSUME NEW q \in Seq(Node), Len(q) < BufferSize,
           NEW f \in FdbEntry, NEW i \in Index, NEW j \in Index,
           NEW oper \in {"MLEARN_ADD", "MLEARN_DEL"},
           NEW q2, q2 = AddNode(q, f, i, j, oper)
    PROVE  /\ q2 \in Seq(Node)
           /\ Len(q2) \in {Len(q), Len(q) + 1}
           /\ \E p \in 1..Len(q2) : Written(q, q2, NodeFor(f, i, oper), i, j, p)
<1> DEFINE n == NodeFor(f, i, oper)
<1>1. n \in Node
  BY NodeForType
<1> HIDE DEF n
<1>2. Len(q) \in Nat /\ q \in [1..Len(q) -> Node]
  BY LenProperties
<1>3. CASE Places(q, i) = {}
  <2>1. q2 = Append(q, n)
    BY <1>3 DEF AddNode, n
  <2>2. /\ q2 \in Seq(Node) /\ Len(q2) = Len(q) + 1
        /\ \A r \in 1..Len(q) : q2[r] = q[r]
        /\ q2[Len(q) + 1] = n
    BY <2>1, <1>1, AppendProperties
  <2>3. \A r \in 1..Len(q) : q[r].hash # i
    BY <1>3 DEF Places
  <2> QED BY <1>2, <2>2, <2>3 DEF n, Written
<1>4. CASE Places(q, i) # {} /\ i = j
  <2> DEFINE p == Newest(q, i)
  <2>1. /\ p \in 1..Len(q) /\ q[p].hash = i
        /\ \A r \in 1..Len(q) : q[r].hash = i => r <= p
    BY <1>4, NewestNode
  <2>2. q2 = [q EXCEPT ![p] = n]
    BY <1>4 DEF AddNode, n
  <2> HIDE DEF p
  <2>3. /\ q2 \in Seq(Node) /\ Len(q2) = Len(q)
        /\ \A r \in 1..Len(q) : q2[r] = IF r = p THEN n ELSE q[r]
    BY <2>1, <2>2, <1>1, ExceptSeq
  <2> QED BY <1>2, <1>4, <2>1, <2>3 DEF n, Written
<1>5. CASE Places(q, i) # {} /\ i # j
  <2> DEFINE p == Newest(q, i)
             c == [q[p] EXCEPT !.hash = j]
             a == Append(q, c)
  <2>1. /\ p \in 1..Len(q) /\ q[p].hash = i
        /\ \A r \in 1..Len(q) : q[r].hash = i => r <= p
    BY <1>5, NewestNode
  <2>2. q2 = [a EXCEPT ![p] = n]
    BY <1>5 DEF AddNode, n
  <2> HIDE DEF p
  <2>3. c \in Node
    BY <1>2, <2>1 DEF Node
  <2> HIDE DEF c
  <2>4. /\ a \in Seq(Node) /\ Len(a) = Len(q) + 1
        /\ \A r \in 1..Len(q) : a[r] = q[r]
        /\ a[Len(q) + 1] = c
    BY <2>3, AppendProperties
  <2> HIDE DEF a
  <2>5. p \in 1..Len(a)
    BY <1>2, <2>1, <2>4
  <2>6. /\ q2 \in Seq(Node) /\ Len(q2) = Len(a)
        /\ \A r \in 1..Len(a) : q2[r] = IF r = p THEN n ELSE a[r]
    BY <2>2, <2>4, <2>5, <1>1, ExceptSeq
  <2>7. /\ \A r \in 1..Len(q) : q2[r] = IF r = p THEN n ELSE q[r]
        /\ q2[Len(q) + 1] = c
    BY <1>2, <2>1, <2>4, <2>6
  <2>8. \A r \in 1..Len(q2) : r # p =>
            (r \in 1..Len(q) \/ (r = Len(q) + 1 /\ q2[r] = c))
    BY <1>2, <2>4, <2>6, <2>7
  <2> QED BY <1>2, <1>5, <2>1, <2>4, <2>6, <2>7, <2>8 DEF n, c, Written
<1> QED BY <1>3, <1>4, <1>5

\* AddNode keeps the buffer truthful and complete when it records the event of
\* a change of the table.
LEMMA AddNodeSound ==
    ASSUME NEW t \in SUBSET MacEntry, NEW t2 \in SUBSET MacEntry,
           NEW q \in Seq(Node), NEW h \in SUBSET Report,
           Len(q) < BufferSize, Truthful(q, t), OneAdd(q), Told(q, h, t),
           NEW f \in FdbEntry, NEW i \in Index, NEW j \in Index,
           NEW oper \in {"MLEARN_ADD", "MLEARN_DEL"},
           EventFor(t, t2, f, i, j, oper)
    PROVE  /\ Truthful(AddNode(q, f, i, j, oper), t2)
           /\ OneAdd(AddNode(q, f, i, j, oper))
           /\ Told(AddNode(q, f, i, j, oper), Fresh(h, f), t2)
<1> SUFFICES ASSUME NEW q2, q2 = AddNode(q, f, i, j, oper),
                    NEW h2, h2 = Fresh(h, f)
             PROVE  Truthful(q2, t2) /\ OneAdd(q2) /\ Told(q2, h2, t2)
  OBVIOUS
<1> DEFINE n == NodeFor(f, i, oper)
<1>1. Len(q) \in Nat /\ q \in [1..Len(q) -> Node]
  BY LenProperties
<1>2. /\ q2 \in Seq(Node)
      /\ Len(q2) \in {Len(q), Len(q) + 1}
  BY AddNodeShape, Zenon
<1>3. PICK p \in 1..Len(q2) : Written(q, q2, n, i, j, p)
  BY AddNodeShape
<1>4. n.hash = i /\ n.oper = oper /\ ReportOfNode(n) = ReportOf(f)
  BY DEF NodeFor, ReportOf, ReportOfNode
<1> HIDE DEF n
\* An MLEARN_ADD of q at i is the node that is overwritten.
<1>5. \A r \in 1..Len(q) :
        q[r].hash = i /\ q[r].oper = "MLEARN_ADD" /\ p \in 1..Len(q) /\ q[p].hash = i
            => r = p
  BY <1>1, <1>3 DEF OneAdd, Written
<1>6. Truthful(q2, t2)
  <2> SUFFICES ASSUME NEW r \in 1..Len(q2), q2[r].oper = "MLEARN_ADD"
               PROVE  \E e \in t2 : /\ e.hash = q2[r].hash
                                    /\ ReportOf(e.fdb) = ReportOfNode(q2[r])
    BY DEF Truthful
  <2>1. CASE r = p
    BY <2>1, <1>3, <1>4 DEF EventFor, Written
  <2>2. CASE r # p /\ r \in 1..Len(q)
    <3>1. q2[r] = q[r]
      BY <2>2, <1>3 DEF Written
    <3>2. PICK e \in t : e.hash = q[r].hash /\ ReportOf(e.fdb) = ReportOfNode(q[r])
      BY <2>2, <3>1 DEF Truthful
    <3>3. q[r].hash # i
      BY <1>1, <1>2, <1>3, <2>2, <3>1, <3>2 DEF OneAdd, Written
    <3>4. e \in t2
      BY <3>2, <3>3 DEF EventFor
    <3> QED BY <3>1, <3>2, <3>4
  <2>3. CASE r # p /\ r \notin 1..Len(q)
    <3>1. /\ i # j /\ p \in 1..Len(q) /\ q[p].hash = i
          /\ q2[r] = [q[p] EXCEPT !.hash = j]
      BY <2>3, <1>3 DEF Written
    <3>2. /\ q[p] \in Node
          /\ q2[r].oper = q[p].oper /\ q2[r].hash = j
          /\ ReportOfNode(q2[r]) = ReportOfNode(q[p])
      BY <1>1, <3>1 DEF Node, ReportOfNode
    <3>3. PICK e \in t : e.hash = i /\ ReportOf(e.fdb) = ReportOfNode(q[p])
      BY <3>1, <3>2 DEF Truthful
    <3>4. [e EXCEPT !.hash = j] \in t2
      BY <3>1, <3>3 DEF EventFor
    <3>5. [e EXCEPT !.hash = j].hash = j /\ [e EXCEPT !.hash = j].fdb = e.fdb
      BY DEF MacEntry
    <3> QED BY <3>2, <3>3, <3>4, <3>5, Zenon
  <2> QED BY <2>1, <2>2, <2>3
<1>7. OneAdd(q2)
  <2> SUFFICES ASSUME NEW a \in 1..Len(q2), NEW b \in 1..Len(q2),
                      a < b, q2[a].hash = q2[b].hash
               PROVE  q2[a].oper = "MLEARN_DEL"
    BY DEF OneAdd
  <2>1. a \in 1..Len(q)
    BY <1>1, <1>2
  <2>2. CASE b \in 1..Len(q) /\ a # p /\ b # p
    BY <2>1, <2>2, <1>3 DEF OneAdd, Written
  <2>3. CASE a = p /\ b \in 1..Len(q)
    BY <1>1, <1>3, <1>4, <2>3 DEF Written
  <2>4. CASE a = p /\ b \notin 1..Len(q)
    <3>1. i # j /\ q[p] \in Node /\ q2[b] = [q[p] EXCEPT !.hash = j]
      BY <1>1, <1>3, <2>4 DEF Written
    <3>2. q2[b].hash = j
      BY <3>1 DEF Node
    <3> QED BY <1>3, <1>4, <2>4, <3>1, <3>2 DEF Written
  <2>5. CASE b = p
    <3>1. q2[a] = q[a] /\ q[a].hash = i
      BY <1>1, <1>3, <1>4, <2>1, <2>5 DEF Written
    <3>2. p \in 1..Len(q)
      BY <1>1, <1>2, <1>3, <2>1, <3>1 DEF Written
    <3>3. q[p].hash = i
      BY <1>3, <3>2 DEF Written
    <3> QED BY <2>1, <2>5, <3>1, <3>2, <3>3 DEF OneAdd
  <2>6. CASE a # p /\ b # p /\ b \notin 1..Len(q)
    <3>1. i # j /\ q[p] \in Node /\ q2[b] = [q[p] EXCEPT !.hash = j]
      BY <1>1, <1>3, <2>6 DEF Written
    <3>2. q2[b].hash = j
      BY <3>1 DEF Node
    <3>3. q2[a] = q[a] /\ q[a].hash = j /\ q[a] \in Node
      BY <1>1, <1>3, <2>1, <2>6, <3>2 DEF Written
    <3>4. q[a].oper # "MLEARN_ADD"
      BY <2>1, <3>1, <3>3, Zenon DEF Truthful, EventFor
    <3> QED BY <3>3, <3>4 DEF Node
  <2> QED BY <2>2, <2>3, <2>4, <2>5, <2>6
<1>8. Told(q2, h2, t2)
  <2> SUFFICES ASSUME NEW g \in t2
               PROVE  \/ ReportOf(g.fdb) \in h2
                      \/ \E r \in 1..Len(q2) :
                            /\ q2[r].oper = "MLEARN_ADD"
                            /\ q2[r].hash = g.hash
                            /\ ReportOfNode(q2[r]) = ReportOf(g.fdb)
    BY DEF Told
  <2>1. \A e \in t : Key(e.fdb) # Key(f) /\ ReportOf(e.fdb) \in h
            => ReportOf(e.fdb) \in h2
    BY DEF Key, ReportOf, Fresh
  <2>2. CASE g.hash = i /\ oper = "MLEARN_ADD" /\ ReportOf(g.fdb) = ReportOf(f)
    BY <1>3, <1>4, <2>2 DEF Written
  <2>3. CASE g \in t /\ g.hash # i /\ Key(g.fdb) # Key(f)
    <3>1. CASE ReportOf(g.fdb) \in h
      BY <2>1, <2>3, <3>1
    <3>2. CASE ReportOf(g.fdb) \notin h
      <4>1. PICK r \in 1..Len(q) : /\ q[r].oper = "MLEARN_ADD"
                                   /\ q[r].hash = g.hash
                                   /\ ReportOfNode(q[r]) = ReportOf(g.fdb)
        BY <2>3, <3>2 DEF Told
      <4>2. q2[r] = q[r] /\ r \in 1..Len(q2)
        BY <1>1, <1>2, <1>3, <1>4, <2>3, <4>1 DEF Written
      <4> QED BY <4>1, <4>2
    <3> QED BY <3>1, <3>2
  <2>4. CASE /\ i # j
             /\ \E e \in t : /\ e.hash = i
                             /\ g = [e EXCEPT !.hash = j]
                             /\ Key(e.fdb) # Key(f)
    <3>1. PICK e \in t : /\ e.hash = i
                         /\ g = [e EXCEPT !.hash = j]
                         /\ Key(e.fdb) # Key(f)
      BY <2>4
    <3>2. g.fdb = e.fdb /\ g.hash = j
      BY <3>1 DEF MacEntry
    <3>3. CASE ReportOf(e.fdb) \in h
      BY <2>1, <3>1, <3>2, <3>3
    <3>4. CASE ReportOf(e.fdb) \notin h
      <4>1. PICK r \in 1..Len(q) : /\ q[r].oper = "MLEARN_ADD"
                                   /\ q[r].hash = i
                                   /\ ReportOfNode(q[r]) = ReportOf(e.fdb)
        BY <3>1, <3>4 DEF Told
      <4>2. p \in 1..Len(q) /\ Len(q2) = Len(q) + 1
        BY <1>1, <1>2, <1>3, <2>4, <4>1 DEF Written
      <4>3. /\ Len(q2) # p /\ Len(q2) \in 1..Len(q2) /\ Len(q2) \notin 1..Len(q)
        BY <1>1, <4>2
      <4>4. /\ q[p].hash = i
            /\ q2[Len(q2)] = [q[p] EXCEPT !.hash = j]
        BY <1>3, <4>3 DEF Written
      <4>5. r = p
        BY <1>5, <4>1, <4>2, <4>4
      <4>6. /\ q2[Len(q2)].oper = q[p].oper
            /\ q2[Len(q2)].hash = j
            /\ ReportOfNode(q2[Len(q2)]) = ReportOfNode(q[p])
        BY <1>1, <4>2, <4>4 DEF Node, ReportOfNode
      <4> QED BY <3>2, <4>1, <4>3, <4>5, <4>6
    <3> QED BY <3>3, <3>4
  <2> QED BY <2>2, <2>3, <2>4 DEF EventFor
<1> QED BY <1>6, <1>7, <1>8

\* AddNode returns a buffer, with or without room in it.
LEMMA AddNodeType ==
    ASSUME NEW q \in Seq(Node), NEW f \in FdbEntry,
           NEW i \in Index, NEW j \in Index,
           NEW oper \in {"MLEARN_ADD", "MLEARN_DEL"}
    PROVE  AddNode(q, f, i, j, oper) \in Seq(Node)
<1>1. CASE Len(q) < BufferSize
  BY <1>1, AddNodeShape
<1>2. CASE ~(Len(q) < BufferSize) /\ Places(q, i) = {}
  BY <1>2 DEF AddNode
<1>3. CASE ~(Len(q) < BufferSize) /\ Places(q, i) # {}
  <2>1. AddNode(q, f, i, j, oper) = [q EXCEPT ![Newest(q, i)] = NodeFor(f, i, oper)]
    BY <1>3 DEF AddNode
  <2> QED BY <1>3, <2>1, NewestNode, NodeForType, ExceptSeq
<1> QED BY <1>1, <1>2, <1>3

\* A hand-over toggles the tables and adds to what the bridge has been told the
\* MLEARN_ADDs of the table in use.
LEMMA ProcessMlearn ==
    ASSUME NEW m \in MlearnState
    PROVE  /\ process_mlearn(m) \in MlearnState
           /\ plugin_interface /\ Current(m) # <<>> =>
                /\ Current(process_mlearn(m)) = <<>>
                /\ m.handed \subseteq process_mlearn(m).handed
                /\ \A p \in 1..Len(Current(m)) :
                      Current(m)[p].oper = "MLEARN_ADD" =>
                          ReportOfNode(Current(m)[p]) \in process_mlearn(m).handed
<1>1. /\ m.curr \in {0, 1} /\ m.tables \in [{0, 1} -> Seq(Node)]
      /\ m.handed \in SUBSET Report
      /\ Current(m) \in Seq(Node)
  BY DEF MlearnState, Current
<1>2. CASE ~(plugin_interface /\ Current(m) # <<>>)
  BY <1>2 DEF process_mlearn
<1>3. CASE plugin_interface /\ Current(m) # <<>>
  <2> DEFINE q == Current(m)
             adds == {ReportOfNode(n) : n \in
                         {q[p] : p \in {r \in 1..Len(q) : q[r].oper = "MLEARN_ADD"}}}
             m2 == process_mlearn(m)
  <2>1. m2 = [curr |-> 1 - m.curr,
              tables |-> [m.tables EXCEPT ![1 - m.curr] = <<>>],
              handed |-> m.handed \union adds]
    BY <1>3 DEF process_mlearn
  <2>2. adds \in SUBSET Report
    <3>1. \A p \in 1..Len(q) : q[p] \in Node
      BY <1>1, ElementOfSeq
    <3>2. \A n \in Node : ReportOfNode(n) \in Report
      BY DEF Node, Report, ReportOfNode
    <3> QED BY <3>1, <3>2
  <2>3. 1 - m.curr \in {0, 1} /\ 1 - m.curr # m.curr
    BY <1>1
  <2>4. \A p \in 1..Len(q) : q[p].oper = "MLEARN_ADD" => ReportOfNode(q[p]) \in adds
    OBVIOUS
  <2> HIDE DEF adds, m2
  <2>5. [m.tables EXCEPT ![1 - m.curr] = <<>>] \in [{0, 1} -> Seq(Node)]
    BY <1>1, EmptySeq
  <2>6. m2 \in MlearnState
    BY <1>1, <2>1, <2>2, <2>3, <2>5 DEF MlearnState
  <2>7. m2.tables[m2.curr] = <<>>
    BY <1>1, <2>1, <2>3
  <2>8. m2.handed = m.handed \union adds
    BY <2>1
  <2> QED BY <2>4, <2>6, <2>7, <2>8 DEF Current, m2
<1> QED BY <1>2, <1>3

\* The state of the buffers between the two parts of mlearn_action_add.
Added(m, f, i, j, oper) ==
    [m EXCEPT !.tables[m.curr] = AddNode(Current(m), f, i, j, oper),
              !.handed = Fresh(@, f)]

\* The fields of the buffers after an event, before a full one is handed over.
LEMMA AddedFields ==
    ASSUME NEW m \in MlearnState, NEW f \in FdbEntry,
           NEW i \in Index, NEW j \in Index,
           NEW oper \in {"MLEARN_ADD", "MLEARN_DEL"},
           NEW m2, m2 = Added(m, f, i, j, oper)
    PROVE  /\ m2 \in MlearnState
           /\ Current(m2) = AddNode(Current(m), f, i, j, oper)
           /\ m2.handed = Fresh(m.handed, f)
           /\ mlearn_action_add(m, f, i, j, oper) =
                IF Len(Current(m2)) = BufferSize THEN process_mlearn(m2) ELSE m2
<1>1. /\ m.curr \in {0, 1} /\ m.tables \in [{0, 1} -> Seq(Node)]
      /\ m.handed \in SUBSET Report
      /\ Current(m) \in Seq(Node)
  BY DEF MlearnState, Current
<1>2. AddNode(Current(m), f, i, j, oper) \in Seq(Node)
  BY <1>1, AddNodeType, Zenon
<1> DEFINE q == AddNode(Current(m), f, i, j, oper)
<1> HIDE DEF q
<1>3. /\ m2.curr = m.curr
      /\ m2.tables = [m.tables EXCEPT ![m.curr] = q]
      /\ m2.handed = Fresh(m.handed, f)
      /\ m2 \in MlearnState
  BY <1>1, <1>2, Zenon DEF Added, MlearnState, Fresh, q
<1>4. Current(m2) = q
  BY <1>1, <1>3 DEF Current
<1>5. mlearn_action_add(m, f, i, j, oper) =
          IF Len(q) = BufferSize THEN process_mlearn(m2) ELSE m2
  BY DEF mlearn_action_add, Added, q
<1> QED BY <1>3, <1>4, <1>5 DEF q

\* mlearn_action_add returns buffers, with or without the plugin.
LEMMA ActionAddType ==
    ASSUME NEW m \in MlearnState, NEW f \in FdbEntry,
           NEW i \in Index, NEW j \in Index,
           NEW oper \in {"MLEARN_ADD", "MLEARN_DEL"}
    PROVE  mlearn_action_add(m, f, i, j, oper) \in MlearnState
<1> DEFINE m2 == Added(m, f, i, j, oper)
<1> HIDE DEF m2
<1>1. m2 \in MlearnState
  BY AddedFields DEF m2
<1>2. mlearn_action_add(m, f, i, j, oper) \in {m2, process_mlearn(m2)}
  BY AddedFields DEF m2
<1> QED BY <1>1, <1>2, ProcessMlearn

\* A hand-over tells the bridge of every entry.
LEMMA HandOverSound ==
    ASSUME plugin_interface, NEW t \in SUBSET MacEntry, NEW m \in MlearnState,
           Truthful(Current(m), t), OneAdd(Current(m)),
           Told(Current(m), m.handed, t), Current(m) # <<>>
    PROVE  /\ BufferInv(process_mlearn(m), t)
           /\ \A e \in t : ReportOf(e.fdb) \in process_mlearn(m).handed
<1> DEFINE m2 == process_mlearn(m)
<1>1. /\ m2 \in MlearnState
      /\ Current(m2) = <<>>
      /\ m.handed \subseteq m2.handed
      /\ \A p \in 1..Len(Current(m)) :
            Current(m)[p].oper = "MLEARN_ADD" =>
                ReportOfNode(Current(m)[p]) \in m2.handed
  BY ProcessMlearn
<1> HIDE DEF m2
<1>2. \A e \in t : ReportOf(e.fdb) \in m2.handed
  BY <1>1 DEF Told
<1>3. Len(Current(m2)) = 0
  BY <1>1
<1>4. BufferInv(m2, t)
  BY <1>2, <1>3, BufferSizeAssumption DEF BufferInv, Truthful, OneAdd, Told
<1> QED BY <1>2, <1>4 DEF m2

\* mlearn_action_add keeps the buffers right when it records the event of a
\* change of the table, whether or not the buffer becomes full.
LEMMA ActionAddSound ==
    ASSUME plugin_interface,
           NEW t \in SUBSET MacEntry, NEW t2 \in SUBSET MacEntry,
           NEW m \in MlearnState, BufferInv(m, t),
           NEW f \in FdbEntry, NEW i \in Index, NEW j \in Index,
           NEW oper \in {"MLEARN_ADD", "MLEARN_DEL"},
           EventFor(t, t2, f, i, j, oper)
    PROVE  BufferInv(mlearn_action_add(m, f, i, j, oper), t2)
<1>a. PICK m2 : m2 = Added(m, f, i, j, oper)
  OBVIOUS
<1>b. PICK q : q = Current(m)
  OBVIOUS
<1>c. PICK q2 : q2 = Current(m2)
  OBVIOUS
<1>1. /\ m2 \in MlearnState
      /\ Current(m2) = AddNode(Current(m), f, i, j, oper)
      /\ m2.handed = Fresh(m.handed, f)
      /\ mlearn_action_add(m, f, i, j, oper) =
            IF Len(Current(m2)) = BufferSize THEN process_mlearn(m2) ELSE m2
  BY <1>a, AddedFields
<1>d. q2 = AddNode(q, f, i, j, oper)
  BY <1>b, <1>c, <1>1
<1>2. q \in Seq(Node) /\ m.handed \in SUBSET Report /\ Len(q) \in Nat
  BY <1>b DEF MlearnState, Current
<1>3. Len(q) < BufferSize /\ Truthful(q, t) /\ OneAdd(q) /\ Told(q, m.handed, t)
  BY <1>b DEF BufferInv
<1>4. Truthful(q2, t2) /\ OneAdd(q2) /\ Told(q2, m2.handed, t2)
  BY <1>1, <1>d, <1>2, <1>3, AddNodeSound, Zenon
<1>5. q2 \in Seq(Node) /\ Len(q2) \in {Len(q), Len(q) + 1}
  BY <1>1, <1>d, <1>2, <1>3, AddNodeShape, Zenon
<1>6. CASE Len(q2) = BufferSize
  <2>1. q2 # <<>>
    BY <1>6, BufferSizeAssumption
  <2> QED BY <1>c, <1>1, <1>4, <1>6, <2>1, HandOverSound
<1>7. CASE Len(q2) # BufferSize
  <2>1. Len(q2) < BufferSize
    BY <1>2, <1>3, <1>5, <1>7, BufferSizeAssumption
  <2> QED BY <1>c, <1>1, <1>4, <1>7, <2>1 DEF BufferInv
<1> QED BY <1>6, <1>7
-----------------------------------------------------------------------------
(* The software table and the hardware *)

\* The table t holds what the hardware h holds, entry by entry.
Mirror(h, t) ==
    /\ \A e \in t : h[e.hash] # NoEntry /\ Key(h[e.hash]) = Key(e.fdb)
    /\ \A i \in Index : h[i] # NoEntry => \E e \in t : e.hash = i
    /\ \A e, g \in t : e.hash = g.hash => e = g
    /\ \A e, g \in t : Key(e.fdb) = Key(g.fdb) => e = g

\* The inductive form of FdbInSync implies it.
LEMMA MirrorIsInSync ==
    ASSUME TypeOK, Mirror(hw, table)
    PROVE  FdbInSync
<1>1. \A e \in table : e.hash \in Index
  BY DEF TypeOK, MacEntry
<1>2. ASSUME NEW i \in Index, hw[i] = NoEntry
      PROVE  EntriesAt(i) = {}
  BY <1>2 DEF Mirror, EntriesAt
<1>3. ASSUME NEW i \in Index, hw[i] # NoEntry
      PROVE  \E e \in table : EntriesAt(i) = {e} /\ Key(e.fdb) = Key(hw[i])
  <2>1. PICK e \in table : e.hash = i
    BY <1>3 DEF Mirror
  <2>2. \A g \in table : g.hash = i => g = e
    BY <2>1 DEF Mirror
  <2>3. EntriesAt(i) = {e}
    BY <2>1, <2>2 DEF EntriesAt
  <2>4. Key(e.fdb) = Key(hw[i])
    BY <2>1 DEF Mirror
  <2> QED BY <2>3, <2>4
<1> QED BY <1>2, <1>3 DEF FdbInSync, Mirror

HwInserted(f, i, j) == [hw EXCEPT ![j] = hw[i], ![i] = f]
Inserted(f, i, j) == Relocate(i, j) \union {[hash |-> i, fdb |-> f]}

\* ops_xp_mac_learning_insert: the hardware puts a new key at slot i and moves
\* what was there to the free slot j; the software table follows.
LEMMA InsertStep ==
    ASSUME TypeOK, Mirror(hw, table), NEW f \in FdbEntry, HwSlots(Key(f)) = {},
           NEW i \in Index, NEW j \in Index,
           hw[j] = NoEntry, hw[i] = NoEntry => i = j,
           NEW t2, t2 = Inserted(f, i, j),
           NEW h2, h2 = HwInserted(f, i, j)
    PROVE  /\ i # j => EntriesAt(i) # {}
           /\ t2 \in SUBSET MacEntry
           /\ h2 \in [Index -> FdbEntry \union {NoEntry}]
           /\ Mirror(h2, t2)
           /\ EventFor(table, t2, f, i, j, "MLEARN_ADD")
           /\ \A g \in t2 : \/ g.fdb.vlanId = f.vlanId
                            \/ \E e \in table : g.fdb.vlanId = e.fdb.vlanId
<1> DEFINE new == [hash |-> i, fdb |-> f]
<1>1. /\ hw \in [Index -> FdbEntry \union {NoEntry}]
      /\ table \in SUBSET MacEntry
      /\ f # NoEntry
      /\ new \in MacEntry /\ new.hash = i /\ new.fdb = f
  BY SentinelAssumption DEF TypeOK, FdbEntry, MacEntry
<1> HIDE DEF new
<1>2. \A e \in table : Key(e.fdb) # Key(f)
  BY <1>1 DEF HwSlots, Mirror, MacEntry
<1>3. \A e \in table : e.hash # j
  BY DEF Mirror
<1>4. h2 \in [Index -> FdbEntry \union {NoEntry}]
  BY <1>1 DEF HwInserted
<1>5. CASE i = j
  <2>1. t2 = table \union {new}
    BY <1>5 DEF Inserted, Relocate, new
  <2>2. h2 = [hw EXCEPT ![i] = f]
    BY <1>1, <1>5 DEF HwInserted
  <2>3. Mirror(h2, t2)
    BY <1>1, <1>2, <1>3, <1>5, <2>1, <2>2 DEF Mirror, MacEntry
  <2>4. EventFor(table, t2, f, i, j, "MLEARN_ADD")
    BY <1>1, <1>2, <1>3, <1>5, <2>1 DEF EventFor
  <2> QED BY <1>1, <1>4, <1>5, <2>1, <2>3, <2>4
<1>6. CASE i # j
  <2>1. PICK old \in table : old.hash = i
    BY <1>6 DEF Mirror
  <2>2. old = lookup(i) /\ EntriesAt(i) # {}
    BY <2>1 DEF lookup, EntriesAt, Mirror
  <2> DEFINE moved == [old EXCEPT !.hash = j]
  <2>3. moved \in MacEntry /\ moved.hash = j /\ moved.fdb = old.fdb
    BY <1>1, <2>1 DEF MacEntry
  <2>4. t2 = (table \ {old}) \union {moved, new}
    BY <1>6, <2>2 DEF Inserted, Relocate, new
  <2> HIDE DEF moved
  <2>5. \A e \in table : e # old => e.hash # i
    BY <2>1 DEF Mirror
  <2>6. /\ h2[i] = f /\ h2[j] = hw[i]
        /\ \A k \in Index : k # i /\ k # j => h2[k] = hw[k]
    BY <1>1, <1>6 DEF HwInserted
  <2>7. Mirror(h2, t2)
    <3>1. \A e \in t2 : h2[e.hash] # NoEntry /\ Key(h2[e.hash]) = Key(e.fdb)
      BY <1>1, <1>3, <2>1, <2>3, <2>4, <2>5, <2>6 DEF Mirror, MacEntry
    <3>2. \A k \in Index : h2[k] # NoEntry => \E e \in t2 : e.hash = k
      BY <1>1, <2>1, <2>3, <2>4, <2>6 DEF Mirror
    <3>3. \A e, g \in t2 : e.hash = g.hash => e = g
      BY <1>1, <1>3, <1>6, <2>3, <2>4, <2>5 DEF Mirror
    <3>4. \A e, g \in t2 : Key(e.fdb) = Key(g.fdb) => e = g
      BY <1>1, <1>2, <2>1, <2>3, <2>4 DEF Mirror
    <3> QED BY <3>1, <3>2, <3>3, <3>4 DEF Mirror
  <2>8. EventFor(table, t2, f, i, j, "MLEARN_ADD")
    <3>1. \A e \in table : e.hash = i => [e EXCEPT !.hash = j] \in t2
      BY <2>4, <2>5 DEF moved
    <3>2. \A e \in table : e.hash # i => e \in t2
      BY <2>1, <2>4
    <3>3. new \in t2 /\ new.hash = i /\ new.fdb = f
      BY <1>1, <2>4
    <3>4. \A g \in t2 : g = new \/ g = moved \/ (g \in table /\ g.hash # i)
      BY <2>4, <2>5
    <3>5. moved = [old EXCEPT !.hash = j]
      BY DEF moved
    <3> QED BY <1>2, <1>3, <1>6, <2>1, <3>1, <3>2, <3>3, <3>4, <3>5 DEF EventFor
  <2> QED BY <1>1, <1>4, <2>1, <2>2, <2>3, <2>4, <2>7, <2>8
<1> QED BY <1>5, <1>6

\* ops_xp_mac_learning_expire: an entry leaves both tables.
LEMMA ExpireStep ==
    ASSUME TypeOK, Mirror(hw, table), NEW e \in table,
           NEW t2, t2 = table \ {e},
           NEW h2, h2 = [hw EXCEPT ![e.hash] = NoEntry]
    PROVE  /\ e.fdb \in FdbEntry /\ e.hash \in Index
           /\ t2 \in SUBSET MacEntry
           /\ h2 \in [Index -> FdbEntry \union {NoEntry}]
           /\ Mirror(h2, t2)
           /\ EventFor(table, t2, e.fdb, e.hash, e.hash, "MLEARN_DEL")
<1>1. /\ hw \in [Index -> FdbEntry \union {NoEntry}]
      /\ table \in SUBSET MacEntry
      /\ \A g \in table : g.hash \in Index /\ g.fdb \in FdbEntry
  BY DEF TypeOK, MacEntry
<1>2. \A g \in t2 : g \in table /\ g.hash # e.hash /\ Key(g.fdb) # Key(e.fdb)
  BY DEF Mirror
<1>3. h2 \in [Index -> FdbEntry \union {NoEntry}]
  BY <1>1
<1>4. Mirror(h2, t2)
  BY <1>1, <1>2 DEF Mirror
<1>5. EventFor(table, t2, e.fdb, e.hash, e.hash, "MLEARN_DEL")
  BY <1>2 DEF EventFor
<1> QED BY <1>1, <1>3, <1>4, <1>5

Updated(e, intfId) == [e EXCEPT !.fdb.intfId = intfId]
Replaced(e, upd) == (table \ {e}) \union {upd}
HwWritten(i, f) == [hw EXCEPT ![i] = f]

\* Exchanging an entry for one with the same key and slot keeps the mirror.
LEMMA MirrorReplace ==
    ASSUME NEW h, NEW h2, NEW t, Mirror(h, t), NEW e \in t,
           NEW upd, upd.hash = e.hash, Key(upd.fdb) = Key(e.fdb),
           \A k \in Index : k # e.hash => h2[k] = h[k],
           h2[e.hash] # NoEntry, Key(h2[e.hash]) = Key(e.fdb),
           \A g \in t : g.hash \in Index
    PROVE  Mirror(h2, (t \ {e}) \union {upd})
<1> DEFINE t2 == (t \ {e}) \union {upd}
<1>1. \A g \in t2 : g = upd \/ (g \in t /\ g.hash # e.hash /\ Key(g.fdb) # Key(e.fdb))
  BY DEF Mirror
<1>2. upd \in t2 /\ \A g \in t : g # e => g \in t2
  OBVIOUS
<1> HIDE DEF t2
<1>3. \A g \in t2 : h2[g.hash] # NoEntry /\ Key(h2[g.hash]) = Key(g.fdb)
  BY <1>1 DEF Mirror
<1>4. \A i \in Index : h2[i] # NoEntry => \E g \in t2 : g.hash = i
  BY <1>2 DEF Mirror
<1>5. \A g, k \in t2 : g.hash = k.hash => g = k
  BY <1>1 DEF Mirror
<1>6. \A g, k \in t2 : Key(g.fdb) = Key(k.fdb) => g = k
  BY <1>1 DEF Mirror
<1> QED BY <1>3, <1>4, <1>5, <1>6 DEF Mirror, t2

\* The SA_MOVE branch of ops_xp_mac_learning_learn: an entry gets another port.
\* The hardware slot keeps its key, whether or not the write succeeds.
LEMMA UpdateStep ==
    ASSUME TypeOK, Mirror(hw, table), NEW e \in table, NEW intfId \in Intf,
           NEW upd, upd = Updated(e, intfId),
           NEW t2, t2 = Replaced(e, upd)
    PROVE  /\ upd \in MacEntry /\ upd.hash = e.hash
           /\ Key(upd.fdb) = Key(e.fdb) /\ upd.fdb.vlanId = e.fdb.vlanId
           /\ t2 \in SUBSET MacEntry
           /\ HwWritten(e.hash, upd.fdb) \in [Index -> FdbEntry \union {NoEntry}]
           /\ Mirror(hw, t2)
           /\ Mirror(HwWritten(e.hash, upd.fdb), t2)
           /\ EventFor(table, t2, upd.fdb, e.hash, e.hash, "MLEARN_ADD")
           /\ table \ {e} = t2 \ {upd}
<1>1. /\ hw \in [Index -> FdbEntry \union {NoEntry}]
      /\ table \in SUBSET MacEntry
      /\ \A g \in table : g.hash \in Index /\ g.fdb \in FdbEntry
  BY DEF TypeOK, MacEntry
<1>2. /\ upd \in MacEntry /\ upd.hash = e.hash /\ upd.fdb \in FdbEntry
      /\ upd.fdb.vlanId = e.fdb.vlanId /\ upd.fdb.macAddr = e.fdb.macAddr
  BY <1>1 DEF MacEntry, FdbEntry, Updated
<1>3. Key(upd.fdb) = Key(e.fdb) /\ upd.fdb # NoEntry
  BY <1>2, SentinelAssumption DEF Key, FdbEntry
<1>4. \A g \in table : g # e => g.hash # e.hash /\ Key(g.fdb) # Key(e.fdb)
  BY DEF Mirror
<1>t. t2 = (table \ {e}) \union {upd}
  BY DEF Replaced
<1>5. Mirror(hw, t2)
  <2>1. hw[e.hash] # NoEntry /\ Key(hw[e.hash]) = Key(e.fdb)
    BY DEF Mirror
  <2> QED BY <1>1, <1>2, <1>3, <1>t, <2>1, MirrorReplace
<1>6. Mirror(HwWritten(e.hash, upd.fdb), t2)
  <2> DEFINE h2 == HwWritten(e.hash, upd.fdb)
  <2>1. h2[e.hash] = upd.fdb /\ \A k \in Index : k # e.hash => h2[k] = hw[k]
    BY <1>1 DEF HwWritten
  <2> HIDE DEF h2
  <2>2. Mirror(h2, t2)
    BY <1>1, <1>2, <1>3, <1>t, <2>1, MirrorReplace
  <2> QED BY <2>2 DEF h2
<1>7. EventFor(table, t2, upd.fdb, e.hash, e.hash, "MLEARN_ADD")
  BY <1>2, <1>3, <1>4, <1>t DEF EventFor
<1>8. table \ {e} = t2 \ {upd}
  BY <1>2, <1>4, <1>t
<1> QED BY <1>1, <1>2, <1>3, <1>t, <1>5, <1>6, <1>7, <1>8 DEF HwWritten
-----------------------------------------------------------------------------
(* The service *)

\* What FdbService sees of a table t and of the reports h handed to the bridge.
OfKey(t, key) == {e \in t : Key(e.fdb) = key}
Bindings(t) ==
    [key \in Vlan \X Mac |->
        IF OfKey(t, key) = {} THEN NoIntf
        ELSE (CHOOSE e \in OfKey(t, key) : TRUE).fdb.intfId]
OwedBy(t, h) ==
    {key \in Vlan \X Mac : \E e \in OfKey(t, key) : ReportOf(e.fdb) \notin h}

\* A table has at most one entry of a key.
OnePerKey(t) == \A e, g \in t : Key(e.fdb) = Key(g.fdb) => e = g

\* Two tables have the same bindings of all keys but k.
SameBut(t, t2, k) ==
    /\ \A e \in t : Key(e.fdb) # k => \E g \in t2 : g.fdb = e.fdb
    /\ \A g \in t2 : Key(g.fdb) # k => \E e \in t : e.fdb = g.fdb

\* The steps of FdbService: key k is bound to interface i, or to none.
Bound(t, t2, m, m2, k, i) ==
    /\ Bindings(t2) = [Bindings(t) EXCEPT ![k] = i]
    /\ OwedBy(t2, m2.handed) \in {OwedBy(t, m.handed) \union {k}, {}}
Unbound(t, t2, m, m2, k) ==
    /\ Bindings(t2) = [Bindings(t) EXCEPT ![k] = NoIntf]
    /\ OwedBy(t2, m2.handed) \in {OwedBy(t, m.handed) \ {k}, {}}

\* Binding a key and unbinding it in one step unbinds it.
LEMMA BoundThenUnbound ==
    ASSUME NEW t, NEW t2, NEW t3, NEW m, NEW m2, NEW m3, NEW k, NEW i,
           Bound(t, t2, m, m2, k, i), Unbound(t2, t3, m2, m3, k)
    PROVE  Unbound(t, t3, m, m3, k)
<1>1. Bindings(t3) = [Bindings(t) EXCEPT ![k] = NoIntf]
  <2>1. PICK b, b2, b3 : b = Bindings(t) /\ b2 = Bindings(t2) /\ b3 = Bindings(t3)
    OBVIOUS
  <2>2. b2 = [b EXCEPT ![k] = i] /\ b3 = [b2 EXCEPT ![k] = NoIntf]
    BY <2>1, Zenon DEF Bound, Unbound
  <2>3. DOMAIN b2 = DOMAIN b /\ DOMAIN b3 = DOMAIN b
    BY <2>2
  <2>4. b3 = [b EXCEPT ![k] = NoIntf]
    BY <2>2, <2>3, Zenon
  <2> QED BY <2>1, <2>4
<1>2. OwedBy(t3, m3.handed) \in {OwedBy(t, m.handed) \ {k}, {}}
  BY DEF Bound, Unbound
<1> QED BY <1>1, <1>2, Zenon DEF Unbound

\* The event that follows the change of the table from t to t2 comes to
\* buffers that are right for t.
RightEvent(m, t, t2, f, i, j, oper) ==
    /\ t \in SUBSET MacEntry /\ t2 \in SUBSET MacEntry
    /\ m \in MlearnState /\ (plugin_interface => BufferInv(m, t))
    /\ f \in FdbEntry /\ i \in Index /\ j \in Index
    /\ oper \in {"MLEARN_ADD", "MLEARN_DEL"}
    /\ EventFor(t, t2, f, i, j, oper)

\* The key of an FDB entry is a VLAN and an address.
LEMMA KeyType ==
    ASSUME NEW f \in FdbEntry
    PROVE  Key(f) \in Vlan \X Mac /\ f.intfId \in Intf
BY DEF Key, FdbEntry

\* A key is bound to the interface of its entry.
LEMMA BindingOfEntry ==
    ASSUME NEW t \in SUBSET MacEntry, OnePerKey(t), NEW e \in t
    PROVE  Bindings(t)[Key(e.fdb)] = e.fdb.intfId
<1>1. Key(e.fdb) \in Vlan \X Mac
  BY KeyType DEF MacEntry
<1>2. OfKey(t, Key(e.fdb)) = {e}
  BY DEF OfKey, OnePerKey
<1> QED BY <1>1, <1>2 DEF Bindings

\* A key without an entry is bound to no interface.
LEMMA BindingOfNone ==
    ASSUME NEW t, NEW k \in Vlan \X Mac, \A e \in t : Key(e.fdb) # k
    PROVE  Bindings(t)[k] = NoIntf
<1>1. OfKey(t, k) = {}
  BY DEF OfKey
<1> QED BY <1>1 DEF Bindings

\* A change of the entry of one key changes one binding.
LEMMA OneBindingChanges ==
    ASSUME NEW t \in SUBSET MacEntry, NEW t2 \in SUBSET MacEntry,
           OnePerKey(t), OnePerKey(t2), NEW k \in Vlan \X Mac, SameBut(t, t2, k)
    PROVE  Bindings(t2) = [Bindings(t) EXCEPT ![k] = Bindings(t2)[k]]
<1>1. ASSUME NEW q \in Vlan \X Mac, q # k
      PROVE  Bindings(t2)[q] = Bindings(t)[q]
  <2>1. CASE \E e \in t : Key(e.fdb) = q
    <3>1. PICK e \in t : Key(e.fdb) = q
      BY <2>1
    <3>2. PICK g \in t2 : g.fdb = e.fdb
      BY <1>1, <3>1 DEF SameBut
    <3> QED BY <3>1, <3>2, BindingOfEntry
  <2>2. CASE \A e \in t : Key(e.fdb) # q
    <3>1. \A g \in t2 : Key(g.fdb) # q
      BY <1>1, <2>2 DEF SameBut
    <3> QED BY <2>2, <3>1, BindingOfNone
  <2> QED BY <2>1, <2>2
<1>2. /\ Bindings(t2) = [q \in Vlan \X Mac |-> Bindings(t2)[q]]
      /\ DOMAIN Bindings(t) = Vlan \X Mac
  BY DEF Bindings
<1> QED BY <1>1, <1>2, Zenon

\* An event of key k takes back what the bridge was told of k and of no other key.
LEMMA OneDebtChanges ==
    ASSUME NEW t \in SUBSET MacEntry, NEW t2 \in SUBSET MacEntry, NEW h,
           NEW f \in FdbEntry, SameBut(t, t2, Key(f))
    PROVE  /\ (\E g \in t2 : Key(g.fdb) = Key(f)) =>
                 OwedBy(t2, Fresh(h, f)) = OwedBy(t, h) \union {Key(f)}
           /\ (\A g \in t2 : Key(g.fdb) # Key(f)) =>
                 OwedBy(t2, Fresh(h, f)) = OwedBy(t, h) \ {Key(f)}
<1>1. \A g : ReportOf(g).vlan = g.vlanId /\ ReportOf(g).mac = g.macAddr
  BY DEF ReportOf
<1>2. \A g : Key(g) = <<ReportOf(g).vlan, ReportOf(g).mac>>
  BY <1>1 DEF Key
<1>3. \A g : Key(g) = Key(f) => ReportOf(g) \notin Fresh(h, f)
  BY <1>2 DEF Fresh
<1>4. \A g : Key(g) # Key(f) => (ReportOf(g) \in Fresh(h, f) <=> ReportOf(g) \in h)
  BY <1>2 DEF Fresh
<1>5. ASSUME NEW q \in Vlan \X Mac, q # Key(f)
      PROVE  q \in OwedBy(t2, Fresh(h, f)) <=> q \in OwedBy(t, h)
  BY <1>4, <1>5 DEF OwedBy, OfKey, SameBut
<1>6. Key(f) \in OwedBy(t2, Fresh(h, f)) <=> \E g \in t2 : Key(g.fdb) = Key(f)
  BY <1>3, KeyType DEF OwedBy, OfKey
<1>7. OwedBy(t2, Fresh(h, f)) \subseteq Vlan \X Mac /\ OwedBy(t, h) \subseteq Vlan \X Mac
  BY DEF OwedBy
<1>8. Key(f) \in Vlan \X Mac
  BY KeyType
<1> QED BY <1>5, <1>6, <1>7, <1>8

\* When a buffer that became full is handed over no debt is left.
LEMMA EventPays ==
    ASSUME NEW m, NEW t, NEW t2, NEW f, NEW i, NEW j, NEW oper,
           RightEvent(m, t, t2, f, i, j, oper)
    PROVE  \/ OwedBy(t2, mlearn_action_add(m, f, i, j, oper).handed) = {}
           \/ OwedBy(t2, mlearn_action_add(m, f, i, j, oper).handed) =
                  OwedBy(t2, Fresh(m.handed, f))
<1> SUFFICES ASSUME NEW m3, m3 = mlearn_action_add(m, f, i, j, oper)
             PROVE  \/ OwedBy(t2, m3.handed) = {}
                    \/ OwedBy(t2, m3.handed) = OwedBy(t2, Fresh(m.handed, f))
  OBVIOUS
<1>b. /\ t \in SUBSET MacEntry /\ t2 \in SUBSET MacEntry
      /\ m \in MlearnState /\ (plugin_interface => BufferInv(m, t))
      /\ f \in FdbEntry /\ i \in Index /\ j \in Index
      /\ oper \in {"MLEARN_ADD", "MLEARN_DEL"}
      /\ EventFor(t, t2, f, i, j, oper)
  BY DEF RightEvent
<1>a. PICK m2 : m2 = Added(m, f, i, j, oper)
  OBVIOUS
<1>1. /\ m2 \in MlearnState
      /\ Current(m2) = AddNode(Current(m), f, i, j, oper)
      /\ m2.handed = Fresh(m.handed, f)
      /\ m3 = IF Len(Current(m2)) = BufferSize THEN process_mlearn(m2) ELSE m2
  BY <1>a, <1>b, AddedFields
<1>2. CASE m3 = m2
  BY <1>1, <1>2
<1>3. CASE m3 = process_mlearn(m2) /\ ~(plugin_interface /\ Current(m2) # <<>>)
  BY <1>1, <1>3 DEF process_mlearn
<1>4. CASE m3 = process_mlearn(m2) /\ plugin_interface /\ Current(m2) # <<>>
  <2>a. PICK q, q2 : q = Current(m) /\ q2 = Current(m2)
    OBVIOUS
  <2>b. q2 = AddNode(q, f, i, j, oper)
    BY <1>1, <2>a
  <2>1. q \in Seq(Node) /\ m.handed \in SUBSET Report /\ Len(q) \in Nat
    BY <1>b, <2>a DEF MlearnState, Current
  <2>c. Len(q) < BufferSize /\ Truthful(q, t) /\ OneAdd(q) /\ Told(q, m.handed, t)
    BY <1>4, <1>b, <2>a DEF BufferInv
  <2>d. Truthful(q2, t2) /\ OneAdd(q2) /\ Told(q2, m2.handed, t2)
    BY <1>1, <1>b, <2>b, <2>1, <2>c, AddNodeSound, Zenon
  <2>2. /\ Truthful(Current(m2), t2) /\ OneAdd(Current(m2))
        /\ Told(Current(m2), m2.handed, t2)
    BY <2>a, <2>d
  <2>3. \A e \in t2 : ReportOf(e.fdb) \in m3.handed
    BY <1>1, <1>b, <1>4, <2>2, HandOverSound, Zenon
  <2>4. OwedBy(t2, m3.handed) = {}
    BY <2>3, Zenon DEF OwedBy, OfKey
  <2> QED BY <2>4
<1> QED BY <1>1, <1>2, <1>3, <1>4

\* A change of the table with its event is one step of the service.
LEMMA ServiceEvent ==
    ASSUME NEW m, NEW t, NEW t2, NEW f, NEW i, NEW j, NEW oper,
           RightEvent(m, t, t2, f, i, j, oper), OnePerKey(t), OnePerKey(t2),
           i = j => \A e \in t : e.hash = i => Key(e.fdb) = Key(f),
           NEW m2, m2 = mlearn_action_add(m, f, i, j, oper)
    PROVE  /\ oper = "MLEARN_ADD" => Bound(t, t2, m, m2, Key(f), f.intfId)
           /\ oper = "MLEARN_DEL" => Unbound(t, t2, m, m2, Key(f))
<1>a. /\ t \in SUBSET MacEntry /\ t2 \in SUBSET MacEntry
      /\ f \in FdbEntry
      /\ oper \in {"MLEARN_ADD", "MLEARN_DEL"}
      /\ EventFor(t, t2, f, i, j, oper)
  BY DEF RightEvent
<1>1. \A g : ReportOf(g) = ReportOf(f) => Key(g) = Key(f) /\ g.intfId = f.intfId
  <2>1. \A g : /\ ReportOf(g).vlan = g.vlanId /\ ReportOf(g).mac = g.macAddr
               /\ ReportOf(g).port = g.intfId
    BY DEF ReportOf
  <2> QED BY <2>1, Zenon DEF Key
<1>2. SameBut(t, t2, Key(f))
  <2>1. ASSUME NEW e \in t, Key(e.fdb) # Key(f)
        PROVE  \E g \in t2 : g.fdb = e.fdb
    <3>1. CASE e.hash # i
      BY <1>a, <3>1 DEF EventFor
    <3>2. CASE e.hash = i
      <4>1. [e EXCEPT !.hash = j] \in t2
        BY <1>a, <2>1, <3>2 DEF EventFor
      <4>2. [e EXCEPT !.hash = j].fdb = e.fdb
        BY <1>a DEF MacEntry
      <4> QED BY <4>1, <4>2, Zenon
    <3> QED BY <3>1, <3>2
  <2>2. ASSUME NEW g \in t2, Key(g.fdb) # Key(f)
        PROVE  \E e \in t : e.fdb = g.fdb
    <3>1. \A e \in t : [e EXCEPT !.hash = j].fdb = e.fdb
      BY <1>a DEF MacEntry
    <3>2. ReportOf(g.fdb) # ReportOf(f)
      BY <1>1, <2>2
    <3>3. g \in t \/ \E e \in t : g = [e EXCEPT !.hash = j]
      BY <1>a, <3>2, Zenon DEF EventFor
    <3> QED BY <3>1, <3>3, Zenon
  <2> QED BY <2>1, <2>2 DEF SameBut
<1>3. Key(f) \in Vlan \X Mac
  BY <1>a, KeyType
<1>4. Bindings(t2) = [Bindings(t) EXCEPT ![Key(f)] = Bindings(t2)[Key(f)]]
  BY <1>a, <1>2, <1>3, OneBindingChanges
<1>5. \/ OwedBy(t2, m2.handed) = {}
      \/ OwedBy(t2, m2.handed) = OwedBy(t2, Fresh(m.handed, f))
  <2>1. \/ OwedBy(t2, mlearn_action_add(m, f, i, j, oper).handed) = {}
        \/ OwedBy(t2, mlearn_action_add(m, f, i, j, oper).handed) =
               OwedBy(t2, Fresh(m.handed, f))
    BY EventPays
  <2> QED BY <2>1
<1>6. CASE oper = "MLEARN_ADD"
  <2>1. PICK g \in t2 : ReportOf(g.fdb) = ReportOf(f)
    BY <1>a, <1>6 DEF EventFor
  <2>2. Key(g.fdb) = Key(f) /\ g.fdb.intfId = f.intfId
    BY <1>1, <2>1
  <2>3. Bindings(t2)[Key(f)] = f.intfId
    BY <1>a, <2>2, BindingOfEntry
  <2>4. OwedBy(t2, Fresh(m.handed, f)) = OwedBy(t, m.handed) \union {Key(f)}
    BY <1>2, <2>2, <1>a, OneDebtChanges
  <2> QED BY <1>4, <1>5, <1>6, <2>3, <2>4 DEF Bound
<1>7. CASE oper = "MLEARN_DEL"
  <2>1. \A g \in t2 : Key(g.fdb) # Key(f)
    <3>1. \A e \in t : Key([e EXCEPT !.hash = j].fdb) = Key(e.fdb)
      BY <1>a DEF MacEntry
    <3> QED BY <1>a, <1>7, <3>1, Zenon DEF EventFor
  <2>2. Bindings(t2)[Key(f)] = NoIntf
    BY <1>3, <2>1, BindingOfNone
  <2>3. OwedBy(t2, Fresh(m.handed, f)) = OwedBy(t, m.handed) \ {Key(f)}
    BY <1>2, <2>1, <1>a, OneDebtChanges
  <2> QED BY <1>4, <1>5, <1>7, <2>2, <2>3 DEF Unbound
<1> QED BY <1>a, <1>6, <1>7
-----------------------------------------------------------------------------
(* The inductive invariant *)

\* The lock's holder works on one event or on entries that are in the table.
LockInv ==
    /\ todo \subseteq table
    /\ holder = "none" => pending = NoData /\ todo = {}
    /\ pending # NoData => todo = {}

\* A learning event passed may_learn: its VLAN exists, or has been removed since
\* and its flush has not run.
PendingVlan ==
    pending # NoData => pending.fdb.vlanId \in vlans \union failed \union {removing}

IInv ==
    /\ TypeOK
    /\ Mirror(hw, table)
    /\ plugin_interface => BufferInv(mlearn, table)
    /\ LockInv
    /\ PendingVlan
    /\ NoEntryOutlivesVlan

\* ops_xp_mac_learning_create establishes the invariant.
LEMMA InitIInv == Init => IInv
<1> SUFFICES ASSUME Init PROVE IInv
  OBVIOUS
<1>1. mlearn \in MlearnState /\ Current(mlearn) = <<>>
  BY EmptySeq DEF Init, MlearnState, Current
<1>2. TypeOK
  BY <1>1 DEF Init, TypeOK
<1>3. BufferInv(mlearn, table)
  BY <1>1, BufferSizeAssumption DEF Init, BufferInv, Truthful, OneAdd, Told
<1>4. Mirror(hw, table)
  BY DEF Init, Mirror
<1> QED BY <1>2, <1>3, <1>4 DEF Init, IInv, LockInv, PendingVlan, NoEntryOutlivesVlan

\* What a step that changes hardware, table and buffers has to keep.
DataInv ==
    /\ hw \in [Index -> FdbEntry \union {NoEntry}]
    /\ table \in SUBSET MacEntry
    /\ mlearn \in MlearnState
    /\ Mirror(hw, table)
    /\ plugin_interface => BufferInv(mlearn, table)

\* ops_xp_mac_learning_expire keeps the tables and the buffers right.
LEMMA ExpireKeeps ==
    ASSUME IInv, NEW e \in table, ExpireOk(e), UNCHANGED plugin_interface
    PROVE  /\ DataInv' /\ table' = table \ {e}
           /\ Unbound(table, table', mlearn, mlearn', Key(e.fdb))
<1>1. /\ TypeOK /\ Mirror(hw, table) /\ mlearn \in MlearnState
      /\ plugin_interface => BufferInv(mlearn, table)
      /\ table \in SUBSET MacEntry
  BY DEF IInv, TypeOK
<1>2. /\ hw' = [hw EXCEPT ![e.hash] = NoEntry]
      /\ table' = table \ {e}
      /\ mlearn' = mlearn_action_add(mlearn, e.fdb, e.hash, e.hash, "MLEARN_DEL")
  BY DEF ExpireOk
<1>3. /\ e.fdb \in FdbEntry /\ e.hash \in Index
      /\ table' \in SUBSET MacEntry
      /\ hw' \in [Index -> FdbEntry \union {NoEntry}]
      /\ Mirror(hw', table')
      /\ EventFor(table, table', e.fdb, e.hash, e.hash, "MLEARN_DEL")
  BY <1>1, <1>2, ExpireStep, Zenon
<1>4. mlearn' \in MlearnState
  BY <1>1, <1>2, <1>3, ActionAddType
<1>5. plugin_interface => BufferInv(mlearn', table')
  BY <1>1, <1>2, <1>3, ActionAddSound, Zenon
<1>6. /\ OnePerKey(table) /\ OnePerKey(table')
      /\ \A g \in table : g.hash = e.hash => Key(g.fdb) = Key(e.fdb)
  BY <1>1, <1>3 DEF Mirror, OnePerKey
<1>7. RightEvent(mlearn, table, table', e.fdb, e.hash, e.hash, "MLEARN_DEL")
  BY <1>1, <1>3 DEF RightEvent
<1>8. Unbound(table, table', mlearn, mlearn', Key(e.fdb))
  BY <1>2, <1>6, <1>7, ServiceEvent
<1> QED BY <1>2, <1>3, <1>4, <1>5, <1>8 DEF DataInv

\* So does the SA_NEW branch of ops_xp_mac_learning_learn; the one entry it adds
\* is in the VLAN of the event.
LEMMA LearnNewKeeps ==
    ASSUME IInv, LearnNew
    PROVE  /\ DataInv'
           /\ \A g \in table' : \/ g.fdb.vlanId = pending.fdb.vlanId
                                \/ \E e \in table : g.fdb.vlanId = e.fdb.vlanId
           /\ \A e \in table : Key(e.fdb) # Key(pending.fdb)
           /\ Bound(table, table', mlearn, mlearn', Key(pending.fdb),
                    pending.fdb.intfId)
<1>1. /\ TypeOK /\ Mirror(hw, table) /\ mlearn \in MlearnState
      /\ plugin_interface => BufferInv(mlearn, table)
      /\ table \in SUBSET MacEntry
      /\ pending.fdb \in FdbEntry
  BY DEF IInv, TypeOK, LearnNew, LearningData
<1>f. PICK f : f = pending.fdb
  OBVIOUS
<1>2. PICK p \in HwPlacements : insert(f, p[1], p[2])
  BY <1>f DEF LearnNew
<1>3. /\ p[1] \in Index /\ p[2] \in Index
      /\ hw[p[2]] = NoEntry
      /\ hw[p[1]] = NoEntry => p[1] = p[2]
  BY DEF HwPlacements
<1>4. HwSlots(Key(f)) = {} /\ f \in FdbEntry
  BY <1>f, <1>1 DEF LearnNew
<1>5. PICK i, j : i = p[1] /\ j = p[2]
  OBVIOUS
<1>6. i # j => EntriesAt(i) # {}
  BY <1>1, <1>3, <1>4, <1>5, InsertStep, Zenon
<1>7. /\ hw' = HwInserted(f, i, j)
      /\ table' = Inserted(f, i, j)
      /\ mlearn' = mlearn_action_add(mlearn, f, i, j, "MLEARN_ADD")
  BY <1>2, <1>5, <1>6 DEF insert, HwInserted, Inserted
<1>8. /\ table' \in SUBSET MacEntry
      /\ hw' \in [Index -> FdbEntry \union {NoEntry}]
      /\ Mirror(hw', table')
      /\ EventFor(table, table', f, i, j, "MLEARN_ADD")
      /\ \A g \in table' : \/ g.fdb.vlanId = f.vlanId
                           \/ \E e \in table : g.fdb.vlanId = e.fdb.vlanId
  <2>1. /\ i \in Index /\ j \in Index
        /\ hw[j] = NoEntry /\ (hw[i] = NoEntry => i = j)
    BY <1>3, <1>5
  <2>2. TypeOK /\ Mirror(hw, table)
    BY <1>1
  <2>3. hw' = HwInserted(f, i, j) /\ table' = Inserted(f, i, j)
    BY <1>7
  <2> QED BY <1>4, <2>1, <2>2, <2>3, InsertStep
<1>9. mlearn' \in MlearnState
  BY <1>1, <1>3, <1>5, <1>7, <1>4, ActionAddType
<1>10. plugin_interface => BufferInv(mlearn', table')
  BY <1>1, <1>3, <1>4, <1>5, <1>7, <1>8, ActionAddSound, Zenon
<1>11. plugin_interface' = plugin_interface
  BY DEF LearnNew
<1>12. /\ \A e \in table : Key(e.fdb) # Key(f)
       /\ OnePerKey(table) /\ OnePerKey(table')
       /\ i = j => \A e \in table : e.hash # i
  <2>1. \A e \in table : e.hash \in Index /\ hw[e.hash] # NoEntry /\ Key(hw[e.hash]) = Key(e.fdb)
    BY <1>1 DEF Mirror, MacEntry
  <2>2. \A e \in table : Key(e.fdb) # Key(f)
    BY <2>1, <1>4 DEF HwSlots
  <2>3. OnePerKey(table) /\ OnePerKey(table')
    BY <1>1, <1>8 DEF Mirror, OnePerKey
  <2>4. i = j => \A e \in table : e.hash # i
    BY <2>1, <1>3, <1>5
  <2> QED BY <2>2, <2>3, <2>4
<1>13. RightEvent(mlearn, table, table', f, i, j, "MLEARN_ADD")
  BY <1>1, <1>3, <1>4, <1>5, <1>8 DEF RightEvent
<1>14. Bound(table, table', mlearn, mlearn', Key(f), f.intfId)
  BY <1>7, <1>12, <1>13, ServiceEvent
<1> QED BY <1>f, <1>8, <1>9, <1>10, <1>11, <1>12, <1>14, Zenon DEF DataInv

\* So does the SA_MOVE branch, which adds no key.
LEMMA LearnMoveKeeps ==
    ASSUME IInv, LearnMove
    PROVE  /\ DataInv'
           /\ \A g \in table' : \E e \in table : g.fdb.vlanId = e.fdb.vlanId
           /\ \E e \in table :
                 \/ Bound(table, table', mlearn, mlearn', Key(e.fdb),
                          pending.fdb.intfId)
                 \/ Unbound(table, table', mlearn, mlearn', Key(e.fdb))
<1>1. /\ TypeOK /\ Mirror(hw, table) /\ mlearn \in MlearnState
      /\ hw \in [Index -> FdbEntry \union {NoEntry}]
      /\ plugin_interface => BufferInv(mlearn, table)
      /\ table \in SUBSET MacEntry
      /\ pending.fdb.intfId \in Intf
      /\ plugin_interface' = plugin_interface
  BY DEF IInv, TypeOK, LearnMove, LearningData, FdbEntry
<1>2. PICK i \in HwSlots(Key(pending.fdb)) :
          IF EntriesAt(i) = {}
          THEN /\ hw' \in HwClearSome(hw, {i})
               /\ UNCHANGED <<table, mlearn>>
          ELSE UpdateEntry(lookup(i), i, pending.fdb.intfId)
  BY Zenon DEF LearnMove
<1>3. i \in Index /\ hw[i] # NoEntry
  BY DEF HwSlots
<1>4. PICK e \in table : e.hash = i
  BY <1>1, <1>3 DEF Mirror
<1>5. e = lookup(i) /\ EntriesAt(i) # {}
  BY <1>1, <1>4 DEF lookup, EntriesAt, Mirror
<1>6. PICK upd : upd = Updated(e, pending.fdb.intfId)
  OBVIOUS
<1>7. PICK t2 : t2 = Replaced(e, upd)
  OBVIOUS
<1>8. PICK events : events = mlearn_action_add(mlearn, upd.fdb, i, i, "MLEARN_ADD")
  OBVIOUS
<1>9. /\ upd \in MacEntry /\ upd.hash = e.hash
      /\ Key(upd.fdb) = Key(e.fdb) /\ upd.fdb.vlanId = e.fdb.vlanId
      /\ t2 \in SUBSET MacEntry
      /\ HwWritten(e.hash, upd.fdb) \in [Index -> FdbEntry \union {NoEntry}]
      /\ Mirror(hw, t2)
      /\ Mirror(HwWritten(e.hash, upd.fdb), t2)
      /\ EventFor(table, t2, upd.fdb, e.hash, e.hash, "MLEARN_ADD")
      /\ table \ {e} = t2 \ {upd}
  <2>1. TypeOK /\ Mirror(hw, table) /\ pending.fdb.intfId \in Intf
    BY <1>1
  <2> QED BY <1>6, <1>7, <2>1, UpdateStep, SMTT(60)
<1>10. upd.fdb \in FdbEntry
  BY <1>9 DEF MacEntry
<1>11. events \in MlearnState
  BY <1>1, <1>3, <1>8, <1>10, ActionAddType
<1>12. plugin_interface => BufferInv(events, t2)
  BY <1>1, <1>3, <1>4, <1>8, <1>9, <1>10, ActionAddSound, Zenon
<1>13. \A g \in t2 : \E d \in table : g.fdb.vlanId = d.fdb.vlanId
  BY <1>7, <1>9 DEF Replaced
<1>14. \/ /\ hw' = HwWritten(i, upd.fdb) /\ table' = t2 /\ mlearn' = events
       \/ /\ hw' = [hw EXCEPT ![i] = NoEntry] /\ table' = t2 \ {upd}
          /\ mlearn' = mlearn_action_add(events, upd.fdb, i, i, "MLEARN_DEL")
       \/ /\ hw' = hw /\ table' = t2 /\ mlearn' = events
  BY <1>2, <1>5, <1>6, <1>7, <1>8, <1>9 DEF UpdateEntry, Updated, Replaced, HwWritten
<1>s. Bound(table, t2, mlearn, events, Key(e.fdb), pending.fdb.intfId)
  <2>1. RightEvent(mlearn, table, t2, upd.fdb, i, i, "MLEARN_ADD")
    BY <1>1, <1>3, <1>4, <1>9, <1>10 DEF RightEvent
  <2>2. /\ OnePerKey(table) /\ OnePerKey(t2)
        /\ \A g \in table : g.hash = i => Key(g.fdb) = Key(upd.fdb)
    BY <1>1, <1>4, <1>9, Zenon DEF Mirror, OnePerKey
  <2>3. Bound(table, t2, mlearn, events, Key(upd.fdb), upd.fdb.intfId)
    BY <1>8, <2>1, <2>2, ServiceEvent
  <2>4. upd.fdb.intfId = pending.fdb.intfId
    BY <1>1, <1>4, <1>6 DEF Updated, MacEntry, FdbEntry
  <2> QED BY <1>9, <2>3, <2>4
<1>15. CASE table' = t2 /\ mlearn' = events /\ hw' \in {hw, HwWritten(i, upd.fdb)}
  BY <1>1, <1>4, <1>9, <1>11, <1>12, <1>13, <1>15, <1>s, Zenon DEF DataInv
<1>16. CASE /\ hw' = [hw EXCEPT ![i] = NoEntry] /\ table' = t2 \ {upd}
            /\ mlearn' = mlearn_action_add(events, upd.fdb, i, i, "MLEARN_DEL")
  <2>1. table' = table \ {e} /\ table' \in SUBSET MacEntry
    BY <1>1, <1>9, <1>16
  <2>2. Mirror(hw', table') /\ hw' \in [Index -> FdbEntry \union {NoEntry}]
    BY <1>1, <1>4, <1>16, <2>1, ExpireStep, Zenon
  <2>3. \A g \in table' : g \in t2 /\ g.hash # i /\ Key(g.fdb) # Key(upd.fdb)
    <3>1. \A g \in table : g # e => g.hash # e.hash /\ Key(g.fdb) # Key(e.fdb)
      BY <1>1, <1>4 DEF Mirror
    <3>2. Key(upd.fdb) = Key(e.fdb)
      BY <1>9
    <3>3. \A g \in table' : g \in t2 /\ g \in table /\ g # e
      BY <1>16, <2>1
    <3> QED BY <3>1, <3>2, <3>3, <1>4
  <2>4. EventFor(t2, table', upd.fdb, i, i, "MLEARN_DEL")
    BY <1>4, <1>9, <1>16, <2>3 DEF EventFor
  <2>5. mlearn' \in MlearnState
    BY <1>3, <1>10, <1>11, <1>16, ActionAddType
  <2>6. plugin_interface => BufferInv(mlearn', table')
    BY <1>3, <1>9, <1>10, <1>11, <1>12, <1>16, <2>1, <2>4, ActionAddSound, Zenon
  <2>7. Unbound(t2, table', events, mlearn', Key(upd.fdb))
    <3>1. RightEvent(events, t2, table', upd.fdb, i, i, "MLEARN_DEL")
      BY <1>3, <1>9, <1>10, <1>11, <1>12, <2>1, <2>4 DEF RightEvent
    <3>2. /\ OnePerKey(t2) /\ OnePerKey(table')
          /\ \A g \in t2 : g.hash = i => Key(g.fdb) = Key(upd.fdb)
      <4>1. upd \in t2 /\ upd.hash = i
        BY <1>4, <1>7, <1>9 DEF Replaced
      <4>2. \A g \in t2 : g.hash = i => g = upd
        BY <1>9, <4>1 DEF Mirror
      <4>3. OnePerKey(t2) /\ OnePerKey(table')
        BY <1>9, <2>2, Zenon DEF Mirror, OnePerKey
      <4> QED BY <4>2, <4>3
    <3> QED BY <1>16, <3>1, <3>2, ServiceEvent
  <2>8. Unbound(table, table', mlearn, mlearn', Key(e.fdb))
    BY <1>9, <1>s, <2>7, BoundThenUnbound, Zenon
  <2> QED BY <1>1, <1>13, <2>1, <2>2, <2>3, <2>5, <2>6, <2>8, Zenon DEF DataInv
<1> QED BY <1>14, <1>15, <1>16, Zenon

\* Each handler keeps the invariant.
LEMMA NextIInv == IInv /\ [Next]_vars => IInv'
<1> SUFFICES ASSUME IInv, [Next]_vars
             PROVE  IInv'
  OBVIOUS
<1>1. /\ TypeOK /\ DataInv /\ LockInv /\ PendingVlan /\ NoEntryOutlivesVlan
  BY DEF IInv, DataInv, TypeOK
\* It is enough to show the parts.
<1>2. ASSUME DataInv', LockInv', PendingVlan', NoEntryOutlivesVlan',
             plugin_interface' \in BOOLEAN, vlans' \in SUBSET Vlan,
             holder' \in {"none", "rx", "main", "port"},
             pending' \in LearningData \union {NoData},
             removing' \in Vlan \union {NoVlan},
             reading' \in {0, 1, NoTable}, failed' \in SUBSET Vlan
      PROVE  IInv'
  BY <1>2 DEF IInv, DataInv, TypeOK, LockInv
\* Steps that leave hardware, table and buffers alone.
<1>3. UNCHANGED <<hw, table, mlearn, plugin_interface>> => DataInv'
  BY <1>1 DEF DataInv
<1>4. ASSUME NEW d \in LearningData, on_learning(d)
      PROVE  IInv'
  BY <1>1, <1>2, <1>3, <1>4 DEF on_learning, TypeOK, LockInv, LockFree,
     PendingVlan, NoEntryOutlivesVlan, may_learn, LearningData
<1>5. ASSUME NEW f \in FdbEntry, fdb_add_entry(f)
      PROVE  IInv'
  BY <1>1, <1>2, <1>3, <1>5 DEF fdb_add_entry, TypeOK, LockInv, LockFree,
     PendingVlan, NoEntryOutlivesVlan, may_learn, LearningData
<1>6. CASE LearnNew
  <2>1. /\ DataInv'
        /\ \A g \in table' : \/ g.fdb.vlanId = pending.fdb.vlanId
                             \/ \E e \in table : g.fdb.vlanId = e.fdb.vlanId
    BY <1>6, LearnNewKeeps, Zenon
  <2>2. todo = {} /\ pending' = NoData /\ todo' = {} /\ holder' = "none"
    BY <1>1, <1>6 DEF LearnNew, LockInv, Unlock
  <2> QED BY <1>1, <1>2, <1>6, <2>1, <2>2 DEF LearnNew, TypeOK, LockInv,
          PendingVlan, NoEntryOutlivesVlan
<1>7. CASE LearnMove
  <2>1. /\ DataInv'
        /\ \A g \in table' : \E e \in table : g.fdb.vlanId = e.fdb.vlanId
    BY <1>7, LearnMoveKeeps
  <2>2. todo = {} /\ pending' = NoData /\ todo' = {} /\ holder' = "none"
    BY <1>1, <1>7 DEF LearnMove, LockInv, Unlock
  <2> QED BY <1>1, <1>2, <1>7, <2>1, <2>2, Zenon DEF LearnMove, TypeOK, LockInv,
          PendingVlan, NoEntryOutlivesVlan
<1>8. CASE LearnRejected
  BY <1>1, <1>2, <1>3, <1>8 DEF LearnRejected, TypeOK, LockInv, Unlock,
     PendingVlan, NoEntryOutlivesVlan
<1>9. ASSUME NEW e \in table, ExpireOk(e), LockFree,
             UNCHANGED <<plugin_interface, vlans, holder, pending, todo,
                         removing, reading, failed>>
      PROVE  IInv'
  <2>1. DataInv' /\ table' = table \ {e}
    BY <1>9, ExpireKeeps
  <2> QED BY <1>1, <1>2, <1>9, <2>1 DEF TypeOK, LockInv, LockFree,
          PendingVlan, NoEntryOutlivesVlan
<1>10. ASSUME NEW i \in Index, on_aging(i)
       PROVE  IInv'
  BY <1>9, <1>10 DEF on_aging, EntriesAt
<1>11. ASSUME NEW k \in Vlan \X Mac, fdb_remove_entry(k)
       PROVE  IInv'
  BY <1>9, <1>11 DEF fdb_remove_entry, EntriesOf
<1>12. ASSUME NEW thread \in {"main", "port"}, NEW victims \in SUBSET table,
              Flush(thread, victims), UNCHANGED removing
       PROVE  IInv'
  BY <1>1, <1>2, <1>3, <1>12 DEF Flush, TypeOK, LockInv, LockFree,
     PendingVlan, NoEntryOutlivesVlan
<1>13. ASSUME NEW dynamic_only \in BOOLEAN, flush(dynamic_only)
       PROVE  IInv'
  BY <1>12, <1>13 DEF flush
<1>14. ASSUME NEW i \in Intf, flush_intfId(i)
       PROVE  IInv'
  BY <1>12, <1>14 DEF flush_intfId
<1>15. ASSUME NEW i \in Intf, on_port_down(i)
       PROVE  IInv'
  BY <1>12, <1>15 DEF on_port_down
<1>16. ASSUME NEW v \in Vlan, NEW i \in Intf, flush_vlan_intf(v, i)
       PROVE  IInv'
  BY <1>12, <1>16 DEF flush_vlan_intf
<1>17. CASE FlushStep
  <2>1. PICK e \in todo :
          /\ \/ ExpireOk(e) /\ UNCHANGED failed
             \/ /\ ExpireFailed
                /\ failed' = IF e.fdb.vlanId \in vlans THEN failed
                             ELSE failed \union {e.fdb.vlanId}
          /\ todo' = todo \ {e}
    BY <1>17 DEF FlushStep
  <2>2. /\ holder' = IF todo' = {} THEN "none" ELSE holder
        /\ UNCHANGED <<plugin_interface, vlans, pending, removing, reading>>
    BY <1>17 DEF FlushStep
  <2>3. e \in table /\ pending = NoData /\ e.fdb.vlanId \in Vlan
    BY <1>1 DEF LockInv, TypeOK, MacEntry, FdbEntry
  <2>4. CASE ExpireOk(e) /\ UNCHANGED failed
    <3>1. DataInv' /\ table' = table \ {e}
      BY <2>2, <2>3, <2>4, ExpireKeeps
    <3> QED BY <1>1, <1>2, <2>1, <2>2, <2>3, <2>4, <3>1, Zenon DEF TypeOK, LockInv,
            PendingVlan, NoEntryOutlivesVlan
  <2>5. CASE /\ ExpireFailed
             /\ failed' = IF e.fdb.vlanId \in vlans THEN failed
                          ELSE failed \union {e.fdb.vlanId}
    BY <1>1, <1>2, <1>3, <2>1, <2>2, <2>3, <2>5 DEF ExpireFailed, TypeOK,
       LockInv, PendingVlan, NoEntryOutlivesVlan
  <2> QED BY <2>1, <2>4, <2>5
<1>18. ASSUME NEW v \in Vlan, set_vlan_add(v)
       PROVE  IInv'
  BY <1>1, <1>2, <1>3, <1>18 DEF set_vlan_add, TypeOK, LockInv,
     PendingVlan, NoEntryOutlivesVlan
<1>19. ASSUME NEW v \in Vlan, set_vlan_del(v)
       PROVE  IInv'
  <2>1. /\ removing = NoVlan
        /\ \A e \in table : e.fdb.vlanId # removing
        /\ pending # NoData => pending.fdb.vlanId # removing
    BY <1>1, <1>19, SentinelAssumption DEF set_vlan_del, MainIdle, TypeOK,
       MacEntry, FdbEntry, LearningData
  <2> QED BY <1>1, <1>2, <1>3, <1>19, <2>1 DEF set_vlan_del, TypeOK, LockInv,
          PendingVlan, NoEntryOutlivesVlan
<1>20. CASE on_vlan_removed
  BY <1>1, <1>2, <1>3, <1>20 DEF on_vlan_removed, TypeOK, LockInv, LockFree,
     PendingVlan, NoEntryOutlivesVlan
<1>21. CASE on_mlearn_timer_expired
  <2>1. /\ mlearn' = process_mlearn(mlearn)
        /\ UNCHANGED <<hw, table, plugin_interface, vlans, holder, pending, todo,
                       removing, reading, failed>>
    BY <1>21 DEF on_mlearn_timer_expired
  <2>2. mlearn \in MlearnState /\ table \in SUBSET MacEntry
    BY <1>1 DEF DataInv
  <2>3. mlearn' \in MlearnState
    BY <2>1, <2>2, ProcessMlearn
  <2>4. plugin_interface => BufferInv(mlearn', table)
    <3>1. CASE plugin_interface /\ Current(mlearn) # <<>>
      BY <1>1, <2>1, <2>2, <3>1, HandOverSound, Zenon DEF DataInv, BufferInv
    <3>2. CASE plugin_interface /\ Current(mlearn) = <<>>
      BY <1>1, <2>1, <3>2 DEF DataInv, process_mlearn
    <3> QED BY <3>1, <3>2
  <2>5. DataInv'
    BY <1>1, <2>1, <2>3, <2>4 DEF DataInv
  <2> QED BY <1>1, <1>2, <2>1, <2>5 DEF TypeOK, LockInv, PendingVlan,
          NoEntryOutlivesVlan
<1>22. CASE hmap_get
  <2>1. reading' \in {0, 1, NoTable}
    <3>1. mlearn.curr \in {0, 1} /\ reading' = 1 - mlearn.curr
      BY <1>1, <1>22 DEF hmap_get, TypeOK, MlearnState
    <3> QED BY <3>1
  <2>2. UNCHANGED <<hw, table, mlearn, plugin_interface, vlans, holder, pending, todo,
                    removing, failed>>
    BY <1>22 DEF hmap_get
  <2> QED BY <1>1, <1>2, <1>3, <2>1, <2>2 DEF TypeOK, LockInv, PendingVlan,
          NoEntryOutlivesVlan
<1>23. CASE ReaderDone
  BY <1>1, <1>2, <1>3, <1>23 DEF ReaderDone, TypeOK, LockInv,
     PendingVlan, NoEntryOutlivesVlan
<1>24. CASE UNCHANGED vars
  BY <1>1, <1>2, <1>3, <1>24, Zenon DEF vars, TypeOK, LockInv, PendingVlan,
     NoEntryOutlivesVlan
<1> QED BY <1>4, <1>5, <1>6, <1>7, <1>8, <1>10, <1>11, <1>13, <1>14, <1>15,
        <1>16, <1>17, <1>18, <1>19, <1>20, <1>21, <1>22, <1>23, <1>24 DEF Next
-----------------------------------------------------------------------------
(* The refinement *)

\* The refinement mapping in terms of the operators above.
LEMMA ServiceState ==
    /\ [key \in Vlan \X Mac |-> BoundTo(key)] = Bindings(table)
    /\ Owed = OwedBy(table, mlearn.handed)
    /\ [key \in Vlan \X Mac |-> BoundTo(key)]' = Bindings(table')
    /\ Owed' = OwedBy(table', mlearn'.handed)
BY Zenon DEF BoundTo, EntriesOf, Owed, Bindings, OwedBy, OfKey

\* A step that binds key k to i is one of the service's.
LEMMA BoundIsStep ==
    ASSUME NEW k \in Vlan \X Mac, NEW i \in Intf,
           Bound(table, table', mlearn, mlearn', k, i)
    PROVE  Service!Next
<1>1. Service!Learn(k, i) \/ Service!Move(k, i)
  BY ServiceState, Zenon DEF Bound, Service!Learn, Service!Move
<1> QED BY <1>1 DEF Service!Next

\* A step that unbinds the key of an entry is one of the service's.
LEMMA UnboundIsStep ==
    ASSUME TypeOK, Mirror(hw, table), NEW e \in table,
           Unbound(table, table', mlearn, mlearn', Key(e.fdb))
    PROVE  Service!Next
<1>1. table \in SUBSET MacEntry /\ e.fdb \in FdbEntry /\ OnePerKey(table)
  BY DEF TypeOK, MacEntry, Mirror, OnePerKey
<1>2. Key(e.fdb) \in Vlan \X Mac /\ e.fdb.intfId \in Intf
  BY <1>1, KeyType
<1>3. Bindings(table)[Key(e.fdb)] # NoIntf
  BY <1>1, <1>2, BindingOfEntry, SentinelAssumption, Zenon
<1>4. Service!Forget(Key(e.fdb))
  BY <1>3, ServiceState, Zenon DEF Unbound, Service!Forget
<1> QED BY <1>2, <1>4 DEF Service!Next

\* ops_xp_mac_learning_create gives the empty service.
LEMMA ServiceInit == Init => Service!Init
<1> SUFFICES ASSUME Init PROVE Service!Init
  OBVIOUS
<1>1. table = {}
  BY DEF Init
<1>2. /\ [key \in Vlan \X Mac |-> BoundTo(key)] = [key \in Vlan \X Mac |-> NoIntf]
      /\ Owed = {}
  BY <1>1 DEF BoundTo, EntriesOf, Owed
<1> QED BY <1>2 DEF Service!Init

\* Each handler is a step of the service or leaves it alone.
LEMMA ServiceNext == IInv /\ [Next]_vars => [Service!Next]_(Service!vars)
<1> SUFFICES ASSUME IInv, [Next]_vars
             PROVE  [Service!Next]_(Service!vars)
  OBVIOUS
<1>1. /\ TypeOK /\ Mirror(hw, table) /\ LockInv
      /\ mlearn \in MlearnState /\ table \in SUBSET MacEntry
      /\ pending # NoData => pending.fdb \in FdbEntry
      /\ plugin_interface => BufferInv(mlearn, table)
  BY DEF IInv, TypeOK, LearningData
<1>2. UNCHANGED <<table, mlearn>> => UNCHANGED Service!vars
  BY ServiceState, Zenon DEF Service!vars
<1>3. CASE LearnNew
  <2>1. /\ Bound(table, table', mlearn, mlearn', Key(pending.fdb), pending.fdb.intfId)
        /\ pending.fdb \in FdbEntry
    BY <1>1, <1>3, LearnNewKeeps, Zenon DEF LearnNew
  <2> QED BY <2>1, KeyType, BoundIsStep
<1>4. CASE LearnMove
  <2>1. PICK e \in table :
            \/ Bound(table, table', mlearn, mlearn', Key(e.fdb), pending.fdb.intfId)
            \/ Unbound(table, table', mlearn, mlearn', Key(e.fdb))
    BY <1>4, LearnMoveKeeps, Zenon
  <2>2. e.fdb \in FdbEntry /\ pending.fdb \in FdbEntry
    BY <1>1, <1>4 DEF LearnMove, MacEntry
  <2> QED BY <1>1, <2>1, <2>2, KeyType, BoundIsStep, UnboundIsStep, Zenon
<1>5. ASSUME NEW e \in table, ExpireOk(e), UNCHANGED plugin_interface
      PROVE  Service!Next
  BY <1>1, <1>5, ExpireKeeps, UnboundIsStep
<1>6. ASSUME NEW i \in Index, on_aging(i)
      PROVE  Service!Next
  BY <1>5, <1>6 DEF on_aging, EntriesAt
<1>7. ASSUME NEW k \in Vlan \X Mac, fdb_remove_entry(k)
      PROVE  Service!Next
  BY <1>5, <1>7 DEF fdb_remove_entry, EntriesOf
<1>8. CASE FlushStep
  <2>1. PICK e \in todo : ExpireOk(e) \/ ExpireFailed
    BY <1>8 DEF FlushStep
  <2>2. e \in table /\ UNCHANGED plugin_interface
    BY <1>1, <1>8 DEF LockInv, FlushStep
  <2> QED BY <1>2, <1>5, <2>1, <2>2 DEF ExpireFailed
<1>9. CASE on_mlearn_timer_expired
  <2>1. mlearn' = process_mlearn(mlearn) /\ table' = table
    BY <1>9 DEF on_mlearn_timer_expired
  <2>2. CASE plugin_interface /\ Current(mlearn) # <<>>
    <3>1. \A e \in table : ReportOf(e.fdb) \in mlearn'.handed
      BY <1>1, <2>1, <2>2, HandOverSound, Zenon DEF BufferInv
    <3>2. OwedBy(table', mlearn'.handed) = {}
      BY <2>1, <3>1 DEF OwedBy, OfKey
    <3>3. Service!Report
      BY <2>1, <3>2, ServiceState, Zenon DEF Service!Report
    <3> QED BY <3>3 DEF Service!Next
  <2>3. CASE ~(plugin_interface /\ Current(mlearn) # <<>>)
    BY <1>2, <2>1, <2>3 DEF process_mlearn
  <2> QED BY <2>2, <2>3
<1>10. CASE \/ \E d \in LearningData : on_learning(d)
            \/ \E f \in FdbEntry : fdb_add_entry(f)
            \/ LearnRejected
            \/ \E dynamic_only \in BOOLEAN : flush(dynamic_only)
            \/ \E i \in Intf : flush_intfId(i)
            \/ \E i \in Intf : on_port_down(i)
            \/ \E v \in Vlan, i \in Intf : flush_vlan_intf(v, i)
            \/ \E v \in Vlan : set_vlan_add(v)
            \/ \E v \in Vlan : set_vlan_del(v)
            \/ on_vlan_removed
            \/ hmap_get
            \/ ReaderDone
            \/ UNCHANGED vars
  <2>1. UNCHANGED <<table, mlearn>>
    BY <1>10, Zenon DEF on_learning, fdb_add_entry, LearnRejected, Flush, flush,
       flush_intfId, on_port_down, flush_vlan_intf, set_vlan_add, set_vlan_del,
       on_vlan_removed, hmap_get, ReaderDone, vars
  <2> QED BY <1>2, <2>1
<1> QED BY <1>3, <1>4, <1>6, <1>7, <1>8, <1>9, <1>10 DEF Next
-----------------------------------------------------------------------------
(* Theorems *)

\* The invariant holds in every state of every behaviour.
LEMMA Invariance == Spec => []IInv
<1>1. Init => IInv
  BY InitIInv
<1>2. IInv /\ [Next]_vars => IInv'
  BY NextIInv
<1> QED BY <1>1, <1>2, PTL DEF Spec

\* The state variables keep their types in every behaviour of the handlers.
THEOREM TypeCorrect == Spec => []TypeOK
<1>1. IInv => TypeOK
  BY DEF IInv
<1> QED BY <1>1, Invariance, PTL

\* The software table mirrors the hardware FDB whatever call of the SDK fails
\* and however the hardware relocates entries on insertion.
THEOREM InSync == Spec => []FdbInSync
<1>1. IInv => FdbInSync
  BY MirrorIsInSync DEF IInv
<1> QED BY <1>1, Invariance, PTL

\* The buffer in use never overflows, so mlearn_action_add drops no event.
THEOREM Room == Spec => []BufferHasRoom
<1>1. IInv => BufferHasRoom
  BY DEF IInv, BufferInv, BufferHasRoom
<1> QED BY <1>1, Invariance, PTL

\* No MLEARN_ADD of the buffer in use names an entry that is gone.
THEOREM NoStaleAdd == Spec => []PendingAddIsLive
<1>1. IInv => PendingAddIsLive
  BY Zenon DEF IInv, BufferInv, Truthful, PendingAddIsLive, EntriesAt
<1> QED BY <1>1, Invariance, PTL

\* Coalescing events by hardware index never loses the MLEARN_ADD of an entry
\* that is still there.
THEOREM AllReported == Spec => []EveryEntryReported
<1>1. IInv => EveryEntryReported
  BY DEF IInv, BufferInv, Told, EveryEntryReported
<1> QED BY <1>1, Invariance, PTL

\* An entry outlives its VLAN only while the flush after the removal is to
\* come, or when the hardware refused: set_vlan against the learning thread.
THEOREM VlanFlushed == Spec => []NoEntryOutlivesVlan
<1>1. IInv => NoEntryOutlivesVlan
  BY DEF IInv
<1> QED BY <1>1, Invariance, PTL

\* The component implements FdbService: every handler, whatever the hardware
\* refuses and wherever a full buffer is handed over in it, changes at most one
\* binding and leaves no live entry out of what it hands to the bridge.
THEOREM ImplementsService == Spec => ServiceSpec
<1>1. Init => Service!Init
  BY ServiceInit
<1>2. IInv /\ [Next]_vars => [Service!Next]_(Service!vars)
  BY ServiceNext
<1> QED BY <1>1, <1>2, Invariance, PTL DEF Spec, ServiceSpec, Service!Spec
=============================================================================
