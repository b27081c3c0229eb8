-------------------------- MODULE ClassifierProofs --------------------------
(***************************************************************************)
(* The classifier for any lists, versions, bundles, ACL IDs and TCAMs: the *)
(* interfaces of an entry are counted, ACL IDs are held by the entries and *)
(* the leftovers of the direction out alone, and an interface carries the  *)
(* ACL ID whose rules are those of its list.                               *)
(***************************************************************************)
EXTENDS Classifier, FiniteSetTheorems, TLAPS

\* NULL stands for no list, no ACL ID, no entry and no rule.
AclConstants ==
    /\ IsFiniteSet(Bundle) /\ NumRules \in [Version -> Nat]
    /\ NULL \notin List /\ NULL \notin AclId /\ NULL \notin Entry /\ NULL \notin Rule

\* The map of one table, and its TCAM.
AclMap == [List -> {NULL} \union Entry]
AclRow == [Tcam -> {NULL} \union Rule]
EntryMaps == [Table -> AclMap]

\* Entries have the same ACL ID exactly when they are of the same list; it is allocated
\* and no leftover of the direction out, and all others that are allocated are.
OneId(es) ==
    \A t, u \in Table, l, m \in List : es[t][l] # NULL /\ es[u][m] # NULL =>
       (es[t][l].acl_id = es[u][m].acl_id <=> l = m)
HasId(es, a) == \E t \in Table, l \in List : es[t][l] # NULL /\ es[t][l].acl_id = a
IdsInv(es, ids, lk) ==
    OneId(es) /\ (\A a : HasId(es, a) <=> a \in ids \ lk) /\ lk \subseteq ids

\* A table's TCAM has the rules of its entries, each at the place its entry knows, and
\* nothing else.
Written(e, l, row) ==
    \A n \in DOMAIN e.rules :
       /\ row[e.rules[n]] # NULL
       /\ row[e.rules[n]].acl_id = e.acl_id
       /\ row[e.rules[n]].list = l
       /\ row[e.rules[n]].number = n
Claimed(r, i, map) ==
    /\ map[r.list] # NULL
    /\ r.number \in DOMAIN map[r.list].rules
    /\ map[r.list].rules[r.number] = i
RowInv(map, row) ==
    /\ \A l \in List : map[l] # NULL => Written(map[l], l, row)
    /\ \A i \in Tcam : row[i] # NULL => Claimed(row[i], i, map)

\* The rules in the tables of ports and of L3 interfaces are those of the lists' present
\* contents; list_update passes over the bridge table.
FreshRow(map, row, ct) ==
    \A l \in List : map[l] # NULL =>
       /\ DOMAIN map[l].rules = 1..NumRules[ct[l]]
       /\ \A n \in DOMAIN map[l].rules : row[map[l].rules[n]].version = ct[l]
TableInv(es, tc, ct) ==
    /\ \A t \in Table : RowInv(es[t], tc[t])
    /\ \A t \in {"pacl", "racl"} : FreshRow(es[t], tc[t], ct)

\* The interfaces an entry is counted to have are those it has.
Users(t, l) == {b \in Bundle : applied[b][t] = l}
CountInv ==
    \A t \in Table, l \in List :
       /\ entries[t][l] = NULL => Cardinality(Users(t, l)) = 0
       /\ entries[t][l] # NULL => /\ entries[t][l].num_intfs = Cardinality(Users(t, l))
                                  /\ entries[t][l].num_intfs # 0

\* A port that did not change under an applied list carries the ACL ID of the list that
\* is applied to its bundle, and so does an L3 interface.
AclOf(t, l) == IF l = NULL THEN NULL ELSE entries[t][l].acl_id
CarryInv ==
    /\ \A p \in Member \ touched : port_acl[p] = AclOf("pacl", applied[ports[p]]["pacl"])
    /\ \A b \in Bundle \ touched : router_acl[b] = AclOf("racl", applied[b]["racl"])

AclTyped ==
    /\ content \in [List -> Version] /\ entries \in EntryMaps
    /\ tcam \in [Table -> AclRow]
    /\ acl_ids \subseteq AclId
    /\ ports \in [Member -> Bundle] /\ l3_intf \subseteq Bundle
    /\ port_acl \in [Member -> {NULL} \union AclId]
    /\ router_acl \in [Bundle -> {NULL} \union AclId]
    /\ applied \in [Bundle -> [Table -> {NULL} \union List]]
    /\ touched \subseteq Member \union Bundle
    /\ acl_undefined \in {"no", "resources", "list_update"}

AclInv == /\ AclTyped /\ IdsInv(entries, acl_ids, leaked) /\ TableInv(entries, tcam, content)
          /\ CountInv /\ CarryInv
-----------------------------------------------------------------------------
(* The map and the TCAM of one table *)

\* The entries of two maps differ in their counts at most.
SameEntries(map, new) ==
    \A l \in List :
       /\ new[l] = NULL <=> map[l] = NULL
       /\ map[l] # NULL => new[l].acl_id = map[l].acl_id /\ new[l].rules = map[l].rules

\* Counts do not matter to the TCAM.
LEMMA RowSame ==
    ASSUME NEW map \in AclMap, NEW new \in AclMap, NEW row \in AclRow, SameEntries(map, new),
           RowInv(map, row)
    PROVE  RowInv(new, row) /\ \A ct : FreshRow(map, row, ct) => FreshRow(new, row, ct)
<1>1. \A l \in List : new[l] # NULL => Written(new[l], l, row)
  BY DEF SameEntries, RowInv, Written
<1>2. ASSUME NEW i \in Tcam, row[i] # NULL PROVE Claimed(row[i], i, new)
  <2>1. row[i].list \in List
    BY <1>2 DEF AclRow, Rule
  <2> QED BY <1>2, <2>1 DEF SameEntries, RowInv, Claimed
<1>3. \A ct : FreshRow(map, row, ct) => FreshRow(new, row, ct)
  BY DEF SameEntries, FreshRow
<1> QED BY <1>1, <1>2, <1>3 DEF RowInv

\* Distinct free places of a TCAM.
PlacesIn(places, row, n) ==
    /\ places \in [1..n -> {i \in Tcam : row[i] = NULL}]
    /\ \A i, j \in 1..n : places[i] = places[j] => i = j

\* What ops_xp_cls_create_rule_entry_list leaves: the rules at their places, numbered.
LEMMA CreateFacts ==
    ASSUME NEW row \in AclRow, NEW l \in List, NEW v \in Version, NEW acl \in AclId,
           NEW n \in Nat, NEW places, PlacesIn(places, row, n), NEW new,
           new = create_rule_entry_list(row, l, v, acl, places), NULL \notin Rule
    PROVE  /\ new \in AclRow /\ places \in Seq(Tcam) /\ DOMAIN places = 1..n
           /\ \A k \in 1..n : /\ places[k] \in Tcam /\ new[places[k]] # NULL
                              /\ new[places[k]].acl_id = acl /\ new[places[k]].list = l
                              /\ new[places[k]].version = v /\ new[places[k]].number = k
           /\ \A i \in Tcam \ Range(places) : new[i] = row[i]
           /\ Range(places) \subseteq Tcam /\ \A i \in Range(places) : row[i] = NULL
<1>1. /\ DOMAIN places = 1..n /\ \A k \in 1..n : places[k] \in Tcam /\ row[places[k]] = NULL
  BY DEF PlacesIn
<1>2. places \in Seq(Tcam)
  BY <1>1 DEF PlacesIn
<1>3. Range(places) \subseteq Tcam /\ \A i \in Range(places) : row[i] = NULL
  BY <1>1 DEF Range
<1>4. ASSUME NEW k \in 1..n
      PROVE  /\ places[k] \in Range(places) /\ places[k] \in Tcam
             /\ (CHOOSE j \in DOMAIN places : places[j] = places[k]) = k
  BY <1>1 DEF PlacesIn, Range
<1>5. ASSUME NEW i \in Range(places)
      PROVE  (CHOOSE k \in DOMAIN places : places[k] = i) \in 1..n
  <2>1. PICK k \in 1..n : i = places[k]
    BY <1>1 DEF Range
  <2> QED BY <1>4, <2>1, Zenon
<1>6. ASSUME NEW i \in Tcam PROVE new[i] \in {NULL} \union Rule
  <2>1. CASE i \notin Range(places)
    BY <2>1 DEF create_rule_entry_list, AclRow
  <2>2. CASE i \in Range(places)
    <3>1. PICK k \in 1..n : k = CHOOSE j \in DOMAIN places : places[j] = i
      BY <1>5, <2>2, Zenon
    <3>2. new[i] = [acl_id |-> acl, list |-> l, version |-> v, number |-> k]
      BY <2>2, <3>1, Zenon DEF create_rule_entry_list
    <3> QED BY <3>2 DEF Rule
  <2> QED BY <2>1, <2>2
<1>7. new \in AclRow
  BY <1>6, Zenon DEF create_rule_entry_list, AclRow
<1>8. \A i \in Tcam \ Range(places) : new[i] = row[i]
  BY DEF create_rule_entry_list
<1>9. ASSUME NEW k \in 1..n
      PROVE  new[places[k]] = [acl_id |-> acl, list |-> l, version |-> v, number |-> k]
  <2>1. PICK i \in Tcam : i = places[k] /\ i \in Range(places)
    BY <1>4
  <2>2. new[i] = [acl_id |-> acl, list |-> l, version |-> v,
                  number |-> CHOOSE j \in DOMAIN places : places[j] = i]
    BY <2>1, Zenon DEF create_rule_entry_list
  <2> QED BY <1>4, <2>1, <2>2, Zenon
<1>10. \A k \in 1..n : [acl_id |-> acl, list |-> l, version |-> v, number |-> k] \in Rule
  BY DEF Rule
<1>11. ASSUME NEW k \in 1..n
       PROVE  /\ new[places[k]] # NULL
              /\ new[places[k]].acl_id = acl /\ new[places[k]].list = l
              /\ new[places[k]].version = v /\ new[places[k]].number = k
  <2>1. PICK r \in Rule : r = [acl_id |-> acl, list |-> l, version |-> v, number |-> k]
    BY <1>10, Zenon
  <2>2. r # NULL /\ r.acl_id = acl /\ r.list = l /\ r.version = v /\ r.number = k
    BY <2>1
  <2>3. new[places[k]] = r
    BY <1>9, <2>1, Zenon
  <2> QED BY <2>2, <2>3, Zenon
<1> QED BY <1>1, <1>2, <1>3, <1>7, <1>8, <1>11

\* A new entry: its rules are written to free places.
LEMMA RowAdd ==
    ASSUME NEW map \in AclMap, NEW row \in AclRow, RowInv(map, row), NULL \notin Rule,
           NEW l \in List, map[l] = NULL, NEW v \in Version, NEW acl \in AclId, NEW n \in Nat,
           NEW places, PlacesIn(places, row, n), NEW new \in AclMap, new[l] # NULL,
           new[l].acl_id = acl, new[l].rules = places,
           \A m \in List \ {l} : new[m] = map[m],
           NEW newrow, newrow = create_rule_entry_list(row, l, v, acl, places)
    PROVE  /\ newrow \in AclRow /\ RowInv(new, newrow)
           /\ \A ct : FreshRow(map, row, ct) /\ ct[l] = v /\ n = NumRules[v]
                        => FreshRow(new, newrow, ct)
<1>1. /\ newrow \in AclRow /\ DOMAIN places = 1..n
      /\ \A k \in 1..n : /\ places[k] \in Tcam /\ newrow[places[k]] # NULL
                         /\ newrow[places[k]].acl_id = acl /\ newrow[places[k]].list = l
                         /\ newrow[places[k]].version = v /\ newrow[places[k]].number = k
      /\ \A i \in Tcam \ Range(places) : newrow[i] = row[i]
      /\ Range(places) \subseteq Tcam /\ \A i \in Range(places) : row[i] = NULL
  BY CreateFacts
<1>2. ASSUME NEW m \in List \ {l}, map[m] # NULL
      PROVE  \A k \in DOMAIN map[m].rules : /\ map[m].rules[k] \in Tcam \ Range(places)
                                            /\ newrow[map[m].rules[k]] = row[map[m].rules[k]]
  <2>1. map[m].rules \in Seq(Tcam)
    BY <1>2 DEF AclMap, Entry
  <2>2. \A k \in DOMAIN map[m].rules : map[m].rules[k] \in Tcam /\ row[map[m].rules[k]] # NULL
    BY <1>2, <2>1 DEF RowInv, Written
  <2> QED BY <1>1, <2>2
<1>3. Written(new[l], l, newrow)
  BY <1>1 DEF Written
<1>4. ASSUME NEW m \in List \ {l}, map[m] # NULL PROVE Written(new[m], m, newrow)
  BY <1>2, <1>4 DEF Written, RowInv
<1>5. ASSUME NEW i \in Tcam, newrow[i] # NULL PROVE Claimed(newrow[i], i, new)
  <2>1. CASE i \in Range(places)
    <3>1. PICK k \in 1..n : i = places[k]
      BY <1>1, <2>1 DEF Range
    <3> QED BY <1>1, <3>1 DEF Claimed
  <2>2. CASE i \notin Range(places)
    <3>1. newrow[i] = row[i] /\ row[i].list \in List /\ Claimed(row[i], i, map)
      BY <1>1, <1>5, <2>2 DEF RowInv, AclRow, Rule
    <3> QED BY <3>1 DEF Claimed
  <2> QED BY <2>1, <2>2
<1>6. ASSUME NEW ct, FreshRow(map, row, ct), ct[l] = v, n = NumRules[v]
      PROVE  FreshRow(new, newrow, ct)
  <2> SUFFICES ASSUME NEW m \in List, new[m] # NULL
               PROVE  /\ DOMAIN new[m].rules = 1..NumRules[ct[m]]
                      /\ \A k \in DOMAIN new[m].rules : newrow[new[m].rules[k]].version = ct[m]
    BY DEF FreshRow
  <2>1. CASE m = l
    BY <1>1, <1>6, <2>1
  <2>2. CASE m # l
    BY <1>2, <1>6, <2>2 DEF FreshRow
  <2> QED BY <2>1, <2>2
<1>7. RowInv(new, newrow)
  BY <1>3, <1>4, <1>5 DEF RowInv
<1> QED BY <1>1, <1>6, <1>7

\* An entry goes, and its rules with it (ops_xp_cls_destroy_rule_entry_list).
LEMMA RowDelete ==
    ASSUME NEW map \in AclMap, NEW row \in AclRow, RowInv(map, row),
           NEW l \in List, map[l] # NULL, NEW new \in AclMap, new[l] = NULL,
           \A m \in List \ {l} : new[m] = map[m],
           NEW newrow, newrow = destroy_rule_entry_list(row, map[l].rules)
    PROVE  /\ newrow \in AclRow /\ RowInv(new, newrow)
           /\ \A ct : FreshRow(map, row, ct) => FreshRow(new, newrow, ct)
<1>1. newrow \in AclRow
  BY DEF destroy_rule_entry_list, AclRow
<1>2. /\ \A i \in Tcam \ Range(map[l].rules) : newrow[i] = row[i]
      /\ \A i \in Tcam \cap Range(map[l].rules) : newrow[i] = NULL
  BY DEF destroy_rule_entry_list
<1>3. ASSUME NEW m \in List \ {l}, map[m] # NULL
      PROVE  \A k \in DOMAIN map[m].rules : newrow[map[m].rules[k]] = row[map[m].rules[k]]
  <2>1. map[m].rules \in Seq(Tcam)
    BY <1>3 DEF AclMap, Entry
  <2>2. ASSUME NEW k \in DOMAIN map[m].rules
        PROVE  /\ map[m].rules[k] \in Tcam /\ row[map[m].rules[k]].list = m
    BY <1>3, <2>1 DEF RowInv, Written
  <2>3. \A j \in DOMAIN map[l].rules : row[map[l].rules[j]].list = l
    BY DEF RowInv, Written
  <2>4. \A k \in DOMAIN map[m].rules : map[m].rules[k] \notin Range(map[l].rules)
    BY <2>2, <2>3 DEF Range
  <2> QED BY <1>2, <2>2, <2>4
<1>4. ASSUME NEW m \in List \ {l}, map[m] # NULL PROVE Written(new[m], m, newrow)
  BY <1>3, <1>4 DEF Written, RowInv
<1>5. ASSUME NEW i \in Tcam, newrow[i] # NULL PROVE Claimed(newrow[i], i, new)
  <2>1. i \notin Range(map[l].rules) /\ newrow[i] = row[i]
    BY <1>2, <1>5
  <2>2. row[i].list \in List /\ Claimed(row[i], i, map)
    BY <1>5, <2>1 DEF RowInv, AclRow, Rule
  <2>3. row[i].list # l
    BY <2>1, <2>2 DEF Claimed, Range
  <2> QED BY <2>1, <2>2, <2>3 DEF Claimed
<1>6. \A ct : FreshRow(map, row, ct) => FreshRow(new, newrow, ct)
  BY <1>3 DEF FreshRow
<1>7. RowInv(new, newrow)
  BY <1>4, <1>5 DEF RowInv
<1> QED BY <1>1, <1>6, <1>7

\* The rules of an entry change and nothing else of it.
WithRules(map, l, places) == [map EXCEPT ![l].rules = places]
NewRules(map, new, l, places) ==
    /\ new[l] # NULL /\ new[l].acl_id = map[l].acl_id /\ new[l].rules = places
    /\ \A m \in List \ {l} : new[m] = map[m]

\* The row has the rules of the new map, and those of list l are its version v.
RowUpdated(map, row, new, newrow, l, v, n) ==
    /\ newrow \in AclRow /\ RowInv(new, newrow)
    /\ \A ct, newct : /\ FreshRow(map, row, ct) /\ newct[l] = v /\ n = NumRules[v]
                      /\ \A m \in List \ {l} : newct[m] = ct[m]
                      => FreshRow(new, newrow, newct)

\* The rules of an entry are replaced: new ones are written to free places, then the old
\* ones destroyed (ops_xp_cls_list_update).
LEMMA RowUpdate ==
    ASSUME NEW map \in AclMap, NEW row \in AclRow, RowInv(map, row), NULL \notin Rule,
           NEW l \in List, map[l] # NULL, NEW v \in Version, NEW n \in Nat,
           NEW places, PlacesIn(places, row, n), NEW new \in AclMap,
           NewRules(map, new, l, places),
           NEW newrow, newrow = destroy_rule_entry_list(
                                  create_rule_entry_list(row, l, v, map[l].acl_id, places),
                                  map[l].rules)
    PROVE  RowUpdated(map, row, new, newrow, l, v, n)
<1> USE DEF NewRules
<1>1. map[l].acl_id \in AclId /\ map[l].rules \in Seq(Tcam)
  BY DEF AclMap, Entry
<1>2. PICK made : made = create_rule_entry_list(row, l, v, map[l].acl_id, places)
  OBVIOUS
<1>3. /\ made \in AclRow /\ DOMAIN places = 1..n
      /\ \A k \in 1..n : /\ places[k] \in Tcam /\ made[places[k]] # NULL
                         /\ made[places[k]].acl_id = map[l].acl_id
                         /\ made[places[k]].list = l
                         /\ made[places[k]].version = v /\ made[places[k]].number = k
      /\ \A i \in Tcam \ Range(places) : made[i] = row[i]
      /\ Range(places) \subseteq Tcam /\ \A i \in Range(places) : row[i] = NULL
  BY <1>1, <1>2, CreateFacts
<1>4. /\ newrow \in AclRow
      /\ \A i \in Tcam : newrow[i] = IF i \in Range(map[l].rules) THEN NULL ELSE made[i]
  BY <1>2, <1>3 DEF destroy_rule_entry_list, AclRow
<1>5. \A i \in Range(map[l].rules) : row[i] # NULL /\ row[i].list = l
  BY DEF RowInv, Written, Range
<1>6. \A k \in 1..n : newrow[places[k]] = made[places[k]]
  <2>1. \A k \in 1..n : places[k] \in Range(places)
    BY <1>3 DEF Range
  <2> QED BY <1>3, <1>4, <1>5, <2>1
<1>7. ASSUME NEW m \in List \ {l}, map[m] # NULL
      PROVE  \A k \in DOMAIN map[m].rules : newrow[map[m].rules[k]] = row[map[m].rules[k]]
  <2>1. map[m].rules \in Seq(Tcam)
    BY <1>7 DEF AclMap, Entry
  <2>2. \A k \in DOMAIN map[m].rules : /\ map[m].rules[k] \in Tcam
                                       /\ row[map[m].rules[k]] # NULL
                                       /\ row[map[m].rules[k]].list = m
    BY <1>7, <2>1 DEF RowInv, Written
  <2> QED BY <1>3, <1>4, <1>5, <2>2
<1>8. Written(new[l], l, newrow)
  BY <1>3, <1>6 DEF Written
<1>9. ASSUME NEW m \in List \ {l}, map[m] # NULL PROVE Written(new[m], m, newrow)
  BY <1>7, <1>9 DEF Written, RowInv
<1>10. ASSUME NEW i \in Tcam, newrow[i] # NULL PROVE Claimed(newrow[i], i, new)
  <2>1. i \notin Range(map[l].rules) /\ newrow[i] = made[i]
    BY <1>4, <1>10
  <2>2. CASE i \in Range(places)
    <3>1. PICK k \in 1..n : i = places[k]
      BY <1>3, <2>2 DEF Range
    <3> QED BY <1>3, <2>1, <3>1 DEF Claimed
  <2>3. CASE i \notin Range(places)
    <3>1. newrow[i] = row[i] /\ row[i].list \in List /\ Claimed(row[i], i, map)
      BY <1>3, <1>10, <2>1, <2>3 DEF RowInv, AclRow, Rule
    <3>2. row[i].list # l
      BY <2>1, <3>1 DEF Claimed, Range
    <3> QED BY <3>1, <3>2 DEF Claimed
  <2> QED BY <2>2, <2>3
<1>11. ASSUME NEW ct, NEW newct, FreshRow(map, row, ct), newct[l] = v, n = NumRules[v],
              \A m \in List \ {l} : newct[m] = ct[m]
       PROVE  FreshRow(new, newrow, newct)
  <2> SUFFICES ASSUME NEW m \in List, new[m] # NULL
               PROVE  /\ DOMAIN new[m].rules = 1..NumRules[newct[m]]
                      /\ \A k \in DOMAIN new[m].rules :
                            newrow[new[m].rules[k]].version = newct[m]
    BY DEF FreshRow
  <2>1. CASE m = l
    BY <1>3, <1>6, <1>11, <2>1
  <2>2. CASE m # l
    BY <1>7, <1>11, <2>2 DEF FreshRow
  <2> QED BY <2>1, <2>2
<1>12. RowInv(new, newrow)
  BY <1>8, <1>9, <1>10 DEF RowInv
<1> QED BY <1>4, <1>11, <1>12, Zenon DEF RowUpdated

\* A list's content may change freely in a table that has no entry of it.
LEMMA FreshElsewhere ==
    ASSUME NEW map, NEW row, NEW ct, NEW newct, NEW l \in List, map[l] = NULL,
           \A m \in List \ {l} : newct[m] = ct[m], FreshRow(map, row, ct)
    PROVE  FreshRow(map, row, newct)
BY DEF FreshRow

\* The entry keeps its ACL ID and its count.
LEMMA UpdateEntry ==
    ASSUME AclConstants, NEW map \in AclMap, NEW l \in List, map[l] # NULL,
           NEW places \in Seq(Tcam), NEW new, new = WithRules(map, l, places)
    PROVE  /\ new \in AclMap /\ NewRules(map, new, l, places)
           /\ new[l].num_intfs = map[l].num_intfs
<1>1. map[l] \in Entry
  BY DEF AclMap
<1>2. PICK e : e = [map[l] EXCEPT !.rules = places]
  BY Zenon
<1>3. /\ e \in Entry /\ e.acl_id = map[l].acl_id /\ e.rules = places
      /\ e.num_intfs = map[l].num_intfs
  BY <1>1, <1>2 DEF Entry
<1>4. new = [map EXCEPT ![l] = e]
  BY <1>2, Zenon DEF WithRules
<1> QED BY <1>3, <1>4 DEF AclMap, AclConstants, NewRules
-----------------------------------------------------------------------------
(* All three maps *)

\* All entries but that of list l in table t are the same.
Only(es, fs, t, l) ==
    /\ \A u \in Table \ {t} : fs[u] = es[u]
    /\ \A m \in List \ {l} : fs[t][m] = es[t][m]

\* An entry is put into a map or taken from it.
LEMMA SetEntry ==
    ASSUME NEW es \in EntryMaps, NEW t \in Table, NEW l \in List,
           NEW e \in {NULL} \union Entry, NEW fs, fs = [es EXCEPT ![t][l] = e]
    PROVE  fs \in EntryMaps /\ fs[t][l] = e /\ Only(es, fs, t, l)
<1>1. PICK m \in AclMap : m = [es[t] EXCEPT ![l] = e]
  BY DEF EntryMaps, AclMap
<1>2. fs = [es EXCEPT ![t] = m]
  BY <1>1 DEF EntryMaps, AclMap
<1> QED BY <1>1, <1>2 DEF EntryMaps, AclMap, Only

\* What the TCAM, the ACL IDs and the maps of entries are to each other.
Good(es, tc, ids, lk) ==
    /\ es \in EntryMaps /\ tc \in [Table -> AclRow] /\ ids \subseteq AclId
    /\ IdsInv(es, ids, lk) /\ TableInv(es, tc, content)

\* The same entry, for another number of interfaces.
Recounted(es, fs, t, l, n) ==
    /\ fs \in EntryMaps /\ Only(es, fs, t, l) /\ fs[t][l] # NULL
    /\ fs[t][l].acl_id = es[t][l].acl_id /\ fs[t][l].rules = es[t][l].rules
    /\ fs[t][l].num_intfs = n

\* num_intfs is set in an entry.
LEMMA Recount ==
    ASSUME AclConstants, NEW es \in EntryMaps, NEW t \in Table, NEW l \in List,
           es[t][l] # NULL, NEW n \in Nat, NEW fs,
           fs = [es EXCEPT ![t][l] = [es[t][l] EXCEPT !.num_intfs = n]]
    PROVE  Recounted(es, fs, t, l, n)
<1>1. es[t][l] \in Entry
  BY DEF EntryMaps, AclMap
<1>2. PICK e : e = [es[t][l] EXCEPT !.num_intfs = n]
  BY Zenon
<1>3. /\ e \in Entry /\ e.acl_id = es[t][l].acl_id /\ e.rules = es[t][l].rules
      /\ e.num_intfs = n
  BY <1>1, <1>2 DEF Entry
<1>4. fs = [es EXCEPT ![t][l] = e]
  BY <1>2, Zenon
<1>5. fs \in EntryMaps /\ fs[t][l] = e /\ Only(es, fs, t, l)
  BY <1>3, <1>4, SetEntry, Zenon
<1> QED BY <1>3, <1>5 DEF Recounted, AclConstants

\* Counts do not matter to ACL IDs and rules.
LEMMA GoodRecount ==
    ASSUME NEW es, NEW fs, NEW tc, NEW ids, NEW lk, Good(es, tc, ids, lk),
           NEW t \in Table, NEW l \in List, es[t][l] # NULL, NEW n, Recounted(es, fs, t, l, n)
    PROVE  Good(fs, tc, ids, lk) /\ \A m \in List : IdsOf(m, fs) = IdsOf(m, es)
<1>1. \A u \in Table, m \in List :
         /\ fs[u][m] = NULL <=> es[u][m] = NULL
         /\ es[u][m] # NULL => /\ fs[u][m].acl_id = es[u][m].acl_id
                               /\ fs[u][m].rules = es[u][m].rules
  BY DEF Recounted, Only
<1>2. IdsInv(fs, ids, lk)
  <2>1. \A a : HasId(fs, a) <=> HasId(es, a)
    BY <1>1 DEF HasId
  <2> QED BY <1>1, <2>1 DEF Good, IdsInv, OneId
<1>3. ASSUME NEW u \in Table
      PROVE  /\ RowInv(fs[u], tc[u])
             /\ \A ct : FreshRow(es[u], tc[u], ct) => FreshRow(fs[u], tc[u], ct)
  <2>1. es[u] \in AclMap /\ fs[u] \in AclMap /\ tc[u] \in AclRow /\ SameEntries(es[u], fs[u])
    BY <1>1 DEF Good, Recounted, EntryMaps, SameEntries
  <2> QED BY <2>1, RowSame DEF Good, TableInv
<1>4. TableInv(fs, tc, content)
  BY <1>3 DEF TableInv, Good, Table
<1>5. ASSUME NEW m \in List PROVE IdsOf(m, fs) = IdsOf(m, es)
  <2>1. {u \in Table : fs[u][m] # NULL} = {u \in Table : es[u][m] # NULL}
    BY <1>1
  <2> QED BY <1>1, <2>1 DEF IdsOf
<1> QED BY <1>2, <1>4, <1>5 DEF Good, Recounted

\* A list's ACL IDs.
LEMMA IdsFacts ==
    ASSUME NEW es, NEW l
    PROVE  \A a : a \in IdsOf(l, es) <=> \E t \in Table : es[t][l] # NULL /\ es[t][l].acl_id = a
BY DEF IdsOf

\* Entries differ in no more than their rules.
ButRules(e, f) ==
    /\ f = NULL <=> e = NULL
    /\ e # NULL => f.acl_id = e.acl_id /\ f.num_intfs = e.num_intfs

\* ACL IDs do not depend on rules.
LEMMA IdsSame ==
    ASSUME NEW es, NEW fs, NEW ids, NEW lk, IdsInv(es, ids, lk),
           \A t \in Table, l \in List : ButRules(es[t][l], fs[t][l])
    PROVE  IdsInv(fs, ids, lk)
<1>1. \A a : HasId(fs, a) <=> HasId(es, a)
  BY DEF HasId, ButRules
<1>2. OneId(fs)
  BY DEF IdsInv, OneId, ButRules
<1> QED BY <1>1, <1>2, Zenon DEF IdsInv

\* A new entry has the ACL ID of its list or a new one.
LEMMA IdsAdd ==
    ASSUME NEW es, NEW ids, NEW lk, IdsInv(es, ids, lk), NEW t \in Table, NEW l \in List,
           es[t][l] = NULL, NEW acl,
           acl \in IdsOf(l, es) \/ (IdsOf(l, es) = {} /\ acl \notin ids),
           NEW fs, fs[t][l] # NULL, fs[t][l].acl_id = acl, Only(es, fs, t, l)
    PROVE  IdsInv(fs, ids \union {acl}, lk)
<1>1. \A u \in Table, m \in List : u # t \/ m # l => fs[u][m] = es[u][m]
  BY DEF Only
<1>2. \A a : HasId(fs, a) <=> HasId(es, a) \/ a = acl
  BY <1>1 DEF HasId
<1>3. ASSUME NEW u \in Table, NEW m \in List, es[u][m] # NULL
      PROVE  es[u][m].acl_id = acl <=> m = l
  <2>1. CASE acl \in IdsOf(l, es)
    <3>1. PICK w \in Table : es[w][l] # NULL /\ es[w][l].acl_id = acl
      BY <2>1, IdsFacts
    <3> QED BY <1>3, <3>1 DEF IdsInv, OneId
  <2>2. CASE IdsOf(l, es) = {} /\ acl \notin ids
    <3>1. m # l
      BY <1>3, <2>2, IdsFacts, Zenon
    <3>2. HasId(es, es[u][m].acl_id)
      BY <1>3 DEF HasId
    <3> QED BY <2>2, <3>1, <3>2 DEF IdsInv
  <2> QED BY <2>1, <2>2
<1>4. OneId(fs)
  BY <1>1, <1>3 DEF OneId, IdsInv
<1>5. acl \notin lk
  <2>1. CASE acl \in IdsOf(l, es)
    BY <2>1, IdsFacts DEF IdsInv, HasId
  <2> QED BY <2>1 DEF IdsInv
<1> QED BY <1>2, <1>4, <1>5 DEF IdsInv

\* The ACL ID of an entry that goes is freed unless the list has another entry.
LEMMA IdsDelete ==
    ASSUME NEW es, NEW ids, NEW lk, IdsInv(es, ids, lk), NEW t \in Table, NEW l \in List,
           es[t][l] # NULL, NEW fs, fs[t][l] = NULL, Only(es, fs, t, l)
    PROVE  IdsInv(fs, IF es[t][l].acl_id \in IdsOf(l, fs) THEN ids
                      ELSE ids \ {es[t][l].acl_id}, lk)
<1>1. \A u \in Table, m \in List : u # t \/ m # l => fs[u][m] = es[u][m]
  BY DEF Only
<1>2. PICK a : a = es[t][l].acl_id
  OBVIOUS
<1>3. OneId(fs) /\ HasId(es, a) /\ a \in ids \ lk
  BY <1>1, <1>2 DEF OneId, IdsInv, HasId
<1>4. \A c : c # a => (HasId(fs, c) <=> HasId(es, c))
  BY <1>1, <1>2 DEF HasId
<1>5. HasId(fs, a) <=> a \in IdsOf(l, fs)
  <2>1. ASSUME NEW u \in Table, NEW m \in List, fs[u][m] # NULL, fs[u][m].acl_id = a
        PROVE  m = l
    BY <1>1, <1>2, <2>1 DEF OneId, IdsInv
  <2> QED BY <2>1, IdsFacts DEF HasId
<1>6. CASE a \in IdsOf(l, fs)
  BY <1>2, <1>3, <1>4, <1>5, <1>6 DEF IdsInv
<1>7. CASE a \notin IdsOf(l, fs)
  BY <1>2, <1>3, <1>4, <1>5, <1>7 DEF IdsInv
<1> QED BY <1>6, <1>7

\* The ACL ID of a list, or one that is free.
MayGet(l, acl, es, ids) ==
    acl \in AclId /\ (acl \in IdsOf(l, es) \/ (IdsOf(l, es) = {} /\ acl \notin ids))

\* What ops_xp_cls_acl_add makes of the maps and the TCAM.
Added(es, fs, tc, tn, ids, t, l, acl, places, num) ==
    /\ es[t][l] = NULL /\ MayGet(l, acl, es, ids)
    /\ PlacesIn(places, tc[t], NumRules[content[l]])
    /\ fs = [es EXCEPT ![t][l] = [acl_id |-> acl, rules |-> places, num_intfs |-> num]]
    /\ tn = [tc EXCEPT ![t] = create_rule_entry_list(tc[t], l, content[l], acl, places)]

\* They are right then.
AddedGood(es, fs, tn, ids, lk, t, l, acl, num) ==
    /\ Good(fs, tn, ids \union {acl}, lk) /\ Only(es, fs, t, l)
    /\ fs[t][l] # NULL /\ fs[t][l].acl_id = acl /\ fs[t][l].num_intfs = num

\* ops_xp_cls_acl_add: entry, rules and ACL ID come together.
LEMMA GoodAdd ==
    ASSUME AclConstants, content \in [List -> Version],
           NEW es, NEW tc, NEW ids, NEW lk, Good(es, tc, ids, lk),
           NEW t \in Table, NEW l \in List, NEW acl, NEW places, NEW num \in Nat,
           NEW fs, NEW tn, Added(es, fs, tc, tn, ids, t, l, acl, places, num)
    PROVE  AddedGood(es, fs, tn, ids, lk, t, l, acl, num)
<1> USE DEF Added, MayGet
<1>1. PICK n \in Nat, v \in Version : v = content[l] /\ n = NumRules[v]
  BY DEF AclConstants
<1>2. es[t] \in AclMap /\ tc[t] \in AclRow /\ RowInv(es[t], tc[t])
  BY DEF Good, EntryMaps, TableInv
<1>3. PICK row : row = create_rule_entry_list(tc[t], l, v, acl, places)
  OBVIOUS
<1>4. places \in Seq(Tcam) /\ NULL \notin Rule /\ NULL \notin Entry
  <2>1. places \in [1..n -> {i \in Tcam : tc[t][i] = NULL}]
    BY <1>1 DEF PlacesIn
  <2>2. places \in Seq(Tcam)
    BY <2>1
  <2> QED BY <2>2 DEF AclConstants
<1>5. PICK e \in Entry : e = [acl_id |-> acl, rules |-> places, num_intfs |-> num]
  BY <1>4, Zenon DEF Entry
<1>6. e # NULL /\ e.acl_id = acl /\ e.rules = places /\ e.num_intfs = num
  BY <1>4, <1>5
<1>7. fs \in EntryMaps /\ fs[t][l] = e /\ Only(es, fs, t, l)
  <2>1. es \in EntryMaps /\ e \in {NULL} \union Entry /\ fs = [es EXCEPT ![t][l] = e]
    BY <1>5, Zenon DEF Good
  <2> QED BY <2>1, SetEntry, Zenon
<1>8. fs[t] \in AclMap /\ \A m \in List \ {l} : fs[t][m] = es[t][m]
  BY <1>7 DEF EntryMaps, Only
<1>9. /\ row \in AclRow /\ RowInv(fs[t], row)
      /\ FreshRow(es[t], tc[t], content) => FreshRow(fs[t], row, content)
  <2>1. /\ PlacesIn(places, tc[t], n) /\ fs[t][l] # NULL /\ fs[t][l].acl_id = acl
        /\ fs[t][l].rules = places
    BY <1>1, <1>6, <1>7
  <2>2. /\ row \in AclRow /\ RowInv(fs[t], row)
        /\ \A ct : FreshRow(es[t], tc[t], ct) /\ ct[l] = v /\ n = NumRules[v]
                     => FreshRow(fs[t], row, ct)
    <3>1. PICK map \in AclMap, old \in AclRow, new \in AclMap :
             map = es[t] /\ old = tc[t] /\ new = fs[t]
      BY <1>2, <1>8
    <3>2. /\ RowInv(map, old) /\ map[l] = NULL /\ PlacesIn(places, old, n) /\ new[l] # NULL
          /\ new[l].acl_id = acl /\ new[l].rules = places
          /\ \A m \in List \ {l} : new[m] = map[m]
          /\ row = create_rule_entry_list(old, l, v, acl, places)
      BY <1>2, <1>3, <1>8, <2>1, <3>1, Zenon
    <3>3. /\ row \in AclRow /\ RowInv(new, row)
          /\ \A ct : FreshRow(map, old, ct) /\ ct[l] = v /\ n = NumRules[v]
                       => FreshRow(new, row, ct)
      BY <1>4, <3>2, RowAdd
    <3> QED BY <3>1, <3>3, Zenon
  <2> QED BY <1>1, <2>2, Zenon
<1>10. tn = [tc EXCEPT ![t] = row]
  BY <1>1, <1>3
<1>11. tn \in [Table -> AclRow] /\ tn[t] = row /\ \A u \in Table \ {t} : tn[u] = tc[u]
  BY <1>9, <1>10 DEF Good
<1>12. TableInv(fs, tn, content)
  <2>1. \A u \in Table \ {t} : fs[u] = es[u]
    BY <1>7 DEF Only
  <2> QED BY <1>9, <1>11, <2>1 DEF TableInv, Good, Table
<1>13. IdsInv(fs, ids \union {acl}, lk)
  BY <1>6, <1>7, IdsAdd, Zenon DEF Good
<1> QED BY <1>6, <1>7, <1>11, <1>12, <1>13 DEF Good, AddedGood

\* ops_xp_cls_acl_delete: they go together.
LEMMA GoodDelete ==
    ASSUME NEW es, NEW tc, NEW ids, NEW lk, Good(es, tc, ids, lk),
           NEW t \in Table, NEW l \in List, es[t][l] # NULL, acl_delete(t, l, es, tc, ids)
    PROVE  /\ Good(entries', tcam', acl_ids', lk)
           /\ Only(es, entries', t, l) /\ entries'[t][l] = NULL
<1>0. PICK fs, tn : /\ fs = entries' /\ tn = tcam'
                    /\ fs = [es EXCEPT ![t][l] = NULL]
                    /\ tn = [tc EXCEPT ![t] = destroy_rule_entry_list(tc[t], es[t][l].rules)]
                    /\ acl_ids' = IF es[t][l].acl_id \in IdsOf(l, fs) THEN ids
                                  ELSE ids \ {es[t][l].acl_id}
  BY Zenon DEF acl_delete
<1>1. es[t] \in AclMap /\ tc[t] \in AclRow /\ RowInv(es[t], tc[t])
  BY DEF Good, EntryMaps, TableInv
<1>2. PICK row : row = destroy_rule_entry_list(tc[t], es[t][l].rules)
  OBVIOUS
<1>3. fs \in EntryMaps /\ fs[t][l] = NULL /\ Only(es, fs, t, l)
  <2>1. es \in EntryMaps
    BY DEF Good
  <2>2. PICK m \in AclMap : m = [es[t] EXCEPT ![l] = NULL]
    BY <1>1, Zenon DEF AclMap
  <2>3. fs = [es EXCEPT ![t] = m] /\ m[l] = NULL /\ \A k \in List \ {l} : m[k] = es[t][k]
    BY <1>0, <1>1, <2>2 DEF AclMap
  <2> QED BY <2>1, <2>3 DEF EntryMaps, Only
<1>4. fs[t] \in AclMap /\ \A m \in List \ {l} : fs[t][m] = es[t][m]
  BY <1>3 DEF EntryMaps, Only
<1>5. /\ row \in AclRow /\ RowInv(fs[t], row)
      /\ FreshRow(es[t], tc[t], content) => FreshRow(fs[t], row, content)
  <2>1. PICK map \in AclMap, old \in AclRow, new \in AclMap :
           map = es[t] /\ old = tc[t] /\ new = fs[t]
    BY <1>1, <1>4
  <2>2. /\ RowInv(map, old) /\ map[l] # NULL /\ new[l] = NULL
        /\ \A m \in List \ {l} : new[m] = map[m]
        /\ row = destroy_rule_entry_list(old, map[l].rules)
    BY <1>1, <1>2, <1>3, <1>4, <2>1, Zenon
  <2>3. /\ row \in AclRow /\ RowInv(new, row)
        /\ \A ct : FreshRow(map, old, ct) => FreshRow(new, row, ct)
    BY <2>2, RowDelete
  <2> QED BY <2>1, <2>3, Zenon
<1>6. tn = [tc EXCEPT ![t] = row]
  BY <1>0, <1>2, Zenon
<1>7. tn \in [Table -> AclRow] /\ tn[t] = row /\ \A u \in Table \ {t} : tn[u] = tc[u]
  BY <1>5, <1>6 DEF Good
<1>8. TableInv(fs, tn, content)
  <2>1. \A u \in Table \ {t} : fs[u] = es[u]
    BY <1>3 DEF Only
  <2> QED BY <1>5, <1>7, <2>1 DEF TableInv, Good, Table
<1>9. IdsInv(fs, IF es[t][l].acl_id \in IdsOf(l, fs) THEN ids
                 ELSE ids \ {es[t][l].acl_id}, lk)
  BY <1>3, IdsDelete DEF Good
<1> QED BY <1>0, <1>3, <1>7, <1>8, <1>9 DEF Good
-----------------------------------------------------------------------------
(* Interfaces *)

\* A list that is applied to an interface has an entry.
LEMMA UsersFacts ==
    ASSUME AclConstants, CountInv, NEW t \in Table, NEW l \in List
    PROVE  /\ IsFiniteSet(Users(t, l)) /\ Cardinality(Users(t, l)) \in Nat
           /\ \A b \in Bundle : applied[b][t] = l => entries[t][l] # NULL
<1>1. IsFiniteSet(Users(t, l)) /\ Cardinality(Users(t, l)) \in Nat
  BY FS_Subset, FS_CardinalityType DEF AclConstants, Users
<1>2. ASSUME NEW b \in Bundle, applied[b][t] = l PROVE entries[t][l] # NULL
  BY <1>1, <1>2, FS_EmptySet DEF CountInv, Users
<1> QED BY <1>1, <1>2

\* What is applied to an interface is no list or one with an entry, and the entry counts
\* it.
LEMMA AppliedFacts ==
    ASSUME AclConstants, AclInv, NEW b \in Bundle, NEW t \in Table
    PROVE  /\ applied \in [Bundle -> [Table -> {NULL} \union List]]
           /\ applied[b][t] \in {NULL} \union List
           /\ applied[b][t] # NULL =>
                 /\ entries[t][applied[b][t]] # NULL
                 /\ \E n \in Nat : /\ n = entries[t][applied[b][t]].num_intfs - 1
                                    /\ entries[t][applied[b][t]].num_intfs = n + 1
<1>1. applied \in [Bundle -> [Table -> {NULL} \union List]] /\ entries \in EntryMaps
  BY Zenon DEF AclInv, AclTyped
<1>2. applied[b][t] \in {NULL} \union List
  BY <1>1
<1>3. ASSUME NEW l \in List, l = applied[b][t]
      PROVE  /\ entries[t][l] # NULL
             /\ \E n \in Nat : n = entries[t][l].num_intfs - 1 /\ entries[t][l].num_intfs = n + 1
  <2>1. entries[t][l] # NULL
    BY <1>3, UsersFacts, Zenon DEF AclInv
  <2>2. entries[t][l].num_intfs \in Nat /\ entries[t][l].num_intfs # 0
    BY <1>1, <2>1 DEF AclInv, CountInv, EntryMaps, AclMap, Entry
  <2> QED BY <2>1, <2>2
<1> QED BY <1>1, <1>2, <1>3

\* The counts of a bundle's old and new list change by one when it moves from one to the
\* other; NULL is no list.
CountsMove(es, fs, t, old, new) ==
    /\ \A u \in Table, l \in List : u # t \/ l \notin {old, new} => fs[u][l] = es[u][l]
    /\ old # NULL => IF es[t][old].num_intfs = 1 THEN fs[t][old] = NULL
                     ELSE /\ fs[t][old] # NULL
                          /\ fs[t][old].num_intfs = es[t][old].num_intfs - 1
    /\ new # NULL => /\ fs[t][new] # NULL
                     /\ fs[t][new].num_intfs = IF es[t][new] = NULL THEN 1
                                               ELSE es[t][new].num_intfs + 1

\* Counts stay exact where lists stay applied and entries keep their counts.
LEMMA CountSame ==
    ASSUME CountInv, applied' = applied,
           \A t \in Table, l \in List : ButRules(entries[t][l], entries'[t][l])
    PROVE  CountInv'
<1>1. \A t \in Table, l \in List : (Users(t, l))' = Users(t, l)
  BY Zenon DEF Users
<1> QED BY <1>1 DEF CountInv, ButRules

\* Counts stay exact when a bundle moves from a list to another.
LEMMA CountMove ==
    ASSUME AclConstants, AclInv, NEW b \in Bundle, NEW t \in Table,
           NEW new \in {NULL} \union List, applied[b][t] # new,
           applied' = [applied EXCEPT ![b][t] = new],
           CountsMove(entries, entries', t, applied[b][t], new)
    PROVE  CountInv'
<1>0. PICK old : old = applied[b][t] /\ CountsMove(entries, entries', t, old, new)
  BY Zenon
<1> SUFFICES ASSUME NEW u \in Table, NEW l \in List
             PROVE  /\ entries'[u][l] = NULL => Cardinality(Users(u, l)') = 0
                    /\ entries'[u][l] # NULL =>
                          /\ entries'[u][l].num_intfs = Cardinality(Users(u, l)')
                          /\ entries'[u][l].num_intfs # 0
  BY DEF CountInv
<1>1. \A c \in Bundle, w \in Table :
         applied'[c][w] = IF c = b /\ w = t THEN new ELSE applied[c][w]
  BY DEF AclInv, AclTyped
<1>2. /\ IsFiniteSet(Users(u, l)) /\ Cardinality(Users(u, l)) \in Nat
      /\ \A c \in Bundle : applied[c][u] = l => entries[u][l] # NULL
  BY UsersFacts DEF AclInv
<1>3. CASE u # t \/ l \notin {old, new}
  <2>1. Users(u, l)' = Users(u, l)
    BY <1>0, <1>1, <1>3 DEF Users
  <2> QED BY <1>0, <1>3, <2>1 DEF AclInv, CountInv, CountsMove
<1>4. CASE u = t /\ l = new
  <2>1. Users(u, l)' = Users(u, l) \union {b} /\ b \notin Users(u, l)
    BY <1>0, <1>1, <1>4 DEF Users
  <2>2. Cardinality(Users(u, l)') = Cardinality(Users(u, l)) + 1
    BY <1>2, <2>1, FS_AddElement, Zenon
  <2> QED BY <1>0, <1>2, <1>4, <2>2 DEF AclInv, CountInv, CountsMove, AclConstants
<1>5. CASE u = t /\ l = old
  <2>1. Users(u, l)' = Users(u, l) \ {b} /\ b \in Users(u, l)
    BY <1>0, <1>1, <1>5 DEF Users
  <2>2. Cardinality(Users(u, l)') = Cardinality(Users(u, l)) - 1
    BY <1>2, <2>1, FS_RemoveElement, Zenon
  <2> QED BY <1>0, <1>2, <1>5, <2>2 DEF AclInv, CountInv, CountsMove, AclConstants
<1> QED BY <1>3, <1>4, <1>5

\* Entries that stay keep their ACL IDs.
IdKept(es, fs) == \A u \in Table, l \in List : es[u][l] # NULL /\ fs[u][l] # NULL =>
                     fs[u][l].acl_id = es[u][l].acl_id

\* The maps of ops_xp_cls_replace: the interface is taken from list old (e1), list new
\* gets it (e2), and the old entry goes if nothing is left of it (e3).
EntryMoves(e0, e1, e2, e3, t, old, new, n) ==
    /\ e0[t][old] # NULL /\ e0[t][old].num_intfs = n + 1
    /\ Only(e0, e1, t, old) /\ e1[t][old] # NULL /\ e1[t][old].num_intfs = n
    /\ e1[t][old].acl_id = e0[t][old].acl_id
    /\ Only(e1, e2, t, new) /\ e2[t][new] # NULL
    /\ e2[t][new].num_intfs = IF e0[t][new] = NULL THEN 1 ELSE e1[t][new].num_intfs + 1
    /\ e0[t][new] # NULL => e2[t][new].acl_id = e1[t][new].acl_id
    /\ Only(e2, e3, t, old)
    /\ IF old # new /\ n = 0 THEN e3[t][old] = NULL ELSE e3[t][old] = e2[t][old]

\* Only counts change where the list stays the same, and else those of two lists.
Moved(e0, e2, e3, t, old, new) ==
    /\ e3[t][new] # NULL /\ e3[t][new].acl_id = e2[t][new].acl_id
    /\ IdKept(e0, e3)
    /\ old = new => \A u \in Table, l \in List : ButRules(e0[u][l], e3[u][l])
    /\ old # new => CountsMove(e0, e3, t, old, new)

\* That is what the three steps do.
LEMMA EntryMovesFacts ==
    ASSUME NEW t \in Table, NEW old \in List, NEW new \in List, NEW n \in Nat,
           NEW e0, NEW e1, NEW e2, NEW e3, EntryMoves(e0, e1, e2, e3, t, old, new, n)
    PROVE  Moved(e0, e2, e3, t, old, new)
<1>1. \A u \in Table, l \in List : u # t \/ l \notin {old, new} => e3[u][l] = e0[u][l]
  BY DEF EntryMoves, Only
<1>2. e3[t][new] # NULL /\ e3[t][new].acl_id = e2[t][new].acl_id
  BY DEF EntryMoves, Only
<1>3. e0[t][new] # NULL => e3[t][new].acl_id = e0[t][new].acl_id
  BY <1>2 DEF EntryMoves, Only
<1>4. e3[t][old] # NULL => e3[t][old].acl_id = e0[t][old].acl_id
  BY <1>2, <1>3 DEF EntryMoves, Only
<1>5. IdKept(e0, e3)
  BY <1>1, <1>3, <1>4, Zenon DEF IdKept
<1>6. ASSUME old = new, NEW u \in Table, NEW l \in List PROVE ButRules(e0[u][l], e3[u][l])
  <2>1. e3[t][old] # NULL /\ e3[t][old].num_intfs = e0[t][old].num_intfs
    BY <1>6 DEF EntryMoves, Only
  <2>2. e0[t][old] # NULL
    BY DEF EntryMoves
  <2> QED BY <1>1, <1>4, <1>6, <2>1, <2>2, Zenon DEF ButRules
<1>7. ASSUME old # new PROVE CountsMove(e0, e3, t, old, new)
  <2>1. IF e0[t][old].num_intfs = 1 THEN e3[t][old] = NULL
        ELSE e3[t][old] # NULL /\ e3[t][old].num_intfs = e0[t][old].num_intfs - 1
    BY <1>7 DEF EntryMoves, Only
  <2>2. e3[t][new].num_intfs = IF e0[t][new] = NULL THEN 1 ELSE e0[t][new].num_intfs + 1
    BY <1>7 DEF EntryMoves, Only
  <2> QED BY <1>1, <1>2, <2>1, <2>2, Zenon DEF CountsMove
<1> QED BY <1>2, <1>5, <1>6, <1>7, Zenon DEF Moved


\* A bundle is given list new (NULL for none) and its interfaces the ACL ID of it: what
\* all interfaces carry is right if the maps are.
LEMMA MoveKeeps ==
    ASSUME AclConstants, AclInv, NEW b \in Bundle, NEW t \in Table,
           NEW new \in {NULL} \union List, applied' = [applied EXCEPT ![b][t] = new],
           Good(entries', tcam', acl_ids', leaked), CountInv', IdKept(entries, entries'),
           new # NULL => entries'[t][new] # NULL,
           NEW acl, acl = (IF new = NULL THEN NULL ELSE entries'[t][new].acl_id),
           SetIntfAcl(b, t, acl),
           UNCHANGED <<content, ports, l3_intf, touched, leaked, acl_undefined>>
    PROVE  AclInv'
<1>1. acl \in {NULL} \union AclId
  <2>1. new # NULL => entries'[t][new] \in Entry
    BY Zenon DEF Good, EntryMaps, AclMap
  <2> QED BY <2>1 DEF Entry
<1>2. /\ port_acl' \in [Member -> {NULL} \union AclId]
      /\ router_acl' \in [Bundle -> {NULL} \union AclId]
  BY <1>1 DEF AclInv, AclTyped, SetIntfAcl
<1>0. applied \in [Bundle -> [Table -> {NULL} \union List]]
  BY AppliedFacts, Zenon
<1>3. applied' \in [Bundle -> [Table -> {NULL} \union List]]
  <2>1. PICK f \in [Table -> {NULL} \union List] : f = [applied[b] EXCEPT ![t] = new]
    BY <1>0, Zenon
  <2> QED BY <1>0, <2>1
<1>4. AclTyped'
  BY <1>2, <1>3, Zenon DEF AclTyped, AclInv, Good
<1>5. \A c \in Bundle, w \in Table :
         applied'[c][w] = IF c = b /\ w = t THEN new ELSE applied[c][w]
  BY <1>0, Zenon
<1>6. ASSUME NEW c \in Bundle, NEW w \in Table, c # b \/ w # t
      PROVE  AclOf(w, applied[c][w])' = AclOf(w, applied[c][w])
  <2>1. applied'[c][w] = applied[c][w] /\ applied[c][w] \in {NULL} \union List
    BY <1>0, <1>5, <1>6
  <2>2. CASE applied[c][w] = NULL
    BY <2>1, <2>2 DEF AclOf
  <2>3. CASE applied[c][w] \in List
    <3>1. PICK l \in List : l = applied[c][w]
      BY <2>3
    <3>2. entries[w][l] # NULL
      BY <3>1, UsersFacts DEF AclInv
    <3>3. entries'[w][l] # NULL
      <4>1. (Users(w, l))' = {d \in Bundle : applied'[d][w] = l} /\ c \in (Users(w, l))'
        BY <2>1, <3>1 DEF Users
      <4>2. IsFiniteSet((Users(w, l))')
        BY <4>1, FS_Subset DEF AclConstants
      <4> QED BY <4>1, <4>2, FS_EmptySet, Zenon DEF CountInv
    <3>4. l # NULL
      BY DEF AclConstants
    <3> QED BY <2>1, <3>1, <3>2, <3>3, <3>4 DEF AclOf, IdKept
  <2> QED BY <2>1, <2>2, <2>3
<1>7. AclOf(t, applied[b][t])' = acl
  BY <1>5 DEF AclOf
<1>8. ASSUME NEW p \in Member \ touched
      PROVE  port_acl'[p] = AclOf("pacl", applied[ports[p]]["pacl"])'
  <2>1. ports[p] \in Bundle /\ "pacl" \in Table /\ ports' = ports
    BY DEF AclInv, AclTyped, Table
  <2>2. CASE t = "pacl" /\ ports[p] = b
    <3>1. port_acl'[p] = acl
      BY <2>2 DEF SetIntfAcl, PortsOf
    <3> QED BY <1>7, <2>1, <2>2, <3>1
  <2>3. CASE t # "pacl" \/ ports[p] # b
    <3>1. port_acl'[p] = port_acl[p]
      BY <2>3 DEF SetIntfAcl, PortsOf
    <3>2. port_acl[p] = AclOf("pacl", applied[ports[p]]["pacl"])
      BY DEF AclInv, CarryInv
    <3>3. AclOf("pacl", applied[ports[p]]["pacl"])' = AclOf("pacl", applied[ports[p]]["pacl"])
      BY <1>6, <2>1, <2>3
    <3> QED BY <3>1, <3>2, <3>3
  <2> QED BY <2>2, <2>3
<1>9. ASSUME NEW c \in Bundle \ touched
      PROVE  router_acl'[c] = AclOf("racl", applied[c]["racl"])'
  <2>1. CASE t = "racl" /\ c = b
    <3>1. router_acl'[c] = acl
      BY <2>1 DEF SetIntfAcl, AclInv, AclTyped
    <3> QED BY <1>7, <2>1, <3>1, Zenon
  <2>2. CASE t # "racl" \/ c # b
    <3>1. router_acl'[c] = router_acl[c] /\ "racl" \in Table
      BY <2>2 DEF SetIntfAcl, AclInv, AclTyped, Table
    <3>2. router_acl[c] = AclOf("racl", applied[c]["racl"])
      BY DEF AclInv, CarryInv
    <3>3. AclOf("racl", applied[c]["racl"])' = AclOf("racl", applied[c]["racl"])
      BY <1>6, <2>2, <3>1
    <3> QED BY <3>1, <3>2, <3>3, Zenon
  <2> QED BY <2>1, <2>2
<1>10. CarryInv'
  BY <1>8, <1>9 DEF CarryInv
<1> QED BY <1>4, <1>10 DEF AclInv, Good
-----------------------------------------------------------------------------
(* Actions *)

\* Maps, TCAM and ACL IDs go together in a state of the invariant.
LEMMA NowGood ==
    ASSUME AclInv
    PROVE  Good(entries, tcam, acl_ids, leaked)
BY DEF AclInv, AclTyped, Good

\* The ACL IDs a list may get, and the places its rules may.
LEMMA ChoiceFacts ==
    ASSUME AclInv, NEW l \in List, NEW t \in Table
    PROVE  /\ \A acl \in AclIdsFor(l) : MayGet(l, acl, entries, acl_ids)
           /\ \A n : \A places \in Places(t, n) : PlacesIn(places, tcam[t], n)
<1>1. \A acl \in IdsOf(l, entries) : acl \in AclId
  <2>1. \A u \in Table : entries[u][l] # NULL => entries[u][l].acl_id \in AclId
    BY DEF AclInv, AclTyped, EntryMaps, AclMap, Entry
  <2> QED BY <2>1, IdsFacts
<1>2. \A acl \in AclIdsFor(l) : MayGet(l, acl, entries, acl_ids)
  BY <1>1 DEF AclIdsFor, MayGet
<1>3. \A n : \A places \in Places(t, n) : PlacesIn(places, tcam[t], n)
  BY DEF Places, Free, PlacesIn
<1> QED BY <1>2, <1>3

\* Nothing but the verdict changes when behaviour becomes undefined.
LEMMA UndefinedKeeps ==
    ASSUME AclInv, NEW why \in {"resources", "list_update"}, AclUndefined(why)
    PROVE  AclInv'
<1>1. AclTyped'
  BY DEF AclInv, AclTyped, AclUndefined, hwIntf
<1>2. CountInv' /\ CarryInv'
  BY DEF AclInv, CountInv, CarryInv, AclUndefined, hwIntf, Users, AclOf
<1> QED BY <1>1, <1>2, Zenon DEF AclInv, AclUndefined, TableInv, FreshRow

\* ops_xp_cls_apply: a first or another interface of the list in its table.
LEMMA ApplyKeeps ==
    ASSUME AclConstants, AclInv, NEW b \in Bundle, NEW t \in Table, NEW l \in List,
           apply(b, t, l)
    PROVE  AclInv'
<1>1. /\ Good(entries, tcam, acl_ids, leaked) /\ content \in [List -> Version]
      /\ entries \in EntryMaps /\ applied[b][t] = NULL /\ l # NULL
  BY NowGood DEF apply, AclInv, AclTyped, AclConstants
<1>2. CASE entries[t][l] = NULL /\ Exhausted(t, l) /\ AclUndefined("resources")
  BY <1>2, UndefinedKeeps
<1>3. ASSUME \/ entries[t][l] = NULL /\ acl_add(t, l, 1)
             \/ /\ entries[t][l] # NULL
                /\ entries' = [entries EXCEPT ![t][l].num_intfs = @ + 1]
                /\ UNCHANGED <<acl_ids, tcam>>,
             SetIntfAcl(b, t, entries'[t][l].acl_id),
             applied' = [applied EXCEPT ![b][t] = l],
             UNCHANGED <<content, ports, l3_intf, touched, leaked, acl_undefined>>
      PROVE  AclInv'
  <2>1. /\ Good(entries', tcam', acl_ids', leaked) /\ Only(entries, entries', t, l)
        /\ entries'[t][l] # NULL
        /\ entries'[t][l].num_intfs = IF entries[t][l] = NULL THEN 1
                                      ELSE entries[t][l].num_intfs + 1
        /\ entries[t][l] # NULL => entries'[t][l].acl_id = entries[t][l].acl_id
    <3>1. CASE entries[t][l] = NULL /\ acl_add(t, l, 1)
      <4>1. PICK acl \in AclIdsFor(l), places \in Places(t, NumRules[content[l]]) :
               /\ entries' = [entries EXCEPT ![t][l] =
                                [acl_id |-> acl, rules |-> places, num_intfs |-> 1]]
               /\ acl_ids' = acl_ids \union {acl}
               /\ tcam' = [tcam EXCEPT ![t] =
                             create_rule_entry_list(tcam[t], l, content[l], acl, places)]
        BY <3>1, Zenon DEF acl_add
      <4>2. MayGet(l, acl, entries, acl_ids) /\ PlacesIn(places, tcam[t], NumRules[content[l]])
        BY ChoiceFacts, Zenon
      <4>3. Added(entries, entries', tcam, tcam', acl_ids, t, l, acl, places, 1)
        BY <3>1, <4>1, <4>2, Zenon DEF Added
      <4>4. /\ Good(entries', tcam', acl_ids \union {acl}, leaked)
            /\ Only(entries, entries', t, l)
            /\ entries'[t][l] # NULL /\ entries'[t][l].num_intfs = 1
        <5>1. PICK one \in Nat :
                 one = 1 /\ Added(entries, entries', tcam, tcam', acl_ids, t, l, acl, places, one)
          BY <4>3, Zenon
        <5>2. AddedGood(entries, entries', tcam', acl_ids, leaked, t, l, acl, one)
          BY <1>1, <5>1, GoodAdd, Zenon
        <5> QED BY <5>1, <5>2, Zenon DEF AddedGood
      <4> QED BY <3>1, <4>1, <4>4
    <3>2. CASE /\ entries[t][l] # NULL
               /\ entries' = [entries EXCEPT ![t][l].num_intfs = @ + 1]
               /\ UNCHANGED <<acl_ids, tcam>>
      <4>1. PICK n \in Nat : n = entries[t][l].num_intfs + 1
        BY <1>1, <3>2 DEF EntryMaps, AclMap, Entry
      <4>2. entries' = [entries EXCEPT ![t][l] = [entries[t][l] EXCEPT !.num_intfs = n]]
        BY <3>2, <4>1, Zenon
      <4>3. Recounted(entries, entries', t, l, n)
        BY <1>1, <3>2, <4>2, Recount, Zenon
      <4>4. Good(entries', tcam, acl_ids, leaked)
        BY <1>1, <3>2, <4>3, GoodRecount, Zenon
      <4> QED BY <3>2, <4>1, <4>3, <4>4 DEF Recounted
    <3> QED BY <1>3, <3>1, <3>2
  <2>2. CountInv'
    <3>1. \A u \in Table, m \in List : u # t \/ m \notin {NULL, l} =>
             entries'[u][m] = entries[u][m]
      BY <2>1, Zenon DEF Only
    <3>2. /\ CountsMove(entries, entries', t, applied[b][t], l)
          /\ l \in {NULL} \union List /\ applied[b][t] # l
      BY <1>1, <2>1, <3>1 DEF CountsMove
    <3> QED BY <1>3, <3>2, CountMove, Zenon
  <2>3. IdKept(entries, entries')
    BY <2>1, Zenon DEF IdKept, Only
  <2> QED BY <1>1, <1>3, <2>1, <2>2, <2>3, MoveKeeps, Zenon
<1> QED BY <1>2, <1>3 DEF apply

\* ops_xp_cls_remove: the entry goes with its last interface.
LEMMA RemoveKeeps ==
    ASSUME AclConstants, AclInv, NEW b \in Bundle, NEW t \in Table, remove(b, t)
    PROVE  AclInv'
<1>1. /\ Good(entries, tcam, acl_ids, leaked) /\ content \in [List -> Version]
      /\ entries \in EntryMaps
  BY NowGood DEF AclInv, AclTyped
<1>2. PICK l \in List : l = applied[b][t] /\ l # NULL
  BY AppliedFacts, Zenon DEF remove
<1>3. PICK n \in Nat : /\ n = entries[t][l].num_intfs - 1 /\ entries[t][l].num_intfs = n + 1
                       /\ entries[t][l] # NULL
  BY <1>2, AppliedFacts, Zenon
<1>4. /\ SetIntfAcl(b, t, NULL) /\ applied' = [applied EXCEPT ![b][t] = NULL]
      /\ UNCHANGED <<content, ports, l3_intf, touched, leaked, acl_undefined>>
      /\ IF entries[t][l].num_intfs = 1
         THEN acl_delete(t, l, entries, tcam, acl_ids)
         ELSE /\ entries' = [entries EXCEPT ![t][l].num_intfs = @ - 1]
              /\ UNCHANGED <<acl_ids, tcam>>
  BY <1>2 DEF remove
<1>5. /\ Good(entries', tcam', acl_ids', leaked) /\ Only(entries, entries', t, l)
      /\ IF entries[t][l].num_intfs = 1 THEN entries'[t][l] = NULL
         ELSE /\ entries'[t][l] # NULL /\ entries'[t][l].acl_id = entries[t][l].acl_id
              /\ entries'[t][l].num_intfs = entries[t][l].num_intfs - 1
  <2>1. CASE entries[t][l].num_intfs = 1
    <3>1. acl_delete(t, l, entries, tcam, acl_ids)
      BY <1>4, <2>1
    <3> QED BY <1>1, <1>3, <2>1, <3>1, GoodDelete, Zenon
  <2>2. CASE entries[t][l].num_intfs # 1
    <3>1. entries' = [entries EXCEPT ![t][l] = [entries[t][l] EXCEPT !.num_intfs = n]]
      BY <1>3, <1>4, <2>2, Zenon
    <3>2. Recounted(entries, entries', t, l, n)
      BY <1>1, <1>3, <3>1, Recount, Zenon
    <3>3. Good(entries', tcam, acl_ids, leaked)
      BY <1>1, <1>3, <3>2, GoodRecount, Zenon
    <3> QED BY <1>3, <1>4, <2>2, <3>2, <3>3, Zenon DEF Recounted
  <2> QED BY <2>1, <2>2, Zenon
<1>6. CountInv'
  <2>1. \A u \in Table, m \in List : u # t \/ m \notin {l, NULL} =>
           entries'[u][m] = entries[u][m]
    BY <1>5, Zenon DEF Only
  <2>2. PICK new \in {NULL} \union List : new = NULL
    OBVIOUS
  <2>3. CountsMove(entries, entries', t, applied[b][t], new)
    BY <1>2, <1>5, <2>1, <2>2, Zenon DEF CountsMove
  <2> QED BY <1>2, <1>4, <2>2, <2>3, CountMove, Zenon
<1>7. IdKept(entries, entries')
  BY <1>5, Zenon DEF IdKept, Only
<1> QED BY <1>4, <1>5, <1>6, <1>7, MoveKeeps, Zenon

\* ops_xp_cls_replace with a list that is refused gives the interface back.
LEMMA ReplaceRefusedKeeps ==
    ASSUME AclConstants, AclInv, NEW b \in Bundle, NEW t \in Table, NEW new \in List,
           applied[b][t] # NULL, replace_refused(b, t, new),
           UNCHANGED <<content, ports, l3_intf, touched, leaked, acl_undefined>>
    PROVE  AclInv'
<1>1. PICK l \in List : l = applied[b][t] /\ l # NULL
  BY DEF AclInv, AclTyped
<1>2. entries[t][l] # NULL
  BY <1>1, UsersFacts DEF AclInv
<1>3. /\ UNCHANGED <<entries, acl_ids, tcam, applied>> /\ SetIntfAcl(b, t, entries[t][l].acl_id)
  BY <1>1 DEF replace_refused
<1>4. applied' = [applied EXCEPT ![b][t] = l]
  BY <1>1, <1>3 DEF AclInv, AclTyped
<1>5. Good(entries', tcam', acl_ids', leaked) /\ IdKept(entries, entries')
  BY <1>3, NowGood, Zenon DEF IdKept
<1>6. CountInv'
  BY <1>3 DEF AclInv, CountInv, Users
<1> QED BY <1>1, <1>2, <1>3, <1>4, <1>5, <1>6, MoveKeeps, Zenon

\* ops_xp_cls_replace with one that is not: the interface is taken from the old list and
\* given to the new one, which may be the same, and the old entry goes if it was its last.
LEMMA ReplaceAppliedKeeps ==
    ASSUME AclConstants, AclInv, NEW b \in Bundle, NEW t \in Table, NEW new \in List,
           applied[b][t] # NULL, replace_applied(b, t, new),
           UNCHANGED <<content, ports, l3_intf, touched, leaked, acl_undefined>>
    PROVE  AclInv'
<1> DEFINE old == applied[b][t]
           Taken == [entries EXCEPT ![t][old].num_intfs = @ - 1]
           Es(acl, places) ==
              [Taken EXCEPT ![t][new] =
                 IF entries[t][new] = NULL
                 THEN [acl_id |-> acl, rules |-> places, num_intfs |-> 1]
                 ELSE [Taken[t][new] EXCEPT !.num_intfs = Taken[t][new].num_intfs + 1]]
           Tc(acl, places) ==
              IF entries[t][new] = NULL
              THEN [tcam EXCEPT ![t] =
                      create_rule_entry_list(@, new, content[new], acl, places)]
              ELSE tcam
<1>0. PICK acl \in AclIdsFor(new),
           places \in IF entries[t][new] = NULL THEN Places(t, NumRules[content[new]])
                      ELSE {<<>>} :
         /\ IF Es(acl, places)[t][old].num_intfs = 0
            THEN acl_delete(t, old, Es(acl, places), Tc(acl, places), acl_ids \union {acl})
            ELSE /\ entries' = Es(acl, places) /\ tcam' = Tc(acl, places)
                 /\ acl_ids' = acl_ids \union {acl}
         /\ SetIntfAcl(b, t, Es(acl, places)[t][new].acl_id)
  BY Zenon DEF replace_applied
<1>1. old \in List /\ old = applied[b][t] /\ old # NULL /\ new # NULL
  BY AppliedFacts, Zenon DEF AclConstants
<1> HIDE DEF old, Taken, Es, Tc
<1>2. /\ Good(entries, tcam, acl_ids, leaked) /\ content \in [List -> Version]
      /\ entries \in EntryMaps
  BY NowGood, Zenon DEF AclInv, AclTyped
<1>3. entries[t][old] # NULL
  BY <1>1, AppliedFacts, Zenon
<1>4. PICK n \in Nat : n = entries[t][old].num_intfs - 1 /\ entries[t][old].num_intfs = n + 1
  BY <1>1, AppliedFacts, Zenon
<1>5. PICK taken : /\ taken = Taken
                   /\ taken = [entries EXCEPT ![t][old] = [entries[t][old] EXCEPT !.num_intfs = n]]
  BY <1>4, Zenon DEF Taken
<1>6. Recounted(entries, taken, t, old, n)
  BY <1>1, <1>2, <1>3, <1>5, Recount, Zenon
<1>7. /\ Good(taken, tcam, acl_ids, leaked) /\ taken \in EntryMaps
      /\ IdsOf(new, taken) = IdsOf(new, entries)
  <2>1. /\ Good(taken, tcam, acl_ids, leaked)
        /\ \A m \in List : IdsOf(m, taken) = IdsOf(m, entries)
    BY <1>1, <1>2, <1>3, <1>6, GoodRecount, Zenon
  <2> QED BY <1>6, <2>1, Zenon DEF Recounted
<1>8. /\ Only(entries, taken, t, old) /\ taken[t][old] # NULL /\ taken[t][old].num_intfs = n
      /\ taken[t][old].acl_id = entries[t][old].acl_id
  BY <1>6 DEF Recounted
<1>9. PICK es, tc, ids :
         /\ es = Es(acl, places) /\ tc = Tc(acl, places) /\ ids = acl_ids \union {acl}
         /\ IF es[t][old].num_intfs = 0 THEN acl_delete(t, old, es, tc, ids)
            ELSE entries' = es /\ tcam' = tc /\ acl_ids' = ids
         /\ SetIntfAcl(b, t, es[t][new].acl_id)
  BY <1>0, Zenon
<1>10. MayGet(new, acl, entries, acl_ids)
  BY ChoiceFacts
<1>11. /\ Good(es, tc, ids, leaked) /\ Only(taken, es, t, new) /\ es[t][new] # NULL
       /\ es[t][new].num_intfs = IF entries[t][new] = NULL THEN 1
                                 ELSE taken[t][new].num_intfs + 1
       /\ entries[t][new] # NULL => es[t][new].acl_id = taken[t][new].acl_id
  <2>1. CASE entries[t][new] = NULL
    <3>1. new # old /\ taken[t][new] = NULL
      BY <1>3, <1>8, <2>1, Zenon DEF Only
    <3>2. /\ MayGet(new, acl, taken, acl_ids)
          /\ PlacesIn(places, tcam[t], NumRules[content[new]])
      BY <1>7, <1>10, <2>1, ChoiceFacts DEF MayGet
    <3>3. PICK one \in Nat :
             one = 1 /\ Added(taken, es, tcam, tc, acl_ids, t, new, acl, places, one)
      <4>1. /\ es = [taken EXCEPT ![t][new] =
                       [acl_id |-> acl, rules |-> places, num_intfs |-> 1]]
            /\ tc = [tcam EXCEPT ![t] =
                       create_rule_entry_list(tcam[t], new, content[new], acl, places)]
        BY <1>5, <1>9, <2>1, Zenon DEF Es, Tc
      <4> QED BY <3>1, <3>2, <4>1, Zenon DEF Added
    <3>4. AddedGood(taken, es, tc, acl_ids, leaked, t, new, acl, one)
      BY <1>2, <1>7, <3>3, GoodAdd, Zenon
    <3> QED BY <1>9, <2>1, <3>3, <3>4, Zenon DEF AddedGood
  <2>2. CASE entries[t][new] # NULL
    <3>1. taken[t][new] # NULL
      BY <1>1, <1>8, <2>2 DEF Only
    <3>2. PICK k \in Nat : k = taken[t][new].num_intfs + 1
      BY <1>7, <3>1 DEF EntryMaps, AclMap, Entry
    <3>3. es = [taken EXCEPT ![t][new] = [taken[t][new] EXCEPT !.num_intfs = k]] /\ tc = tcam
      <4>1. es = [taken EXCEPT ![t][new] =
                    IF entries[t][new] = NULL
                    THEN [acl_id |-> acl, rules |-> places, num_intfs |-> 1]
                    ELSE [taken[t][new] EXCEPT !.num_intfs = taken[t][new].num_intfs + 1]]
        BY <1>5, <1>9, Zenon DEF Es
      <4>2. (IF entries[t][new] = NULL
             THEN [acl_id |-> acl, rules |-> places, num_intfs |-> 1]
             ELSE [taken[t][new] EXCEPT !.num_intfs = taken[t][new].num_intfs + 1])
               = [taken[t][new] EXCEPT !.num_intfs = k]
        BY <2>2, <3>2, Zenon
      <4>3. tc = tcam
        BY <1>9, <2>2, Zenon DEF Tc
      <4> QED BY <4>1, <4>2, <4>3, Zenon
    <3>4. Recounted(taken, es, t, new, k)
      BY <1>7, <3>1, <3>3, Recount, Zenon
    <3>5. Good(es, tcam, acl_ids, leaked)
      BY <1>7, <3>1, <3>4, GoodRecount, Zenon
    <3>6. ids = acl_ids
      <4>1. acl \in IdsOf(new, entries)
        BY <1>10, <2>2, IdsFacts, Zenon DEF MayGet
      <4>2. HasId(entries, acl)
        BY <4>1, IdsFacts DEF HasId
      <4>3. acl \in acl_ids
        BY <1>2, <4>2 DEF Good, IdsInv
      <4> QED BY <1>9, <4>3
    <3> QED BY <2>2, <3>2, <3>3, <3>4, <3>5, <3>6 DEF Recounted
  <2> QED BY <2>1, <2>2, Zenon
<1>12. /\ es[t][old] # NULL
       /\ es[t][old].num_intfs = IF old = new THEN n + 1 ELSE n
       /\ old # new => es[t][old] = taken[t][old]
  BY <1>1, <1>3, <1>8, <1>11, Zenon DEF Only
<1>13. /\ Good(entries', tcam', acl_ids', leaked) /\ Only(es, entries', t, old)
       /\ IF old # new /\ n = 0 THEN entries'[t][old] = NULL ELSE entries'[t][old] = es[t][old]
  <2>1. CASE es[t][old].num_intfs = 0
    <3>1. acl_delete(t, old, es, tc, ids)
      BY <1>9, <2>1, Zenon
    <3>2. /\ Good(entries', tcam', acl_ids', leaked) /\ Only(es, entries', t, old)
          /\ entries'[t][old] = NULL
      BY <1>1, <1>11, <1>12, <3>1, GoodDelete, Zenon
    <3>3. old # new /\ n = 0
      BY <1>12, <2>1
    <3> QED BY <3>2, <3>3, Zenon
  <2>2. CASE es[t][old].num_intfs # 0
    <3>1. entries' = es /\ tcam' = tc /\ acl_ids' = ids
      BY <1>9, <2>2, Zenon
    <3> QED BY <1>11, <1>12, <2>2, <3>1, Zenon DEF Only
  <2> QED BY <2>1, <2>2, Zenon
<1>14. EntryMoves(entries, taken, es, entries', t, old, new, n)
  BY <1>3, <1>4, <1>8, <1>11, <1>13, Zenon DEF EntryMoves
<1>15. Moved(entries, es, entries', t, old, new)
  BY <1>1, <1>4, <1>14, EntryMovesFacts, Zenon
<1>16. applied' = [applied EXCEPT ![b][t] = new]
  BY Zenon DEF replace_applied
<1>17. CountInv'
  <2>1. CASE old = new
    <3>1. applied' = applied
      BY <1>1, <1>16, <2>1, Zenon DEF AclInv, AclTyped
    <3> QED BY <1>15, <2>1, <3>1, CountSame, Zenon DEF AclInv, Moved
  <2>2. CASE old # new
    <3>1. new \in {NULL} \union List
      OBVIOUS
    <3> QED BY <1>1, <1>15, <1>16, <2>2, <3>1, CountMove, Zenon DEF Moved
  <2> QED BY <2>1, <2>2
<1>18. SetIntfAcl(b, t, entries'[t][new].acl_id) /\ new \in {NULL} \union List
  BY <1>9, <1>15, Zenon DEF Moved
<1> QED BY <1>1, <1>13, <1>15, <1>16, <1>17, <1>18, MoveKeeps, Zenon DEF Moved

\* ops_xp_cls_replace, with all its outcomes.
LEMMA ReplaceKeeps ==
    ASSUME AclConstants, AclInv, NEW b \in Bundle, NEW t \in Table, NEW new \in List,
           replace(b, t, new)
    PROVE  AclInv'
<1>1. CASE AclUndefined("resources")
  BY <1>1, UndefinedKeeps
<1>2. ASSUME replace_refused(b, t, new) \/ replace_applied(b, t, new),
             UNCHANGED <<content, ports, l3_intf, touched, leaked, acl_undefined>>
      PROVE  AclInv'
  <2>1. applied[b][t] # NULL
    BY DEF replace
  <2> QED BY <1>2, <2>1, ReplaceRefusedKeeps, ReplaceAppliedKeeps, Zenon
<1> QED BY <1>1, <1>2, Zenon DEF replace

\* ops_xp_cls_apply for the direction out: a new ACL ID is a leftover, and the ports
\* that carry it have changed under their list.
LEMMA ApplyOutKeeps ==
    ASSUME AclConstants, AclInv, NEW b \in Bundle, NEW l \in List, apply_out(b, l)
    PROVE  AclInv'
<1>1. CASE AclUndefined("resources")
  BY <1>1, UndefinedKeeps
<1>2. ASSUME NEW acl \in AclIdsFor(l), acl_ids' = acl_ids \union {acl},
             leaked' = (IF IdsOf(l, entries) = {} THEN leaked \union {acl} ELSE leaked),
             SetIntfAcl(b, "pacl", acl), touched' = touched \union PortsOf(b),
             UNCHANGED <<content, entries, tcam, ports, l3_intf, applied, acl_undefined>>
      PROVE  AclInv'
  <2>1. MayGet(l, acl, entries, acl_ids)
    BY ChoiceFacts DEF Table
  <2>2. IdsInv(entries, acl_ids', leaked')
    <3>1. CASE IdsOf(l, entries) = {}
      BY <1>2, <2>1, <3>1 DEF MayGet, AclInv, IdsInv
    <3>2. CASE IdsOf(l, entries) # {}
      <4>1. HasId(entries, acl)
        BY <2>1, <3>2, IdsFacts DEF MayGet, HasId
      <4> QED BY <1>2, <3>2, <4>1 DEF AclInv, IdsInv
    <3> QED BY <3>1, <3>2
  <2>3. AclTyped'
    <3>1. /\ port_acl' \in [Member -> {NULL} \union AclId]
          /\ router_acl' = router_acl
      BY <1>2, <2>1 DEF SetIntfAcl, MayGet, AclInv, AclTyped
    <3>2. touched' \subseteq Member \union Bundle
      BY <1>2 DEF PortsOf, AclInv, AclTyped
    <3> QED BY <1>2, <2>1, <3>1, <3>2, Zenon DEF MayGet, AclInv, AclTyped
  <2>4. CarryInv'
    <3>1. ASSUME NEW p \in Member \ touched'
          PROVE  port_acl'[p] = AclOf("pacl", applied[ports[p]]["pacl"])'
      <4>1. p \in Member \ touched /\ p \notin PortsOf(b)
        BY <1>2
      <4>2. port_acl'[p] = port_acl[p]
        BY <1>2, <4>1 DEF SetIntfAcl
      <4> QED BY <1>2, <4>1, <4>2, Zenon DEF AclInv, CarryInv, AclOf
    <3>2. ASSUME NEW c \in Bundle \ touched'
          PROVE  router_acl'[c] = AclOf("racl", applied[c]["racl"])'
      <4>1. router_acl' = router_acl /\ c \in Bundle \ touched
        BY <1>2 DEF SetIntfAcl
      <4> QED BY <1>2, <4>1, Zenon DEF AclInv, CarryInv, AclOf
    <3> QED BY <3>1, <3>2 DEF CarryInv
  <2>5. CountInv'
    BY <1>2, Zenon DEF AclInv, CountInv, Users
  <2> QED BY <1>2, <2>2, <2>3, <2>4, <2>5 DEF AclInv
<1> QED BY <1>1, <1>2, Zenon DEF apply_out

\* A port that changes its bundle, under a list or not.
LEMMA PortMovesKeeps ==
    ASSUME AclConstants, AclInv, NEW p \in Member, NEW b \in Bundle, port_moves(p, b)
    PROVE  AclInv'
<1>1. AclTyped'
  BY DEF AclInv, AclTyped, port_moves
<1>2. CountInv'
  BY Zenon DEF AclInv, CountInv, Users, port_moves
<1>3. ASSUME NEW q \in Member \ touched'
      PROVE  port_acl'[q] = AclOf("pacl", applied[ports[q]]["pacl"])'
  <2>1. q \in Member \ touched /\ port_acl[q] = AclOf("pacl", applied[ports[q]]["pacl"])
    BY DEF port_moves, AclInv, CarryInv
  <2>2. CASE q # p
    BY <2>1, <2>2, Zenon DEF port_moves, AclInv, AclTyped, AclOf
  <2>3. CASE q = p
    <3>1. applied[b]["pacl"] = NULL /\ applied[ports[p]]["pacl"] = NULL
      BY <2>3 DEF port_moves
    <3>2. ports'[p] = b
      BY DEF port_moves, AclInv, AclTyped
    <3> QED BY <2>1, <2>3, <3>1, <3>2, Zenon DEF port_moves, AclOf
  <2> QED BY <2>2, <2>3
<1>4. CarryInv'
  BY <1>3, Zenon DEF CarryInv, AclInv, port_moves, AclOf
<1> QED BY <1>1, <1>2, <1>4, Zenon DEF AclInv, port_moves

\* An L3 interface that comes or goes, under a list or not.
LEMMA L3IntfKeeps ==
    ASSUME AclConstants, AclInv, NEW b \in Bundle, l3_intf_changes(b)
    PROVE  AclInv'
<1>1. AclTyped'
  BY DEF AclInv, AclTyped, l3_intf_changes
<1>2. CountInv'
  BY Zenon DEF AclInv, CountInv, Users, l3_intf_changes
<1>3. ASSUME NEW c \in Bundle \ touched'
      PROVE  router_acl'[c] = AclOf("racl", applied[c]["racl"])'
  <2>1. c \in Bundle \ touched /\ router_acl[c] = AclOf("racl", applied[c]["racl"])
    BY DEF l3_intf_changes, AclInv, CarryInv
  <2>2. CASE c # b
    BY <2>1, <2>2, Zenon DEF l3_intf_changes, AclInv, AclTyped, AclOf
  <2>3. CASE c = b
    BY <2>1, <2>3 DEF l3_intf_changes, AclInv, AclTyped, AclOf
  <2> QED BY <2>2, <2>3
<1>4. ASSUME NEW q \in Member \ touched'
      PROVE  port_acl'[q] = AclOf("pacl", applied[ports[q]]["pacl"])'
  BY Zenon DEF l3_intf_changes, AclInv, CarryInv, AclOf
<1>5. CarryInv'
  BY <1>3, <1>4 DEF CarryInv
<1> QED BY <1>1, <1>2, <1>5 DEF AclInv, l3_intf_changes

\* The map and TCAM of table t once list l is at version v.
UpdatedIn(t, l, v, new, newrow) ==
    /\ new \in AclMap /\ new[l] # NULL /\ new[l].acl_id = entries[t][l].acl_id
    /\ new[l].num_intfs = entries[t][l].num_intfs
    /\ \A m \in List \ {l} : new[m] = entries[t][m]
    /\ newrow \in AclRow /\ RowInv(new, newrow)
    /\ \A newct : newct[l] = v /\ (\A m \in List \ {l} : newct[m] = content[m])
                    => FreshRow(new, newrow, newct)

\* ops_xp_cls_list_update where it replaces the rules: map and TCAM of one table.
LEMMA UpdateRow ==
    ASSUME AclConstants, AclInv, NEW l \in List, NEW v \in Version, NEW t \in Updated(l),
           NEW places, places \in Places(t, NumRules[v]),
           NEW new, new = WithRules(entries[t], l, places),
           NEW newrow, newrow = destroy_rule_entry_list(
                                  create_rule_entry_list(tcam[t], l, v, entries[t][l].acl_id,
                                                         places),
                                  entries[t][l].rules)
    PROVE  UpdatedIn(t, l, v, new, newrow)
<1>1. PICK map \in AclMap, row \in AclRow, n \in Nat :
         map = entries[t] /\ row = tcam[t] /\ n = NumRules[v]
  BY Zenon DEF AclInv, AclTyped, EntryMaps, AclConstants, Updated, Table
<1>2. /\ map[l] # NULL /\ RowInv(map, row) /\ FreshRow(map, row, content) /\ t \in Table
  BY <1>1 DEF Updated, AclInv, TableInv, Table
<1>3. PlacesIn(places, row, n)
  BY <1>1, <1>2, ChoiceFacts, Zenon
<1>4. places \in Seq(Tcam) /\ NULL \notin Rule
  <2>1. places \in [1..n -> {i \in Tcam : row[i] = NULL}]
    BY <1>3, Zenon DEF PlacesIn
  <2>2. places \in Seq(Tcam)
    BY <2>1
  <2> QED BY <2>2, Zenon DEF AclConstants
<1>5. /\ new \in AclMap /\ NewRules(map, new, l, places)
      /\ new[l].num_intfs = map[l].num_intfs
  <2>1. new = WithRules(map, l, places)
    BY <1>1, Zenon
  <2> QED BY <1>2, <1>4, <2>1, UpdateEntry, Zenon
<1>6. newrow = destroy_rule_entry_list(
                 create_rule_entry_list(row, l, v, map[l].acl_id, places), map[l].rules)
  BY <1>1, Zenon
<1>7. RowUpdated(map, row, new, newrow, l, v, n)
  BY <1>2, <1>3, <1>4, <1>5, <1>6, RowUpdate, Zenon
<1> QED BY <1>1, <1>2, <1>5, <1>7, Zenon DEF RowUpdated, NewRules, UpdatedIn

\* Interfaces and ACL IDs do not change while rules and contents do.
LEMMA RulesKeep ==
    ASSUME AclConstants, AclInv, content' \in [List -> Version], entries' \in EntryMaps,
           tcam' \in [Table -> AclRow], acl_undefined' \in {"no", "resources", "list_update"},
           TableInv(entries', tcam', content'), UNCHANGED <<acl_ids, hwIntf, leaked>>,
           \A t \in Table, l \in List : ButRules(entries[t][l], entries'[t][l])
    PROVE  AclInv'
<1>1. AclTyped'
  BY Zenon DEF AclInv, AclTyped, hwIntf
<1>2. applied' = applied
  BY Zenon DEF hwIntf
<1>3. CountInv'
  BY <1>2, CountSame, Zenon DEF AclInv
<1>4. IdsInv(entries', acl_ids, leaked)
  BY IdsSame, Zenon DEF AclInv
<1>5. ASSUME NEW c \in Bundle, NEW t \in Table
      PROVE  AclOf(t, applied[c][t])' = AclOf(t, applied[c][t])
  <2>1. applied[c][t] \in {NULL} \union List /\ applied' = applied
    BY DEF AclInv, AclTyped, hwIntf
  <2>2. CASE applied[c][t] = NULL
    BY <2>1, <2>2, Zenon DEF AclOf
  <2>3. CASE applied[c][t] \in List
    <3>1. PICK l \in List : l = applied[c][t]
      BY <2>3
    <3>2. entries[t][l] # NULL
      BY <3>1, UsersFacts, Zenon DEF AclInv
    <3> QED BY <2>1, <3>1, <3>2 DEF AclOf, ButRules
  <2> QED BY <2>1, <2>2, <2>3, Zenon
<1>6. CarryInv'
  <2>1. /\ \A p \in Member : ports[p] \in Bundle
        /\ "pacl" \in Table /\ "racl" \in Table
        /\ UNCHANGED <<ports, touched, port_acl, router_acl>>
    BY Zenon DEF AclInv, AclTyped, Table, hwIntf
  <2>2. ASSUME NEW p \in Member \ touched
        PROVE  port_acl'[p] = AclOf("pacl", applied[ports[p]]["pacl"])'
    <3>1. PICK c \in Bundle : c = ports[p] /\ c = ports'[p]
      BY <2>1, Zenon
    <3> QED BY <1>5, <2>1, <3>1, Zenon DEF AclInv, CarryInv
  <2>3. ASSUME NEW c \in Bundle \ touched
        PROVE  router_acl'[c] = AclOf("racl", applied[c]["racl"])'
    BY <1>5, <2>1, Zenon DEF AclInv, CarryInv
  <2> QED BY <2>1, <2>2, <2>3, Zenon DEF CarryInv
<1> QED BY <1>1, <1>3, <1>4, <1>6, Zenon DEF AclInv

\* ops_xp_cls_list_update replaces the rules in both tables that have the list.
LEMMA UpdateRulesKeeps ==
    ASSUME AclConstants, AclInv, NEW l \in List, NEW v \in Version, list_update_rules(l, v),
           content' = [content EXCEPT ![l] = v], UNCHANGED acl_undefined,
           UNCHANGED <<acl_ids, hwIntf, leaked>>
    PROVE  AclInv'
<1>1. PICK places :
         /\ \A t \in Updated(l) : places[t] \in Places(t, NumRules[v])
         /\ tcam' = [t \in Table |->
                       IF t \in Updated(l)
                       THEN destroy_rule_entry_list(
                              create_rule_entry_list(tcam[t], l, v, entries[t][l].acl_id,
                                                     places[t]),
                              entries[t][l].rules)
                       ELSE tcam[t]]
         /\ entries' = [t \in Table |->
                          IF t \in Updated(l) THEN WithRules(entries[t], l, places[t])
                          ELSE entries[t]]
  BY Zenon DEF list_update_rules, WithRules
<1>2. /\ content' \in [List -> Version] /\ content'[l] = v
      /\ \A m \in List \ {l} : content'[m] = content[m]
  BY DEF AclInv, AclTyped
<1>3. ASSUME NEW t \in Updated(l)
      PROVE  /\ entries'[t] \in AclMap /\ entries'[t][l] # NULL
             /\ entries'[t][l].acl_id = entries[t][l].acl_id
             /\ entries'[t][l].num_intfs = entries[t][l].num_intfs
             /\ \A m \in List \ {l} : entries'[t][m] = entries[t][m]
             /\ tcam'[t] \in AclRow /\ RowInv(entries'[t], tcam'[t])
             /\ FreshRow(entries'[t], tcam'[t], content')
  <2>1. PICK pl, new, newrow :
           /\ pl \in Places(t, NumRules[v]) /\ new = entries'[t] /\ newrow = tcam'[t]
           /\ new = WithRules(entries[t], l, pl)
           /\ newrow = destroy_rule_entry_list(
                         create_rule_entry_list(tcam[t], l, v, entries[t][l].acl_id, pl),
                         entries[t][l].rules)
    <3>1. t \in Table
      BY DEF Updated, Table
    <3> QED BY <1>1, <3>1, Zenon
  <2>2. UpdatedIn(t, l, v, new, newrow)
    BY <2>1, UpdateRow, Zenon
  <2> QED BY <1>2, <2>1, <2>2, Zenon DEF UpdatedIn
<1>4. ASSUME NEW t \in Table, t \notin Updated(l)
      PROVE  /\ entries'[t] = entries[t] /\ tcam'[t] = tcam[t]
             /\ entries'[t] \in AclMap /\ tcam'[t] \in AclRow
             /\ RowInv(entries'[t], tcam'[t])
             /\ t # "bacl" => entries[t][l] = NULL /\ FreshRow(entries'[t], tcam'[t], content')
  <2>1. entries'[t] = entries[t] /\ tcam'[t] = tcam[t]
    BY <1>1, <1>4, Zenon
  <2>2. entries[t] \in AclMap /\ tcam[t] \in AclRow /\ RowInv(entries[t], tcam[t])
    BY DEF AclInv, AclTyped, EntryMaps, TableInv
  <2>3. ASSUME t # "bacl" PROVE entries[t][l] = NULL /\ FreshRow(entries[t], tcam[t], content)
    BY <1>4, <2>3 DEF Updated, Table, AclInv, TableInv
  <2>4. ASSUME t # "bacl" PROVE FreshRow(entries[t], tcam[t], content')
    BY <1>2, <2>3, <2>4, FreshElsewhere, Zenon
  <2> QED BY <2>1, <2>2, <2>3, <2>4, Zenon
<1>5. /\ \A t \in Table : entries'[t] \in AclMap /\ tcam'[t] \in AclRow
      /\ \A t \in Table, m \in List : ButRules(entries[t][m], entries'[t][m])
  <2>1. ASSUME NEW t \in Updated(l), NEW m \in List
        PROVE  ButRules(entries[t][m], entries'[t][m])
    <3>1. entries[t][l] # NULL
      BY DEF Updated
    <3>2. CASE m = l
      BY <1>3, <3>1, <3>2, Zenon DEF ButRules
    <3>3. CASE m # l
      BY <1>3, <3>3, Zenon DEF ButRules
    <3> QED BY <3>2, <3>3
  <2>2. ASSUME NEW t \in Table, t \notin Updated(l), NEW m \in List
        PROVE  ButRules(entries[t][m], entries'[t][m])
    BY <1>4, <2>2, Zenon DEF ButRules
  <2> QED BY <1>3, <1>4, <2>1, <2>2, Zenon
<1>6. entries' \in EntryMaps /\ tcam' \in [Table -> AclRow]
  BY <1>1, <1>5, Zenon DEF EntryMaps
<1>7. TableInv(entries', tcam', content')
  BY <1>3, <1>4, Zenon DEF TableInv, Table
<1>8. acl_undefined' \in {"no", "resources", "list_update"}
  BY DEF AclInv, AclTyped
<1> QED BY <1>2, <1>5, <1>6, <1>7, <1>8, RulesKeep, Zenon

\* ops_xp_cls_list_update, with all its outcomes.
LEMMA ListUpdateKeeps ==
    ASSUME AclConstants, AclInv, NEW l \in List, NEW v \in Version, list_update(l, v)
    PROVE  AclInv'
<1>1. UNCHANGED <<acl_ids, hwIntf, leaked>>
  BY DEF list_update
<1>2. CASE /\ list_update_rules(l, v) /\ content' = [content EXCEPT ![l] = v]
           /\ UNCHANGED acl_undefined
  BY <1>1, <1>2, UpdateRulesKeeps, Zenon
<1>3. ASSUME UNCHANGED <<entries, tcam>>,
             acl_undefined' \in {"no", "resources", "list_update"},
             content' = content \/ (IdsOf(l, entries) = {} /\ content' = [content EXCEPT ![l] = v])
      PROVE  AclInv'
  <2>1. content' \in [List -> Version]
    BY <1>3 DEF AclInv, AclTyped
  <2>2. TableInv(entries, tcam, content')
    <3>1. CASE content' = content
      BY <3>1 DEF AclInv
    <3>2. CASE IdsOf(l, entries) = {} /\ content' = [content EXCEPT ![l] = v]
      <4>1. \A t \in Table : entries[t][l] = NULL
        BY <3>2, IdsFacts, Zenon
      <4>2. \A m \in List \ {l} : content'[m] = content[m]
        BY <3>2 DEF AclInv, AclTyped
      <4>3. \A t \in {"pacl", "racl"} : FreshRow(entries[t], tcam[t], content')
        <5>1. \A t \in {"pacl", "racl"} : t \in Table /\ FreshRow(entries[t], tcam[t], content)
          BY DEF AclInv, TableInv, Table
        <5> QED BY <4>1, <4>2, <5>1, FreshElsewhere, Zenon
      <4> QED BY <4>3 DEF AclInv, TableInv
    <3> QED BY <1>3, <3>1, <3>2
  <2>3. entries' \in EntryMaps /\ tcam' \in [Table -> AclRow] /\ TableInv(entries', tcam', content')
    BY <1>3, <2>2 DEF AclInv, AclTyped
  <2>4. \A t \in Table, m \in List : ButRules(entries[t][m], entries'[t][m])
    BY <1>3, Zenon DEF ButRules
  <2> QED BY <1>1, <1>3, <2>1, <2>3, <2>4, RulesKeep, Zenon
<1>4. acl_undefined \in {"no", "resources", "list_update"}
  BY DEF AclInv, AclTyped
<1> QED BY <1>2, <1>3, <1>4, Zenon DEF list_update
-----------------------------------------------------------------------------
(* Theorems *)

\* Nothing is applied at first.
LEMMA AclInitInv ==
    ASSUME AclConstants, AclInit
    PROVE  AclInv
<1>1. \A t \in Table, l \in List : entries[t][l] = NULL
  BY DEF AclInit
<1>2. \A t \in Table, i \in Tcam : tcam[t][i] = NULL
  BY DEF AclInit
<1>3. AclTyped
  <2>1. entries \in EntryMaps
    BY DEF AclInit, EntryMaps, AclMap
  <2>2. tcam \in [Table -> AclRow]
    BY DEF AclInit, AclRow
  <2>3. applied \in [Bundle -> [Table -> {NULL} \union List]]
    BY DEF AclInit
  <2> QED BY <2>1, <2>2, <2>3 DEF AclInit, AclTyped
<1>4. IdsInv(entries, acl_ids, leaked)
  BY <1>1 DEF AclInit, IdsInv, OneId, HasId
<1>5. TableInv(entries, tcam, content)
  BY <1>1, <1>2 DEF TableInv, RowInv, FreshRow, Table
<1>6. CountInv
  <2>1. \A t \in Table, l \in List : Users(t, l) = {}
    BY DEF AclInit, Users, AclConstants
  <2> QED BY <1>1, <2>1, FS_EmptySet DEF CountInv
<1>7. CarryInv
  BY DEF AclInit, CarryInv, AclOf, Table
<1> QED BY <1>3, <1>4, <1>5, <1>6, <1>7 DEF AclInv

\* Entries, ACL IDs, rules in the TCAM, counts and what interfaces carry belong
\* together after any sequence of calls (ops-xp-classifier.c).
THEOREM AclInvariant ==
    ASSUME AclConstants
    PROVE  AclSpec => []AclInv
<1>1. AclInit => AclInv
  BY AclInitInv
<1>2. AclInv /\ [AclNext]_aclVars => AclInv'
  <2> SUFFICES ASSUME AclInv, [AclNext]_aclVars PROVE AclInv'
    OBVIOUS
  <2>1. CASE UNCHANGED aclVars
    <3>1. AclTyped'
      BY <2>1 DEF aclVars, AclInv, AclTyped
    <3>2. CountInv' /\ CarryInv'
      BY <2>1, Zenon DEF aclVars, AclInv, CountInv, CarryInv, Users, AclOf
    <3> QED BY <2>1, <3>1, <3>2 DEF aclVars, AclInv
  <2>2. CASE AclNext
    BY <2>2, RemoveKeeps, ApplyKeeps, ReplaceKeeps, ApplyOutKeeps, ListUpdateKeeps,
       PortMovesKeeps, L3IntfKeeps, Zenon DEF AclNext
  <2> QED BY <2>1, <2>2
<1> QED BY <1>1, <1>2, PTL DEF AclSpec

\* The maps, the TCAM and what interfaces carry are of their types.
THEOREM AclTypesCorrect ==
    ASSUME AclConstants
    PROVE  AclSpec => []AclTypeOK
<1>1. AclInv => AclTypeOK
  BY DEF AclInv, AclTyped, IdsInv, AclTypeOK, EntryMaps, AclMap, AclRow
<1> QED BY <1>1, AclInvariant, PTL

\* A list has an entry in a table exactly as long as it is applied to an interface
\* through it, and num_intfs is the number of these, whatever is applied, removed,
\* replaced or refused.
THEOREM CountsStayExact ==
    ASSUME AclConstants
    PROVE  AclSpec => []CountsExact
<1>1. AclInv => CountsExact
  <2> SUFFICES ASSUME AclInv, NEW t \in Table, NEW l \in List
               PROVE  IF Cardinality({b \in Bundle : applied[b][t] = l}) = 0
                      THEN entries[t][l] = NULL
                      ELSE /\ entries[t][l] # NULL
                           /\ entries[t][l].num_intfs
                                = Cardinality({b \in Bundle : applied[b][t] = l})
    BY Zenon DEF CountsExact
  <2>1. Users(t, l) = {b \in Bundle : applied[b][t] = l}
    BY DEF Users
  <2> QED BY <2>1, Zenon DEF AclInv, CountInv
<1> QED BY <1>1, AclInvariant, PTL

\* An ACL ID belongs to one list in all tables, and the allocated ones are those of the
\* entries and the leftovers of the direction out.
THEOREM AclIdsStayExact ==
    ASSUME AclConstants
    PROVE  AclSpec => []AclIdsExact
<1>1. ASSUME AclInv PROVE AclIdsExact
  <2>1. /\ OneId(entries) /\ leaked \subseteq acl_ids
        /\ \A a : HasId(entries, a) <=> a \in acl_ids \ leaked
    BY <1>1 DEF AclInv, IdsInv
  <2>2. ASSUME NEW l \in List PROVE Cardinality(IdsOf(l, entries)) <= 1
    <3>1. CASE IdsOf(l, entries) = {}
      BY <3>1, FS_EmptySet
    <3>2. CASE IdsOf(l, entries) # {}
      <4>1. PICK a : a \in IdsOf(l, entries)
        BY <3>2
      <4>2. \A c \in IdsOf(l, entries) : c = a
        BY <2>1, <4>1, IdsFacts DEF OneId
      <4>3. IdsOf(l, entries) = {a}
        BY <4>1, <4>2
      <4>4. Cardinality(IdsOf(l, entries)) = 1
        BY <4>3, FS_Singleton, Zenon
      <4> QED BY <4>4
    <3> QED BY <3>1, <3>2
  <2>3. ASSUME NEW l \in List, NEW m \in List,
               IdsOf(l, entries) \intersect IdsOf(m, entries) # {}
        PROVE  l = m
    BY <2>1, <2>3, IdsFacts DEF OneId
  <2>4. acl_ids = leaked \union UNION {IdsOf(l, entries) : l \in List}
    <3>1. \A a : a \in UNION {IdsOf(l, entries) : l \in List} <=> HasId(entries, a)
      <4>1. \A a : a \in UNION {IdsOf(l, entries) : l \in List}
                     <=> \E l \in List : a \in IdsOf(l, entries)
        BY Zenon
      <4>2. \A a, l : a \in IdsOf(l, entries)
                        <=> \E t \in Table : entries[t][l] # NULL /\ entries[t][l].acl_id = a
        BY IdsFacts
      <4>3. ASSUME NEW a
            PROVE  (\E l \in List : a \in IdsOf(l, entries)) <=> HasId(entries, a)
        BY <4>2 DEF HasId
      <4> QED BY <4>1, <4>3, Zenon
    <3> QED BY <2>1, <3>1
  <2> QED BY <2>2, <2>3, <2>4 DEF AclIdsExact
<1> QED BY <1>1, AclInvariant, PTL

\* The rules with a list's ACL ID in the TCAM of a table are those its entry knows, one
\* for each rule of its present content.
LEMMA RulesOfList ==
    ASSUME AclConstants, AclInv, NEW t \in {"pacl", "racl"}, NEW l \in List,
           entries[t][l] # NULL
    PROVE  Filters(t, l, entries[t][l].acl_id)
<1>1. PICK map \in AclMap, row \in AclRow : map = entries[t] /\ row = tcam[t]
  BY DEF AclInv, AclTyped, EntryMaps, Table
<1>2. RowInv(map, row) /\ FreshRow(map, row, content)
  BY <1>1 DEF AclInv, TableInv, Table
<1>3. PICK n \in Nat : n = NumRules[content[l]]
  BY DEF AclConstants, AclInv, AclTyped
<1>a. Written(map[l], l, row)
  BY <1>1, <1>2 DEF RowInv
<1>b. /\ DOMAIN map[l].rules = 1..n
      /\ \A k \in DOMAIN map[l].rules : row[map[l].rules[k]].version = content[l]
  BY <1>1, <1>2, <1>3, Zenon DEF FreshRow
<1>c. PICK s : s = map[l].rules
  BY Zenon
<1>4. /\ s = map[l].rules /\ DOMAIN s = 1..n
      /\ \A k \in 1..n : /\ row[s[k]] # NULL /\ row[s[k]].acl_id = map[l].acl_id
                         /\ row[s[k]].list = l /\ row[s[k]].number = k
                         /\ row[s[k]].version = content[l]
  BY <1>a, <1>b, <1>c, Zenon DEF Written
<1>5. s \in Seq(Tcam) /\ \A k \in 1..n : s[k] \in Tcam
  <2>1. s \in Seq(Tcam)
    BY <1>1, <1>4, Zenon DEF AclMap, Entry
  <2> QED BY <1>4, <2>1
<1>6. PICK rules : rules = {i \in Tcam : row[i] # NULL /\ row[i].acl_id = map[l].acl_id}
  BY Zenon
<1>7. ASSUME NEW i \in rules PROVE \E k \in 1..n : s[k] = i
  <2>1. i \in Tcam /\ row[i] # NULL /\ row[i].acl_id = map[l].acl_id
    BY <1>6
  <2>2. PICK m \in List, k \in Nat :
           /\ m = row[i].list /\ k = row[i].number /\ map[m] # NULL
           /\ k \in DOMAIN map[m].rules /\ map[m].rules[k] = i
    BY <1>2, <2>1, Zenon DEF RowInv, Claimed, AclRow, Rule
  <2>3. row[i].acl_id = map[m].acl_id
    <3>1. Written(map[m], m, row)
      BY <1>2, <2>2, Zenon DEF RowInv
    <3> QED BY <2>2, <3>1, Zenon DEF Written
  <2>4. m = l
    <3>1. entries[t][m] # NULL /\ entries[t][m].acl_id = entries[t][l].acl_id /\ t \in Table
      BY <1>1, <2>1, <2>2, <2>3, Zenon DEF Table
    <3> QED BY <3>1 DEF AclInv, IdsInv, OneId
  <2> QED BY <1>4, <2>2, <2>4
<1>8. \A k \in 1..n : s[k] \in rules
  BY <1>4, <1>5, <1>6
<1>9. Cardinality(rules) = n
  <2>1. s \in [1..n -> rules]
    BY <1>4, <1>5, <1>8
  <2>2. \A j, k \in 1..n : s[j] = s[k] => j = k
    BY <1>4
  <2>3. s \in Bijection(1..n, rules)
    BY <1>7, <2>1, <2>2 DEF Bijection, Injection, Surjection, IsInjective
  <2> QED BY <2>3, FS_CountingElements DEF ExistsBijection
<1>10. /\ \A i \in rules : row[i].list = l /\ row[i].version = content[l]
       /\ \A i \in rules : row[i].number \in 1..n
  BY <1>4, <1>7
<1>11. {row[i].number : i \in rules} = 1..n
  BY <1>4, <1>8, <1>10
<1> QED BY <1>1, <1>3, <1>6, <1>9, <1>10, <1>11 DEF Filters

\* A port or an L3 interface is filtered by the rules of the list applied to it, in
\* their present version, each once, and by nothing else.
THEOREM InterfacesStayFiltered ==
    ASSUME AclConstants
    PROVE  AclSpec => []InterfacesFiltered
<1>1. ASSUME AclInv PROVE InterfacesFiltered
  <2>1. ASSUME NEW p \in Member \ touched
        PROVE  IF applied[ports[p]]["pacl"] = NULL THEN port_acl[p] = NULL
               ELSE Filters("pacl", applied[ports[p]]["pacl"], port_acl[p])
    <3>1. PICK b \in Bundle, l \in {NULL} \union List :
             b = ports[p] /\ l = applied[ports[p]]["pacl"] /\ l = applied[b]["pacl"]
      BY <1>1 DEF AclInv, AclTyped, Table
    <3>2. port_acl[p] = IF l = NULL THEN NULL ELSE entries["pacl"][l].acl_id
      BY <1>1, <3>1 DEF AclInv, CarryInv, AclOf
    <3>3. ASSUME l # NULL PROVE l \in List /\ entries["pacl"][l] # NULL
      BY <1>1, <3>1, <3>3, UsersFacts, Zenon DEF AclInv, Table
    <3>4. ASSUME l # NULL PROVE Filters("pacl", l, port_acl[p])
      BY <1>1, <3>2, <3>3, <3>4, RulesOfList
    <3> QED BY <3>1, <3>2, <3>4
  <2>2. ASSUME NEW b \in Bundle \ touched
        PROVE  IF applied[b]["racl"] = NULL THEN router_acl[b] = NULL
               ELSE Filters("racl", applied[b]["racl"], router_acl[b])
    <3>1. PICK l \in {NULL} \union List : l = applied[b]["racl"]
      BY <1>1 DEF AclInv, AclTyped, Table
    <3>2. router_acl[b] = IF l = NULL THEN NULL ELSE entries["racl"][l].acl_id
      BY <1>1, <3>1, Zenon DEF AclInv, CarryInv, AclOf
    <3>3. ASSUME l # NULL PROVE l \in List /\ entries["racl"][l] # NULL
      BY <1>1, <3>1, <3>3, UsersFacts DEF AclInv, Table
    <3>4. ASSUME l # NULL PROVE Filters("racl", l, router_acl[b])
      BY <1>1, <3>2, <3>3, <3>4, RulesOfList
    <3> QED BY <3>1, <3>2, <3>4
  <2> QED BY <2>1, <2>2, Zenon DEF InterfacesFiltered
<1> QED BY <1>1, AclInvariant, PTL
=============================================================================
