-------------------------- MODULE VlanBundleProofs --------------------------
(***************************************************************************)
(* bundle_set keeps the invariant of VlanBundleInv, and the properties of  *)
(* VlanBundle follow, for any number of VLANs, ports, LAGs and refused     *)
(* calls, and any settings.                                                *)
(***************************************************************************)
EXTENDS VlanBundleInv
-----------------------------------------------------------------------------
(* bundle_set *)

\* What bundle_add_port does, besides the membership of the port: it leaves the bundle it
\* has, if any, and is in no VLAN.
PortAdded(p) ==
    /\ LagBundles' /\ OwnLag'
    /\ \A g \in LagId : g \notin stale' => LagFit(g)'
    /\ \A q \in Port : q # p /\ q \notin stale' => PortFit(q)'
    /\ p \notin stale' => \A v \in Vlan : members'[v][p] = "none"
    /\ \A d \in Bundle : /\ bundles'[d] = bundles[d] \/ (bundles'[d] = NULL /\ d = owner[p])
                         /\ (d \in Single /\ d = owner[p] => d = p /\ bundles'[d] = NULL)
                         /\ (\E q \in Port : q # p /\ owner[q] = d) => bundles'[d] = bundles[d]
    /\ \A q \in Port : q # p => pvid'[q] = pvid[q]
    /\ stale \subseteq stale'

\* bundle_add_port for a port that leaves another bundle.
LEMMA AddOwned ==
    ASSUME IInv, NEW p \in Port, owner[p] # NULL, owner[p] # call.bundle, NEW hw \in BOOLEAN,
           Added(p, hw), exist' = exist, \A q \in Port : q # p => owner'[q] = owner[q]
    PROVE  PortAdded(p)
<1> USE DEF IInv
<1>1. PICK b \in Bundle : b = owner[p]
  BY DEF TypeOK
<1>2. LeaveBundle(p, hw)
  BY DEF Added
<1>3. PICK m \in LeaveMembers(p, hw) : Removed(m, members', DefaultVlan, p, hw)
  BY DEF Added
<1>4. PortLeft(p, b, hw)
  BY <1>1, <1>2, LeftFacts
<1>5. SameBut(m, members', {p})
  BY <1>3 DEF Removed
<1>6. /\ LagBundles' /\ OwnLag'
      /\ \A g \in LagId : g \notin stale' => LagFit(g)'
      /\ \A q \in Port : q # p /\ q \notin stale' => PortFit(q)'
  BY <1>1, <1>2, <1>5, LeftOthers
<1>7. p \notin stale' => \A v \in Vlan : members'[v][p] = "none"
  <2>1. SUFFICES ASSUME p \notin stale', NEW v \in Vlan PROVE members'[v][p] = "none"
    OBVIOUS
  <2>2. hw /\ p \notin stale /\ Live(b) /\ ~Busy(b)
    BY <1>1, <1>4, <2>1 DEF PortLeft, Busy
  <2>3. m \in LeaveMembers(p, TRUE)
    BY <1>3, <2>2, Zenon
  <2>4. v # DefaultVlan => m[v][p] = "none"
    BY <1>1, <2>2, <2>3, LeftPort, Zenon
  <2> QED BY <1>3, <2>2, <2>4 DEF Removed
<1>8. \A d \in Bundle : /\ bundles'[d] = bundles[d] \/ (bundles'[d] = NULL /\ d = owner[p])
                        /\ (d \in Single /\ d = owner[p] => d = p /\ bundles'[d] = NULL)
                        /\ (\E q \in Port : q # p /\ owner[q] = d) => bundles'[d] = bundles[d]
  <2>1. /\ \A d \in Bundle : bundles'[d] = IF Ports(b) = {p} /\ d = b THEN NULL ELSE bundles[d]
        /\ b \in Single => b = p /\ Ports(b) = {p}
    BY <1>4 DEF PortLeft
  <2>2. \A q \in Port : q # p /\ owner[q] = b => Ports(b) # {p}
    BY DEF Ports
  <2> QED BY <1>1, <2>1, <2>2
<1> QED BY <1>4, <1>6, <1>7, <1>8 DEF PortLeft, PortAdded

\* bundle_add_port for a port without a bundle.
LEMMA AddFree ==
    ASSUME IInv, NEW p \in Port, owner[p] = NULL, ~HasOwnBundle(p), NEW hw \in BOOLEAN,
           Added(p, hw), exist' = exist, \A q \in Port : q # p => owner'[q] = owner[q]
    PROVE  PortAdded(p)
<1> USE DEF IInv
<1>1. /\ Removed(members, members', DefaultVlan, p, hw) /\ bundles' = bundles
      /\ lags' = lags /\ pvid' = pvid /\ stale \subseteq stale' /\ (~hw => p \in stale')
  BY DEF Added
<1>2. LagBundles' /\ OwnLag'
  BY <1>1 DEF Structure, LagBundles, LagOK, OwnLag, Live
<1>3. \A v \in Vlan : \A j \in Intf : j # p => members'[v][j] = members[v][j]
  BY <1>1 DEF Removed, SameBut
<1>4. ASSUME NEW g \in LagId, g \notin stale' PROVE LagFit(g)'
  <2>1. LagKept(g)
    BY <1>1, <1>3, Names DEF LagKept
  <2>2. LagFit(g)
    BY <1>1, <1>4 DEF Memberships
  <2> QED BY <2>1, <2>2, LagFrame
<1>5. ASSUME NEW q \in Port, q # p, q \notin stale' PROVE PortFit(q)'
  <2>1. PortKept(q)
    BY <1>1, <1>3, <1>5, Names DEF PortKept, HasOwnBundle, Live
  <2>2. PortFit(q)
    BY <1>1, <1>5 DEF Memberships
  <2> QED BY <2>1, <2>2, PortFrame
<1>6. ASSUME p \notin stale', NEW v \in Vlan PROVE members'[v][p] = "none"
  <2>1. hw /\ PortFit(p)
    BY <1>1, <1>6 DEF Memberships
  <2>2. v # DefaultVlan => members[v][p] = "none"
    BY <2>1 DEF PortFit
  <2> QED BY <1>1, <2>1, <2>2 DEF Removed
<1> QED BY <1>1, <1>2, <1>4, <1>5, <1>6, Names DEF PortAdded

\* bundle_add_port keeps the invariant: a single port that gets its own bundle gets it before
\* the bundle has trunks, and a LAG with a new port is marked to be configured anew.
LEMMA BundleAddPortKeeps ==
    ASSUME Constants, IInv, NEW p \in Port, NEW hw \in BOOLEAN, bundle_add_port(p, hw)
    PROVE  TypeOK' /\ Structure' /\ Memberships' /\ Pvids'
<1> USE DEF IInv
<1>1. TypeOK' /\ Added(p, hw)
  BY BundleAddPortType DEF Structure, Owners
<1>2. /\ call # NULL /\ p \in call.todo /\ exist' = exist
      /\ owner' = [owner EXCEPT ![p] = call.bundle]
      /\ call' = [call EXCEPT !.todo = @ \ {p}, !.updated = TRUE]
  BY DEF bundle_add_port
<1>3. call \in CallRec /\ call' \in CallRec /\ call' # NULL
  <2>1. call \in CallRec
    BY <1>2 DEF TypeOK, CallRec
  <2>2. call' \in CallRec
    BY <1>2, <2>1, Zenon DEF CallRec
  <2> QED BY <2>1, <2>2 DEF Constants
<1>4. PICK c \in Bundle : c = call.bundle
  BY <1>3 DEF CallRec
<1>5. call'.bundle = c /\ call'.todo = call.todo \ {p} /\ call'.updated
  BY <1>2, <1>3, <1>4 DEF CallRec
<1>6. \A q \in Port : owner'[q] = IF q = p THEN c ELSE owner[q]
  BY <1>2, <1>4 DEF TypeOK
<1>7. /\ owner[p] # c /\ Live(c) /\ (c \in Single => c = p)
      /\ \A q \in call.todo : owner[q] # c
  BY <1>2, <1>4 DEF Structure, Calls
<1>8. ASSUME p \in Single, Live(p), bundles[p].trunks # NULL PROVE owner[p] = p
  <2>1. SingleOK(p)
    BY <1>8 DEF Structure, Singles
  <2> QED BY <1>2, <1>8, <2>1 DEF SingleOK
<1>9. PortAdded(p)
  <2>1. CASE owner[p] = NULL
    <3>1. ~HasOwnBundle(p)
      BY <1>8, <2>1, Names DEF HasOwnBundle
    <3> QED BY <1>1, <1>2, <1>4, <1>6, <2>1, <3>1, AddFree
  <2>2. CASE owner[p] # NULL
    BY <1>1, <1>2, <1>4, <1>6, <1>7, <2>2, AddOwned
  <2> QED BY <2>1, <2>2
<1>10. bundles'[c] = bundles[c]
  BY <1>7, <1>9 DEF PortAdded
<1>11. \A d \in Bundle : Busy(d)' <=> Busy(d)
  BY <1>2, <1>3, <1>4, <1>5 DEF Busy
<1>12. c \in Single => bundles[c].trunks = NULL
  BY <1>7, <1>8
<1>13. Owners'
  <2>1. SUFFICES ASSUME NEW q \in Port, owner'[q] # NULL
        PROVE  bundles'[owner'[q]] # NULL /\ (owner'[q] \in Single => owner'[q] = q)
    BY DEF Owners, Live
  <2>2. CASE q = p
    BY <1>6, <1>7, <1>10, <2>2 DEF Live
  <2>3. CASE q # p
    <3>1. owner'[q] = owner[q] /\ owner[q] \in Bundle
      BY <1>6, <2>1, <2>3 DEF TypeOK
    <3>2. Live(owner[q]) /\ (owner[q] \in Single => owner[q] = q)
      BY <2>1, <3>1 DEF Structure, Owners
    <3>3. bundles'[owner[q]] = bundles[owner[q]]
      BY <1>9, <2>3, <3>1 DEF PortAdded
    <3> QED BY <3>1, <3>2, <3>3 DEF Live
  <2> QED BY <2>2, <2>3
<1>14. Calls'
  <2>1. \A q \in call'.todo : owner'[q] # c
    <3>1. call.todo \in SUBSET Port
      BY <1>3 DEF CallRec
    <3> QED BY <1>5, <1>6, <1>7, <3>1
  <2>2. bundles'[c] # NULL
    BY <1>7, <1>10 DEF Live
  <2>3. c \in Single => call'.todo \subseteq {c}
    BY <1>2, <1>4, <1>5 DEF Structure, Calls
  <2> QED BY <1>5, <2>1, <2>2, <2>3 DEF Calls, Live
<1>15. Singles'
  <2>1. SUFFICES ASSUME NEW d \in Single, bundles'[d] # NULL PROVE SingleOK(d)'
    BY DEF Singles, Live
  <2>2. d \in Bundle /\ d \in Port /\ bundles'[d] = bundles[d] /\ Live(d) /\ owner[p] # d
    BY <1>9, <2>1, Names DEF PortAdded, Live
  <2>3. SingleOK(d)
    BY <2>1, <2>2 DEF Structure, Singles
  <2>4. owner[d] = d => owner'[d] = d
    BY <1>6, <2>2
  <2>5. ~(bundles[d].trunks # NULL /\ owner'[d] # d)
    BY <1>2, <2>3, <2>4 DEF SingleOK
  <2> QED BY <1>11, <2>2, <2>3, <2>4, <2>5 DEF SingleOK
<1>16. p \notin stale' => PortFit(p)'
  <2>1. SUFFICES ASSUME p \notin stale' PROVE PortFit(p)'
    OBVIOUS
  <2>2. owner'[p] = c /\ c # NULL /\ \A v \in Vlan : members'[v][p] = "none"
    BY <1>6, <1>9, <2>1, Names DEF PortAdded
  <2>3. c = p => \A v \in Vlan : Wanted(bundles[p], v)' = "none"
    <3>1. c = p => bundles'[p].trunks = NULL
      BY <1>10, <1>12, Names
    <3> QED BY <3>1 DEF Wanted, TrunkSet
  <2> QED BY <2>2, <2>3 DEF PortFit, InNoVlan, HasVlansOf
<1>17. Pvids'
  <2>1. SUFFICES ASSUME NEW d \in Bundle, Settled(d)' PROVE PvidOf(d)'
    BY DEF Pvids
  <2>2. bundles'[d] = bundles[d] /\ d # NULL /\ stale \subseteq stale'
    BY <1>9, <2>1, Names DEF Settled, Live, PortAdded
  <2>3. CASE d # c
    <3>1. \A q \in Port : owner'[q] = d => owner[q] = d /\ pvid'[q] = pvid[q]
      BY <1>6, <1>9, <2>3 DEF PortAdded
    <3>2. ~Busy(d)
      BY <1>4, <2>3 DEF Busy
    <3>3. PvidKept(d)
      BY <2>2, <3>1, <3>2 DEF PvidKept
    <3> QED BY <2>1, <3>3, PvidFrame
  <2>4. CASE d = c
    <3>1. Settled(c)
      BY <2>1, <2>2, <2>4 DEF Settled, Live
    <3>2. c \in Lag
      BY <1>12, <3>1, Names DEF Settled
    <3>3. bundles[c].is_lag
      BY <1>7, <3>1, <3>2 DEF Structure, LagBundles, LagOK, Settled
    <3>4. PvidOf(c)
      BY <3>1 DEF Pvids
    <3>5. bundles'[c].is_lag /\ Busy(c)' /\ call'.updated
      BY <1>3, <1>5, <1>10, <3>3 DEF Busy
    <3>6. Coherent(bundles[c])'
      BY <1>10, <3>4 DEF PvidOf, Coherent
    <3> QED BY <2>4, <3>5, <3>6 DEF PvidOf
  <2> QED BY <2>3, <2>4
<1>18. Structure'
  BY <1>9, <1>13, <1>14, <1>15 DEF Structure, PortAdded
<1>19. Memberships'
  BY <1>9, <1>16 DEF Memberships, PortAdded
<1> QED BY <1>1, <1>17, <1>18, <1>19

\* A bundle that bundle_set does not give or take a LAG is what it was, if it had anything.
LEMMA SameBundle ==
    ASSUME TypeOK, NEW b \in Bundle, NEW r, LagSame(OldBundle(b), r),
           bundles'[b] = r.bundle, bundles'[b].trunks # NULL \/ bundles'[b].intfId # NULL
    PROVE  Live(b) /\ bundles'[b] = bundles[b]
<1>1. bundles'[b] = OldBundle(b)
  BY DEF LagSame
<1>2. ~Live(b) => OldBundle(b).trunks = NULL /\ OldBundle(b).intfId = NULL
  BY DEF OldBundle, NewBundle
<1>3. Live(b)
  BY <1>1, <1>2
<1> QED BY <1>1, <1>3 DEF OldBundle

\* The first step of bundle_set keeps the structure: a new LAG is no other bundle's.
LEMMA SetBundleStructure ==
    ASSUME Constants, IInv, NEW b \in Bundle, NEW s \in Settings(b), NEW hw \in BOOLEAN,
           NEW x \in SUBSET Ports(b), NEW r, SetBundle(b, s, x, r, hw), call = NULL
    PROVE  Structure'
<1> USE DEF IInv
<1>1. PICK old \in BundleState : old = OldBundle(b)
  BY OldBundleFacts
<1>2. LagSame(old, r) \/ (b \in Lag /\ (LagGone(old, r) \/ \E g : LagMade(old, r, g)))
  BY <1>1 DEF SetBundle
<1>3. /\ r.bundle \in BundleState /\ r.bundle # NULL
      /\ r.bundle.trunks = old.trunks
      /\ LagGone(old, r) => r.bundle.intfId = NULL /\ ~r.bundle.is_lag
      /\ \A g : LagMade(old, r, g) => r.bundle.intfId = g /\ r.bundle.is_lag
  BY <1>1, <1>2, LagRecord DEF Constants
<1>4. /\ \A c \in Bundle : bundles'[c] = IF c = b THEN r.bundle ELSE bundles[c]
      /\ \A p \in Port : owner'[p] = IF p \in x THEN NULL ELSE owner[p]
      /\ lags' = r.lags
  BY DEF SetBundle, TypeOK
<1>5. \A p \in x : p \in Port /\ owner[p] = b
  BY DEF Ports
<1>6. Owners'
  <2>1. SUFFICES ASSUME NEW p \in Port, owner'[p] # NULL
        PROVE  bundles'[owner'[p]] # NULL /\ (owner'[p] \in Single => owner'[p] = p)
    BY DEF Owners, Live
  <2>2. owner'[p] = owner[p] /\ owner[p] \in Bundle
    BY <1>4, <2>1 DEF TypeOK
  <2>3. Live(owner[p]) /\ (owner[p] \in Single => owner[p] = p)
    BY <2>1, <2>2 DEF Structure, Owners
  <2> QED BY <1>3, <1>4, <2>2, <2>3 DEF Live
<1>7. Calls'
  <2>1. SUFFICES ASSUME call' # NULL
        PROVE  /\ bundles'[call'.bundle] # NULL /\ \A p \in call'.todo : owner'[p] # call'.bundle
               /\ (call'.bundle \in Single => call'.todo \subseteq {call'.bundle})
    BY DEF Calls, Live
  <2>2. call'.bundle = b /\ call'.todo = s.slaves \ Ports(b)
    BY <2>1 DEF SetBundle
  <2>3. s.slaves \subseteq Port /\ (b \in Single => s.slaves \subseteq {b})
    BY DEF Settings
  <2>4. \A p \in call'.todo : owner'[p] # b
    BY <1>4, <1>5, <2>2, <2>3, Names DEF Ports
  <2> QED BY <1>3, <1>4, <2>2, <2>3, <2>4
<1>8. Singles'
  <2>1. SUFFICES ASSUME NEW c \in Single, bundles'[c] # NULL PROVE SingleOK(c)'
    BY DEF Singles, Live
  <2>2. CASE c # b
    <3>1. bundles'[c] = bundles[c] /\ Live(c) /\ ~Busy(c)
      BY <1>4, <2>1, <2>2, Names DEF Live, Busy
    <3>2. SingleOK(c) /\ owner[c] = c
      BY <3>1, IdleSingle DEF Structure, Singles
    <3>3. owner'[c] = c
      BY <1>4, <1>5, <2>2, <3>2, Names
    <3> QED BY <3>1, <3>2, <3>3 DEF SingleOK
  <2>3. CASE c = b
    <3>1. b \notin Lag /\ LagSame(old, r)
      BY <1>2, <2>3, Names
    <3>2. bundles'[b] = old /\ Busy(b)' /\ call'.todo = s.slaves \ Ports(b)
      BY <1>4, <3>1 DEF LagSame, SetBundle, Busy
    <3>3. s.slaves \subseteq {b}
      BY <2>3 DEF Settings
    <3>4. CASE Live(b)
      <4>1. old = bundles[b] /\ SingleOK(b) /\ owner[b] = b
        BY <1>1, <2>3, <3>4, IdleSingle DEF OldBundle, Structure, Singles, Busy
      <4>2. call'.todo = {}
        BY <2>3, <3>2, <3>3, <4>1, Names DEF Ports
      <4> QED BY <2>3, <3>2, <4>1, <4>2 DEF SingleOK
    <3>5. CASE ~Live(b)
      <4>1. old.trunks = NULL /\ old.intfId = NULL /\ ~old.is_lag
        BY <1>1, <3>5 DEF OldBundle, NewBundle
      <4> QED BY <2>3, <3>2, <4>1 DEF SingleOK
    <3> QED BY <3>4, <3>5
  <2> QED BY <2>2, <2>3
<1>9. b \in Lag => /\ old.is_lag <=> (old.intfId # NULL)
                   /\ old.intfId \in lags \union {NULL}
  BY <1>1 DEF OldBundle, NewBundle, Structure, LagBundles, LagOK
<1>10. old.intfId # NULL => Live(b) /\ bundles[b].intfId = old.intfId
  BY <1>1 DEF OldBundle, NewBundle
<1>11. \A c \in Lag : c # b /\ Live(c) /\ bundles[c].intfId # NULL =>
          /\ bundles[c].intfId # old.intfId /\ bundles[c].intfId \in lags
          /\ bundles[c].is_lag
  <2>1. SUFFICES ASSUME NEW c \in Lag, c # b, Live(c), bundles[c].intfId # NULL
        PROVE  /\ bundles[c].intfId # old.intfId /\ bundles[c].intfId \in lags
               /\ bundles[c].is_lag
    OBVIOUS
  <2>2. bundles[c].intfId # old.intfId
    BY <1>10, <2>1, OwnIntf, Names
  <2> QED BY <2>1, <2>2 DEF Structure, LagBundles, LagOK
<1>12. LagBundles'
  <2>1. SUFFICES ASSUME NEW c \in Lag, bundles'[c] # NULL PROVE LagOK(c)'
    BY DEF LagBundles, Live
  <2>2. CASE c # b
    <3>1. bundles'[c] = bundles[c] /\ Live(c) /\ LagOK(c)
      BY <1>4, <2>1, <2>2, Names DEF Live, Structure, LagBundles
    <3>2. bundles[c].intfId # NULL => bundles[c].intfId \in r.lags
      BY <1>2, <1>11, <2>2, <3>1, Zenon DEF LagSame, LagGone, LagMade
    <3> QED BY <1>4, <3>1, <3>2 DEF LagOK
  <2>3. CASE c = b
    <3>1. bundles'[b] = r.bundle
      BY <1>4
    <3>2. CASE LagSame(old, r)
      BY <1>4, <1>9, <2>3, <3>1, <3>2 DEF LagOK, LagSame
    <3>3. CASE LagGone(old, r)
      BY <1>3, <1>4, <2>3, <3>1, <3>3 DEF LagOK
    <3>4. CASE \E g : LagMade(old, r, g)
      <4>1. PICK g : LagMade(old, r, g)
        BY <3>4
      <4>2. r.bundle.intfId = g /\ r.bundle.is_lag /\ g \in r.lags /\ g # NULL
        BY <1>3, <4>1, Names, Zenon DEF LagMade
      <4> QED BY <1>4, <2>3, <3>1, <4>2 DEF LagOK
    <3> QED BY <1>2, <3>2, <3>3, <3>4
  <2> QED BY <2>2, <2>3
<1>13. OwnLag'
  <2>1. \A c \in Lag : c # b /\ Live(c) /\ bundles[c].intfId # NULL => bundles[c].intfId # r.bundle.intfId
    BY <1>2, <1>3, <1>11, Zenon DEF LagSame, LagGone, LagMade
  <2> QED BY <1>4, <2>1, Names DEF OwnLag, Structure, Live
<1> QED BY <1>6, <1>7, <1>8, <1>12, <1>13 DEF Structure

\* The first step of bundle_set keeps memberships right: the ports it gives up are at most in
\* the default VLAN, and a new LAG is in no VLAN.
LEMMA SetBundleMemberships ==
    ASSUME Constants, IInv, NEW b \in Bundle, NEW s \in Settings(b), NEW hw \in BOOLEAN,
           NEW x \in SUBSET Ports(b), NEW r, SetBundle(b, s, x, r, hw), call = NULL, exist' = exist
    PROVE  Memberships'
<1> USE DEF IInv
<1>1. PICK old \in BundleState : old = OldBundle(b)
  BY OldBundleFacts
<1>2. LagSame(old, r) \/ (b \in Lag /\ (LagGone(old, r) \/ \E g : LagMade(old, r, g)))
  BY <1>1 DEF SetBundle
<1>3. /\ r.bundle.trunks = old.trunks
      /\ LagGone(old, r) => r.bundle.intfId = NULL
      /\ \A g : LagMade(old, r, g) => r.bundle.intfId = g
  BY <1>1, <1>2, LagRecord
<1>4. /\ \A c \in Bundle : bundles'[c] = IF c = b THEN r.bundle ELSE bundles[c]
      /\ \A p \in Port : owner'[p] = IF p \in x THEN NULL ELSE owner[p]
      /\ lags' = r.lags /\ stale \subseteq stale' /\ r.stale \subseteq stale'
  BY DEF SetBundle, TypeOK
<1>5. \A p \in x : p \in Port /\ owner[p] = b
  BY DEF Ports
<1>6. \A v \in Vlan : \A j \in Intf : j \notin x => members'[v][j] = members[v][j]
  BY DEF SetBundle, SameBut
<1>7. ASSUME NEW g \in LagId, g \notin stale' PROVE LagFit(g)'
  <2>1. LagFit(g) /\ g # NULL
    BY <1>4, <1>7, Names DEF Memberships
  <2>2. \A v \in Vlan : members'[v][g] = members[v][g]
    BY <1>5, <1>6, Names
  <2>3. CASE LagSame(old, r)
    <3>1. bundles'[b].intfId = g => bundles'[b] = bundles[b]
      BY <1>1, <1>4, <2>1, <2>3, SameBundle
    <3>2. LagKept(g)
      BY <1>4, <2>2, <2>3, <3>1, Names DEF LagKept, LagSame
    <3> QED BY <2>1, <3>2, LagFrame
  <2>4. CASE LagGone(old, r)
    <3>1. bundles'[b].intfId # g
      BY <1>3, <1>4, <2>1, <2>4
    <3>2. g # old.intfId
      BY <1>4, <1>7, <2>4 DEF LagGone
    <3>3. g \in lags => g \in lags'
      BY <1>4, <2>4, <3>2 DEF LagGone
    <3>4. LagKept(g)
      BY <1>4, <2>2, <3>1, <3>3, Names DEF LagKept
    <3> QED BY <2>1, <3>4, LagFrame
  <2>5. CASE b \in Lag /\ \E h : LagMade(old, r, h)
    <3>1. PICK h : LagMade(old, r, h)
      BY <2>5
    <3>2. bundles'[b].intfId = h /\ lags' = lags \union {h} /\ h \notin lags
      BY <1>3, <1>4, <3>1, Zenon DEF LagMade
    <3>3. CASE g # h
      <4>1. LagKept(g)
        BY <1>4, <2>2, <3>2, <3>3, Names DEF LagKept
      <4> QED BY <2>1, <4>1, LagFrame
    <3>4. CASE g = h
      <4>1. old.trunks = NULL
        BY <1>4, <1>7, <3>1, <3>4 DEF LagMade
      <4>2. \A v \in Vlan : members'[v][g] = "none"
        BY <2>1, <2>2, <3>2, <3>4 DEF LagFit, InNoVlan
      <4>3. ASSUME NEW c \in Lag, bundles'[c] # NULL, bundles'[c].intfId = g, NEW v \in Vlan
            PROVE  Wanted(bundles[c], v)' = "none"
        <5>1. c = b
          <6>1. ASSUME c # b PROVE FALSE
            <7>1. bundles'[c] = bundles[c]
              BY <1>4, <6>1, Names
            <7>2. Live(c) /\ bundles[c].intfId = g
              BY <4>3, <7>1 DEF Live
            <7>3. LagOK(c)
              BY <7>2 DEF Structure, LagBundles
            <7> QED BY <2>1, <3>2, <3>4, <7>2, <7>3 DEF LagOK
          <6> QED BY <6>1
        <5>2. bundles'[c].trunks = NULL
          BY <1>3, <1>4, <4>1, <5>1
        <5> QED BY <5>2 DEF Wanted, TrunkSet
      <4>4. g \in lags'
        BY <3>2, <3>4
      <4> QED BY <4>2, <4>3, <4>4 DEF LagFit, HasVlansOf, Live
    <3> QED BY <3>3, <3>4
  <2> QED BY <1>2, <2>3, <2>4, <2>5
<1>8. b \in Single /\ Live(b) => bundles'[b] = bundles[b]
  BY <1>1, <1>2, <1>4, Names DEF LagSame, OldBundle
<1>9. ASSUME NEW p \in Port, p \notin stale' PROVE PortFit(p)'
  <2>1. PortFit(p) /\ p \in Intf
    BY <1>4, <1>9, Names DEF Memberships
  <2>2. CASE p \notin x
    <3>1. owner'[p] = owner[p] /\ \A v \in Vlan : members'[v][p] = members[v][p]
      BY <1>4, <1>6, <2>1, <2>2
    <3>2. p \in Single /\ Live(p) => bundles'[p] = bundles[p]
      BY <1>4, <1>8, Names
    <3>3. owner[p] = p => p \in Single /\ Live(p)
      <4>1. owner[p] \in Bundle \union {NULL} /\ p # NULL
        BY Names DEF TypeOK
      <4>2. owner[p] = p => p \in Single
        BY <4>1, Names
      <4>3. owner[p] = p => Live(p)
        BY <4>1 DEF Structure, Owners
      <4> QED BY <4>2, <4>3
    <3>4. HasOwnBundle(p) => HasOwnBundle(p)'
      BY <3>2 DEF HasOwnBundle, Live
    <3>5. PortKept(p)
      BY <3>1, <3>2, <3>3, <3>4 DEF PortKept
    <3> QED BY <2>1, <3>5, PortFrame
  <2>3. CASE p \in x
    <3>1. owner[p] = b /\ owner'[p] = NULL /\ p # NULL /\ b # NULL
      BY <1>4, <1>5, <2>3, Names
    <3>2. CASE b \in Single
      <4>1. b = p /\ Live(b) /\ bundles[b].trunks # NULL
        BY <3>1, <3>2, IdleSingle DEF Structure, Owners, Busy
      <4>2. HasOwnBundle(p)'
        BY <1>8, <3>2, <4>1 DEF HasOwnBundle, Live
      <4> QED BY <3>1, <4>2 DEF PortFit
    <3>3. CASE b \in Lag
      <4>1. InNoVlan(p)
        BY <2>1, <3>1, <3>3, Names DEF PortFit
      <4>2. \A v \in Vlan \ {DefaultVlan} : members'[v][p] = "none"
        BY <4>1 DEF InNoVlan, SetBundle
      <4> QED BY <3>1, <4>2 DEF PortFit
    <3> QED BY <3>2, <3>3, Names
  <2> QED BY <2>2, <2>3
<1> QED BY <1>7, <1>9 DEF Memberships

\* The first step of bundle_set keeps the default VLANs right.
LEMMA SetBundlePvids ==
    ASSUME IInv, NEW b \in Bundle, NEW s \in Settings(b), NEW hw \in BOOLEAN,
           NEW x \in SUBSET Ports(b), NEW r, SetBundle(b, s, x, r, hw), call = NULL
    PROVE  Pvids'
<1> USE DEF IInv
<1>1. PICK old \in BundleState : old = OldBundle(b)
  BY OldBundleFacts
<1>2. LagSame(old, r) \/ (b \in Lag /\ (LagGone(old, r) \/ \E g : LagMade(old, r, g)))
  BY <1>1 DEF SetBundle
<1>3. /\ r.bundle.trunks = old.trunks
      /\ LagGone(old, r) => r.bundle.intfId = NULL
      /\ \A g : LagMade(old, r, g) => r.bundle.intfId = g
  BY <1>1, <1>2, LagRecord
<1>4. /\ \A c \in Bundle : bundles'[c] = IF c = b THEN r.bundle ELSE bundles[c]
      /\ \A p \in Port : owner'[p] = IF p \in x THEN NULL ELSE owner[p]
      /\ stale \subseteq stale' /\ r.stale \subseteq stale'
      /\ \A p \in Port : p \notin x => pvid'[p] = pvid[p]
  BY DEF SetBundle, TypeOK
<1>5. SUFFICES ASSUME NEW c \in Bundle, Settled(c)' PROVE PvidOf(c)'
  BY DEF Pvids
<1>6. bundles'[c] = bundles[c]
  <2>1. CASE c # b
    BY <1>4, <2>1
  <2>2. CASE c = b
    <3>1. bundles'[b].trunks # NULL /\ bundles'[b].intfId # NULL /\ bundles'[b].intfId \notin stale'
      BY <1>5, <2>2 DEF Settled
    <3>2. bundles'[b] = r.bundle
      BY <1>4
    <3>3. LagSame(old, r)
      BY <1>2, <1>3, <1>4, <3>1, <3>2, Zenon DEF LagMade
    <3> QED BY <1>1, <2>2, <3>1, <3>2, <3>3, SameBundle
  <2> QED BY <2>1, <2>2
<1>7. \A p \in Port : owner'[p] = c => owner[p] = c /\ pvid'[p] = pvid[p]
  BY <1>4, Names
<1>8. PvidKept(c)
  BY <1>4, <1>6, <1>7 DEF PvidKept, Busy
<1> QED BY <1>5, <1>8, PvidFrame

\* The first step of bundle_set keeps the invariant.
LEMMA BundleSetKeeps ==
    ASSUME Constants, IInv, NEW b \in Bundle, NEW s \in Settings(b), NEW hw \in BOOLEAN,
           bundle_set(b, s, hw)
    PROVE  TypeOK' /\ Structure' /\ Memberships' /\ Pvids'
<1>1. call = NULL /\ exist' = exist
  BY DEF bundle_set
<1>2. /\ b \in Single => ~OldBundle(b).is_lag
      /\ OldBundle(b).is_lag => OldBundle(b).intfId # NULL
  BY StructureFacts DEF IInv, OldBundle, NewBundle
<1>3. TypeOK' /\ \E x \in SUBSET Ports(b) : \E r : SetBundle(b, s, x, r, hw)
  BY <1>2, BundleSetType DEF IInv
<1>4. PICK x \in SUBSET Ports(b) : \E r : SetBundle(b, s, x, r, hw)
  BY <1>3
<1>5. PICK r : SetBundle(b, s, x, r, hw)
  BY <1>4
<1>6. Structure'
  BY <1>1, <1>5, SetBundleStructure
<1>7. Memberships'
  BY <1>1, <1>5, SetBundleMemberships
<1>8. Pvids'
  BY <1>1, <1>5, SetBundlePvids
<1> QED BY <1>3, <1>6, <1>7, <1>8

\* bundle_set keeps the invariant when the hardware refuses to create the LAG.
LEMMA NoLagKeeps ==
    ASSUME Constants, IInv, NEW b \in Bundle, NEW s \in Settings(b), bundle_set_no_lag(b, s)
    PROVE  TypeOK' /\ Structure' /\ Memberships' /\ Pvids'
<1>1. /\ TypeOK' /\ b \in Lag /\ bundles' = [bundles EXCEPT ![b] = OldBundle(b)]
  BY NoLagType DEF IInv
<1>2. /\ call = NULL /\ call' = NULL /\ exist' = exist
      /\ UNCHANGED <<members, pvid, lags, owner, stale>>
  BY DEF bundle_set_no_lag
<1>3. PICK r : r = [bundle |-> OldBundle(b), lags |-> lags, stale |-> {}]
  BY Zenon
<1>4. LagSame(OldBundle(b), r) /\ r.bundle = OldBundle(b) /\ r.lags = lags /\ r.stale = {}
  BY <1>3 DEF LagSame
<1>5. owner' = [p \in Port |-> IF p \in {} THEN NULL ELSE owner[p]]
  BY <1>2 DEF IInv, TypeOK
<1>6. SetBundle(b, s, {}, r, TRUE)
  BY <1>1, <1>2, <1>4, <1>5 DEF SetBundle, SameBut
<1>7. {} \in SUBSET Ports(b)
  OBVIOUS
<1>8. Structure'
  BY <1>2, <1>6, <1>7, SetBundleStructure, Zenon
<1>9. Memberships'
  BY <1>2, <1>6, <1>7, SetBundleMemberships, Zenon
<1>10. Pvids'
  BY <1>2, <1>6, <1>7, SetBundlePvids, Zenon
<1> QED BY <1>1, <1>8, <1>9, <1>10

\* The state in which the last step of bundle_set is taken, and what it always does.
Finishing(b, hw) ==
    /\ call # NULL /\ b = call.bundle /\ Live(b) /\ call' = NULL
    /\ owner' = owner /\ exist' = exist /\ stale \subseteq stale'
    /\ ~hw => /\ CurBundle(b).intfId # NULL => CurBundle(b).intfId \in stale'
              /\ Ports(b) \subseteq stale'
    /\ hw => stale' = stale

\* A bundle left without ports is destroyed, which keeps the invariant.
LEMMA FinishDestroyKeeps ==
    ASSUME IInv, NEW b \in Bundle, NEW hw \in BOOLEAN, Finishing(b, hw), FinishDestroy(b, hw)
    PROVE  Structure' /\ Memberships' /\ Pvids'
<1> USE DEF IInv
<1>1. /\ Live(b) /\ call' = NULL /\ owner' = owner /\ exist' = exist /\ stale \subseteq stale'
      /\ Ports(b) = {} /\ pvid' = pvid /\ \A c \in Bundle : c # b => ~Busy(c)
  BY DEF Finishing, FinishDestroy, Busy
<1>2. \A c \in Bundle : bundles'[c] = IF c = b THEN NULL ELSE bundles[c]
  BY DEF FinishDestroy, TypeOK
<1>3. PICK i : i = bundles[b].intfId
  OBVIOUS
<1>4. i \in Intf \union {NULL} /\ (~hw /\ i # NULL => i \in stale')
  <2>1. b \in Single => i \in {NULL, b} /\ ~bundles[b].is_lag
    BY <1>1, <1>3, StructureFacts
  <2>2. i # NULL => CurBundle(b).intfId = i
    BY <1>1, <1>3, <2>1, CurBundleFacts, Zenon
  <2> QED BY <1>1, <1>3, <2>2, BundleFacts DEF Finishing
<1>5. /\ \A v \in Vlan : \A j \in Intf : j # i => members'[v][j] = members[v][j]
      /\ hw /\ i # NULL => \A v \in Vlan : members'[v][i] = "none"
  <2>1. members \in Table /\ bundles[b].intfId \in Intf \union {NULL}
    BY <1>3, <1>4 DEF TypeOK, Table
  <2>2. members' \in destroy_members(members, bundles[b], hw)
    BY DEF FinishDestroy
  <2>3. /\ SameBut(members, members', {bundles[b].intfId})
        /\ hw /\ bundles[b].intfId # NULL => \A v \in Vlan : members'[v][bundles[b].intfId] = "none"
    BY <2>1, <2>2, DestroyFacts, Zenon
  <2> QED BY <1>3, <2>3 DEF SameBut
<1>6. Gone(b, hw)
  BY <1>1, <1>3, <1>4, LagDestroyFacts DEF Gone, FinishDestroy
<1>7. GoneMembers(b, hw)
  BY <1>3, <1>5, Names DEF GoneMembers
<1>8. /\ LagBundles' /\ OwnLag' /\ \A g \in LagId : g \notin stale' => LagFit(g)'
  BY <1>1, <1>6, <1>7, GoneLags
<1>9. \A p \in Port : owner[p] # b
  BY <1>1 DEF Ports
<1>10. Owners' /\ Calls'
  <2>1. \A p \in Port : owner[p] # NULL => owner[p] \in Bundle
    BY DEF TypeOK
  <2> QED BY <1>1, <1>2, <1>9, <2>1, Zenon DEF Structure, Owners, Calls, Live
<1>11. Singles'
  <2>1. SUFFICES ASSUME NEW c \in Single, bundles'[c] # NULL PROVE SingleOK(c)'
    BY DEF Singles, Live
  <2>2. c # b /\ bundles'[c] = bundles[c] /\ SingleOK(c) /\ owner[c] = c
    BY <1>1, <1>2, <2>1, IdleSingle, Names, Zenon DEF Structure, Singles, Live
  <2>3. ~Busy(c)
    BY <1>1, <2>2, Names, Zenon
  <2> QED BY <1>1, <2>2, <2>3 DEF SingleOK
<1>12. ASSUME NEW p \in Port, p \notin stale' PROVE PortFit(p)'
  <2>1. PortFit(p) /\ p \in Intf /\ p # NULL
    BY <1>1, <1>12, Names DEF Memberships
  <2>2. CASE p # i
    <3>1. owner[p] = p => p \in Bundle /\ p # b
      BY <1>9, Names DEF TypeOK
    <3>2. HasOwnBundle(p) => p # b
      BY <1>3, <2>2, Zenon DEF HasOwnBundle, Structure, Singles, SingleOK
    <3>3. HasOwnBundle(p) => HasOwnBundle(p)'
      BY <1>2, <3>2, Names DEF HasOwnBundle, Live
    <3>4. PortKept(p)
      BY <1>1, <1>2, <1>5, <2>1, <2>2, <3>1, <3>3 DEF PortKept
    <3> QED BY <2>1, <3>4, PortFrame
  <2>3. CASE p = i
    <3>1. b = p
      BY <1>1, <1>3, <2>1, <2>3, StructureFacts, Names
    <3>2. owner'[p] # p
      BY <1>1, <1>9, <3>1, Zenon
    <3>3. \A v \in Vlan : members'[v][p] = "none"
      BY <1>4, <1>5, <1>12, <2>1, <2>3
    <3> QED BY <3>2, <3>3 DEF PortFit, InNoVlan
  <2> QED BY <2>2, <2>3
<1>13. Pvids'
  <2>1. SUFFICES ASSUME NEW c \in Bundle, Settled(c)' PROVE PvidOf(c)'
    BY DEF Pvids
  <2>2. c # b /\ bundles'[c] = bundles[c]
    BY <1>2, <2>1 DEF Settled, Live
  <2>3. PvidKept(c)
    BY <1>1, <2>2 DEF PvidKept
  <2> QED BY <2>1, <2>3, PvidFrame
<1> QED BY <1>8, <1>10, <1>11, <1>12, <1>13 DEF Structure, Memberships

\* bundle_set returns before the VLANs are configured, which keeps the invariant.
LEMMA FinishNoConfigKeeps ==
    ASSUME IInv, NEW b \in Bundle, NEW hw \in BOOLEAN, Finishing(b, hw), FinishNoConfig(b, hw)
    PROVE  Structure' /\ Memberships' /\ Pvids'
<1> USE DEF IInv
<1>1. /\ Live(b) /\ call' = NULL /\ owner' = owner /\ exist' = exist /\ stale \subseteq stale'
      /\ UNCHANGED <<members, lags, bundles, pvid>> /\ \A c \in Bundle : c # b => ~Busy(c)
  BY DEF Finishing, FinishNoConfig, Busy
<1>2. b \notin Single /\ ~(bundles[b].intfId # NULL /\ bundles[b].intfId \notin stale')
  <2>1. /\ CurBundle(b).intfId = IF ~bundles[b].is_lag /\ b \in Single THEN b
                                 ELSE bundles[b].intfId
        /\ (b \in Single => ~bundles[b].is_lag)
    BY <1>1, CurBundleFacts, StructureFacts
  <2>2. b # NULL
    BY Names
  <2> QED BY <2>1, <2>2 DEF FinishNoConfig, Finishing
<1>3. Structure'
  <2>1. \A c \in Single : ~Busy(c)
    BY <1>1, <1>2, Names
  <2> QED BY <1>1, <2>1
         , Zenon DEF Structure, Owners, Calls, Singles, SingleOK, LagBundles, LagOK, OwnLag, Live
<1>4. ASSUME NEW p \in Port, p \notin stale' PROVE PortFit(p)'
  <2>1. PortFit(p)
    BY <1>1, <1>4 DEF Memberships
  <2>2. PortKept(p)
    BY <1>1 DEF PortKept, HasOwnBundle, Live
  <2> QED BY <2>1, <2>2, PortFrame
<1>5. ASSUME NEW g \in LagId, g \notin stale' PROVE LagFit(g)'
  <2>1. LagFit(g)
    BY <1>1, <1>5 DEF Memberships
  <2>2. LagKept(g)
    BY <1>1 DEF LagKept
  <2> QED BY <2>1, <2>2, LagFrame
<1>6. Pvids'
  <2>1. SUFFICES ASSUME NEW c \in Bundle, Settled(c)' PROVE PvidOf(c)'
    BY DEF Pvids
  <2>2. c # b
    BY <1>1, <1>2, <2>1 DEF Settled
  <2>3. PvidKept(c)
    BY <1>1, <2>2 DEF PvidKept
  <2> QED BY <2>1, <2>3, PvidFrame
<1> QED BY <1>3, <1>4, <1>5, <1>6 DEF Memberships

\* bundle_update_vlan_config, with the settings and ports of the call, keeps the invariant.
LEMMA FinishConfigureKeeps ==
    ASSUME Constants, IInv, NEW b \in Bundle, NEW s \in VlanSettings, NEW hw \in BOOLEAN,
           Finishing(b, hw), NEW r, FinishConfigure(b, s, r, hw)
    PROVE  Structure' /\ Memberships' /\ Pvids'
<1> USE DEF IInv
<1>1. /\ Live(b) /\ call' = NULL /\ owner' = owner /\ exist' = exist /\ stale \subseteq stale'
      /\ Ports(b) # {} /\ lags' = lags /\ members' = r.members /\ pvid' = r.pvid
      /\ \A c \in Bundle : c # b => ~Busy(c)
  BY DEF Finishing, FinishConfigure, Busy
<1>2. \A c \in Bundle : bundles'[c] = IF c = b THEN r.bundle ELSE bundles[c]
  BY DEF FinishConfigure, TypeOK
<1>3. PICK cur \in BundleState : cur = CurBundle(b)
  BY <1>1, CurBundleFacts
<1>4. /\ cur.trunks = bundles[b].trunks /\ cur.vlan = bundles[b].vlan
      /\ cur.vlan_mode = bundles[b].vlan_mode /\ cur.is_lag = bundles[b].is_lag
      /\ cur.intfId = IF ~bundles[b].is_lag /\ b \in Single THEN b ELSE bundles[b].intfId
  BY <1>1, <1>3, CurBundleFacts
<1>5. PICK i \in Intf : i = cur.intfId
  BY <1>1, <1>3, CurBundleFacts, Zenon DEF FinishConfigure
<1>6. /\ b \in Single => i = b /\ ~bundles[b].is_lag /\ owner[b] = b
      /\ b \notin Single => b \in Lag /\ i = bundles[b].intfId /\ i \in LagId /\ i \in lags
  <2>1. CASE b \in Single
    <3>1. Ports(b) \subseteq {b} /\ ~bundles[b].is_lag
      BY <1>1, <2>1, StructureFacts
    <3>2. owner[b] = b
      BY <1>1, <3>1 DEF Ports
    <3> QED BY <1>4, <1>5, <2>1, <3>1, <3>2
  <2>2. CASE b \notin Single
    BY <1>1, <1>4, <1>5, <2>2, Names, Zenon DEF Structure, LagBundles, LagOK, TypeOK
  <2> QED BY <2>1, <2>2
<1>7. ~hw => i \in stale'
  BY <1>3, <1>5, Names DEF Finishing
<1>8. /\ r.bundle # NULL /\ r.bundle.trunks # NULL
      /\ r.bundle.intfId = i /\ r.bundle.is_lag = bundles[b].is_lag
      /\ \A v \in Vlan : \A j \in Intf : j # i => members'[v][j] = members[v][j]
      /\ \A p \in Port : owner[p] # b => pvid'[p] = pvid[p]
  <2>1. Ports(b) \in SUBSET Port
    BY DEF Ports
  <2>2. UpdateFrame(cur, Ports(b), r)
    BY <1>3, <1>5, <2>1, UpdateFrameFacts DEF FinishConfigure
  <2> QED BY <1>1, <1>4, <1>5, <2>2 DEF UpdateFrame, SameBut, Constants, Ports
<1>9. Structure'
  <2>1. Owners' /\ Calls'
    <3>1. \A p \in Port : owner[p] # NULL => owner[p] \in Bundle
      BY Zenon DEF TypeOK
    <3> QED BY <1>1, <1>2, <1>8, <3>1 DEF Structure, Owners, Calls, Live
  <2>2. ASSUME NEW c \in Single, bundles'[c] # NULL PROVE SingleOK(c)'
    <3>1. CASE c # b
      <4>1. bundles'[c] = bundles[c] /\ SingleOK(c) /\ owner[c] = c /\ ~Busy(c)
        BY <1>1, <1>2, <2>2, <3>1, IdleSingle, Names, Zenon DEF Structure, Singles, Live
      <4> QED BY <1>1, <4>1, Zenon DEF SingleOK
    <3>2. CASE c = b
      BY <1>1, <1>2, <1>6, <1>8, <2>2, <3>2, Zenon DEF SingleOK
    <3> QED BY <3>1, <3>2
  <2>3. \A c \in Lag : bundles'[c] # NULL =>
           /\ Live(c) /\ bundles'[c].intfId = bundles[c].intfId
           /\ bundles'[c].is_lag = bundles[c].is_lag
    <3>1. b \in Lag => b \notin Single
      BY Names
    <3> QED BY <1>1, <1>2, <1>6, <1>8, <3>1, Names, Zenon DEF Live
  <2>4. LagBundles' /\ OwnLag'
    BY <1>1, <2>3, Zenon DEF Structure, LagBundles, LagOK, OwnLag, Live
  <2> QED BY <2>1, <2>2, <2>4 DEF Structure, Singles, Live
<1>10. ASSUME i \notin stale', bundles[b].trunks # NULL PROVE Settled(b) /\ PvidOf(b) /\ Coherent(cur)
  <2>1. bundles[b].intfId = i
    BY <1>1, <1>6, <1>10, Zenon DEF Structure, Singles, SingleOK
  <2>2. Settled(b)
    BY <1>1, <1>10, <2>1, Names, Zenon DEF Settled
  <2>3. PvidOf(b)
    BY <2>2 DEF Pvids
  <2>4. Coherent(cur)
    BY <1>4, <2>3 DEF PvidOf, Coherent
  <2> QED BY <2>2, <2>3, <2>4
<1>11. i \notin stale' => hw /\ UpdateDone(cur, s, call.updated, Ports(b), r)
  <2>1. SUFFICES ASSUME i \notin stale' PROVE hw /\ UpdateDone(cur, s, call.updated, Ports(b), r)
    OBVIOUS
  <2>2. hw
    BY <1>7, <2>1
  <2>3. r \in update_vlan_config(cur, s, call.updated, Ports(b), TRUE) /\ Ports(b) \in SUBSET Port
    BY <1>3, <2>2, Zenon DEF FinishConfigure, Ports
  <2>4. cur.trunks # NULL => Coherent(cur)
    BY <1>4, <1>10, <2>1
  <2> QED BY <1>5, <2>2, <2>3, <2>4, UpdateDoneFacts, Zenon
<1>12. ASSUME i \notin stale', HasVlansOf(i, bundles[b]), NEW v \in Vlan
       PROVE  members'[v][i] = Wanted(r.bundle, v)
  <2>1. UpdateDone(cur, s, call.updated, Ports(b), r)
    BY <1>11, <1>12
  <2>2. \A w \in Vlan : Wanted(cur, w) = Wanted(bundles[b], w)
    BY <1>4 DEF Wanted, TrunkSet, EncapOf
  <2>3. \A w \in Vlan : members[w][cur.intfId] = Wanted(cur, w)
    BY <1>5, <1>12, <2>2 DEF HasVlansOf
  <2> QED BY <1>1, <1>5, <2>1, <2>3, Zenon DEF UpdateDone
<1>13. \A v : Wanted(bundles[b], v)' = Wanted(r.bundle, v)
  BY <1>1, <1>2, Zenon DEF Wanted, TrunkSet, EncapOf
<1>14. ASSUME NEW p \in Port, p \notin stale' PROVE PortFit(p)'
  <2>1. PortFit(p) /\ p \in Intf /\ p # NULL
    BY <1>1, <1>14, Names DEF Memberships
  <2>2. CASE p # i
    <3>1. p \in Bundle => p # b
      BY <1>6, <2>2, Names
    <3>2. owner[p] = p => p \in Bundle
      BY Names DEF TypeOK
    <3>3. HasOwnBundle(p) => HasOwnBundle(p)'
      BY <1>2, <3>1, Names DEF HasOwnBundle, Live
    <3>4. PortKept(p)
      BY <1>1, <1>2, <1>8, <2>1, <2>2, <3>1, <3>2, <3>3, Zenon DEF PortKept
    <3> QED BY <2>1, <3>4, PortFrame
  <2>3. CASE p = i
    <3>1. b = p /\ owner[p] = p
      BY <1>6, <2>1, <2>3, Names
    <3>2. HasVlansOf(i, bundles[b])
      BY <2>1, <2>3, <3>1, Zenon DEF PortFit
    <3>3. \A v \in Vlan : members'[v][p] = Wanted(bundles[p], v)'
      BY <1>12, <1>13, <1>14, <2>3, <3>1, <3>2
    <3>4. owner'[p] = p
      BY <1>1, <3>1, Zenon
    <3> QED BY <2>1, <3>3, <3>4 DEF PortFit, HasVlansOf
  <2> QED BY <2>2, <2>3
<1>15. ASSUME NEW g \in LagId, g \notin stale' PROVE LagFit(g)'
  <2>1. LagFit(g) /\ g # NULL /\ g \in Intf
    BY <1>1, <1>15, Names DEF Memberships
  <2>2. CASE g # i
    <3>1. bundles'[b].intfId # g
      BY <1>2, <1>8, <2>2, Zenon
    <3>2. LagKept(g)
      BY <1>1, <1>2, <1>8, <2>1, <2>2, <3>1, Names, Zenon DEF LagKept
    <3> QED BY <2>1, <3>2, LagFrame
  <2>3. CASE g = i
    <3>1. b \in Lag /\ i = bundles[b].intfId /\ i \in lags
      BY <1>6, <2>3, Names, Zenon
    <3>2. HasVlansOf(i, bundles[b])
      BY <1>1, <2>1, <2>3, <3>1 DEF LagFit
    <3>3. \A v \in Vlan : members'[v][g] = Wanted(bundles[b], v)'
      BY <1>12, <1>13, <1>15, <2>3, <3>2, Zenon
    <3>4. \A c \in Lag : bundles'[c] # NULL /\ bundles'[c].intfId = g => c = b
      BY <1>2, <1>1, <2>1, <2>3, <3>1, OwnIntf, Names, Zenon DEF Live
    <3>5. g \in lags'
      BY <1>1, <2>3, <3>1
    <3> QED BY <3>3, <3>4, <3>5 DEF LagFit, HasVlansOf, Live
  <2> QED BY <2>2, <2>3
<1>16. Pvids'
  <2>1. SUFFICES ASSUME NEW c \in Bundle, Settled(c)' PROVE PvidOf(c)'
    BY DEF Pvids
  <2>2. CASE c # b
    <3>1. \A p \in Port : owner'[p] = c => owner[p] = c /\ pvid'[p] = pvid[p]
      BY <1>1, <1>8, <2>2
    <3>2. PvidKept(c)
      BY <1>1, <1>2, <2>2, <3>1 DEF PvidKept
    <3> QED BY <2>1, <3>2, PvidFrame
  <2>3. CASE c = b
    <3>1. i \notin stale'
      BY <1>2, <1>8, <2>1, <2>3, Zenon DEF Settled
    <3>2. hw /\ UpdateDone(cur, s, call.updated, Ports(b), r)
      BY <1>11, <3>1
    <3>3. bundles'[b].vlan_mode = s.vlan_mode /\ bundles'[b].vlan = VlanOf(s) /\ bundles'[b].trunks = TrunksOf(s)
      BY <1>2, <3>2, Zenon DEF UpdateDone
    <3>4. Coherent(bundles[b])'
      <4>1. NoVid \notin Vlan
        BY MaxVlanAssumption DEF NoVid, Vlan
      <4> QED BY <3>3, <4>1, SettingsFacts, Zenon DEF Coherent
    <3>5. ASSUME NEW p \in Port, owner'[p] = b, p \notin stale' PROVE pvid'[p] = VlanOf(s)
      <4>1. p \in Ports(b) /\ owner[p] = b /\ p \notin stale
        BY <1>1, <3>5 DEF Ports
      <4>2. CASE \A q \in Ports(b) : r.pvid[q] = VlanOf(s)
        BY <1>1, <4>1, <4>2, Zenon
      <4>3. CASE /\ r.pvid = pvid /\ cur.trunks # NULL /\ ~(cur.is_lag /\ call.updated)
                 /\ Coherent(cur) => cur.vlan = VlanOf(s)
        <5>1. PvidOf(b) /\ Coherent(cur)
          BY <1>4, <1>10, <3>1, <4>3
        <5>2. ~(bundles[b].is_lag /\ Busy(b) /\ call.updated)
          BY <1>4, <4>3
        <5>3. pvid[p] = bundles[b].vlan
          BY <4>1, <5>1, <5>2, Zenon DEF PvidOf
        <5> QED BY <1>1, <1>4, <4>3, <5>1, <5>3
      <4> QED BY <3>2, <4>2, <4>3, Zenon DEF UpdateDone
    <3> QED BY <2>3, <3>3, <3>4, <3>5 DEF PvidOf
  <2> QED BY <2>2, <2>3
<1> QED BY <1>9, <1>14, <1>15, <1>16 DEF Memberships

\* The last step of bundle_set keeps the invariant.
LEMMA FinishKeeps ==
    ASSUME Constants, IInv, NEW s \in VlanSettings, NEW hw \in BOOLEAN, bundle_set_finish(s, hw)
    PROVE  TypeOK' /\ Structure' /\ Memberships' /\ Pvids'
<1> USE DEF IInv
<1>1. call # NULL
  BY DEF bundle_set_finish
<1>2. PICK b \in Bundle : b = call.bundle
  BY <1>1 DEF TypeOK
<1>3. Live(b)
  BY <1>1, <1>2 DEF Structure, Calls
<1>4. TypeOK' /\ Finish(b, s, hw)
  BY <1>2, <1>3, FinishType
<1>5. Finishing(b, hw)
  BY <1>1, <1>2, <1>3, <1>4, Zenon DEF Finish, Finishing
<1>6. CASE FinishDestroy(b, hw)
  BY <1>4, <1>5, <1>6, FinishDestroyKeeps
<1>7. CASE FinishNoConfig(b, hw)
  BY <1>4, <1>5, <1>7, FinishNoConfigKeeps
<1>8. CASE \E r : FinishConfigure(b, s, r, hw)
  BY <1>4, <1>5, <1>8, FinishConfigureKeeps
<1> QED BY <1>4, <1>6, <1>7, <1>8 DEF Finish
-----------------------------------------------------------------------------
(* The theorems *)

\* The invariant holds before the first call.
LEMMA InitIInv == Init => IInv
<1> SUFFICES ASSUME Init PROVE IInv
  OBVIOUS
<1>1. TypeOK
  <2>1. NoVid \in Vlan \union {NoVid} /\ 0 \in 0..MaxFaults /\ {DefaultVlan} \subseteq Vlan
    BY MaxFaultsAssumption, Names
  <2>2. \A v \in Vlan : \A i \in Intf :
           (IF v = DefaultVlan /\ i \in Port THEN "UNTAGGED" ELSE "none") \in Encap
    BY DEF Encap
  <2>3. members \in [Vlan -> [Intf -> Encap]]
    BY <2>2 DEF Init
  <2> QED BY <2>1, <2>3, Names DEF Init, TypeOK
<1>2. /\ \A b \in Bundle : bundles[b] = NULL
      /\ \A p \in Port : owner[p] = NULL
      /\ call = NULL /\ lags = {}
      /\ \A v \in Vlan : \A i \in Intf :
            members[v][i] = IF v = DefaultVlan /\ i \in Port THEN "UNTAGGED" ELSE "none"
  BY DEF Init
<1>3. Structure
  BY <1>2, Names DEF Structure, Owners, Calls, Singles, LagBundles, OwnLag, Live
<1>4. \A p \in Port : PortFit(p)
  BY <1>2, Names DEF PortFit
<1>5. \A g \in LagId : LagFit(g)
  BY <1>2, Names DEF LagFit, InNoVlan, Live
<1>6. Pvids
  BY <1>2 DEF Pvids, Settled, Live
<1> QED BY <1>1, <1>3, <1>4, <1>5, <1>6 DEF IInv, Memberships

\* A step that changes nothing but the L3 VLAN interface, or nothing at all.
LEMMA IdleKeeps ==
    ASSUME IInv, UNCHANGED <<exist, members, pvid, lags, bundles, owner, call, stale>>
    PROVE  Structure' /\ Memberships' /\ Pvids'
<1> USE DEF IInv
<1>1. Structure'
  BY StructureSame
<1>2. Pvids'
  BY PvidsSame
<1>3. ASSUME NEW p \in Port, p \notin stale' PROVE PortFit(p)'
  <2>1. PortFit(p)
    BY <1>3 DEF Memberships
  <2>2. PortKept(p)
    BY DEF PortKept, HasOwnBundle, Live
  <2> QED BY <2>1, <2>2, PortFrame
<1>4. ASSUME NEW g \in LagId, g \notin stale' PROVE LagFit(g)'
  <2>1. LagFit(g)
    BY <1>4 DEF Memberships
  <2>2. LagKept(g)
    BY DEF LagKept
  <2> QED BY <2>1, <2>2, LagFrame
<1> QED BY <1>1, <1>2, <1>3, <1>4 DEF Memberships

\* Every call of ovs-vswitchd keeps the invariant.
LEMMA NextIInv ==
    ASSUME Constants, IInv, [Next]_vars
    PROVE  IInv'
<1> SUFFICES TypeOK' /\ Structure' /\ Memberships' /\ Pvids'
  BY DEF IInv
<1>1. ASSUME NEW v \in Vlan, NEW hw \in BOOLEAN, set_vlan_add(v, hw)
      PROVE  TypeOK' /\ Structure' /\ Memberships' /\ Pvids'
  <2>1. VlanStep(v) /\ TypeOK'
    BY <1>1, SetVlanAddStep, SetVlanAddType DEF IInv
  <2> QED BY <2>1, VlanStepKeeps
<1>2. ASSUME NEW v \in Vlan, NEW hw \in BOOLEAN, set_vlan_del(v, hw)
      PROVE  TypeOK' /\ Structure' /\ Memberships' /\ Pvids'
  <2>1. VlanStep(v) /\ TypeOK'
    BY <1>2, SetVlanDelStep, SetVlanDelType DEF IInv
  <2> QED BY <2>1, VlanStepKeeps
<1>3. CASE \E b \in Bundle, hw \in BOOLEAN : bundle_unset(b, hw)
  BY <1>3, BundleUnsetKeeps
<1>4. CASE \E p \in Port, hw \in BOOLEAN : bundle_remove(p, hw)
  BY <1>4, BundleRemoveKeeps
<1>5. CASE \E b \in Bundle, hw \in BOOLEAN : \E s \in Settings(b) : bundle_set(b, s, hw)
  BY <1>5, BundleSetKeeps
<1>6. CASE \E b \in Bundle : \E s \in Settings(b) : bundle_set_no_lag(b, s)
  BY <1>6, NoLagKeeps
<1>7. CASE \E p \in Port, hw \in BOOLEAN : bundle_add_port(p, hw)
  BY <1>7, BundleAddPortKeeps
<1>8. CASE \E s \in VlanSettings, hw \in BOOLEAN : bundle_set_finish(s, hw)
  BY <1>8, FinishKeeps
<1>9. ASSUME NEW v \in L3Vlans, NEW enable \in BOOLEAN, update_l3_config(v, enable)
      PROVE  TypeOK' /\ Structure' /\ Memberships' /\ Pvids'
  <2>1. TypeOK'
    BY <1>9, L3ConfigType DEF IInv
  <2>2. UNCHANGED <<exist, members, pvid, lags, bundles, owner, call, stale>>
    BY <1>9 DEF update_l3_config
  <2> QED BY <2>1, <2>2, IdleKeeps
<1>10. CASE UNCHANGED vars
  <2>1. TypeOK'
    BY <1>10, Zenon DEF IInv, TypeOK, vars
  <2>2. UNCHANGED <<exist, members, pvid, lags, bundles, owner, call, stale>>
    BY <1>10 DEF vars
  <2> QED BY <2>1, <2>2, IdleKeeps
<1> QED BY <1>1, <1>2, <1>3, <1>4, <1>5, <1>6, <1>7, <1>8, <1>9, <1>10 DEF Next

\* The invariant holds always.
LEMMA Invariance ==
    ASSUME Constants
    PROVE  Spec => []IInv
<1>1. IInv /\ [Next]_vars => IInv'
  BY NextIInv
<1> QED BY <1>1, InitIInv, PTL DEF Spec

\* What a configured bundle that bundle_set is not working on has in the invariant.
LEMMA ConfiguredFacts ==
    ASSUME IInv, NEW b \in Configured
    PROVE  /\ b \in Bundle /\ Live(b) /\ ~Busy(b)
           /\ bundles[b].trunks # NULL /\ bundles[b].intfId # NULL
           /\ b \in Single => bundles[b].intfId = b /\ owner[b] = b /\ Ports(b) \subseteq {b}
<1>1. /\ b \in Bundle /\ Live(b) /\ ~Busy(b)
      /\ bundles[b].trunks # NULL /\ bundles[b].intfId # NULL
  BY DEF Configured, Busy
<1>2. b \in Single => bundles[b].intfId = b /\ owner[b] = b /\ Ports(b) \subseteq {b}
  BY <1>1, IdleSingle, StructureFacts DEF IInv
<1> QED BY <1>1, <1>2

\* Whatever sequence of set_vlan, bundle_set and bundle_remove is called, and whatever the
\* hardware refuses, the plugin's tables keep their types.
THEOREM TablesAreTyped ==
    ASSUME Constants
    PROVE  Spec => []TypeOK
<1>1. IInv => TypeOK
  BY DEF IInv
<1> QED BY <1>1, Invariance, PTL

\* set_vlan and the differences that bundle_update_vlan_config writes keep the interface of
\* every configured bundle in exactly the existing VLANs of its trunks, rightly tagged,
\* unless the hardware refused a call for that interface.
THEOREM ConfigIsApplied ==
    ASSUME Constants
    PROVE  Spec => []ConfigApplied
<1>1. IInv => ConfigApplied
  <2>1. SUFFICES ASSUME IInv, NEW b \in Configured, bundles[b].intfId \notin stale, NEW v \in Vlan
                 PROVE  MemberAsConfigured(b, v)
    BY DEF ConfigApplied
  <2>2. /\ b \in Bundle /\ Live(b) /\ bundles[b].trunks # NULL /\ bundles[b].intfId # NULL
        /\ b \in Single => bundles[b].intfId = b /\ owner[b] = b
    BY <2>1, ConfiguredFacts
  <2>3. HasVlansOf(bundles[b].intfId, bundles[b])
    <3>1. CASE b \in Single
      BY <2>1, <2>2, <3>1, Names DEF IInv, Memberships, PortFit
    <3>2. CASE b \in Lag
      <4>1. bundles[b].intfId \in LagId
        BY <2>1, <2>2, <3>2, StructureFacts DEF IInv
      <4> QED BY <2>1, <2>2, <3>2, <4>1 DEF IInv, Memberships, LagFit
    <3> QED BY <2>2, <3>1, <3>2, Names
  <2> QED BY <2>1, <2>2, <2>3, Zenon DEF MemberAsConfigured, HasVlansOf, Wanted, TrunkSet
<1> QED BY <1>1, Invariance, PTL

\* The ports of a configured bundle, those that joined its LAG later too, have its VLAN as
\* their default: bundle_update_vlan_config skips them only if they have it already.
THEOREM PvidsAreAsConfigured ==
    ASSUME Constants
    PROVE  Spec => []PvidAsConfigured
<1>1. IInv => PvidAsConfigured
  <2>1. SUFFICES ASSUME IInv, NEW b \in Configured, bundles[b].intfId \notin stale,
                        NEW p \in Ports(b) \ stale
                 PROVE  pvid[p] = bundles[b].vlan
    BY DEF PvidAsConfigured
  <2>2. b \in Bundle /\ Settled(b) /\ ~Busy(b)
    BY <2>1, ConfiguredFacts DEF Settled
  <2>3. PvidOf(b)
    BY <2>1, <2>2 DEF IInv, Pvids
  <2> QED BY <2>2, <2>3 DEF PvidOf, Ports
<1> QED BY <1>1, Invariance, PTL

\* A port of a LAG is in no VLAN by itself, whatever bundle it was in before
\* bundle_add_port took it.
THEOREM SlavesAreInNoVlan ==
    ASSUME Constants
    PROVE  Spec => []SlaveInNoVlan
<1>1. IInv => SlaveInNoVlan
  <2>1. SUFFICES ASSUME IInv, NEW b \in Configured, NEW p \in Ports(b) \ stale,
                        p # bundles[b].intfId, NEW v \in Vlan
                 PROVE  members[v][p] = "none"
    BY DEF SlaveInNoVlan
  <2>2. b \in Bundle /\ (b \in Single => bundles[b].intfId = b /\ Ports(b) \subseteq {b})
    BY <2>1, ConfiguredFacts
  <2>3. p \in Port /\ p \notin stale /\ owner[p] = b
    BY DEF Ports
  <2>4. b \in Lag
    BY <2>1, <2>2, Names
  <2>5. owner[p] # NULL /\ owner[p] # p
    BY <2>3, <2>4, Names
  <2>6. PortFit(p)
    BY <2>1, <2>3 DEF IInv, Memberships
  <2> QED BY <2>5, <2>6 DEF PortFit, InNoVlan
<1> QED BY <1>1, Invariance, PTL
=============================================================================
