------------------------ MODULE LaneAssignmentProofs ------------------------
(***************************************************************************)
(* For any tenants, users, lanes, processes and work items, and whatever   *)
(* IDs lane groups get: who is offered work, and on which group it hangs.  *)
(***************************************************************************)
EXTENDS LaneAssignment, FiniteSetTheorems, TLAPS

-----------------------------------------------------------------------------
(***************************************************************************)
(* Steps that are repeated.                                                *)
(***************************************************************************)

\* A set of naturals with 0 and with every successor has them all.
LEMMA NatSet ==
    ASSUME NEW S, S \subseteq Nat, 0 \in S, \A n \in S : n + 1 \in S
    PROVE  S = Nat
<1> SUFFICES ASSUME Nat \ S # {} PROVE FALSE
  BY Zenon
<1> DEFINE T == Nat \ S
           R == {p \in Nat \X Nat : p[1] < p[2]}
<1>1. T \subseteq Nat /\ T # {}
  BY Zenon
<1>2. IsWellFoundedOn(R, Nat)
  BY NatLessThanWellFounded, Zenon DEF OpToRel
<1> HIDE DEF T, R
<1>3. PICK x \in T : \A y \in T : ~(<<y, x>> \in R)
  BY <1>1, <1>2, WFMin, Zenon
<1>4. \A a, b \in Nat : a < b => <<a, b>> \in R
  BY Zenon DEF R
<1>5. \A y \in T : ~(y < x)
  BY <1>1, <1>3, <1>4, Zenon
<1>6. x \in Nat /\ x # 0 /\ x \notin S
  BY Zenon DEF T
<1>7. x - 1 \in Nat /\ x - 1 < x /\ (x - 1) + 1 = x
  BY <1>6
<1>8. x - 1 \in S
  BY <1>5, <1>7, Zenon DEF T
<1> QED
  BY <1>6, <1>7, <1>8, Zenon

\* A value, and what one step after the other makes of it.
LEMMA Iterates ==
    ASSUME NEW S, NEW base \in S, NEW n \in Nat, NEW step \in [1 .. n -> [S -> S]]
    PROVE  \E f \in [0 .. n -> S] :
              f[0] = base /\ \A k \in 1 .. n : f[k] = step[k][f[k - 1]]
<1> DEFINE Upto(m) == \E f \in [0 .. m -> S] :
                         f[0] = base /\ \A k \in 1 .. m : f[k] = step[k][f[k - 1]]
           Good == {m \in Nat : m <= n => Upto(m)}
<1>1. 0 \in Good
  <2>1. [k \in 0 .. 0 |-> base] \in [0 .. 0 -> S]
    BY Zenon
  <2>2. Upto(0)
    <3> WITNESS [k \in 0 .. 0 |-> base] \in [0 .. 0 -> S]
    <3> QED OBVIOUS
  <2> QED
    BY <2>2, Zenon
<1>2. ASSUME NEW m \in Good PROVE m + 1 \in Good
  <2> HIDE DEF Upto
  <2>n. m \in Nat /\ m + 1 \in Nat
    OBVIOUS
  <2> SUFFICES ASSUME m + 1 <= n PROVE Upto(m + 1)
    BY <2>n, Zenon
  <2> USE DEF Upto
  <2>1. PICK f \in [0 .. m -> S] :
           f[0] = base /\ \A k \in 1 .. m : f[k] = step[k][f[k - 1]]
    OBVIOUS
  <2> DEFINE g == [k \in 0 .. (m + 1) |->
                      IF k = m + 1 THEN step[m + 1][f[m]] ELSE f[k]]
  <2>2. m \in 0 .. m /\ m + 1 \in 1 .. n
    OBVIOUS
  <2>3. step[m + 1][f[m]] \in S
    BY <2>2, Zenon
  <2>4. g \in [0 .. (m + 1) -> S]
    BY <2>3
  <2>5. g[0] = base
    BY <2>1
  <2>6. ASSUME NEW k \in 1 .. (m + 1) PROVE g[k] = step[k][g[k - 1]]
    <3>1. CASE k = m + 1
      BY <3>1
    <3>2. CASE k # m + 1
      BY <2>1, <3>2
    <3> QED
      BY <3>1, <3>2, Zenon
  <2> HIDE DEF g
  <2> WITNESS g \in [0 .. (m + 1) -> S]
  <2> QED
    BY <2>5, <2>6, Zenon
<1> HIDE DEF Upto
<1>3. Good = Nat
  <2>1. Good \subseteq Nat
    BY Zenon
  <2> HIDE DEF Good
  <2> QED
    BY <1>1, <1>2, <2>1, NatSet, Zenon
<1>4. Upto(n)
  BY <1>3
<1> QED
  BY <1>4, Zenon DEF Upto

IsIterate(f, S, base, n, step) ==
    /\ f \in [0 .. n -> S]
    /\ f[0] = base
    /\ \A k \in 1 .. n : f[k] = step[k][f[k - 1]]

\* There is an iteration of n steps.
LEMMA HasIterate ==
    ASSUME NEW S, NEW base \in S, NEW n \in Nat, NEW step \in [1 .. n -> [S -> S]]
    PROVE  \E f : IsIterate(f, S, base, n, step)
<1>1. PICK f \in [0 .. n -> S] :
         f[0] = base /\ \A k \in 1 .. n : f[k] = step[k][f[k - 1]]
  BY Iterates
<1> QED
  BY <1>1, Zenon DEF IsIterate

\* A finite set can be put in order, and an order names all its members.
LEMMA OrdersExist ==
    ASSUME NEW S, IsFiniteSet(S)
    PROVE  /\ Orders(S) # {}
           /\ \A s \in Orders(S) :
                 /\ s \in Seq(S)
                 /\ \A x \in S : \E k \in 1 .. Len(s) : s[k] = x
<1>1. Cardinality(S) \in Nat /\ ExistsBijection(1 .. Cardinality(S), S)
  BY FS_CardinalityType, Zenon
<1>2. PICK f : f \in Bijection(1 .. Cardinality(S), S)
  BY <1>1, Zenon DEF ExistsBijection
<1>3. f \in Orders(S)
  BY <1>2, Zenon DEF Bijection, Injection, Surjection, Orders, Range
<1>4. ASSUME NEW s \in Orders(S)
      PROVE  /\ s \in Seq(S)
             /\ \A x \in S : \E k \in 1 .. Len(s) : s[k] = x
  <2>1. s \in [1 .. Cardinality(S) -> S] /\ Range(s) = S
    BY Zenon DEF Orders
  <2>2. s \in Seq(S) /\ Len(s) = Cardinality(S)
    BY <1>1, <2>1
  <2> QED
    BY <2>1, <2>2, Zenon DEF Range
<1> QED
  BY <1>3, <1>4, Zenon

-----------------------------------------------------------------------------
(***************************************************************************)
(* The groups of lanes.                                                    *)
(***************************************************************************)

Found == UNION {[D -> Id \cup {NoGroup}] : D \in SUBSET Lane}

DB == [group : [Id -> Identifier], member : SUBSET (User \X Id),
       item : [Item -> WorkItem], groups : Found]

HasLegacy(groups, l) == l \in DOMAIN LegacyId /\ groups[LegacyId[l]] = l

\* The group g serves the lane l of t: as the group that was made for it, or as
\* the one named like the lane, where none has been made.
Serves(groups, t, l, g) ==
    \/ g = NoGroup
    \/ g = Hash[<<t, l>>] /\ groups[g] = <<t, l>>
    \/ /\ HasLegacy(groups, l) /\ g = LegacyId[l]
       /\ groups[Hash[<<t, l>>]] # <<t, l>>

\* Groups are made and not changed, and none is made for a lane while there is
\* one named like it.
Grows(old, new) ==
    /\ \A g \in Id : old[g] # NoGroup => new[g] = old[g]
    /\ \A t \in Tenant, l \in Lane :
          LET g == Hash[<<t, l>>] IN
          new[g] = <<t, l>> /\ old[g] # <<t, l>> => ~HasLegacy(old, l)

\* The IDs of groups.
LEMMA Ids ==
    /\ \A t \in Tenant, l \in Lane : Hash[<<t, l>>] \in Id
    /\ \A l \in DOMAIN LegacyId : LegacyId[l] \in Id
    /\ NoGroup \notin Id
    /\ \A l \in Lane : l \in Identifier /\ l # NoGroup
    /\ \A t \in Tenant, l \in Lane :
          <<t, l>> \in Identifier /\ <<t, l>> # NoGroup /\ \A k \in Lane : <<t, l>> # k
<1>1. \A t \in Tenant, l \in Lane : <<t, l>> \in DOMAIN Hash
  BY GroupAssumption, Zenon
<1>2. \A t \in Tenant, l \in Lane : Hash[<<t, l>>] \in Id
  BY <1>1, Zenon DEF Id, Range
<1>3. \A l \in DOMAIN LegacyId : LegacyId[l] \in Id
  BY Zenon DEF Id, Range
<1>4. /\ NoGroup \notin Id
      /\ \A l \in Lane : l \in Identifier /\ l # NoGroup
  BY GroupAssumption, Zenon DEF Identifier
<1>5. \A t \in Tenant, l \in Lane :
         <<t, l>> \in Identifier /\ <<t, l>> # NoGroup /\ \A k \in Lane : <<t, l>> # k
  BY GroupAssumption, Zenon DEF Identifier
<1> QED
  BY <1>2, <1>3, <1>4, <1>5, Zenon

\* What serves a lane goes on serving it.
LEMMA ServesOn ==
    ASSUME NEW old, NEW new, Grows(old, new), NEW t \in Tenant, NEW l \in Lane,
           NEW g, Serves(old, t, l, g)
    PROVE  Serves(new, t, l, g)
<1>1. CASE g = NoGroup
  BY <1>1, Zenon DEF Serves
<1>2. CASE g = Hash[<<t, l>>] /\ old[g] = <<t, l>>
  BY <1>2, Ids, Zenon DEF Serves, Grows
<1>3. CASE /\ HasLegacy(old, l) /\ g = LegacyId[l]
           /\ old[Hash[<<t, l>>]] # <<t, l>>
  <2>1. HasLegacy(new, l)
    BY <1>3, Ids, Zenon DEF HasLegacy, Grows
  <2>2. new[Hash[<<t, l>>]] # <<t, l>>
    BY <1>3, Zenon DEF Grows
  <2> QED
    BY <1>3, <2>1, <2>2, Zenon DEF Serves
<1> QED
  BY <1>1, <1>2, <1>3, Zenon DEF Serves

\* find_or_create_lane_group returns a group that serves the lane, and adds at
\* most that one.
LEMMA FindOrCreate ==
    ASSUME NEW db \in DB, NEW t \in Tenant, NEW l \in Lane
    PROVE  LET new == FindOrCreateLaneGroup(db, t, l)
               g == LaneGroup(db, t, l)
           IN  /\ new \in DB
               /\ new.member = db.member /\ new.item = db.item
               /\ new.groups = db.groups
               /\ Grows(db.group, new.group)
               /\ g \in Id \cup {NoGroup} /\ Serves(new.group, t, l, g)
<1> DEFINE new == FindOrCreateLaneGroup(db, t, l)
           g == LaneGroup(db, t, l)
           h == Hash[<<t, l>>]
<1>1. db.group \in [Id -> Identifier] /\ h \in Id
  BY Ids, Zenon DEF DB
<1>2. \A f \in [Id -> Identifier] : [db EXCEPT !.group = f] \in DB
  BY Zenon DEF DB
<1>3. g \in {h, NoGroup} \/ (HasLegacy(db.group, l) /\ g = LegacyId[l])
  BY Zenon DEF LaneGroup, HasLegacy
<1>4. CASE g # NoGroup /\ db.group[g] = NoGroup
  <2>1. g = h /\ db.group[h] = NoGroup /\ ~HasLegacy(db.group, l)
    BY <1>4, Ids, GroupAssumption, Zenon DEF LaneGroup, HasLegacy
  <2>2. new = [db EXCEPT !.group[h] = <<t, l>>]
    BY <1>4, <2>1, Zenon DEF FindOrCreateLaneGroup
  <2>3. /\ new.group = [db.group EXCEPT ![h] = <<t, l>>]
        /\ new.member = db.member /\ new.item = db.item
        /\ new.groups = db.groups
    BY <2>2, Zenon DEF DB
  <2>4. new.group \in [Id -> Identifier]
    BY <1>1, <2>3, Ids, Zenon
  <2>5. new \in DB
    BY <2>2, <2>3, <2>4, Zenon DEF DB
  <2>6. new.group[h] = <<t, l>> /\ \A x \in Id \ {h} : new.group[x] = db.group[x]
    BY <1>1, <2>3, Zenon
  <2>7. Grows(db.group, new.group)
    <3>1. ASSUME NEW a \in Tenant, NEW b \in Lane,
                 new.group[Hash[<<a, b>>]] = <<a, b>>,
                 db.group[Hash[<<a, b>>]] # <<a, b>>
          PROVE  ~HasLegacy(db.group, b)
      <4>1. Hash[<<a, b>>] = h
        BY <2>6, <3>1, Ids, Zenon
      <4>2. <<a, b>> = <<t, l>>
        BY <2>6, <3>1, <4>1, Zenon
      <4>3. b = l
        BY <4>2, Zenon
      <4> QED
        BY <2>1, <4>3, Zenon
    <3>2. \A x \in Id : db.group[x] # NoGroup => new.group[x] = db.group[x]
      BY <2>1, <2>6, Zenon
    <3> QED
      BY <3>1, <3>2, Zenon DEF Grows
  <2>8. Serves(new.group, t, l, g)
    BY <2>1, <2>6, Zenon DEF Serves
  <2> QED
    BY <1>1, <2>1, <2>3, <2>5, <2>7, <2>8, Zenon
<1>5. CASE g = NoGroup \/ db.group[g] # NoGroup
  <2>1. new = db
    BY <1>5, Zenon DEF FindOrCreateLaneGroup
  <2>2. Grows(db.group, db.group)
    BY Zenon DEF Grows
  <2>3. Serves(db.group, t, l, g)
    BY <1>5, Ids, GroupAssumption, Zenon DEF LaneGroup, Serves, HasLegacy
  <2>4. g \in Id \cup {NoGroup}
    BY <1>1, <1>3, Ids, Zenon DEF HasLegacy
  <2> QED
    BY <2>1, <2>2, <2>3, <2>4, Zenon
<1> QED
  BY <1>4, <1>5, Zenon

-----------------------------------------------------------------------------
(***************************************************************************)
(* Enrolment.                                                              *)
(***************************************************************************)

\* A work item is offered to users of its tenant, and hangs on a group that
\* serves its lane.
ItemOK(db, i) ==
    /\ \A u \in DOMAIN db.item[i].owners : Home[u] = In[Of[i]]
    /\ db.item[i].lane # NoGroup => LaneOf[i] \in Lane
    /\ Serves(db.group, In[Of[i]], LaneOf[i], db.item[i].lane)

LaneInv(db) == \A i \in Item : ItemOK(db, i)

\* What an enrolment has found.
FoundOK(db, t) == \A l \in DOMAIN db.groups : Serves(db.group, t, l, db.groups[l])

\* Work items that stay as they are stay right when groups are made.
LEMMA GrowingKeeps ==
    ASSUME NEW db, NEW new, Grows(db.group, new.group), LaneInv(db),
           NEW i \in Item, new.item[i] = db.item[i]
    PROVE  ItemOK(new, i)
<1>1. Of[i] \in Proc /\ In[Of[i]] \in Tenant
  BY ProcessAssumption, Zenon
<1>2. CASE db.item[i].lane = NoGroup
  BY <1>2, Zenon DEF LaneInv, ItemOK, Serves
<1>3. CASE db.item[i].lane # NoGroup
  <2>1. LaneOf[i] \in Lane /\ Serves(db.group, In[Of[i]], LaneOf[i], db.item[i].lane)
    BY <1>3, Zenon DEF LaneInv, ItemOK
  <2>2. Serves(new.group, In[Of[i]], LaneOf[i], db.item[i].lane)
    BY <1>1, <2>1, ServesOn, Zenon
  <2> QED
    BY <2>2, Zenon DEF LaneInv, ItemOK
<1> QED
  BY <1>2, <1>3, Zenon

\* Users are found in the tenant alone.
LEMMA OwnersInTenant ==
    ASSUME NEW t, NEW names \in SUBSET Name
    PROVE  LaneOwners(t, names) \subseteq {u \in User : Home[u] = t}
<1>1. \A n \in names : UsersFor(t, n) \subseteq {u \in User : Home[u] = t}
  BY UserAssumption, Zenon DEF UsersFor, InTenant
<1> QED
  BY <1>1, Zenon DEF LaneOwners

\* How labels are put together.
LEMMA Labels ==
    ASSUME NEW S, NEW x
    PROVE  DOMAIN Labelled(S, x) = S /\ \A k \in S : Labelled(S, x)[k] = x
BY Zenon DEF Labelled

\* What Completed returns: the first mapping, filled up from the second.
LEMMA Completes ==
    ASSUME NEW f, NEW g
    PROVE  /\ DOMAIN Completed(f, g) = DOMAIN f \cup DOMAIN g
           /\ \A x \in DOMAIN f : Completed(f, g)[x] = f[x]
           /\ \A x \in DOMAIN g : x \notin DOMAIN f => Completed(f, g)[x] = g[x]
           /\ Completed(f, g) \in [DOMAIN Completed(f, g) ->
                   {Completed(f, g)[x] : x \in DOMAIN Completed(f, g)}]
<1>1. DOMAIN Completed(f, g) = DOMAIN f \cup DOMAIN g
  BY Zenon DEF Completed
<1>2. /\ \A x \in DOMAIN f : Completed(f, g)[x] = f[x]
      /\ \A x \in DOMAIN g : x \notin DOMAIN f => Completed(f, g)[x] = g[x]
  BY Zenon DEF Completed
<1>3. Completed(f, g) = [x \in DOMAIN Completed(f, g) |-> Completed(f, g)[x]]
  BY Zenon DEF Completed
<1> QED
  BY <1>1, <1>2, <1>3, Zenon

\* One round of _enroll_lane_owners.
LEMMA EnrollLaneKeeps ==
    ASSUME NEW db \in DB, NEW t \in Tenant, NEW l \in Lane, NEW names \in SUBSET Name,
           LaneInv(db), FoundOK(db, t)
    PROVE  LET new == EnrollLane(db, t, l, names)
           IN  /\ new \in DB /\ LaneInv(new) /\ FoundOK(new, t)
               /\ new.item = db.item /\ db.member \subseteq new.member
<1> DEFINE new == EnrollLane(db, t, l, names)
           found == FindOrCreateLaneGroup(db, t, l)
           g == LaneGroup(db, t, l)
           members == IF g = NoGroup THEN found.member
                      ELSE found.member \cup (LaneOwners(t, names) \X {g})
           one == Labelled({l}, g)
           groups == Completed(one, found.groups)
<1>1. /\ found \in DB
      /\ found.member = db.member /\ found.item = db.item
      /\ found.groups = db.groups
      /\ Grows(db.group, found.group)
      /\ g \in Id \cup {NoGroup} /\ Serves(found.group, t, l, g)
  BY FindOrCreate, Zenon
<1>2. new = [found EXCEPT !.member = members, !.groups = groups]
  BY Zenon DEF EnrollLane
<1> HIDE DEF found, g
<1>3. /\ new.group = found.group /\ new.item = found.item
      /\ new.member = members /\ new.groups = groups
  BY <1>1, <1>2, Zenon DEF DB
<1>4. members \subseteq User \X Id /\ found.member \subseteq members
  <2>1. found.member \subseteq User \X Id
    BY <1>1, Zenon DEF DB
  <2>2. g # NoGroup => LaneOwners(t, names) \X {g} \subseteq User \X Id
    BY <1>1, OwnersInTenant, Zenon
  <2> QED
    BY <2>1, <2>2, Zenon
<1>5. DOMAIN found.groups \subseteq Lane
      /\ \A k \in DOMAIN found.groups : found.groups[k] \in Id \cup {NoGroup}
  BY <1>1 DEF DB, Found
<1>6. /\ DOMAIN groups = {l} \cup DOMAIN found.groups
      /\ groups[l] = g
      /\ \A k \in DOMAIN found.groups : k # l => groups[k] = found.groups[k]
      /\ groups \in [DOMAIN groups -> {groups[k] : k \in DOMAIN groups}]
  <2>1. DOMAIN one = {l} /\ one[l] = g
    BY Zenon DEF Labelled
  <2> HIDE DEF one
  <2>2. /\ DOMAIN groups = DOMAIN one \cup DOMAIN found.groups
        /\ \A k \in DOMAIN one : groups[k] = one[k]
        /\ \A k \in DOMAIN found.groups : k \notin DOMAIN one => groups[k] = found.groups[k]
        /\ groups \in [DOMAIN groups -> {groups[k] : k \in DOMAIN groups}]
    BY Completes, Zenon
  <2> HIDE DEF groups
  <2> QED
    BY <2>1, <2>2, Zenon
<1> HIDE DEF groups, members
<1>7. groups \in Found
  <2>1. DOMAIN groups \in SUBSET Lane
    BY <1>5, <1>6, Zenon
  <2>2. groups \in [DOMAIN groups -> Id \cup {NoGroup}]
    BY <1>1, <1>5, <1>6, Zenon
  <2> QED
    BY <2>1, <2>2, Zenon DEF Found
<1>8. new \in DB
  BY <1>1, <1>2, <1>4, <1>7, Zenon DEF DB
<1>9. LaneInv(new)
  <2>1. Grows(db.group, new.group) /\ new.item = db.item
    BY <1>1, <1>3, Zenon
  <2> QED
    BY <2>1, GrowingKeeps, Zenon DEF LaneInv
<1>10. FoundOK(new, t)
  <2> SUFFICES ASSUME NEW k \in DOMAIN groups
               PROVE  Serves(found.group, t, k, groups[k])
    BY <1>3, Zenon DEF FoundOK
  <2>1. CASE k = l
    BY <1>1, <1>6, <2>1, Zenon
  <2>2. CASE k # l
    <3>1. k \in DOMAIN db.groups /\ k \in Lane /\ groups[k] = db.groups[k]
      BY <1>1, <1>5, <1>6, <2>2, Zenon
    <3>2. Serves(db.group, t, k, db.groups[k])
      BY <3>1, Zenon DEF FoundOK
    <3> QED
      BY <1>1, <3>1, <3>2, ServesOn, Zenon
  <2> QED
    BY <2>1, <2>2, Zenon
<1> QED
  BY <1>1, <1>3, <1>4, <1>8, <1>9, <1>10, Zenon

\* _enroll_lane_owners: whatever the order of the lanes, and whatever a lane has
\* found before.
LEMMA EnrollKeeps ==
    ASSUME NEW db \in DB, NEW t \in Tenant, NEW mapping \in Mapping, LaneInv(db)
    PROVE  LET new == Enroll(db, t, mapping)
           IN  /\ new \in DB /\ LaneInv(new) /\ FoundOK(new, t)
               /\ new.item = db.item /\ db.member \subseteq new.member
<1> DEFINE keys == Keys(mapping)
           start == [db EXCEPT !.groups = << >>]
           Good == {d \in DB : /\ LaneInv(d) /\ FoundOK(d, t)
                              /\ d.item = db.item /\ db.member \subseteq d.member}
           after == CHOOSE f : f = [n \in 0 .. Len(keys) |->
                       IF n = 0 THEN start
                       ELSE EnrollLane(f[n - 1], t, keys[n], mapping[keys[n]])]
<1>1. DOMAIN mapping \in SUBSET Lane /\ \A l \in DOMAIN mapping : mapping[l] \in SUBSET Name
  BY Zenon DEF Mapping
<1>2. IsFiniteSet(DOMAIN mapping)
  BY <1>1, GroupAssumption, FS_Subset, Zenon
<1>3. keys \in Seq(DOMAIN mapping)
  <2>1. keys \in Orders(DOMAIN mapping)
    BY <1>2, OrdersExist, Zenon DEF Keys
  <2> QED
    BY <1>2, <2>1, OrdersExist, Zenon
<1> HIDE DEF keys
<1>4. Len(keys) \in Nat /\ \A n \in 1 .. Len(keys) : keys[n] \in DOMAIN mapping
  BY <1>3
<1>5. start \in Good
  <2>1. start.group = db.group /\ start.item = db.item /\ start.member = db.member
        /\ start.groups = << >>
    BY Zenon DEF DB
  <2>2. << >> \in Found
    BY DEF Found
  <2>3. start \in DB
    BY <2>2, Zenon DEF DB
  <2>4. LaneInv(start)
    BY <2>1, Zenon DEF LaneInv, ItemOK
  <2>5. FoundOK(start, t)
    BY <2>1 DEF FoundOK
  <2> QED
    BY <2>1, <2>3, <2>4, <2>5, Zenon
<1>6. \A d \in Good, n \in 1 .. Len(keys) :
         EnrollLane(d, t, keys[n], mapping[keys[n]]) \in Good
  <2> TAKE d \in Good, n \in 1 .. Len(keys)
  <2>1. keys[n] \in Lane /\ mapping[keys[n]] \in SUBSET Name
    BY <1>1, <1>4, Zenon
  <2>2. d \in DB /\ LaneInv(d) /\ FoundOK(d, t) /\ d.item = db.item
        /\ db.member \subseteq d.member
    BY Zenon
  <2> QED
    <3> DEFINE new == EnrollLane(d, t, keys[n], mapping[keys[n]])
    <3>1. /\ new \in DB /\ LaneInv(new) /\ FoundOK(new, t)
          /\ new.item = d.item /\ d.member \subseteq new.member
      BY <2>1, <2>2, EnrollLaneKeeps, Zenon
    <3> HIDE DEF new
    <3>2. new \in Good
      BY <2>2, <3>1, Zenon
    <3> QED
      BY <3>2, Zenon DEF new
<1> HIDE DEF Good, start
<1>7. after[Len(keys)] \in Good
  <2> DEFINE step == [n \in 1 .. Len(keys) |->
                        [d \in Good |-> EnrollLane(d, t, keys[n], mapping[keys[n]])]]
  <2>1. step \in [1 .. Len(keys) -> [Good -> Good]]
    BY <1>6, Zenon
  <2>2. \A d \in Good, n \in 1 .. Len(keys) :
           step[n][d] = EnrollLane(d, t, keys[n], mapping[keys[n]])
    BY Zenon
  <2> HIDE DEF step
  <2>3. PICK f : IsIterate(f, Good, start, Len(keys), step)
    BY <1>4, <1>5, <2>1, HasIterate, Zenon
  <2>4. /\ f \in [0 .. Len(keys) -> Good] /\ f[0] = start
         /\ \A n \in 1 .. Len(keys) : f[n] = step[n][f[n - 1]]
    BY <2>3, Zenon DEF IsIterate
  <2>5. f = [n \in 0 .. Len(keys) |->
                IF n = 0 THEN start
                ELSE EnrollLane(f[n - 1], t, keys[n], mapping[keys[n]])]
    <3>1. ASSUME NEW n \in 0 .. Len(keys), n # 0
          PROVE  f[n] = EnrollLane(f[n - 1], t, keys[n], mapping[keys[n]])
      <4>1. n \in 1 .. Len(keys) /\ n - 1 \in 0 .. Len(keys)
        BY <1>4, <3>1
      <4> QED
        BY <2>2, <2>4, <4>1, Zenon
    <3> QED
      BY <2>4, <3>1, Zenon
  <2>6. after = [n \in 0 .. Len(keys) |->
                    IF n = 0 THEN start
                    ELSE EnrollLane(after[n - 1], t, keys[n], mapping[keys[n]])]
    BY <2>5, Zenon
  <2> HIDE DEF after
  <2> DEFINE Reach == {n \in Nat : n <= Len(keys) => after[n] \in Good}
  <2>7. Reach = Nat
    <3>1. 0 \in Reach
      BY <1>4, <1>5, <2>6
    <3>2. ASSUME NEW n \in Reach PROVE n + 1 \in Reach
      <4> SUFFICES ASSUME n + 1 <= Len(keys) PROVE after[n + 1] \in Good
        OBVIOUS
      <4>1. /\ n \in Nat /\ after[n] \in Good /\ n + 1 \in 1 .. Len(keys)
            /\ n + 1 \in 0 .. Len(keys) /\ n + 1 # 0 /\ (n + 1) - 1 = n
        BY <1>4
      <4>2. after[n + 1] = EnrollLane(after[n], t, keys[n + 1], mapping[keys[n + 1]])
        BY <2>6, <4>1, Zenon
      <4> QED
        BY <1>6, <4>1, <4>2, Zenon
    <3>3. Reach \subseteq Nat
      BY Zenon
    <3> HIDE DEF Reach
    <3> QED
      BY <3>1, <3>2, <3>3, NatSet, Zenon
  <2> QED
    BY <1>4, <2>7
<1>8. Enroll(db, t, mapping) = after[Len(keys)]
  BY Zenon DEF Enroll, keys, start
<1> QED
  BY <1>7, <1>8, Zenon DEF Good

-----------------------------------------------------------------------------
(***************************************************************************)
(* Potential owners.                                                       *)
(***************************************************************************)

\* Labels on users are owners, and so are two of them put together.
LEMMA OwnersFrom ==
    /\ \A U \in SUBSET User, x \in Label : Labelled(U, x) \in Owners
    /\ << >> \in Owners
    /\ \A f \in Owners : DOMAIN f \in SUBSET User
    /\ \A f, g \in Owners : Completed(f, g) \in Owners
<1>1. \A U \in SUBSET User, x \in Label : Labelled(U, x) \in Owners
  BY DEF Labelled, Owners
<1>2. << >> \in Owners
  BY DEF Owners
<1>3. \A f \in Owners : DOMAIN f \in SUBSET User /\ \A u \in DOMAIN f : f[u] \in Label
  BY Zenon DEF Owners
<1>4. ASSUME NEW f \in Owners, NEW g \in Owners PROVE Completed(f, g) \in Owners
  <2>1. (DOMAIN f \cup DOMAIN g) \in SUBSET User
    BY <1>3, Zenon
  <2>2. Completed(f, g) \in [DOMAIN f \cup DOMAIN g -> Label]
    BY <1>3, Zenon DEF Completed
  <2> QED
    BY <2>1, <2>2, Zenon DEF Owners
<1> QED
  BY <1>1, <1>2, <1>3, <1>4, Zenon

\* _effective_lane_owners is a mapping, whichever source it comes from.
LEMMA EffectiveType ==
    ASSUME properties \in [Proc -> Configuration], NEW i \in Item
    PROVE  EffectiveOwners(i) \in Mapping
<1> DEFINE all == IF DataOwners[i] # NoMapping THEN DataOwners[i]
                  ELSE properties[Of[i]].lane_owners
           L == DOMAIN all \ properties[Of[i]].initiator_lanes
<1>1. Of[i] \in Proc /\ DataOwners[i] \in Mapping \cup {NoMapping}
  BY ProcessAssumption, Zenon
<1>2. properties[Of[i]].lane_owners \in Mapping
  BY <1>1, Zenon DEF Configuration
<1>3. all \in Mapping
  BY <1>1, <1>2, Zenon
<1> HIDE DEF all
<1>4. DOMAIN all \in SUBSET Lane /\ \A l \in DOMAIN all : all[l] \in SUBSET Name
  BY <1>3, Zenon DEF Mapping
<1>5. L \in SUBSET Lane /\ [l \in L |-> all[l]] \in [L -> SUBSET Name]
  BY <1>4, Zenon
<1>6. [l \in L |-> all[l]] \in Mapping
  BY <1>5, Zenon DEF Mapping
<1> QED
  BY <1>6, Zenon DEF EffectiveOwners, all

\* Users who are named, and members of a group, are asked for in the tenant.
LEMMA NamedInTenant ==
    ASSUME properties \in [Proc -> Configuration], NEW i \in Item
    PROVE  NamedOwners(i) \subseteq {u \in User : Home[u] = In[Of[i]]}
<1> DEFINE eff == EffectiveOwners(i)
<1>1. \A l \in DOMAIN eff : eff[l] \in SUBSET Name
  <2>1. eff \in Mapping
    BY EffectiveType, Zenon
  <2> HIDE DEF eff
  <2> QED
    BY <2>1, Zenon DEF Mapping
<1> HIDE DEF eff
<1>2. CASE LaneOf[i] \in DOMAIN eff
  <2>1. NamedOwners(i) = LaneOwners(In[Of[i]], eff[LaneOf[i]])
    BY <1>2, Zenon DEF NamedOwners, eff
  <2>2. eff[LaneOf[i]] \in SUBSET Name
    BY <1>1, <1>2, Zenon
  <2>3. LaneOwners(In[Of[i]], eff[LaneOf[i]]) \subseteq {u \in User : Home[u] = In[Of[i]]}
    BY <2>2, OwnersInTenant, Zenon
  <2> QED
    BY <2>1, <2>3, Zenon
<1>3. CASE LaneOf[i] \notin DOMAIN eff
  <2>1. NamedOwners(i) = {}
    BY <1>3, Zenon DEF NamedOwners, eff
  <2> QED
    BY <2>1, Zenon
<1> QED
  BY <1>2, <1>3, Zenon

\* The owners of a work item are users of its tenant, those its lane names and
\* all members of its group among them.
LEMMA OwnersOfType ==
    ASSUME properties \in [Proc -> Configuration], NEW i \in Item, NEW db, NEW g
    PROVE  /\ OwnersOf(db, i, g) \in Owners
           /\ \A u \in DOMAIN OwnersOf(db, i, g) : Home[u] = In[Of[i]]
           /\ NamedOwners(i) \subseteq DOMAIN OwnersOf(db, i, g)
           /\ g # NoGroup => \A u \in User :
                 Home[u] = In[Of[i]] /\ <<u, g>> \in db.member
                     => u \in DOMAIN OwnersOf(db, i, g)
<1> DEFINE named == Labelled(NamedOwners(i), "lane_owner")
           members == GroupMembers(db, g, In[Of[i]])
           others == IF g = NoGroup THEN << >>
                     ELSE Labelled(members, "lane_assignment")
<1>1. named \in Owners /\ DOMAIN named = NamedOwners(i)
  <2>1. NamedOwners(i) \in SUBSET User /\ "lane_owner" \in Label
    BY NamedInTenant, Zenon DEF Label
  <2> QED
    BY <2>1, OwnersFrom, Labels, Zenon
<1>2. members = {u \in User : <<u, g>> \in db.member /\ Home[u] = In[Of[i]]}
  BY Zenon DEF GroupMembers, InTenant
<1>3. /\ others \in Owners
      /\ g # NoGroup => DOMAIN others = members
      /\ DOMAIN others \subseteq members
  <2>1. CASE g = NoGroup
    <3>1. others = << >>
      BY <2>1, Zenon
    <3>2. DOMAIN << >> = {}
      OBVIOUS
    <3> HIDE DEF others
    <3> QED
      BY <2>1, <3>1, <3>2, OwnersFrom, Zenon
  <2>2. CASE g # NoGroup
    <3>1. others = Labelled(members, "lane_assignment")
      BY <2>2, Zenon
    <3>2. members \in SUBSET User /\ "lane_assignment" \in Label
      BY <1>2, Zenon DEF Label
    <3> HIDE DEF others, members
    <3> QED
      BY <3>1, <3>2, OwnersFrom, Labels, Zenon
  <2> QED
    BY <2>1, <2>2, Zenon
<1>4. OwnersOf(db, i, g) = Completed(named, others)
  BY Zenon DEF OwnersOf
<1> HIDE DEF named, others, members
<1>5. /\ Completed(named, others) \in Owners
      /\ DOMAIN Completed(named, others) = DOMAIN named \cup DOMAIN others
  BY <1>1, <1>3, OwnersFrom, Completes, Zenon
<1> QED
  BY <1>1, <1>2, <1>3, <1>4, <1>5, NamedInTenant, Zenon

\* Who was offered an item is offered it still, with the same label.
Keeps(old, new) ==
    \A j \in Item :
        /\ new[j].ready = old[j].ready
        /\ \A u \in DOMAIN old[j].owners :
              /\ u \in DOMAIN new[j].owners
              /\ new[j].owners[u] = old[j].owners[u]

\* The item has reached the users named for its lane, and the given members of
\* the lane group.
Reached(row, i, members) ==
    ~InitiatorsLane(i)
        => /\ NamedOwners(i) \subseteq DOMAIN row.owners
           /\ \A u \in User : Home[u] = In[Of[i]] /\ <<u, row.lane>> \in members
                 => u \in DOMAIN row.owners

\* The group and the owners that assign_work_item_potential_owners writes.
Put(db, i, g, owners) == AddMissing([db EXCEPT !.item[i].lane = g], i, owners)

\* They are in order when the group serves the lane and the owners are of the
\* tenant, and no other item is touched.
LEMMA PutOwners ==
    ASSUME NEW db \in DB, LaneInv(db), NEW i \in Item, NEW g \in Id \cup {NoGroup},
           NEW owners \in Owners, \A u \in DOMAIN owners : Home[u] = In[Of[i]],
           g # NoGroup => LaneOf[i] \in Lane,
           Serves(db.group, In[Of[i]], LaneOf[i], g)
    PROVE  LET new == Put(db, i, g, owners)
           IN  /\ new \in DB /\ LaneInv(new)
               /\ new.member = db.member
               /\ Keeps(db.item, new.item)
               /\ \A j \in Item : j # i => new.item[j] = db.item[j]
               /\ new.item[i].lane = g
               /\ DOMAIN owners \subseteq DOMAIN new.item[i].owners
<1> DEFINE new == Put(db, i, g, owners)
           all == Completed(db.item[i].owners, owners)
           row == [db.item[i] EXCEPT !.lane = g, !.owners = all]
<1>1. /\ db.item \in [Item -> WorkItem] /\ db.item[i] \in WorkItem
      /\ db.item[i].owners \in Owners
  BY Zenon DEF DB, WorkItem
<1>2. all \in Owners
  <2> HIDE DEF new, row
  <2> QED
    BY <1>1, OwnersFrom, Zenon
<1>3. /\ DOMAIN all = DOMAIN db.item[i].owners \cup DOMAIN owners
      /\ \A u \in DOMAIN db.item[i].owners : all[u] = db.item[i].owners[u]
  <2>1. DOMAIN all = DOMAIN db.item[i].owners \cup DOMAIN owners
    BY Completes, Zenon
  <2>2. ASSUME NEW u \in DOMAIN db.item[i].owners
        PROVE  all[u] = db.item[i].owners[u]
    BY Zenon DEF Completed
  <2> QED
    BY <2>1, <2>2, Zenon
<1>4. new = [db EXCEPT !.item = [db.item EXCEPT ![i] = row]]
  <2> DEFINE one == [db EXCEPT !.item[i].lane = g]
             rows == [db.item EXCEPT ![i] = [db.item[i] EXCEPT !.lane = g]]
  <2>1. one = [db EXCEPT !.item = rows]
    BY <1>1, Zenon DEF DB
  <2>2. rows[i] = [db.item[i] EXCEPT !.lane = g] /\ rows[i].owners = db.item[i].owners
    BY <1>1, Zenon DEF WorkItem
  <2>3. one.item = rows
    BY <2>1, Zenon DEF DB
  <2>4. new = [one EXCEPT !.item = [rows EXCEPT ![i] = [rows[i] EXCEPT !.owners = all]]]
    BY <2>2, <2>3, Zenon DEF AddMissing, Put
  <2>5. [rows EXCEPT ![i] = [rows[i] EXCEPT !.owners = all]] = [db.item EXCEPT ![i] = row]
    <3>1. [rows[i] EXCEPT !.owners = all] = row
      BY <1>1, <2>2, Zenon DEF WorkItem
    <3> HIDE DEF row
    <3>2. ASSUME NEW r, NEW x
          PROVE  [[db.item EXCEPT ![i] = x] EXCEPT ![i] = r] = [db.item EXCEPT ![i] = r]
      BY Zenon
    <3> QED
      BY <3>1, <3>2, ZenonT(40)
  <2> HIDE DEF rows, row
  <2>6. \A x, y : [[db EXCEPT !.item = x] EXCEPT !.item = y] = [db EXCEPT !.item = y]
    BY Zenon DEF DB
  <2> QED
    BY <2>1, <2>4, <2>5, <2>6, Zenon
<1> HIDE DEF all, new
<1>5. row \in WorkItem /\ row.lane = g /\ row.owners = all /\ row.ready = db.item[i].ready
  BY <1>1, <1>2, Zenon DEF WorkItem
<1> HIDE DEF row
<1>6. /\ new.item[i] = row /\ \A j \in Item : j # i => new.item[j] = db.item[j]
      /\ new.group = db.group /\ new.member = db.member
  BY <1>1, <1>4, Zenon DEF DB
<1>7. new \in DB
  BY <1>4, <1>5, Zenon DEF DB
<1>8. LaneInv(new)
  <2> SUFFICES ASSUME NEW j \in Item PROVE ItemOK(new, j)
    BY Zenon DEF LaneInv
  <2>1. CASE j = i
    BY <1>3, <1>5, <1>6, <2>1, Zenon DEF ItemOK, LaneInv
  <2>2. CASE j # i
    BY <1>6, <2>2, Zenon DEF ItemOK, LaneInv
  <2> QED
    BY <2>1, <2>2, Zenon
<1>9. Keeps(db.item, new.item)
  BY <1>3, <1>5, <1>6, Zenon DEF Keeps
<1> QED
  BY <1>3, <1>5, <1>6, <1>7, <1>8, <1>9, Zenon DEF new

\* assign_work_item_potential_owners
LEMMA AssignOwnersKeeps ==
    ASSUME properties \in [Proc -> Configuration],
           NEW db \in DB, LaneInv(db), NEW i \in Item
    PROVE  LET new == AssignOwners(db, i)
           IN  /\ new \in DB /\ LaneInv(new)
               /\ db.member \subseteq new.member
               /\ Keeps(db.item, new.item)
               /\ \A j \in Item : j # i => new.item[j] = db.item[j]
               /\ Reached(new.item[i], i, db.member)
<1> DEFINE t == In[Of[i]]
<1>1. Of[i] \in Proc /\ t \in Tenant /\ LaneOf[i] \in Lane \cup {NoLane}
  BY ProcessAssumption, Zenon
<1>2. CASE InitiatorsLane(i)
  <2> DEFINE owners == Labelled({Initiator[Of[i]]}, "process_initiator")
  <2>1. Initiator[Of[i]] \in User /\ Home[Initiator[Of[i]]] = t
    BY <1>1, ProcessAssumption, Zenon
  <2>2. owners \in Owners /\ DOMAIN owners = {Initiator[Of[i]]}
    <3>1. {Initiator[Of[i]]} \in SUBSET User /\ "process_initiator" \in Label
      BY <2>1, Zenon DEF Label
    <3>2. owners \in Owners
      BY <3>1, OwnersFrom, Zenon
    <3>3. DOMAIN owners = {Initiator[Of[i]]}
      BY Zenon DEF Labelled
    <3> QED
      BY <3>2, <3>3, Zenon
  <2>3. AssignOwners(db, i) = Put(db, i, NoGroup, owners)
    BY <1>2, Zenon DEF AssignOwners, Put
  <2>4. Serves(db.group, t, LaneOf[i], NoGroup)
    BY Zenon DEF Serves
  <2> HIDE DEF owners
  <2>5. \A u \in DOMAIN owners : Home[u] = t
    BY <2>1, <2>2, Zenon
  <2> QED
    <3> DEFINE new == Put(db, i, NoGroup, owners)
    <3>1. /\ new \in DB /\ LaneInv(new)
          /\ new.member = db.member
          /\ Keeps(db.item, new.item)
          /\ \A j \in Item : j # i => new.item[j] = db.item[j]
      <4>1. NoGroup \in Id \cup {NoGroup} /\ (NoGroup # NoGroup => LaneOf[i] \in Lane)
        BY Zenon
      <4>2. owners \in Owners
        BY <2>2, Zenon
      <4>3. /\ new \in DB /\ LaneInv(new)
            /\ new.member = db.member
            /\ Keeps(db.item, new.item)
            /\ \A j \in Item : j # i => new.item[j] = db.item[j]
            /\ new.item[i].lane = NoGroup
            /\ DOMAIN owners \subseteq DOMAIN new.item[i].owners
        BY <2>4, <2>5, <4>1, <4>2, PutOwners, Zenon
      <4> QED
        BY <4>3, Zenon
    <3> HIDE DEF new
    <3>2. Reached(AssignOwners(db, i).item[i], i, db.member)
      BY <1>2, Zenon DEF Reached
    <3>3. AssignOwners(db, i) = new
      BY <2>3, Zenon DEF new
    <3> QED
      BY <3>1, <3>2, <3>3, Zenon
<1>3. CASE ~InitiatorsLane(i)
  <2> DEFINE enrolled == Enroll(db, t, EffectiveOwners(i))
             known == LaneOf[i] \in DOMAIN enrolled.groups
             found == IF known THEN enrolled
                      ELSE FindOrCreateLaneGroup(enrolled, t, LaneOf[i])
             g == IF known THEN enrolled.groups[LaneOf[i]]
                  ELSE LaneGroup(enrolled, t, LaneOf[i])
             new == Put(found, i, g, OwnersOf(found, i, g))
  <2>1. AssignOwners(db, i) = new
    BY <1>3, Zenon DEF AssignOwners, Put
  <2>2. LaneOf[i] \in Lane
    BY <1>1, <1>3, Zenon DEF InitiatorsLane
  <2>3. /\ enrolled \in DB /\ LaneInv(enrolled) /\ FoundOK(enrolled, t)
        /\ enrolled.item = db.item /\ db.member \subseteq enrolled.member
    BY <1>1, EffectiveType, EnrollKeeps, Zenon
  <2> HIDE DEF enrolled
  <2>4. /\ found \in DB /\ LaneInv(found) /\ found.item = db.item
        /\ db.member \subseteq found.member
        /\ g \in Id \cup {NoGroup} /\ Serves(found.group, t, LaneOf[i], g)
    <3>1. CASE known
      <4>1. enrolled.groups[LaneOf[i]] \in Id \cup {NoGroup}
        BY <2>3, <3>1 DEF DB, Found
      <4> QED
        BY <2>3, <3>1, <4>1, Zenon DEF FoundOK
    <3>2. CASE ~known
      <4> DEFINE made == FindOrCreateLaneGroup(enrolled, t, LaneOf[i])
      <4>1. /\ made \in DB
            /\ made.member = enrolled.member /\ made.item = enrolled.item
            /\ Grows(enrolled.group, made.group)
            /\ LaneGroup(enrolled, t, LaneOf[i]) \in Id \cup {NoGroup}
            /\ Serves(made.group, t, LaneOf[i], LaneGroup(enrolled, t, LaneOf[i]))
        BY <1>1, <2>2, <2>3, FindOrCreate, Zenon
      <4>2. found = made /\ g = LaneGroup(enrolled, t, LaneOf[i])
        BY <3>2, Zenon
      <4> HIDE DEF made, found, g
      <4>3. LaneInv(made)
        BY <2>3, <4>1, GrowingKeeps, Zenon DEF LaneInv
      <4> QED
        BY <2>3, <4>1, <4>2, <4>3, Zenon
    <3> QED
      BY <3>1, <3>2, Zenon
  <2> HIDE DEF found, g
  <2>5. /\ OwnersOf(found, i, g) \in Owners
        /\ \A u \in DOMAIN OwnersOf(found, i, g) : Home[u] = t
        /\ NamedOwners(i) \subseteq DOMAIN OwnersOf(found, i, g)
        /\ g # NoGroup => \A u \in User :
              Home[u] = t /\ <<u, g>> \in found.member
                  => u \in DOMAIN OwnersOf(found, i, g)
    BY OwnersOfType, Zenon
  <2>6. /\ new \in DB /\ LaneInv(new)
        /\ new.member = found.member
        /\ Keeps(found.item, new.item)
        /\ \A j \in Item : j # i => new.item[j] = found.item[j]
        /\ new.item[i].lane = g
        /\ DOMAIN OwnersOf(found, i, g) \subseteq DOMAIN new.item[i].owners
    BY <2>2, <2>4, <2>5, PutOwners, Zenon
  <2> HIDE DEF new
  <2>7. Reached(new.item[i], i, db.member)
    <3>1. \A u \in User : <<u, NoGroup>> \notin db.member
      <4>1. \A m \in db.member : m[2] \in Id
        BY Zenon DEF DB
      <4> QED
        BY <4>1, Ids, Zenon
    <3>2. ASSUME NEW u \in User, Home[u] = t, <<u, g>> \in db.member
          PROVE  u \in DOMAIN OwnersOf(found, i, g)
      BY <2>4, <2>5, <3>1, <3>2, Zenon
    <3> QED
      BY <2>5, <2>6, <3>2, Zenon DEF Reached
  <2> QED
    BY <2>1, <2>4, <2>6, <2>7, Zenon
<1> QED
  BY <1>2, <1>3, Zenon

\* The work items of one instance, one after the other: what one assignment has
\* reached the next ones leave.
LEMMA AssignAllKeeps ==
    ASSUME properties \in [Proc -> Configuration], NEW db \in DB, LaneInv(db),
           NEW R \in SUBSET Item, NEW order \in Orders(R)
    PROVE  LET new == AssignAll(db, order)
           IN  /\ new \in DB /\ LaneInv(new)
               /\ db.member \subseteq new.member
               /\ Keeps(db.item, new.item)
               /\ \A i \in R : Reached(new.item[i], i, db.member)
<1> DEFINE Good == {d \in DB : /\ LaneInv(d) /\ db.member \subseteq d.member
                              /\ Keeps(db.item, d.item)}
           len == Len(order)
           after == CHOOSE f : f = [n \in 0 .. len |->
                       IF n = 0 THEN db ELSE AssignOwners(f[n - 1], order[n])]
<1>1. /\ len \in Nat /\ \A n \in 1 .. len : order[n] \in R
      /\ \A i \in R : \E n \in 1 .. len : order[n] = i
  <2>1. IsFiniteSet(R)
    BY ProcessAssumption, FS_Subset, Zenon
  <2>2. order \in Seq(R) /\ Range(order) = R /\ DOMAIN order = 1 .. len
    BY <2>1, OrdersExist DEF Orders
  <2> QED
    BY <2>2 DEF Range
<1> HIDE DEF len
<1>2. db \in Good
  BY Zenon DEF Keeps
<1>3. \A d \in Good, n \in 1 .. len : AssignOwners(d, order[n]) \in Good
  <2> SUFFICES ASSUME NEW d \in Good, NEW n \in 1 .. len
               PROVE  AssignOwners(d, order[n]) \in Good
    BY Zenon
  <2> DEFINE new == AssignOwners(d, order[n])
  <2>1. order[n] \in Item
    BY <1>1, Zenon
  <2>2. d \in DB /\ LaneInv(d) /\ db.member \subseteq d.member /\ Keeps(db.item, d.item)
    BY Zenon
  <2>3. new \in DB /\ LaneInv(new) /\ d.member \subseteq new.member /\ Keeps(d.item, new.item)
    BY <2>1, <2>2, AssignOwnersKeeps, Zenon
  <2> HIDE DEF new
  <2>4. Keeps(db.item, new.item)
    <3> SUFFICES ASSUME NEW j \in Item
                 PROVE  /\ new.item[j].ready = db.item[j].ready
                        /\ \A u \in DOMAIN db.item[j].owners :
                              /\ u \in DOMAIN new.item[j].owners
                              /\ new.item[j].owners[u] = db.item[j].owners[u]
      BY Zenon DEF Keeps
    <3>1. /\ d.item[j].ready = db.item[j].ready
          /\ \A u \in DOMAIN db.item[j].owners :
                /\ u \in DOMAIN d.item[j].owners
                /\ d.item[j].owners[u] = db.item[j].owners[u]
      BY <2>2, Zenon DEF Keeps
    <3>2. /\ new.item[j].ready = d.item[j].ready
          /\ \A u \in DOMAIN d.item[j].owners :
                /\ u \in DOMAIN new.item[j].owners
                /\ new.item[j].owners[u] = d.item[j].owners[u]
      BY <2>3, Zenon DEF Keeps
    <3> QED
      BY <3>1, <3>2, Zenon
  <2>5. new \in Good
    BY <2>2, <2>3, <2>4, Zenon
  <2> QED
    BY <2>5, Zenon DEF new
<1>4. \A d \in Good : d \in DB /\ LaneInv(d) /\ db.member \subseteq d.member
                     /\ Keeps(db.item, d.item)
  BY Zenon
<1> HIDE DEF Good
<1>5. after = [n \in 0 .. len |-> IF n = 0 THEN db ELSE AssignOwners(after[n - 1], order[n])]
  <2> DEFINE step == [n \in 1 .. len |-> [d \in Good |-> AssignOwners(d, order[n])]]
  <2>1. step \in [1 .. len -> [Good -> Good]]
    BY <1>3, Zenon
  <2>2. \A d \in Good, n \in 1 .. len : step[n][d] = AssignOwners(d, order[n])
    BY Zenon
  <2> HIDE DEF step, after
  <2>3. PICK f : IsIterate(f, Good, db, len, step)
    BY <1>1, <1>2, <2>1, HasIterate, Zenon
  <2>4. /\ f \in [0 .. len -> Good] /\ f[0] = db
        /\ \A n \in 1 .. len : f[n] = step[n][f[n - 1]]
    BY <2>3, Zenon DEF IsIterate
  <2>5. ASSUME NEW n \in 0 .. len, n # 0
        PROVE  f[n] = AssignOwners(f[n - 1], order[n])
    <3>1. n \in 1 .. len /\ n - 1 \in 0 .. len
      BY <1>1, <2>5
    <3> QED
      BY <2>2, <2>4, <3>1, Zenon
  <2>6. f = [n \in 0 .. len |-> IF n = 0 THEN db ELSE AssignOwners(f[n - 1], order[n])]
    BY <2>4, <2>5, Zenon
  <2> QED
    BY <2>6, Zenon DEF after
<1>6. AssignAll(db, order) = after[len]
  BY Zenon DEF AssignAll, len
<1> HIDE DEF after
<1> DEFINE Done == {n \in Nat : n <= len =>
                        /\ after[n] \in Good
                        /\ \A m \in 1 .. n :
                              Reached(after[n].item[order[m]], order[m], db.member)}
<1>7. Done = Nat
  <2>1. 0 \in Done
    <3>1. after[0] = db
      BY <1>1, <1>5
    <3> QED
      BY <1>2, <3>1
  <2>2. ASSUME NEW n \in Done PROVE n + 1 \in Done
    <3> SUFFICES ASSUME n + 1 <= len
                 PROVE  /\ after[n + 1] \in Good
                        /\ \A m \in 1 .. (n + 1) :
                              Reached(after[n + 1].item[order[m]], order[m], db.member)
      OBVIOUS
    <3>1. /\ n \in Nat /\ n + 1 \in 1 .. len /\ n + 1 \in 0 .. len
          /\ n + 1 # 0 /\ (n + 1) - 1 = n
      BY <1>1
    <3>2. /\ after[n] \in Good
          /\ \A m \in 1 .. n : Reached(after[n].item[order[m]], order[m], db.member)
      BY <1>1, <3>1
    <3> DEFINE i == order[n + 1]
               old == after[n]
               new == AssignOwners(old, i)
    <3>3. after[n + 1] = new
      BY <1>5, <3>1, Zenon
    <3>4. i \in Item /\ \A m \in 1 .. (n + 1) : order[m] \in Item /\ (m \in 1 .. n \/ order[m] = i)
      BY <1>1, <3>1
    <3>5. /\ new \in Good /\ Reached(new.item[i], i, old.member)
          /\ \A j \in Item : j # i => new.item[j] = old.item[j]
          /\ db.member \subseteq old.member
      BY <1>3, <1>4, <3>1, <3>2, <3>4, AssignOwnersKeeps, Zenon
    <3> HIDE DEF new, old, i
    <3>6. Reached(new.item[i], i, db.member)
      BY <3>5, Zenon DEF Reached
    <3>7. ASSUME NEW m \in 1 .. (n + 1)
          PROVE  Reached(new.item[order[m]], order[m], db.member)
      <4>1. CASE order[m] = i
        BY <3>6, <4>1, Zenon
      <4>2. CASE order[m] # i
        <5>1. m \in 1 .. n /\ order[m] \in Item
          BY <3>4, <4>2, Zenon
        <5>2. Reached(old.item[order[m]], order[m], db.member)
          BY <3>2, <5>1, Zenon DEF old
        <5> QED
          BY <3>5, <4>2, <5>1, <5>2, Zenon
      <4> QED
        BY <4>1, <4>2, Zenon
    <3> QED
      BY <3>3, <3>5, <3>7, Zenon
  <2>3. Done \subseteq Nat
    BY Zenon
  <2> HIDE DEF Done
  <2> QED
    BY <2>1, <2>2, <2>3, NatSet, Zenon
<1>8. /\ after[len] \in Good
      /\ \A m \in 1 .. len : Reached(after[len].item[order[m]], order[m], db.member)
  BY <1>1, <1>7
<1> QED
  BY <1>1, <1>4, <1>6, <1>8, Zenon

-----------------------------------------------------------------------------
(***************************************************************************)
(* Commands.                                                               *)
(***************************************************************************)

\* The inductive invariant.  Serves is what makes it inductive: it fixes the
\* group of a lane by the groups there are, so that work assigned before and
\* after a group was made still hangs on the same one.
IInv == TypeOK /\ LaneInv(Tables)

\* What a step does to the work there is.
OwnersKept ==
    \A i \in Item : \A u \in DOMAIN item[i].owners :
        /\ u \in DOMAIN item'[i].owners
        /\ item'[i].owners[u] = item[i].owners[u]

FreshReached ==
    \A i \in Item : item'[i].ready /\ ~item[i].ready => Reached(item'[i], i, member)

\* The tables as a record.
LEMMA TablesType ==
    ASSUME TypeOK
    PROVE  /\ Tables \in DB
           /\ Tables.group = group /\ Tables.member = member /\ Tables.item = item
<1>1. << >> \in Found
  BY DEF Found
<1> QED
  BY <1>1, Zenon DEF TypeOK, Tables, DB

\* A handler that stores sound tables leaves sound tables.
LEMMA Stored ==
    ASSUME NEW db \in DB, LaneInv(db), Store(db), properties' \in [Proc -> Configuration]
    PROVE  IInv'
<1>1. group' = db.group /\ member' = db.member /\ item' = db.item
  BY Zenon DEF Store
<1>2. TypeOK'
  BY <1>1, Zenon DEF TypeOK, DB
<1>3. Tables'.group = db.group /\ Tables'.item = db.item
  BY <1>1, Zenon DEF Tables
<1>4. LaneInv(Tables')
  BY <1>3, Zenon DEF LaneInv, ItemOK
<1> QED
  BY <1>2, <1>4, Zenon DEF IInv

\* The rows of work items may move as long as group and owners stay.
LEMMA MovedRows ==
    ASSUME IInv, NEW rows \in [Item -> WorkItem],
           \A i \in Item : rows[i].lane = item[i].lane /\ rows[i].owners = item[i].owners
    PROVE  LET db == [Tables EXCEPT !.item = rows]
           IN  db \in DB /\ LaneInv(db) /\ db.member = member /\ db.item = rows
<1> DEFINE db == [Tables EXCEPT !.item = rows]
<1>1. Tables \in DB /\ Tables.group = group /\ Tables.member = member /\ Tables.item = item
  BY TablesType, Zenon DEF IInv
<1>2. db \in DB /\ db.member = member /\ db.item = rows /\ db.group = group
  BY <1>1, Zenon DEF DB
<1> HIDE DEF db
<1>3. LaneInv(db)
  BY <1>1, <1>2, Zenon DEF IInv, LaneInv, ItemOK
<1> QED
  BY <1>2, <1>3, Zenon DEF db

\* The handlers that assign work items again, in any order.
LEMMA Reassigned ==
    ASSUME IInv, NEW rows \in [Item -> WorkItem],
           \A i \in Item : rows[i].lane = item[i].lane /\ rows[i].owners = item[i].owners,
           NEW R \in SUBSET Item, NEW order \in Orders(R),
           Store(AssignAll([Tables EXCEPT !.item = rows], order)),
           UNCHANGED properties
    PROVE  /\ IInv' /\ OwnersKept
           /\ \A i \in Item : item'[i].ready = rows[i].ready
           /\ \A i \in R : Reached(item'[i], i, member)
<1> DEFINE db == [Tables EXCEPT !.item = rows]
           new == AssignAll(db, order)
<1>1. db \in DB /\ LaneInv(db) /\ db.member = member /\ db.item = rows
  BY MovedRows, Zenon
<1>2. Store(new)
  BY Zenon
<1> HIDE DEF db
<1>3. properties \in [Proc -> Configuration]
  BY Zenon DEF IInv, TypeOK
<1>4. /\ new \in DB /\ LaneInv(new)
      /\ Keeps(db.item, new.item)
      /\ \A i \in R : Reached(new.item[i], i, db.member)
  BY <1>1, <1>3, AssignAllKeeps, Zenon
<1> HIDE DEF new
<1>5. properties' \in [Proc -> Configuration]
  BY <1>3, Zenon
<1>6. IInv'
  BY <1>2, <1>4, <1>5, Stored, Zenon
<1>7. item' = new.item
  BY <1>2, Zenon DEF Store
<1>8. OwnersKept /\ \A i \in Item : item'[i].ready = rows[i].ready
  <2>1. Keeps(rows, item')
    BY <1>1, <1>4, <1>7, Zenon
  <2>2. \A i \in Item : item'[i].ready = rows[i].ready
    BY <2>1, Zenon DEF Keeps
  <2>3. \A i \in Item : \A u \in DOMAIN rows[i].owners :
           u \in DOMAIN item'[i].owners /\ item'[i].owners[u] = rows[i].owners[u]
    BY <2>1, Zenon DEF Keeps
  <2>4. OwnersKept
    BY <2>3, Zenon DEF OwnersKept
  <2> QED
    BY <2>2, <2>4, Zenon
<1>9. \A i \in R : Reached(item'[i], i, member)
  BY <1>1, <1>4, <1>7, Zenon
<1> QED
  BY <1>6, <1>8, <1>9, Zenon

\* _materialize_ready_manual_tasks and _sync_inactive_work_items.
LEMMA RunWorkflowKeeps ==
    ASSUME IInv, NEW p \in Proc, NEW over, NEW fresh \in SUBSET ItemsOf(p),
           RunWorkflow(p, over, fresh), UNCHANGED properties
    PROVE  IInv' /\ OwnersKept /\ FreshReached
<1> DEFINE ready == (Ready(p) \ over) \cup fresh
           rows == [i \in Item |->
                       IF Of[i] # p THEN item[i]
                       ELSE [item[i] EXCEPT !.made = @ \/ i \in fresh,
                                            !.ready = i \in ready,
                                            !.open = i \in ready]]
<1>1. PICK order \in Orders(ready) : Store(AssignAll([Tables EXCEPT !.item = rows], order))
  <2>1. \E order \in Orders(ready) : Store(AssignAll([Tables EXCEPT !.item = rows], order))
    BY Zenon DEF RunWorkflow
  <2> QED
    BY <2>1, Zenon
<1>2. ready \in SUBSET Item
  BY Zenon DEF Ready, ItemsOf
<1> HIDE DEF ready
<1>3. item \in [Item -> WorkItem]
  BY Zenon DEF IInv, TypeOK
<1> DEFINE made(i) == item[i].made \/ i \in fresh
           now(i) == i \in ready
           row(i) == [item[i] EXCEPT !.made = made(i), !.ready = now(i), !.open = now(i)]
<1>4. \A i \in Item : /\ row(i) \in WorkItem /\ row(i).lane = item[i].lane
                      /\ row(i).owners = item[i].owners /\ row(i).ready = now(i)
  <2> SUFFICES ASSUME NEW i \in Item
               PROVE  /\ row(i) \in WorkItem /\ row(i).lane = item[i].lane
                      /\ row(i).owners = item[i].owners /\ row(i).ready = now(i)
    BY Zenon
  <2>1. item[i] \in WorkItem /\ made(i) \in BOOLEAN /\ now(i) \in BOOLEAN
    <3>1. item[i] \in WorkItem
      BY <1>3, Zenon
    <3>2. made(i) \in BOOLEAN /\ now(i) \in BOOLEAN
      OBVIOUS
    <3> QED
      BY <3>1, <3>2, Zenon
  <2> HIDE DEF made, now
  <2> QED
    BY <2>1, Zenon DEF WorkItem
<1>5. rows = [i \in Item |-> IF Of[i] # p THEN item[i] ELSE row(i)]
  BY Zenon
<1> HIDE DEF rows, row
<1>6. /\ rows \in [Item -> WorkItem]
      /\ \A i \in Item : rows[i].lane = item[i].lane /\ rows[i].owners = item[i].owners
  BY <1>3, <1>4, <1>5, Zenon
<1>7. \A i \in Item : /\ Of[i] # p => rows[i] = item[i]
                      /\ Of[i] = p => rows[i].ready = (i \in ready)
  BY <1>4, <1>5, Zenon
<1>8. /\ IInv' /\ OwnersKept
      /\ \A i \in Item : item'[i].ready = rows[i].ready
      /\ \A i \in ready : Reached(item'[i], i, member)
  BY <1>1, <1>2, <1>6, Reassigned, Zenon
<1>9. ASSUME NEW i \in Item, item'[i].ready, ~item[i].ready
      PROVE  Reached(item'[i], i, member)
  <2>1. rows[i].ready
    BY <1>8, <1>9, Zenon
  <2>2. i \in ready
    BY <1>7, <1>9, <2>1, Zenon
  <2> QED
    BY <1>8, <2>2, Zenon
<1> QED
  BY <1>8, <1>9, Zenon DEF FreshReached

\* Advancing an instance is one run of its workflow.
LEMMA AdvanceKeeps ==
    ASSUME IInv, NEW p \in Proc, Advance(p)
    PROVE  IInv' /\ OwnersKept /\ FreshReached
<1>1. PICK over \in SUBSET Ready(p), fresh \in SUBSET ItemsOf(p) : RunWorkflow(p, over, fresh)
  BY Zenon DEF Advance
<1> QED
  BY <1>1, RunWorkflowKeeps, Zenon DEF Advance

\* Closing the work items of an instance in error.
LEMMA ErrorKeeps ==
    ASSUME IInv, NEW p \in Proc, ErrorInstance(p)
    PROVE  IInv' /\ OwnersKept /\ FreshReached
<1> DEFINE rows == [i \in Item |-> [item[i] EXCEPT !.open = @ /\ Of[i] # p]]
<1>1. item' = rows /\ properties' = properties /\ group' = group /\ member' = member
  BY Zenon DEF ErrorInstance
<1>2. item \in [Item -> WorkItem]
  BY Zenon DEF IInv, TypeOK
<1>3. /\ rows \in [Item -> WorkItem]
      /\ \A i \in Item : rows[i].lane = item[i].lane /\ rows[i].owners = item[i].owners
      /\ \A i \in Item : rows[i].ready = item[i].ready
  BY <1>2, Zenon DEF WorkItem
<1> HIDE DEF rows
<1> DEFINE db == [Tables EXCEPT !.item = rows]
<1>4. db \in DB /\ LaneInv(db) /\ db.member = member /\ db.item = rows
  BY <1>3, MovedRows, Zenon
<1>5. db.group = group
  BY Zenon DEF Tables
<1> HIDE DEF db
<1>6. Store(db) /\ properties' \in [Proc -> Configuration]
  BY <1>1, <1>4, <1>5, Zenon DEF Store, IInv, TypeOK
<1>7. IInv'
  BY <1>4, <1>6, Stored, Zenon
<1>8. OwnersKept /\ FreshReached
  BY <1>1, <1>3, Zenon DEF OwnersKept, FreshReached
<1> QED
  BY <1>7, <1>8, Zenon

\* sync_open_work_item_potential_owners
LEMMA SyncKeeps ==
    ASSUME IInv, NEW p \in Proc, SyncOwners(p)
    PROVE  IInv' /\ OwnersKept /\ FreshReached
<1> DEFINE R == {i \in Ready(p) : item[i].open}
<1>1. PICK order \in Orders(R) : Store(AssignAll(Tables, order))
  BY Zenon DEF SyncOwners
<1>2. R \in SUBSET Item
  BY Zenon DEF Ready, ItemsOf
<1> HIDE DEF R
<1>3. [Tables EXCEPT !.item = item] = Tables
  BY DEF Tables
<1>4. item \in [Item -> WorkItem] /\ UNCHANGED properties
  BY Zenon DEF IInv, TypeOK, SyncOwners
<1>5. Store(AssignAll([Tables EXCEPT !.item = item], order))
  BY <1>1, <1>3, Zenon
<1>6. /\ IInv' /\ OwnersKept /\ \A i \in Item : item'[i].ready = item[i].ready
  BY <1>2, <1>4, <1>5, Reassigned, Zenon
<1> QED
  BY <1>6, Zenon DEF FreshReached

\* retry_process_instance
LEMMA RetryKeeps ==
    ASSUME IInv, NEW p \in Proc, Retry(p)
    PROVE  IInv' /\ OwnersKept /\ FreshReached
<1> DEFINE rows == [i \in Item |->
                       [item[i] EXCEPT !.open = @ \/ (Of[i] = p /\ item[i].made)]]
<1>1. UNCHANGED properties
  BY Zenon DEF Retry
<1>2. CASE \E order \in Orders(Ready(p)) : Store(AssignAll([Tables EXCEPT !.item = rows], order))
  <2>1. PICK order \in Orders(Ready(p)) : Store(AssignAll([Tables EXCEPT !.item = rows], order))
    BY <1>2, Zenon
  <2>2. item \in [Item -> WorkItem]
    BY Zenon DEF IInv, TypeOK
  <2>3. /\ rows \in [Item -> WorkItem]
        /\ \A i \in Item : rows[i].lane = item[i].lane /\ rows[i].owners = item[i].owners
        /\ \A i \in Item : rows[i].ready = item[i].ready
    BY <2>2, Zenon DEF WorkItem
  <2> HIDE DEF rows
  <2>4. Ready(p) \in SUBSET Item
    BY Zenon DEF Ready, ItemsOf
  <2>5. /\ IInv' /\ OwnersKept /\ \A i \in Item : item'[i].ready = rows[i].ready
    BY <1>1, <2>1, <2>3, <2>4, Reassigned, Zenon
  <2> QED
    BY <2>3, <2>5, Zenon DEF FreshReached
<1>3. CASE \E fresh \in SUBSET ItemsOf(p) : RunWorkflow(p, {}, fresh)
  BY <1>1, <1>3, RunWorkflowKeeps, Zenon
<1> HIDE DEF rows
<1>4. \/ \E order \in Orders(Ready(p)) : Store(AssignAll([Tables EXCEPT !.item = rows], order))
      \/ \E fresh \in SUBSET ItemsOf(p) : RunWorkflow(p, {}, fresh)
  BY Zenon DEF Retry, rows
<1> QED
  BY <1>2, <1>3, <1>4, Zenon

\* assign_pending_tasks_for_user
LEMMA PendingKeeps ==
    ASSUME IInv, NEW u \in User, AssignPending(u)
    PROVE  IInv' /\ OwnersKept /\ FreshReached
<1> DEFINE newly == {i \in Item : /\ In[Of[i]] = Home[u]
                                 /\ item[i].open
                                 /\ <<u, item[i].lane>> \in member
                                 /\ u \notin DOMAIN item[i].owners}
           offer == Labelled({u}, "lane_assignment")
           rows == [i \in Item |->
                      IF i \in newly
                      THEN [item[i] EXCEPT !.owners = Completed(@, offer)]
                      ELSE item[i]]
<1>1. item' = rows /\ properties' = properties /\ group' = group /\ member' = member
  BY Zenon DEF AssignPending
<1>2. item \in [Item -> WorkItem] /\ \A i \in Item : item[i].owners \in Owners
  BY Zenon DEF IInv, TypeOK, WorkItem
<1>3. offer \in Owners /\ DOMAIN offer = {u}
  <2>1. {u} \in SUBSET User /\ "lane_assignment" \in Label
    BY Zenon DEF Label
  <2>2. offer \in Owners
    BY <2>1, OwnersFrom, Zenon
  <2>3. DOMAIN offer = {u}
    BY Zenon DEF Labelled
  <2> QED
    BY <2>2, <2>3, Zenon
<1>4. \A i \in newly : i \in Item /\ Home[u] = In[Of[i]]
  BY Zenon
<1> HIDE DEF newly, offer
<1>5. \A i \in Item : /\ Completed(item[i].owners, offer) \in Owners
                      /\ DOMAIN Completed(item[i].owners, offer)
                            = DOMAIN item[i].owners \cup {u}
                      /\ \A w \in DOMAIN item[i].owners :
                            Completed(item[i].owners, offer)[w] = item[i].owners[w]
  <2> SUFFICES ASSUME NEW i \in Item
               PROVE  /\ Completed(item[i].owners, offer) \in Owners
                      /\ DOMAIN Completed(item[i].owners, offer)
                            = DOMAIN item[i].owners \cup {u}
                      /\ \A w \in DOMAIN item[i].owners :
                            Completed(item[i].owners, offer)[w] = item[i].owners[w]
    BY Zenon
  <2>1. Completed(item[i].owners, offer) \in Owners
    BY <1>2, <1>3, OwnersFrom, Zenon
  <2>2. DOMAIN Completed(item[i].owners, offer) = DOMAIN item[i].owners \cup {u}
    BY <1>3, Zenon DEF Completed
  <2>3. ASSUME NEW w \in DOMAIN item[i].owners
        PROVE  Completed(item[i].owners, offer)[w] = item[i].owners[w]
    BY Zenon DEF Completed
  <2> QED
    BY <2>1, <2>2, <2>3, Zenon
<1>6. /\ rows \in [Item -> WorkItem]
      /\ \A i \in Item : /\ rows[i].lane = item[i].lane /\ rows[i].ready = item[i].ready
                         /\ i \notin newly => rows[i] = item[i]
                         /\ i \in newly => rows[i].owners = Completed(item[i].owners, offer)
  <2>1. ASSUME NEW i \in Item, NEW o \in Owners
        PROVE  LET row == [item[i] EXCEPT !.owners = o]
               IN  /\ row \in WorkItem /\ row.lane = item[i].lane
                   /\ row.ready = item[i].ready /\ row.owners = o
    BY <1>2 DEF WorkItem
  <2> DEFINE row(i) == [item[i] EXCEPT !.owners = Completed(item[i].owners, offer)]
  <2>2. \A i \in Item : /\ row(i) \in WorkItem /\ row(i).lane = item[i].lane
                        /\ row(i).ready = item[i].ready
                        /\ row(i).owners = Completed(item[i].owners, offer)
    BY <1>5, <2>1, Zenon
  <2>3. rows = [i \in Item |-> IF i \in newly THEN row(i) ELSE item[i]]
    BY Zenon
  <2> HIDE DEF row, rows
  <2>4. rows \in [Item -> WorkItem]
    BY <1>2, <2>2, <2>3
  <2> QED
    BY <2>2, <2>3, <2>4, Zenon
<1> HIDE DEF rows
<1>7. TypeOK'
  BY <1>1, <1>6, Zenon DEF IInv, TypeOK
<1>8. LaneInv(Tables')
  <2>1. Tables'.group = group /\ Tables'.item = rows
    BY <1>1, Zenon DEF Tables
  <2>2. Tables.group = group /\ Tables.item = item
    BY Zenon DEF Tables
  <2> SUFFICES ASSUME NEW i \in Item PROVE ItemOK(Tables', i)
    BY Zenon DEF LaneInv
  <2>3. ItemOK(Tables, i)
    BY Zenon DEF IInv, LaneInv
  <2>4. \A w \in DOMAIN rows[i].owners : Home[w] = In[Of[i]]
    <3>1. \A w \in DOMAIN item[i].owners : Home[w] = In[Of[i]]
      BY <2>2, <2>3, Zenon DEF ItemOK
    <3>2. CASE i \notin newly
      <4>1. rows[i] = item[i]
        BY <1>6, <3>2, Zenon
      <4> QED
        BY <3>1, <4>1, Zenon
    <3>3. CASE i \in newly
      <4>1. DOMAIN rows[i].owners = DOMAIN item[i].owners \cup {u}
        BY <1>5, <1>6, <3>3, Zenon
      <4> QED
        BY <1>4, <3>1, <3>3, <4>1, Zenon
    <3> QED
      BY <3>2, <3>3, Zenon
  <2> QED
    BY <1>6, <2>1, <2>2, <2>3, <2>4, Zenon DEF ItemOK
<1>9. OwnersKept /\ FreshReached
  BY <1>1, <1>5, <1>6, Zenon DEF OwnersKept, FreshReached
<1> QED
  BY <1>7, <1>8, <1>9, Zenon DEF IInv

\* The import of a definition, with the enrolment on which it ends.
LEMMA ImportKeeps ==
    ASSUME IInv, NEW p \in Proc, NEW new \in Properties[p], Import(p, new)
    PROVE  IInv' /\ OwnersKept /\ FreshReached
<1> DEFINE db == Enroll(Tables, In[p], new.lane_owners)
<1>1. Tables \in DB /\ Tables.item = item
  BY TablesType, Zenon DEF IInv
<1>2. new \in Configuration /\ In[p] \in Tenant
  BY ProcessAssumption, Zenon
<1>3. new.lane_owners \in Mapping
  BY <1>2, Zenon DEF Configuration
<1>4. db \in DB /\ LaneInv(db) /\ db.item = item
  BY <1>1, <1>2, <1>3, EnrollKeeps, Zenon DEF IInv
<1>5. Store(db) /\ properties' = [properties EXCEPT ![p] = new]
  BY Zenon DEF Import
<1> HIDE DEF db
<1>6. properties' \in [Proc -> Configuration]
  BY <1>2, <1>5, Zenon DEF IInv, TypeOK
<1>7. IInv' /\ item' = item
  BY <1>4, <1>5, <1>6, Stored, Zenon DEF Store
<1> QED
  BY <1>7, Zenon DEF OwnersKept, FreshReached

\* The directory.
LEMMA DirectoryKeeps ==
    ASSUME IInv, NEW u \in User, NEW g \in Id, Join(u, g) \/ Leave(u, g)
    PROVE  IInv' /\ OwnersKept /\ FreshReached
<1>1. item' = item /\ group' = group /\ properties' = properties
  BY Zenon DEF Join, Leave
<1>2. member' \in SUBSET (User \X Id)
  BY DEF Join, Leave, IInv, TypeOK
<1>3. TypeOK'
  BY <1>1, <1>2, Zenon DEF IInv, TypeOK
<1>4. Tables'.group = Tables.group /\ Tables'.item = Tables.item
  BY <1>1, Zenon DEF Tables
<1>5. LaneInv(Tables')
  BY <1>4, Zenon DEF IInv, LaneInv, ItemOK
<1> QED
  BY <1>1, <1>3, <1>5, Zenon DEF IInv, OwnersKept, FreshReached

\* A group that older versions made for a lane changes no assignment.
LEMMA LegacyKeeps ==
    ASSUME IInv, NEW l \in DOMAIN LegacyId, CreateLegacyGroup(l)
    PROVE  IInv' /\ OwnersKept /\ FreshReached
<1>1. /\ group[LegacyId[l]] = NoGroup /\ group' = [group EXCEPT ![LegacyId[l]] = l]
      /\ properties' = properties /\ member' = member /\ item' = item
  BY Zenon DEF CreateLegacyGroup
<1>2. group \in [Id -> Identifier] /\ LegacyId[l] \in Id /\ l \in Lane /\ l \in Identifier
  BY Ids, GroupAssumption, Zenon DEF IInv, TypeOK
<1>3. group' \in [Id -> Identifier]
  BY <1>1, <1>2, Zenon
<1>4. TypeOK'
  BY <1>1, <1>3, Zenon DEF IInv, TypeOK
<1>5. \A g \in Id : group'[g] = IF g = LegacyId[l] THEN l ELSE group[g]
  BY <1>1, <1>2, Zenon
<1>6. Grows(group, group')
  <2>1. \A g \in Id : group[g] # NoGroup => group'[g] = group[g]
    BY <1>1, <1>5, Zenon
  <2>2. \A t \in Tenant, k \in Lane :
           group'[Hash[<<t, k>>]] = <<t, k>> => group[Hash[<<t, k>>]] = <<t, k>>
    BY <1>2, <1>5, Ids, Zenon
  <2> QED
    BY <2>1, <2>2, Zenon DEF Grows
<1>7. /\ Tables'.group = group' /\ Tables.group = group
      /\ Tables'.item = item /\ Tables.item = item
  BY <1>1, Zenon DEF Tables
<1>8. LaneInv(Tables')
  <2>1. Grows(Tables.group, Tables'.group) /\ LaneInv(Tables) /\ Tables'.item = Tables.item
    BY <1>6, <1>7, Zenon DEF IInv
  <2> QED
    BY <2>1, GrowingKeeps, Zenon DEF LaneInv
<1> QED
  BY <1>1, <1>4, <1>8, Zenon DEF IInv, OwnersKept, FreshReached

\* Every step.
LEMMA NextKeeps ==
    ASSUME IInv, [Next]_vars
    PROVE  IInv' /\ OwnersKept /\ FreshReached
<1>1. CASE Next
  <2>1. \A m \in Directory : m[1] \in User /\ m[2] \in Id
    BY UserAssumption, Zenon
  <2> QED
    BY <1>1, <2>1, ImportKeeps, AdvanceKeeps, ErrorKeeps, SyncKeeps, RetryKeeps,
       PendingKeeps, DirectoryKeeps, LegacyKeeps, Zenon DEF Next
<1>2. CASE UNCHANGED vars
  <2>1. properties' = properties /\ group' = group /\ member' = member /\ item' = item
    BY <1>2, Zenon DEF vars
  <2>2. IInv'
    BY <2>1, Zenon DEF IInv, TypeOK, Tables
  <2> QED
    BY <2>1, <2>2, Zenon DEF OwnersKept, FreshReached
<1> QED
  BY <1>1, <1>2, Zenon

\* The invariant holds before the first request.
LEMMA Initially ==
    ASSUME Init
    PROVE  IInv
<1>1. TypeOK
  <2>1. properties \in [Proc -> Configuration]
    <3>1. << >> \in Mapping
      <4>1. << >> \in [{} -> SUBSET Name] /\ {} \in SUBSET Lane
        OBVIOUS
      <4> QED
        BY <4>1, Zenon DEF Mapping
    <3>2. Unconfigured \in Configuration
      BY <3>1, Zenon DEF Unconfigured, Configuration
    <3> QED
      BY <3>2, Zenon DEF Init
  <2>2. group \in [Id -> Identifier] /\ member \in SUBSET (User \X Id)
    BY Zenon DEF Init, Identifier
  <2>3. item \in [Item -> WorkItem]
    BY OwnersFrom, Zenon DEF Init, WorkItem
  <2> QED
    BY <2>1, <2>2, <2>3, Zenon DEF TypeOK
<1>2. \A i \in Item : DOMAIN item[i].owners = {} /\ item[i].lane = NoGroup
  BY DEF Init
<1>3. Tables.item = item
  BY Zenon DEF Tables
<1>4. LaneInv(Tables)
  BY <1>2, <1>3, Zenon DEF LaneInv, ItemOK, Serves
<1> QED
  BY <1>1, <1>4, Zenon DEF IInv

-----------------------------------------------------------------------------
(***************************************************************************)
(* Theorems.                                                               *)
(***************************************************************************)

\* The inductive invariant.
LEMMA Invariant == Spec => []IInv
<1>1. Init => IInv
  BY Initially, Zenon
<1>2. IInv /\ [Next]_vars => IInv'
  BY NextKeeps, Zenon
<1> QED
  BY <1>1, <1>2, PTL DEF Spec

\* Work is only ever offered to users of its tenant, and hangs on a group of
\* its own tenant and lane or on the one named like the lane, for any
\* usernames that tenants share and any computed IDs that collide.
THEOREM WorkInTenant == Spec => []WorkStaysInTenant
<1>1. IInv => WorkStaysInTenant
  <2> SUFFICES ASSUME IInv, NEW i \in Item
               PROVE  /\ \A u \in DOMAIN item[i].owners : Home[u] = In[Of[i]]
                      /\ item[i].lane # NoGroup =>
                            group[item[i].lane] \in {<<In[Of[i]], LaneOf[i]>>, LaneOf[i]}
    BY Zenon DEF WorkStaysInTenant
  <2>1. Tables.group = group /\ Tables.item = item
    BY Zenon DEF Tables
  <2>2. ItemOK(Tables, i)
    BY Zenon DEF IInv, LaneInv
  <2> QED
    BY <2>1, <2>2, Zenon DEF ItemOK, Serves, HasLegacy
<1> QED
  BY <1>1, Invariant, PTL

\* All work of one lane of a tenant hangs on one group, in whatever order
\* imports, assignments and the directory make groups and work items.
THEOREM LaneSharesGroup == Spec => []LaneGroupIsShared
<1>1. IInv => LaneGroupIsShared
  <2> SUFFICES ASSUME IInv, NEW i \in Item, NEW j \in Item,
                      In[Of[i]] = In[Of[j]], LaneOf[i] = LaneOf[j],
                      item[i].lane # NoGroup, item[j].lane # NoGroup
               PROVE  item[i].lane = item[j].lane
    BY Zenon DEF LaneGroupIsShared
  <2>1. Tables.group = group /\ Tables.item = item
    BY Zenon DEF Tables
  <2>2. ItemOK(Tables, i) /\ ItemOK(Tables, j)
    BY Zenon DEF IInv, LaneInv
  <2> QED
    BY <2>1, <2>2, Zenon DEF ItemOK, Serves
<1> QED
  BY <1>1, Invariant, PTL

\* Materializing again, resuming, retrying and assigning pending tasks keep the
\* potential owners that are there, with their labels.
THEOREM OwnersStay == Spec => OwnersAreKept
<1>1. IInv /\ [Next]_vars => [OwnersKept]_vars
  BY NextKeeps, Zenon
<1>2. OwnersAreKept <=> [][OwnersKept]_vars
  BY PTL DEF OwnersAreKept, OwnersKept
<1> QED
  BY <1>1, <1>2, Invariant, PTL DEF Spec

\* A task that becomes READY reaches the users named for its lane and everyone
\* of the tenant who is in the lane group by then, whatever else is assigned in
\* the same handler and in whichever order.
THEOREM LaneGroupReached == Spec => LaneGroupIsReached
<1>1. ASSUME IInv, [Next]_vars
      PROVE  \A i \in Item : (item'[i].ready /\ ~item[i].ready /\ ~InitiatorsLane(i))
                => /\ NamedOwners(i) \subseteq DOMAIN item'[i].owners
                   /\ \A u \in User : (/\ Home[u] = In[Of[i]]
                                       /\ <<u, item'[i].lane>> \in member)
                                          => u \in DOMAIN item'[i].owners
  BY <1>1, NextKeeps, Zenon DEF FreshReached, Reached
<1> QED
  BY <1>1, Invariant, PTL DEF Spec, LaneGroupIsReached
=============================================================================
