------------------------- MODULE SharedLoginProofs --------------------------
(***************************************************************************)
(* What provisioning, the seed and the logins of the sample application    *)
(* keep, for any organizations, users and groups, and any number of starts, *)
(* crashes and rebuilt realms.                                             *)
(***************************************************************************)
EXTENDS SampleApp, WellFoundedInduction, TLAPS

-----------------------------------------------------------------------------
(***************************************************************************)
(* Sequences that are put together step by step.                           *)
(***************************************************************************)

\* What the concatenation of two sequences is.
LEMMA Concat ==
    ASSUME NEW S, NEW s1 \in Seq(S), NEW s2 \in Seq(S)
    PROVE  /\ s1 \o s2 \in Seq(S) /\ Len(s1 \o s2) = Len(s1) + Len(s2)
           /\ \A i \in 1 .. Len(s1) + Len(s2) :
                 (s1 \o s2)[i] = IF i <= Len(s1) THEN s1[i] ELSE s2[i - Len(s1)]
OBVIOUS

\* Its elements are those of both.
LEMMA RangeOfConcat ==
    ASSUME NEW S, NEW s1 \in Seq(S), NEW s2 \in Seq(S)
    PROVE  Range(s1 \o s2) = Range(s1) \cup Range(s2)
<1> DEFINE t == s1 \o s2
           m == Len(s1)
           n == Len(s2)
<1>1. /\ m \in Nat /\ n \in Nat
      /\ DOMAIN s1 = 1 .. m /\ DOMAIN s2 = 1 .. n /\ DOMAIN t = 1 .. m + n
  OBVIOUS
<1>2. \A i \in 1 .. m + n : t[i] = IF i <= m THEN s1[i] ELSE s2[i - m]
  OBVIOUS
<1> HIDE DEF t, m, n
<1>3. \A j \in 1 .. n : j + m \in 1 .. m + n /\ t[j + m] = s2[j]
  BY <1>1, <1>2
<1>4. \A j \in 1 .. m : j \in 1 .. m + n /\ t[j] = s1[j]
  BY <1>1, <1>2
<1>5. \A j \in 1 .. m + n : \/ j \in 1 .. m /\ t[j] = s1[j]
                            \/ j - m \in 1 .. n /\ t[j] = s2[j - m]
  BY <1>1, <1>2
<1>6. Range(t) = Range(s1) \cup Range(s2)
  <2>1. \A x \in Range(t) : x \in Range(s1) \cup Range(s2)
    BY <1>1, <1>5, Zenon DEF Range
  <2>2. \A x \in Range(s1) : x \in Range(t)
    BY <1>1, <1>4, Zenon DEF Range
  <2>3. \A x \in Range(s2) : x \in Range(t)
    BY <1>1, <1>3, Zenon DEF Range
  <2> QED
    BY <2>1, <2>2, <2>3, Zenon
<1> QED
  BY <1>6 DEF t

\* A set of naturals with 0 and with every successor has them all.
LEMMA NatSet ==
    ASSUME NEW S, S \subseteq Nat, 0 \in S, \A n \in S : n + 1 \in S
    PROVE  S = Nat
<1> SUFFICES ASSUME Nat \ S # {} PROVE FALSE
  BY Zenon
<1> DEFINE Left == Nat \ S
           Less == {p \in Nat \X Nat : p[1] < p[2]}
<1>1. Left \subseteq Nat /\ Left # {}
  BY Zenon
<1>2. IsWellFoundedOn(Less, Nat)
  BY NatLessThanWellFounded, Zenon DEF OpToRel
<1> HIDE DEF Left, Less
<1>3. PICK x \in Left : \A y \in Left : ~(<<y, x>> \in Less)
  BY <1>1, <1>2, WFMin, Zenon
<1>4. \A a, b \in Nat : a < b => <<a, b>> \in Less
  BY Zenon DEF Less
<1>5. \A y \in Left : ~(y < x)
  BY <1>1, <1>3, <1>4, Zenon
<1>6. x \in Nat /\ x # 0 /\ x \notin S
  BY Zenon DEF Left
<1>7. x - 1 \in Nat /\ x - 1 < x /\ (x - 1) + 1 = x
  BY <1>6
<1>8. x - 1 \in S
  BY <1>5, <1>7, Zenon DEF Left
<1> QED
  BY <1>6, <1>7, <1>8, Zenon

\* A value, and what one step after the other makes of it.
LEMMA Iterates ==
    ASSUME NEW S, NEW base \in S, NEW n \in Nat, NEW step \in [1 .. n -> [S -> S]]
    PROVE  \E f \in [0 .. n -> S] :
              f[0] = base /\ \A k \in 1 .. n : f[k] = step[k][f[k - 1]]
<1> DEFINE Upto(m) == \E f \in [0 .. m -> S] :
                         f[0] = base /\ \A k \in 1 .. m : f[k] = step[k][f[k - 1]]
           Good == {m \in Nat : m <= n => Upto(m)}
<1>1. 0 \in Good
  <2>1. [k \in 0 .. 0 |-> base] \in [0 .. 0 -> S]
    BY Zenon
  <2>2. Upto(0)
    <3> WITNESS [k \in 0 .. 0 |-> base] \in [0 .. 0 -> S]
    <3> QED OBVIOUS
  <2> QED
    BY <2>2, Zenon
<1>2. ASSUME NEW m \in Good PROVE m + 1 \in Good
  <2> HIDE DEF Upto
  <2>n. m \in Nat /\ m + 1 \in Nat
    OBVIOUS
  <2> SUFFICES ASSUME m + 1 <= n PROVE Upto(m + 1)
    BY <2>n, Zenon
  <2> USE DEF Upto
  <2>1. PICK f \in [0 .. m -> S] :
           f[0] = base /\ \A k \in 1 .. m : f[k] = step[k][f[k - 1]]
    OBVIOUS
  <2> DEFINE g == [k \in 0 .. (m + 1) |->
                      IF k = m + 1 THEN step[m + 1][f[m]] ELSE f[k]]
  <2>2. m \in 0 .. m /\ m + 1 \in 1 .. n
    OBVIOUS
  <2>3. step[m + 1][f[m]] \in S
    BY <2>2, Zenon
  <2>4. g \in [0 .. (m + 1) -> S]
    BY <2>3
  <2>5. g[0] = base
    BY <2>1
  <2>6. ASSUME NEW k \in 1 .. (m + 1) PROVE g[k] = step[k][g[k - 1]]
    <3>1. CASE k = m + 1
      BY <3>1
    <3>2. CASE k # m + 1
      BY <2>1, <3>2
    <3> QED
      BY <3>1, <3>2, Zenon
  <2> HIDE DEF g
  <2> WITNESS g \in [0 .. (m + 1) -> S]
  <2> QED
    BY <2>5, <2>6, Zenon
<1> HIDE DEF Upto
<1>3. Good = Nat
  <2>1. Good \subseteq Nat
    BY Zenon
  <2> HIDE DEF Good
  <2> QED
    BY <1>1, <1>2, <2>1, NatSet, Zenon
<1>4. Upto(n)
  BY <1>3
<1> QED
  BY <1>4, Zenon DEF Upto

IsIterate(f, S, base, n, step) ==
    /\ f \in [0 .. n -> S]
    /\ f[0] = base
    /\ \A k \in 1 .. n : f[k] = step[k][f[k - 1]]

\* There is such a sequence of values.
LEMMA HasIterate ==
    ASSUME NEW S, NEW base \in S, NEW n \in Nat, NEW step \in [1 .. n -> [S -> S]]
    PROVE  \E f : IsIterate(f, S, base, n, step)
<1>1. PICK f \in [0 .. n -> S] :
         f[0] = base /\ \A k \in 1 .. n : f[k] = step[k][f[k - 1]]
  BY Iterates
<1> QED
  BY <1>1, Zenon DEF IsIterate

\* The head and the others.
LEMMA HeadFirst ==
    ASSUME NEW S, NEW s \in Seq(S), s # <<>>
    PROVE  /\ Head(s) \in S
           /\ Tail(s) \in Seq(S)
           /\ Range(s) = {Head(s)} \cup Range(Tail(s))
<1>1. Len(s) \in Nat /\ Len(s) # 0 /\ Head(s) = s[1] /\ Head(s) \in S
  OBVIOUS
<1>2. Tail(s) \in Seq(S) /\ Len(Tail(s)) = Len(s) - 1
  OBVIOUS
<1>3. \A i \in 1 .. Len(s) - 1 : Tail(s)[i] = s[i + 1]
  OBVIOUS
<1>4. DOMAIN s = 1 .. Len(s) /\ DOMAIN Tail(s) = 1 .. Len(s) - 1
  BY <1>2
<1>5. Range(s) \subseteq {Head(s)} \cup Range(Tail(s))
  <2> SUFFICES ASSUME NEW i \in 1 .. Len(s)
               PROVE  s[i] \in {s[1]} \cup Range(Tail(s))
    BY <1>1, <1>4, Zenon DEF Range
  <2>1. CASE i = 1
    BY <2>1, Zenon
  <2>2. CASE i # 1
    <3>1. i - 1 \in 1 .. Len(s) - 1 /\ Tail(s)[i - 1] = s[i]
      BY <1>3, <2>2
    <3> QED
      BY <1>4, <3>1, Zenon DEF Range
  <2> QED
    BY <2>1, <2>2, Zenon
<1>6. {Head(s)} \cup Range(Tail(s)) \subseteq Range(s)
  <2>1. s[1] \in Range(s)
    BY <1>1, <1>4 DEF Range
  <2>2. \A i \in 1 .. Len(s) - 1 : i + 1 \in 1 .. Len(s)
    BY <1>1
  <2>3. \A i \in 1 .. Len(s) - 1 : Tail(s)[i] \in Range(s)
    BY <1>3, <1>4, <2>2, Zenon DEF Range
  <2> QED
    BY <1>1, <1>4, <2>1, <2>3, Zenon DEF Range
<1> QED
  BY <1>1, <1>2, <1>5, <1>6, Zenon

\* One program after the other: the requests of all of them.
LEMMA InOrderHasAll ==
    ASSUME NEW S, NEW programs \in Seq(Seq(S))
    PROVE  /\ InOrder(programs) \in Seq(S)
           /\ \A k \in DOMAIN programs : Range(programs[k]) \subseteq Range(InOrder(programs))
<1> DEFINE n == Len(programs)
           step == [k \in 1 .. n |-> [s \in Seq(S) |-> s \o programs[k]]]
           fn(g) == [k \in 0 .. n |-> IF k = 0 THEN <<>> ELSE g[k - 1] \o programs[k]]
<1>1. n \in Nat /\ \A k \in 1 .. n : programs[k] \in Seq(S)
  OBVIOUS
<1>2. \A s \in Seq(S) : \A k \in 1 .. n : s \o programs[k] \in Seq(S)
  BY <1>1, Concat
<1>3. step \in [1 .. n -> [Seq(S) -> Seq(S)]]
  BY <1>2, Zenon
<1>4. <<>> \in Seq(S)
  OBVIOUS
<1> HIDE DEF n
<1>5. PICK f : IsIterate(f, Seq(S), <<>>, n, step)
  BY <1>1, <1>3, <1>4, HasIterate
<1>6. /\ f \in [0 .. n -> Seq(S)] /\ f[0] = <<>>
      /\ \A k \in 1 .. n : f[k] = step[k][f[k - 1]]
  BY <1>5, Zenon DEF IsIterate
<1>7. \A k \in 1 .. n : k - 1 \in 0 .. n
  BY <1>1
<1>8. \A k \in 1 .. n : f[k] = f[k - 1] \o programs[k]
  BY <1>6, <1>7, Zenon
<1>9. \A k \in 0 .. n : k = 0 \/ k \in 1 .. n
  BY <1>1
<1>10. f = fn(f)
  BY <1>6, <1>8, <1>9
<1> DEFINE after == CHOOSE g : g = fn(g)
<1>11. after = fn(after)
  BY <1>10, Zenon
<1>12. InOrder(programs) = after[n]
  BY Zenon DEF InOrder, n
<1> HIDE DEF after, step
<1>13. /\ after[0] = <<>>
       /\ \A k \in 1 .. n : after[k] = after[k - 1] \o programs[k]
  <2>1. 0 \in 0 .. n /\ \A k \in 1 .. n : k \in 0 .. n /\ k # 0
    BY <1>1
  <2> QED
    BY <1>11, <2>1, Zenon
<1> DEFINE Holds(m) == /\ after[m] \in Seq(S)
                       /\ \A k \in 1 .. m : Range(programs[k]) \subseteq Range(after[m])
           Good == {m \in Nat : m <= n => Holds(m)}
<1>14. Good = Nat
  <2>1. 0 \in Good
    <3>1. \A k : k \notin 1 .. 0
      OBVIOUS
    <3> QED
      BY <1>4, <1>13, <3>1, Zenon
  <2>2. ASSUME NEW m \in Good PROVE m + 1 \in Good
    <3> HIDE DEF Holds
    <3>1. m \in Nat /\ m + 1 \in Nat
      OBVIOUS
    <3> SUFFICES ASSUME m + 1 <= n PROVE Holds(m + 1)
      BY <3>1, Zenon
    <3>2. m <= n /\ m + 1 \in 1 .. n /\ (m + 1) - 1 = m
      BY <1>1, <3>1
    <3>3. Holds(m)
      BY <3>2, Zenon
    <3>4. after[m + 1] = after[m] \o programs[m + 1] /\ programs[m + 1] \in Seq(S)
      BY <1>1, <1>13, <3>2, Zenon
    <3>5. after[m] \in Seq(S)
      BY <3>3, Zenon DEF Holds
    <3>6. after[m + 1] \in Seq(S)
      BY <3>4, <3>5, Concat, Zenon
    <3>7. Range(after[m + 1]) = Range(after[m]) \cup Range(programs[m + 1])
      <4>1. Range(after[m] \o programs[m + 1]) = Range(after[m]) \cup Range(programs[m + 1])
        BY <3>4, <3>5, RangeOfConcat
      <4> QED
        BY <3>4, <4>1, Zenon
    <3>8. \A k \in 1 .. m + 1 : k \in 1 .. m \/ k = m + 1
      BY <3>1
    <3> QED
      BY <3>3, <3>6, <3>7, <3>8, Zenon DEF Holds
  <2>3. Good \subseteq Nat
    BY Zenon
  <2> HIDE DEF Good
  <2> QED
    BY <2>1, <2>2, <2>3, NatSet, Zenon
<1>15. Holds(n)
  <2>1. n <= n
    BY <1>1
  <2> QED
    BY <1>1, <1>14, <2>1, Zenon
<1>16. DOMAIN programs = 1 .. n
  BY DEF n
<1> QED
  BY <1>12, <1>15, <1>16, Zenon

-----------------------------------------------------------------------------
(***************************************************************************)
(* Provisioning.                                                           *)
(***************************************************************************)

Groups == Range(RoleGroups) \cup UNION {Range(GroupsOf[u]) : u \in User}

ClientKinds == {"find client", "post client", "put client"}

OrgKinds == {"find org", "post org"}

GroupKinds == {"find group", "post group"}

UserKinds == {"find user", "post user", "put user", "put password", "add member"}

Requests ==
    [do : ClientKinds, on : {""}, group : {""}]
    \cup [do : OrgKinds, on : Org, group : {""}]
    \cup [do : GroupKinds, on : Org, group : Groups]
    \cup [do : UserKinds, on : User, group : {""}]
    \cup [do : {"join group"}, on : User, group : Groups]

Realm ==
    [era : Nat, client : {"absent", "stale", "current"},
     orgs : SUBSET Org, groups : SUBSET (Org \X Groups),
     accounts : SUBSET User, cleared : SUBSET User, password : SUBSET User,
     members : SUBSET User, joined : SUBSET (User \X Groups)]

KeycloakOK == realm \in Realm /\ todo \in Seq(Requests)

\* One of the requests is still to be sent.
Asked(kinds, on, group) == \E d \in kinds : R(d, on, group) \in Range(todo)

\* What the realm lacks, the rest of the program will bring.
OnTheWay ==
    /\ realm.client = "current" \/ Asked(ClientKinds, "", "")
    /\ \A o \in Org :
          /\ o \in realm.orgs \/ Asked(OrgKinds, o, "")
          /\ \A g \in Range(RoleGroups) :
                <<o, g>> \in realm.groups \/ Asked(GroupKinds, o, g)
    /\ \A u \in User :
          /\ u \in realm.cleared \/ Asked({"find user", "put user"}, u, "")
          /\ u \in realm.password
                \/ Asked({"find user", "post user", "put password"}, u, "")
          /\ u \in realm.members \/ Asked({"add member"}, u, "")
          /\ \A g \in Range(GroupsOf[u]) :
                /\ <<OrgOf[u], g>> \in realm.groups \/ Asked(GroupKinds, OrgOf[u], g)
                /\ <<u, g>> \in realm.joined \/ Asked({"join group"}, u, g)

ProvisionInv ==
    KeycloakOK /\ (phase = "provisioning" /\ mode = "shared" => OnTheWay)

\* No request takes anything away, and the realm stays the same.
Grows(a, b) ==
    /\ a.era = b.era
    /\ a.client = "current" => b.client = "current"
    /\ a.orgs \subseteq b.orgs /\ a.groups \subseteq b.groups
    /\ a.cleared \subseteq b.cleared /\ a.password \subseteq b.password
    /\ a.members \subseteq b.members /\ a.joined \subseteq b.joined

\* The kinds of requests.
LEMMA RequestKinds ==
    ASSUME NEW r \in Requests
    PROVE  /\ r.do \in ClientKinds \cup OrgKinds \cup GroupKinds \cup UserKinds
                          \cup {"join group"}
           /\ r.do \in ClientKinds => r.on = "" /\ r.group = ""
           /\ r.do \in OrgKinds => r.on \in Org /\ r.group = ""
           /\ r.do \in GroupKinds => r.on \in Org /\ r.group \in Groups
           /\ r.do \in UserKinds => r.on \in User /\ r.group = ""
           /\ r.do = "join group" => r.on \in User /\ r.group \in Groups
           /\ r = R(r.do, r.on, r.group)
BY DEF Requests, ClientKinds, OrgKinds, GroupKinds, UserKinds, R

\* The requests of the program, and those that follow, are such requests.
LEMMA RequestTypes ==
    /\ \A d \in ClientKinds : R(d, "", "") \in Requests
    /\ \A d \in OrgKinds, o \in Org : R(d, o, "") \in Requests
    /\ \A d \in GroupKinds, o \in Org, g \in Groups : R(d, o, g) \in Requests
    /\ \A d \in UserKinds, u \in User : R(d, u, "") \in Requests
    /\ \A u \in User, g \in Groups : R("join group", u, g) \in Requests
BY DEF Requests, R

\* What a request does to the realm.
LEMMA EffectGrows ==
    ASSUME realm \in Realm, NEW r \in Requests
    PROVE  Effect(r) \in Realm /\ Grows(realm, Effect(r))
<1>1. CASE r.do \in {"post client", "put client"}
  <2>1. Effect(r) = [realm EXCEPT !.client = "current"]
    BY <1>1 DEF Effect
  <2> QED
    BY <2>1 DEF Realm, Grows
<1>2. CASE r.do = "post org"
  <2>1. Effect(r) = [realm EXCEPT !.orgs = @ \cup {r.on}] /\ r.on \in Org
    BY <1>2, RequestKinds DEF Effect, OrgKinds
  <2> QED
    BY <2>1 DEF Realm, Grows
<1>3. CASE r.do = "post group"
  <2>1. /\ Effect(r) = [realm EXCEPT !.groups = @ \cup {<<r.on, r.group>>}]
        /\ <<r.on, r.group>> \in Org \X Groups
    BY <1>3, RequestKinds DEF Effect, GroupKinds
  <2> QED
    BY <2>1 DEF Realm, Grows
<1>4. CASE r.do = "post user"
  <2>1. /\ Effect(r) = [realm EXCEPT !.accounts = @ \cup {r.on},
                                     !.password = @ \cup {r.on}]
        /\ r.on \in User
    BY <1>4, RequestKinds DEF Effect, UserKinds
  <2>2. Effect(r) \in Realm
    <3> DEFINE added == [realm EXCEPT !.accounts = @ \cup {r.on}]
    <3>1. added \in Realm
      BY <2>1 DEF Realm
    <3>2. Effect(r) = [added EXCEPT !.password = realm.password \cup {r.on}]
      BY <2>1
    <3>3. realm.password \cup {r.on} \subseteq User
      BY <2>1 DEF Realm
    <3> HIDE DEF added
    <3> QED
      BY <3>1, <3>2, <3>3 DEF Realm
  <2>3. /\ Effect(r).era = realm.era
        /\ Effect(r).client = realm.client /\ Effect(r).orgs = realm.orgs
        /\ Effect(r).groups = realm.groups /\ Effect(r).cleared = realm.cleared
        /\ Effect(r).members = realm.members /\ Effect(r).joined = realm.joined
        /\ Effect(r).password = realm.password \cup {r.on}
    BY <2>1 DEF Realm
  <2> QED
    BY <2>2, <2>3 DEF Grows
<1>5. CASE r.do = "put user"
  <2>1. Effect(r) = [realm EXCEPT !.cleared = @ \cup {r.on}] /\ r.on \in User
    BY <1>5, RequestKinds DEF Effect, UserKinds
  <2> QED
    BY <2>1 DEF Realm, Grows
<1>6. CASE r.do = "put password"
  <2>1. Effect(r) = [realm EXCEPT !.password = @ \cup {r.on}] /\ r.on \in User
    BY <1>6, RequestKinds DEF Effect, UserKinds
  <2> QED
    BY <2>1 DEF Realm, Grows
<1>7. CASE r.do = "add member"
  <2>1. Effect(r) = [realm EXCEPT !.members = @ \cup {r.on}] /\ r.on \in User
    BY <1>7, RequestKinds DEF Effect, UserKinds, Member
  <2> QED
    BY <2>1 DEF Realm, Grows
<1>8. CASE r.do = "join group"
  <2>1. /\ Effect(r) = [realm EXCEPT !.joined = @ \cup {<<r.on, r.group>>}]
        /\ <<r.on, r.group>> \in User \X Groups
    BY <1>8, RequestKinds DEF Effect, GroupMember
  <2> QED
    BY <2>1 DEF Realm, Grows
<1>9. CASE r.do \in {"find client", "find org", "find group", "find user"}
  <2>1. Effect(r) = realm
    BY <1>9 DEF Effect
  <2> QED
    BY <2>1 DEF Grows
<1> QED
  BY <1>1, <1>2, <1>3, <1>4, <1>5, <1>6, <1>7, <1>8, <1>9, RequestKinds
     DEF ClientKinds, OrgKinds, GroupKinds, UserKinds

\* What a request brings about.
LEMMA EffectBrings ==
    ASSUME realm \in Realm, NEW r \in Requests
    PROVE  /\ r.do \in {"post client", "put client"} => Effect(r).client = "current"
           /\ r.do = "post org" => r.on \in Effect(r).orgs
           /\ r.do = "post group" => <<r.on, r.group>> \in Effect(r).groups
           /\ r.do \in {"post user", "put password"} => r.on \in Effect(r).password
           /\ r.do = "put user" => r.on \in Effect(r).cleared
           /\ r.do = "add member" => r.on \in Effect(r).members
           /\ r.do = "join group" => <<r.on, r.group>> \in Effect(r).joined
BY DEF Realm, Effect, Member, GroupMember

\* What a lookup makes necessary.
LEMMA FollowsBring ==
    ASSUME realm \in Realm, NEW r \in Requests
    PROVE  /\ Follows(r) \in Seq(Requests)
           /\ r.do = "find client" =>
                 realm.client = "current"
                 \/ \E d \in ClientKinds : R(d, "", "") \in Range(Follows(r))
           /\ r.do = "find org" =>
                 r.on \in realm.orgs \/ R("post org", r.on, "") \in Range(Follows(r))
           /\ r.do = "find group" =>
                 <<r.on, r.group>> \in realm.groups
                 \/ R("post group", r.on, r.group) \in Range(Follows(r))
           /\ r.do = "find user" =>
                 /\ R("put user", r.on, "") \in Range(Follows(r))
                 /\ \E d \in {"post user", "put password"} :
                       R(d, r.on, "") \in Range(Follows(r))
<1>1. \A x : Range(<<x>>) = {x}
  BY DEF Range
<1>2. \A x, y : Range(<<x, y>>) = {x, y}
  BY DEF Range
<1>3. \A x \in Requests : <<x>> \in Seq(Requests)
  OBVIOUS
<1>4. ASSUME NEW x \in Requests, NEW y \in Requests, Follows(r) = <<x, y>>
      PROVE  Follows(r) \in Seq(Requests) /\ Range(Follows(r)) = {x, y}
  BY <1>2, <1>4
<1>5. <<>> \in Seq(Requests)
  OBVIOUS
<1>6. CASE r.do = "find client"
  <2>1. Follows(r) = ClientRequests
    BY <1>6 DEF Follows
  <2>2. \/ realm.client = "current" /\ ClientRequests = <<>>
        \/ \E d \in ClientKinds : ClientRequests = <<R(d, "", "")>>
    BY DEF ClientRequests, Realm, ClientKinds
  <2>3. \A d \in ClientKinds : R(d, "", "") \in Requests
    BY RequestTypes, Zenon
  <2> QED
    BY <1>1, <1>3, <1>5, <1>6, <2>1, <2>2, <2>3
<1>7. CASE r.do = "find org"
  <2>1. Follows(r) = OrgRequests(r.on) /\ r.on \in Org
    BY <1>7, RequestKinds DEF Follows, OrgKinds
  <2>2. R("post org", r.on, "") \in Requests
    BY <2>1, RequestTypes DEF OrgKinds
  <2>3. CASE r.on \in realm.orgs
    BY <1>5, <1>7, <2>1, <2>3 DEF OrgRequests
  <2>4. CASE r.on \notin realm.orgs
    BY <1>1, <1>3, <1>7, <2>1, <2>2, <2>4 DEF OrgRequests
  <2> QED
    BY <2>3, <2>4, Zenon
<1>8. CASE r.do = "find group"
  <2>1. Follows(r) = GroupRequests(r.on, r.group) /\ r.on \in Org /\ r.group \in Groups
    BY <1>8, RequestKinds DEF Follows, GroupKinds
  <2>2. R("post group", r.on, r.group) \in Requests
    BY <2>1, RequestTypes DEF GroupKinds
  <2>3. CASE <<r.on, r.group>> \in realm.groups
    BY <1>5, <1>8, <2>1, <2>3 DEF GroupRequests
  <2>4. CASE <<r.on, r.group>> \notin realm.groups
    BY <1>1, <1>3, <1>8, <2>1, <2>2, <2>4 DEF GroupRequests
  <2> QED
    BY <2>3, <2>4, Zenon
<1>9. CASE r.do = "find user"
  <2>1. Follows(r) = AccountRequests(r.on) /\ r.on \in User
    BY <1>9, RequestKinds DEF Follows, UserKinds
  <2>2. \A d \in UserKinds : R(d, r.on, "") \in Requests
    BY <2>1, RequestTypes, Zenon
  <2>3. \E d, e \in UserKinds :
           /\ Follows(r) = <<R(d, r.on, ""), R(e, r.on, "")>>
           /\ "put user" \in {d, e}
           /\ {d, e} \cap {"post user", "put password"} # {}
    BY <2>1 DEF AccountRequests, UserKinds
  <2>4. PICK d, e \in UserKinds :
           /\ Follows(r) = <<R(d, r.on, ""), R(e, r.on, "")>>
           /\ "put user" \in {d, e}
           /\ {d, e} \cap {"post user", "put password"} # {}
    BY <2>3, Zenon
  <2>5. /\ Follows(r) \in Seq(Requests)
        /\ Range(Follows(r)) = {R(d, r.on, ""), R(e, r.on, "")}
    <3>1. R(d, r.on, "") \in Requests /\ R(e, r.on, "") \in Requests
      BY <2>2, <2>4, Zenon
    <3> QED
      BY <1>4, <2>4, <3>1, Zenon
  <2>6. R("put user", r.on, "") \in Range(Follows(r))
    BY <2>4, <2>5
  <2>7. \E x \in {"post user", "put password"} : R(x, r.on, "") \in Range(Follows(r))
    BY <2>4, <2>5
  <2> QED
    BY <1>9, <2>5, <2>6, <2>7
<1>10. CASE r.do \notin {"find client", "find org", "find group", "find user"}
  <2>1. Follows(r) = <<>>
    BY <1>10 DEF Follows
  <2> QED
    BY <1>5, <1>10, <2>1
<1> QED
  BY <1>6, <1>7, <1>8, <1>9, <1>10, Zenon

\* A request that takes effect keeps what is there or asked for.
LEMMA RequestKeeps ==
    ASSUME KeycloakOK, Request
    PROVE  KeycloakOK' /\ (OnTheWay => OnTheWay')
<1> DEFINE h == Head(todo)
<1>1. /\ todo \in Seq(Requests) /\ todo # <<>> /\ h \in Requests
      /\ Tail(todo) \in Seq(Requests) /\ Range(todo) = {h} \cup Range(Tail(todo))
  BY HeadFirst DEF KeycloakOK, Request
<1>2. realm \in Realm /\ realm' = Effect(h)
  BY DEF KeycloakOK, Request
<1>3. realm' \in Realm /\ Grows(realm, realm')
  BY <1>1, <1>2, EffectGrows, Zenon
<1>4. Follows(h) \in Seq(Requests)
  BY <1>1, <1>2, FollowsBring, Zenon
<1>5. todo' \in Seq(Requests) /\ Range(todo') = Range(Follows(h)) \cup Range(Tail(todo))
  <2>1. todo' = Follows(h) \o Tail(todo)
    BY DEF Request
  <2>2. ASSUME NEW a \in Seq(Requests), NEW b \in Seq(Requests)
        PROVE  Range(a \o b) = Range(a) \cup Range(b)
    BY RangeOfConcat
  <2>3. todo' \in Seq(Requests)
    BY <1>1, <1>4, <2>1, Concat, Zenon
  <2>4. Range(todo') = Range(Follows(h)) \cup Range(Tail(todo))
    BY <1>1, <1>4, <2>1, <2>2, Zenon
  <2> QED
    BY <2>3, <2>4
<1>6. \A x \in Range(todo) : x = h \/ x \in Range(todo')
  BY <1>1, <1>5
<1>7. \A x \in Range(Follows(h)) : x \in Range(todo')
  BY <1>5
<1> HIDE DEF h
<1>8. ASSUME NEW kinds, NEW on, NEW group, Asked(kinds, on, group)
      PROVE  Asked(kinds, on, group)'
             \/ (h.do \in kinds /\ h.on = on /\ h.group = group)
  <2>1. PICK d \in kinds : R(d, on, group) \in Range(todo)
    BY <1>8 DEF Asked
  <2>2. CASE R(d, on, group) \in Range(todo')
    BY <2>2 DEF Asked
  <2>3. CASE R(d, on, group) = h
    BY <2>3 DEF R
  <2> QED
    BY <1>6, <2>1, <2>2, <2>3, Zenon
<1>9. ASSUME NEW kinds, NEW d \in kinds, NEW on, NEW group,
             R(d, on, group) \in Range(Follows(h))
      PROVE  Asked(kinds, on, group)'
  BY <1>7, <1>9 DEF Asked
<1>10. KeycloakOK'
  BY <1>3, <1>5 DEF KeycloakOK
<1>11. ASSUME realm.client = "current" \/ Asked(ClientKinds, "", "")
       PROVE  (realm.client = "current" \/ Asked(ClientKinds, "", ""))'
  <2>1. CASE realm.client = "current"
    BY <1>3, <2>1 DEF Grows
  <2>2. CASE h.do \in ClientKinds /\ realm.client # "current"
    <3>1. CASE h.do \in {"post client", "put client"}
      BY <1>1, <1>2, <3>1, EffectBrings
    <3>2. CASE h.do = "find client"
      <4>1. PICK d \in ClientKinds : R(d, "", "") \in Range(Follows(h))
        BY <1>1, <1>2, <2>2, <3>2, FollowsBring, Zenon
      <4> QED
        BY <1>9, <4>1, Zenon
    <3> QED
      BY <2>2, <3>1, <3>2 DEF ClientKinds
  <2> QED
    BY <1>8, <1>11, <2>1, <2>2, Zenon
<1>12. ASSUME NEW o \in Org, o \in realm.orgs \/ Asked(OrgKinds, o, "")
       PROVE  o \in realm'.orgs \/ Asked(OrgKinds, o, "")'
  <2>1. CASE o \in realm.orgs
    BY <1>3, <2>1 DEF Grows
  <2>2. CASE h.do \in OrgKinds /\ h.on = o /\ o \notin realm.orgs
    <3>1. CASE h.do = "post org"
      BY <1>1, <1>2, <2>2, <3>1, EffectBrings
    <3>2. CASE h.do = "find org"
      <4>1. R("post org", o, "") \in Range(Follows(h))
        BY <1>1, <1>2, <2>2, <3>2, FollowsBring
      <4>2. "post org" \in OrgKinds
        BY DEF OrgKinds
      <4> QED
        BY <1>9, <4>1, <4>2, Zenon
    <3> QED
      BY <2>2, <3>1, <3>2 DEF OrgKinds
  <2> QED
    BY <1>8, <1>12, <2>1, <2>2, Zenon
<1>13. ASSUME NEW o, NEW g,
              <<o, g>> \in realm.groups \/ Asked(GroupKinds, o, g)
       PROVE  <<o, g>> \in realm'.groups \/ Asked(GroupKinds, o, g)'
  <2>1. CASE <<o, g>> \in realm.groups
    BY <1>3, <2>1 DEF Grows
  <2>2. CASE h.do \in GroupKinds /\ h.on = o /\ h.group = g /\ <<o, g>> \notin realm.groups
    <3>1. CASE h.do = "post group"
      BY <1>1, <1>2, <2>2, <3>1, EffectBrings
    <3>2. CASE h.do = "find group"
      <4>1. R("post group", o, g) \in Range(Follows(h))
        BY <1>1, <1>2, <2>2, <3>2, FollowsBring
      <4>2. "post group" \in GroupKinds
        BY DEF GroupKinds
      <4> QED
        BY <1>9, <4>1, <4>2, Zenon
    <3> QED
      BY <2>2, <3>1, <3>2 DEF GroupKinds
  <2> QED
    BY <1>8, <1>13, <2>1, <2>2, Zenon
<1>14. ASSUME NEW u \in User, u \in realm.cleared \/ Asked({"find user", "put user"}, u, "")
       PROVE  u \in realm'.cleared \/ Asked({"find user", "put user"}, u, "")'
  <2>1. CASE u \in realm.cleared
    BY <1>3, <2>1 DEF Grows
  <2>2. CASE h.do \in {"find user", "put user"} /\ h.on = u
    <3>1. CASE h.do = "put user"
      BY <1>1, <1>2, <2>2, <3>1, EffectBrings
    <3>2. CASE h.do = "find user"
      <4>1. R("put user", u, "") \in Range(Follows(h))
        BY <1>1, <1>2, <2>2, <3>2, FollowsBring
      <4>2. "put user" \in {"find user", "put user"}
        OBVIOUS
      <4> QED
        BY <1>9, <4>1, <4>2, Zenon
    <3> QED
      BY <2>2, <3>1, <3>2
  <2> QED
    BY <1>8, <1>14, <2>1, <2>2, Zenon
<1>15. ASSUME NEW u \in User,
              u \in realm.password
                 \/ Asked({"find user", "post user", "put password"}, u, "")
       PROVE  u \in realm'.password
                 \/ Asked({"find user", "post user", "put password"}, u, "")'
  <2>1. CASE u \in realm.password
    BY <1>3, <2>1 DEF Grows
  <2>2. CASE h.do \in {"find user", "post user", "put password"} /\ h.on = u
    <3>1. CASE h.do \in {"post user", "put password"}
      BY <1>1, <1>2, <2>2, <3>1, EffectBrings
    <3>2. CASE h.do = "find user"
      <4>1. PICK d \in {"post user", "put password"} :
                R(d, u, "") \in Range(Follows(h))
        BY <1>1, <1>2, <2>2, <3>2, FollowsBring
      <4>2. d \in {"find user", "post user", "put password"}
        BY <4>1
      <4> QED
        BY <1>9, <4>1, <4>2, Zenon
    <3> QED
      BY <2>2, <3>1, <3>2
  <2> QED
    BY <1>8, <1>15, <2>1, <2>2, Zenon
<1>16. ASSUME NEW u \in User, u \in realm.members \/ Asked({"add member"}, u, "")
       PROVE  u \in realm'.members \/ Asked({"add member"}, u, "")'
  <2>1. CASE u \in realm.members
    BY <1>3, <2>1 DEF Grows
  <2>2. CASE h.do \in {"add member"} /\ h.on = u
    BY <1>1, <1>2, <2>2, EffectBrings
  <2> QED
    BY <1>8, <1>16, <2>1, <2>2, Zenon
<1>17. ASSUME NEW u \in User, NEW g,
              <<u, g>> \in realm.joined \/ Asked({"join group"}, u, g)
       PROVE  <<u, g>> \in realm'.joined \/ Asked({"join group"}, u, g)'
  <2>1. CASE <<u, g>> \in realm.joined
    BY <1>3, <2>1 DEF Grows
  <2>2. CASE h.do \in {"join group"} /\ h.on = u /\ h.group = g
    BY <1>1, <1>2, <2>2, EffectBrings
  <2> QED
    BY <1>8, <1>17, <2>1, <2>2, Zenon
<1>18. ASSUME OnTheWay PROVE OnTheWay'
  BY <1>11, <1>12, <1>13, <1>14, <1>15, <1>16, <1>17, <1>18, Zenon DEF OnTheWay
<1> QED
  BY <1>10, <1>18

\* One request, two requests, one sequence after another.
LEMMA OneRequest ==
    ASSUME NEW x \in Requests
    PROVE  <<x>> \in Seq(Requests) /\ Range(<<x>>) = {x}
BY DEF Range

\* And of two.
LEMMA TwoRequests ==
    ASSUME NEW x \in Requests, NEW y \in Requests
    PROVE  <<x, y>> \in Seq(Requests) /\ Range(<<x, y>>) = {x, y}
BY DEF Range

\* One program after another asks for what both ask for.
LEMMA Joined ==
    ASSUME NEW a \in Seq(Requests), NEW b \in Seq(Requests), NEW c, c = a \o b
    PROVE  c \in Seq(Requests) /\ Range(c) = Range(a) \cup Range(b)
<1>1. Range(a \o b) = Range(a) \cup Range(b)
  BY RangeOfConcat
<1> QED
  BY <1>1

\* A function over the positions of a sequence is a sequence.
LEMMA SameDomain ==
    ASSUME NEW S, NEW s, s \in Seq(Range(s)), NEW f \in [DOMAIN s -> S]
    PROVE  f \in Seq(S)
<1>1. Len(s) \in Nat /\ DOMAIN s = 1 .. Len(s)
  OBVIOUS
<1>2. f \in [1 .. Len(s) -> S]
  BY <1>1
<1> QED
  BY <1>1, <1>2

\* What is asked for an organization.
LEMMA OrgProgramAsks ==
    ASSUME NEW o \in Org
    PROVE  /\ OrgProgram(o) \in Seq(Requests)
           /\ R("find org", o, "") \in Range(OrgProgram(o))
           /\ \A g \in Range(RoleGroups) : R("find group", o, g) \in Range(OrgProgram(o))
<1> DEFINE more == [i \in DOMAIN RoleGroups |-> R("find group", o, RoleGroups[i])]
<1>1. R("find org", o, "") \in Requests
  BY RequestTypes DEF OrgKinds
<1>2. RoleGroups \in Seq(Range(RoleGroups))
  BY KeycloakAssumption, Zenon
<1>3. \A i \in DOMAIN RoleGroups : RoleGroups[i] \in Groups
  BY DEF Groups, Range
<1>4. \A i \in DOMAIN RoleGroups : R("find group", o, RoleGroups[i]) \in Requests
  <2>1. "find group" \in GroupKinds
    BY DEF GroupKinds
  <2> QED
    BY <1>3, <2>1, RequestTypes, Zenon
<1>5. more \in Seq(Requests)
  <2>1. more \in [DOMAIN RoleGroups -> Requests]
    BY <1>4, Zenon
  <2> HIDE DEF more
  <2> QED
    BY <1>2, <2>1, SameDomain, Zenon
<1>6. \A g \in Range(RoleGroups) : R("find group", o, g) \in Range(more)
  BY Zenon DEF Range
<1>7. OrgProgram(o) = <<R("find org", o, "")>> \o more
  BY DEF OrgProgram
<1> HIDE DEF more
<1>8. <<R("find org", o, "")>> \in Seq(Requests)
      /\ Range(<<R("find org", o, "")>>) = {R("find org", o, "")}
  BY <1>1, OneRequest, Zenon
<1>9. /\ OrgProgram(o) \in Seq(Requests)
      /\ Range(OrgProgram(o)) = {R("find org", o, "")} \cup Range(more)
  <2>1. /\ OrgProgram(o) \in Seq(Requests)
        /\ Range(OrgProgram(o)) = Range(<<R("find org", o, "")>>) \cup Range(more)
    BY <1>5, <1>7, <1>8, Joined, Zenon
  <2> QED
    BY <1>8, <2>1, Zenon
<1> QED
  BY <1>6, <1>9, Zenon

\* What is asked for a user.
LEMMA UserProgramAsks ==
    ASSUME NEW u \in User
    PROVE  /\ UserProgram(u) \in Seq(Requests)
           /\ R("find user", u, "") \in Range(UserProgram(u))
           /\ R("add member", u, "") \in Range(UserProgram(u))
           /\ \A g \in Range(GroupsOf[u]) :
                 /\ R("find group", OrgOf[u], g) \in Range(UserProgram(u))
                 /\ R("join group", u, g) \in Range(UserProgram(u))
<1> DEFINE n == Len(GroupsOf[u])
           more == [i \in 1 .. 2 * n |->
                       IF i % 2 = 1
                       THEN R("find group", OrgOf[u], GroupsOf[u][(i + 1) \div 2])
                       ELSE R("join group", u, GroupsOf[u][i \div 2])]
<1>1. R("find user", u, "") \in Requests /\ R("add member", u, "") \in Requests
  BY RequestTypes DEF UserKinds
<1>2. GroupsOf[u] \in Seq(Range(GroupsOf[u])) /\ OrgOf[u] \in Org
  BY KeycloakAssumption, Zenon
<1>3. n \in Nat /\ DOMAIN GroupsOf[u] = 1 .. n
  BY <1>2
<1>4. \A k \in 1 .. n : GroupsOf[u][k] \in Groups
  BY <1>3 DEF Groups, Range
<1>5. \A k \in 1 .. n : /\ R("find group", OrgOf[u], GroupsOf[u][k]) \in Requests
                        /\ R("join group", u, GroupsOf[u][k]) \in Requests
  BY <1>2, <1>4, RequestTypes DEF GroupKinds
<1> HIDE DEF n
<1>6. ASSUME NEW i \in 1 .. 2 * n
      PROVE  IF i % 2 = 1 THEN (i + 1) \div 2 \in 1 .. n ELSE i \div 2 \in 1 .. n
  BY <1>3
<1>7. \A i \in 1 .. 2 * n : more[i] \in Requests
  BY <1>5, <1>6, Zenon
<1>8. more \in Seq(Requests)
  <2>1. 2 * n \in Nat
    BY <1>3
  <2>2. more \in [1 .. 2 * n -> Requests]
    BY <1>7, Zenon
  <2> HIDE DEF more
  <2> QED
    BY <2>1, <2>2
<1>9. ASSUME NEW k \in 1 .. n
      PROVE  /\ R("find group", OrgOf[u], GroupsOf[u][k]) \in Range(more)
             /\ R("join group", u, GroupsOf[u][k]) \in Range(more)
  <2>1. /\ 2 * k - 1 \in 1 .. 2 * n /\ (2 * k - 1) % 2 = 1
        /\ ((2 * k - 1) + 1) \div 2 = k
    BY <1>3
  <2>2. 2 * k \in 1 .. 2 * n /\ (2 * k) % 2 # 1 /\ (2 * k) \div 2 = k
    BY <1>3
  <2>3. /\ more[2 * k - 1] = R("find group", OrgOf[u], GroupsOf[u][k])
        /\ more[2 * k] = R("join group", u, GroupsOf[u][k])
    BY <2>1, <2>2, Zenon
  <2>4. 2 * k - 1 \in DOMAIN more /\ 2 * k \in DOMAIN more
    BY <2>1, <2>2, Zenon
  <2> HIDE DEF more
  <2> QED
    BY <2>3, <2>4, Zenon DEF Range
<1>10. \A g \in Range(GroupsOf[u]) :
          R("find group", OrgOf[u], g) \in Range(more) /\ R("join group", u, g) \in Range(more)
  <2> HIDE DEF more
  <2> QED
    BY <1>3, <1>9, Zenon DEF Range
<1>11. UserProgram(u) = <<R("find user", u, ""), R("add member", u, "")>> \o more
  BY Zenon DEF UserProgram, n
<1> HIDE DEF more
<1>12. /\ <<R("find user", u, ""), R("add member", u, "")>> \in Seq(Requests)
       /\ Range(<<R("find user", u, ""), R("add member", u, "")>>)
              = {R("find user", u, ""), R("add member", u, "")}
  BY <1>1, TwoRequests, Zenon
<1>13. /\ UserProgram(u) \in Seq(Requests)
       /\ Range(UserProgram(u))
              = Range(<<R("find user", u, ""), R("add member", u, "")>>) \cup Range(more)
  BY <1>8, <1>11, <1>12, Joined, Zenon
<1>14. Range(UserProgram(u)) = {R("find user", u, ""), R("add member", u, "")} \cup Range(more)
  BY <1>12, <1>13, Zenon
<1> QED
  BY <1>10, <1>13, <1>14, Zenon

\* The program asks for everything.
LEMMA ProgramAsks ==
    /\ Program \in Seq(Requests)
    /\ R("find client", "", "") \in Range(Program)
    /\ \A o \in Org : Range(OrgProgram(o)) \subseteq Range(Program)
    /\ \A u \in User : Range(UserProgram(u)) \subseteq Range(Program)
<1> DEFINE first == <<R("find client", "", "")>>
           orgs == [i \in DOMAIN Orgs |-> OrgProgram(Orgs[i])]
           accounts == [i \in DOMAIN Accounts |-> UserProgram(Accounts[i])]
<1>1. first \in Seq(Requests) /\ Range(first) = {R("find client", "", "")}
  <2>1. R("find client", "", "") \in Requests
    BY RequestTypes DEF ClientKinds
  <2> QED
    BY <2>1, OneRequest, Zenon
<1>2. Orgs \in Seq(Org) /\ Accounts \in Seq(User)
  BY KeycloakAssumption, Zenon
<1>3. orgs \in Seq(Seq(Requests))
  <2>1. \A i \in DOMAIN Orgs : OrgProgram(Orgs[i]) \in Seq(Requests)
    BY <1>2, OrgProgramAsks DEF Org, Range
  <2>2. orgs \in [DOMAIN Orgs -> Seq(Requests)] /\ Orgs \in Seq(Range(Orgs))
    BY <1>2, <2>1, Zenon DEF Org
  <2> HIDE DEF orgs
  <2> QED
    BY <2>2, SameDomain, Zenon
<1>4. accounts \in Seq(Seq(Requests))
  <2>1. \A i \in DOMAIN Accounts : UserProgram(Accounts[i]) \in Seq(Requests)
    BY <1>2, UserProgramAsks DEF User, Range
  <2>2. accounts \in [DOMAIN Accounts -> Seq(Requests)] /\ Accounts \in Seq(Range(Accounts))
    BY <1>2, <2>1, Zenon DEF User
  <2> HIDE DEF accounts
  <2> QED
    BY <2>2, SameDomain, Zenon
<1>5. \A o \in Org : Range(OrgProgram(o)) \subseteq Range(InOrder(orgs))
  <2> SUFFICES ASSUME NEW o \in Org
               PROVE  Range(OrgProgram(o)) \subseteq Range(InOrder(orgs))
    OBVIOUS
  <2>1. PICK i \in DOMAIN Orgs : Orgs[i] = o
    BY DEF Org, Range
  <2>2. i \in DOMAIN orgs /\ orgs[i] = OrgProgram(o)
    BY <2>1, Zenon
  <2> HIDE DEF orgs
  <2> QED
    BY <1>3, <2>2, InOrderHasAll, Zenon
<1>6. \A u \in User : Range(UserProgram(u)) \subseteq Range(InOrder(accounts))
  <2> SUFFICES ASSUME NEW u \in User
               PROVE  Range(UserProgram(u)) \subseteq Range(InOrder(accounts))
    OBVIOUS
  <2>1. PICK i \in DOMAIN Accounts : Accounts[i] = u
    BY DEF User, Range
  <2>2. i \in DOMAIN accounts /\ accounts[i] = UserProgram(u)
    BY <2>1, Zenon
  <2> HIDE DEF accounts
  <2> QED
    BY <1>4, <2>2, InOrderHasAll, Zenon
<1>7. Program = (first \o InOrder(orgs)) \o InOrder(accounts)
  BY Zenon DEF Program
<1> HIDE DEF first, orgs, accounts
<1>8. InOrder(orgs) \in Seq(Requests) /\ InOrder(accounts) \in Seq(Requests)
  BY <1>3, <1>4, InOrderHasAll, Zenon
<1>9. /\ first \o InOrder(orgs) \in Seq(Requests)
      /\ Range(first \o InOrder(orgs)) = Range(first) \cup Range(InOrder(orgs))
  BY <1>1, <1>8, Joined, Zenon
<1>10. /\ Program \in Seq(Requests)
       /\ Range(Program) = Range(first \o InOrder(orgs)) \cup Range(InOrder(accounts))
  BY <1>7, <1>8, <1>9, Joined, Zenon
<1> QED
  BY <1>1, <1>5, <1>6, <1>9, <1>10, Zenon

\* With the program before it, a start lacks nothing.
LEMMA ProgramIsOnTheWay ==
    ASSUME todo' = Program
    PROVE  OnTheWay'
<1>1. ASSUME NEW kinds, NEW d \in kinds, NEW on, NEW group, R(d, on, group) \in Range(Program)
      PROVE  Asked(kinds, on, group)'
  BY <1>1 DEF Asked
<1>2. /\ "find client" \in ClientKinds /\ "find org" \in OrgKinds
      /\ "find group" \in GroupKinds
  BY DEF ClientKinds, OrgKinds, GroupKinds
<1>3. Asked(ClientKinds, "", "")'
  BY <1>1, <1>2, ProgramAsks, Zenon
<1>4. ASSUME NEW o \in Org
      PROVE  Asked(OrgKinds, o, "")' /\ \A g \in Range(RoleGroups) : Asked(GroupKinds, o, g)'
  <2>1. R("find org", o, "") \in Range(Program)
    BY OrgProgramAsks, ProgramAsks, Zenon
  <2>2. \A g \in Range(RoleGroups) : R("find group", o, g) \in Range(Program)
    BY OrgProgramAsks, ProgramAsks, Zenon
  <2> QED
    BY <1>1, <1>2, <2>1, <2>2, Zenon
<1>5. ASSUME NEW u \in User
      PROVE  /\ Asked({"find user", "put user"}, u, "")'
             /\ Asked({"find user", "post user", "put password"}, u, "")'
             /\ Asked({"add member"}, u, "")'
             /\ \A g \in Range(GroupsOf[u]) :
                   Asked(GroupKinds, OrgOf[u], g)' /\ Asked({"join group"}, u, g)'
  <2>1. /\ R("find user", u, "") \in Range(Program)
        /\ R("add member", u, "") \in Range(Program)
    BY UserProgramAsks, ProgramAsks, Zenon
  <2>2. \A g \in Range(GroupsOf[u]) : /\ R("find group", OrgOf[u], g) \in Range(Program)
                                      /\ R("join group", u, g) \in Range(Program)
    BY UserProgramAsks, ProgramAsks, Zenon
  <2>3. /\ "find user" \in {"find user", "put user"} /\ "add member" \in {"add member"}
        /\ "find user" \in {"find user", "post user", "put password"}
        /\ "join group" \in {"join group"}
    OBVIOUS
  <2> QED
    BY <1>1, <1>2, <2>1, <2>2, <2>3, Zenon
<1> QED
  BY <1>3, <1>4, <1>5, Zenon DEF OnTheWay

\* A realm in which nothing has been provisioned.
LEMMA EmptyRealmType ==
    ASSUME NEW era \in Nat PROVE EmptyRealm(era) \in Realm
BY DEF EmptyRealm, Realm

\* Nothing is provisioned before the first start.
LEMMA ProvisionInitially == Init => ProvisionInv
<1> SUFFICES ASSUME Init PROVE ProvisionInv
  OBVIOUS
<1>1. realm = EmptyRealm(1) /\ todo = <<>> /\ phase = "down"
  BY DEF Init, KeycloakInit
<1>2. EmptyRealm(1) \in Realm
  BY EmptyRealmType, SMT
<1> QED
  BY <1>1, <1>2 DEF ProvisionInv, KeycloakOK

\* Whoever changes the realm keeps it a realm.
LEMMA RealmChangesKeep ==
    ASSUME KeycloakOK, RebuildRealm \/ Meddle
    PROVE  KeycloakOK'
<1>1. realm \in Realm /\ todo \in Seq(Requests)
  BY DEF KeycloakOK
<1>2. CASE RebuildRealm
  <2>1. realm.era + 1 \in Nat
    BY <1>1 DEF Realm
  <2> QED
    BY <1>1, <1>2, <2>1, EmptyRealmType DEF RebuildRealm, KeycloakOK
<1>3. CASE MoveClient
  BY <1>1, <1>3 DEF MoveClient, KeycloakOK, Realm
<1>4. ASSUME NEW u \in User, ResetPassword(u) PROVE KeycloakOK'
  <2> DEFINE uncleared == [realm EXCEPT !.cleared = @ \ {u}]
  <2>1. uncleared \in Realm
    BY <1>1 DEF Realm
  <2>2. realm' = [uncleared EXCEPT !.password = realm.password \ {u}] /\ todo' = todo
    BY <1>4 DEF ResetPassword
  <2>3. realm.password \ {u} \subseteq User
    BY <1>1 DEF Realm
  <2> HIDE DEF uncleared
  <2>4. realm' \in Realm
    BY <2>1, <2>2, <2>3 DEF Realm
  <2> QED
    BY <1>1, <2>2, <2>4 DEF KeycloakOK
<1> QED
  BY <1>2, <1>3, <1>4, Zenon DEF Meddle

\* Every step keeps what is there or asked for.
LEMMA ProvisionStep ==
    ASSUME ProvisionInv, [Next]_vars
    PROVE  ProvisionInv'
<1>1. KeycloakOK /\ realm \in Realm /\ todo \in Seq(Requests)
  BY DEF ProvisionInv, KeycloakOK
<1> DEFINE Busy == phase = "provisioning" /\ mode = "shared"
<1>2. ASSUME UNCHANGED keycloakVars, phase' = phase, mode' = mode
      PROVE  ProvisionInv'
  <2>1. realm' = realm /\ todo' = todo
    BY <1>2 DEF keycloakVars
  <2> QED
    BY <1>2, <2>1, Zenon DEF ProvisionInv, KeycloakOK, OnTheWay, Asked
<1>3. ASSUME KeycloakOK', phase' # "provisioning"
      PROVE  ProvisionInv'
  BY <1>3, Zenon DEF ProvisionInv
<1>4. ASSUME UNCHANGED keycloakVars PROVE KeycloakOK'
  BY <1>1, <1>4 DEF keycloakVars, KeycloakOK
<1>5. ASSUME realm' = realm, todo' = <<>> PROVE KeycloakOK'
  BY <1>1, <1>5 DEF KeycloakOK
<1>6. ASSUME NEW m \in {"standalone", "shared"}, Start(m) PROVE ProvisionInv'
  BY <1>3, <1>4, <1>6 DEF Start
<1>7. CASE Statement
  BY <1>2, <1>7, Zenon DEF Statement, KeepRows
<1>8. CASE CommandRefused
  BY <1>3, <1>4, <1>8 DEF CommandRefused
<1>9. CASE Migrated
  <2>1. realm' = realm /\ mode' = mode
    BY <1>9, Zenon DEF Migrated, KeepRows
  <2>2. CASE mode = "shared"
    <3>1. todo' = Program
      BY <1>9, <2>2, Zenon DEF Migrated
    <3>2. OnTheWay' /\ KeycloakOK'
      BY <1>1, <2>1, <3>1, ProgramAsks, ProgramIsOnTheWay, Zenon DEF KeycloakOK
    <3> QED
      BY <3>2, Zenon DEF ProvisionInv
  <2>3. CASE mode # "shared"
    <3>1. todo' = <<>>
      BY <1>9, <2>3, Zenon DEF Migrated
    <3> QED
      BY <1>5, <2>1, <2>3, <3>1, Zenon DEF ProvisionInv
  <2> QED
    BY <2>2, <2>3
<1>10. CASE Provision
  <2>1. Request /\ mode' = mode /\ phase = "provisioning" /\ phase' = phase
    BY <1>10, Zenon DEF Provision, seedVars
  <2> QED
    BY <1>1, <2>1, RequestKeeps, Zenon DEF ProvisionInv
<1>11. CASE ProvisionFails
  <2>1. todo # <<>> /\ todo' = <<>> /\ phase' = "down"
        /\ realm' \in {realm, Effect(Head(todo))}
    BY <1>11, Zenon DEF ProvisionFails, RequestFails
  <2>2. Head(todo) \in Requests
    BY <1>1, <2>1, HeadFirst
  <2>3. realm' \in Realm
    BY <1>1, <2>1, <2>2, EffectGrows, Zenon
  <2> QED
    BY <1>3, <2>1, <2>3 DEF KeycloakOK
<1>12. CASE SeedAndServe
  BY <1>3, <1>4, <1>12 DEF SeedAndServe
<1>13. CASE SeedFails
  BY <1>3, <1>4, <1>13 DEF SeedFails
<1>14. CASE Page
  BY <1>3, <1>4, <1>14 DEF Page
<1>15. CASE Stop
  BY <1>3, <1>4, <1>15 DEF Stop
<1>16. CASE Crash
  BY <1>3, <1>5, <1>16 DEF Crash
<1>17. CASE Operator
  BY <1>3, <1>4, <1>17 DEF Operator
<1>18. CASE OperatorDone
  BY <1>3, <1>4, <1>18 DEF OperatorDone
<1>19. CASE RealmChanges
  BY <1>1, <1>3, <1>19, RealmChangesKeep DEF RealmChanges
<1>20. CASE UNCHANGED vars
  BY <1>2, <1>20, Zenon DEF vars, seedVars
<1> QED
  BY <1>6, <1>7, <1>8, <1>9, <1>10, <1>11, <1>12, <1>13, <1>14, <1>15, <1>16,
     <1>17, <1>18, <1>19, <1>20, Zenon DEF Next

\* When nothing is left to be asked, nothing is missing.
LEMMA NothingLeft ==
    ASSUME ProvisionInv PROVE ProvisionedWhole
<1> SUFFICES ASSUME phase = "provisioning", todo = <<>>, mode = "shared"
             PROVE  RealmIsWhole
  BY DEF ProvisionedWhole
<1>1. realm \in Realm /\ OnTheWay
  BY DEF ProvisionInv, KeycloakOK
<1>2. \A kinds, on, group : ~Asked(kinds, on, group)
  BY DEF Asked, Range
<1>3. realm.orgs \subseteq Org /\ realm.cleared \subseteq User
      /\ realm.password \subseteq User /\ realm.members \subseteq User
  BY <1>1 DEF Realm
<1> QED
  BY <1>1, <1>2, <1>3, Zenon DEF OnTheWay, RealmIsWhole

\* Whatever failed, was rebuilt or meddled with before: a start that has gone
\* through ensure_shared_realm_browser_client and
\* ensure_shared_realm_organizations_and_users has a whole realm.
THEOREM RealmIsProvisioned == Spec => []ProvisionedWhole
<1>1. Spec => []ProvisionInv
  BY ProvisionInitially, ProvisionStep, PTL DEF Spec
<1> QED
  BY <1>1, NothingLeft, PTL

-----------------------------------------------------------------------------
(***************************************************************************)
(* The rows of users.                                                      *)
(***************************************************************************)

UserRows == [name : User, service : User \X Nat, realm : Org \X Nat]

\* A service ID is that of the user; local ones are those of standalone mode.
UsersOK ==
    /\ users \in Seq(UserRows)
    /\ \A i \in DOMAIN users : users[i].service[1] = users[i].name
    /\ ~back /\ mode # "shared" =>
          \A i \in DOMAIN users : users[i].service = Id(users[i].name, Local)
    /\ mode \in {"standalone", "shared"}

UserInv == ProvisionInv /\ UsersOK /\ OneRowPerUser

\* The number of users.
Size == Len(Accounts)

\* NewUsers goes through the users one by one.
LEMMA NewUsersBuilt ==
    \E f : /\ f[0] = <<>>
           /\ \A k \in 1 .. Size :
                 f[k] = IF Found(Accounts[k]) = {} THEN Append(f[k - 1], Accounts[k])
                        ELSE f[k - 1]
           /\ NewUsers = f[Size]
<1> DEFINE n == Len(Accounts)
           Gone(k) == Found(Accounts[k]) = {}
           step == [k \in 1 .. n |-> [s \in Seq(User) |->
                       IF Gone(k) THEN Append(s, Accounts[k]) ELSE s]]
           fn(g) == [k \in 0 .. n |->
                        IF k = 0 THEN <<>>
                        ELSE IF Gone(k) THEN Append(g[k - 1], Accounts[k])
                        ELSE g[k - 1]]
<1>1. n \in Nat /\ Accounts \in Seq(User) /\ DOMAIN Accounts = 1 .. n
      /\ \A k \in 1 .. n : Accounts[k] \in User
  BY KeycloakAssumption
<1>2. \A s \in Seq(User) : \A k \in 1 .. n : Append(s, Accounts[k]) \in Seq(User)
  BY <1>1
<1>3. step \in [1 .. n -> [Seq(User) -> Seq(User)]]
  <2> HIDE DEF Gone
  <2> QED
    BY <1>2, Zenon
<1>4. <<>> \in Seq(User)
  OBVIOUS
<1> HIDE DEF n, Gone
<1>5. PICK f : IsIterate(f, Seq(User), <<>>, n, step)
  BY <1>1, <1>3, <1>4, HasIterate
<1>6. /\ f \in [0 .. n -> Seq(User)] /\ f[0] = <<>>
      /\ \A k \in 1 .. n : f[k] = step[k][f[k - 1]]
  BY <1>5, Zenon DEF IsIterate
<1>7. \A k \in 1 .. n : k - 1 \in 0 .. n
  BY <1>1
<1>8. \A k \in 1 .. n : f[k] = IF Gone(k) THEN Append(f[k - 1], Accounts[k]) ELSE f[k - 1]
  BY <1>6, <1>7, Zenon
<1>9. \A k \in 0 .. n : k = 0 \/ k \in 1 .. n
  BY <1>1
<1>10. f = fn(f)
  BY <1>6, <1>8, <1>9
<1> DEFINE after == CHOOSE g : g = fn(g)
<1>11. after = fn(after)
  BY <1>10, Zenon
<1>12. NewUsers = after[n]
  BY Zenon DEF NewUsers, n, Gone
<1> HIDE DEF after, step
<1>13. /\ after[0] = <<>>
       /\ \A k \in 1 .. n : after[k] =
             IF Gone(k) THEN Append(after[k - 1], Accounts[k]) ELSE after[k - 1]
  <2>1. 0 \in 0 .. n /\ \A k \in 1 .. n : k \in 0 .. n /\ k # 0
    BY <1>1
  <2> QED
    BY <1>11, <2>1, Zenon
<1> QED
  BY <1>12, <1>13, Zenon DEF n, Gone, Size

\* The users without a row, each once.
LEMMA NewUsersAre ==
    /\ NewUsers \in Seq(User)
    /\ \A i \in DOMAIN NewUsers : Found(NewUsers[i]) = {}
    /\ \A i, j \in DOMAIN NewUsers : NewUsers[i] = NewUsers[j] => i = j
    /\ \A u \in User : Found(u) = {} => \E i \in DOMAIN NewUsers : NewUsers[i] = u
<1> DEFINE n == Size
           Gone(k) == Found(Accounts[k]) = {}
<1>1. n \in Nat /\ Accounts \in Seq(User) /\ DOMAIN Accounts = 1 .. n
      /\ \A k \in 1 .. n : Accounts[k] \in User
  BY KeycloakAssumption DEF Size
<1>2. <<>> \in Seq(User)
  OBVIOUS
<1>3. PICK after : /\ after[0] = <<>>
                   /\ \A k \in 1 .. Size :
                         after[k] = IF Found(Accounts[k]) = {}
                                    THEN Append(after[k - 1], Accounts[k])
                                    ELSE after[k - 1]
                   /\ NewUsers = after[Size]
  BY NewUsersBuilt, Zenon
<1>4. /\ after[0] = <<>>
      /\ \A k \in 1 .. n : after[k] =
            IF Gone(k) THEN Append(after[k - 1], Accounts[k]) ELSE after[k - 1]
  BY <1>3, Zenon
<1>5. NewUsers = after[n]
  BY <1>3, Zenon
<1> HIDE DEF n, Gone
<1> DEFINE Has(s, m) ==
              /\ s \in Seq(User)
              /\ \A i \in DOMAIN s : \E k \in 1 .. m : Gone(k) /\ s[i] = Accounts[k]
              /\ \A i, j \in DOMAIN s : s[i] = s[j] => i = j
              /\ \A k \in 1 .. m : Gone(k) => \E i \in DOMAIN s : s[i] = Accounts[k]
           Good == {m \in Nat : m <= n => Has(after[m], m)}
<1>6. Good = Nat
  <2>1. 0 \in Good
    <3>1. (\A k : k \notin 1 .. 0) /\ \A i : i \notin DOMAIN <<>>
      OBVIOUS
    <3> QED
      BY <1>2, <1>4, <3>1, Zenon
  <2>2. ASSUME NEW m \in Good PROVE m + 1 \in Good
    <3> HIDE DEF Has
    <3>1. m \in Nat /\ m + 1 \in Nat
      OBVIOUS
    <3> SUFFICES ASSUME m + 1 <= n PROVE Has(after[m + 1], m + 1)
      BY <3>1, Zenon
    <3>2. m <= n /\ m + 1 \in 1 .. n /\ (m + 1) - 1 = m
      BY <1>1, <3>1
    <3>3. Has(after[m], m)
      BY <3>2, Zenon
    <3>4. \A k \in 1 .. m + 1 : k \in 1 .. m \/ k = m + 1
      BY <3>1
    <3>5. \A k \in 1 .. m : k \in 1 .. m + 1 /\ k # m + 1 /\ k \in DOMAIN Accounts
      BY <1>1, <3>1, <3>2
    <3>6. CASE Gone(m + 1)
      <4> DEFINE s == after[m]
                 t == Append(s, Accounts[m + 1])
      <4>1. after[m + 1] = t
        BY <1>4, <3>2, <3>6, Zenon
      <4>2. s \in Seq(User) /\ Accounts[m + 1] \in User /\ m + 1 \in DOMAIN Accounts
        BY <1>1, <3>2, <3>3, Zenon DEF Has
      <4>8. /\ \A i \in DOMAIN s : \E k \in 1 .. m : Gone(k) /\ s[i] = Accounts[k]
            /\ \A i, j \in DOMAIN s : s[i] = s[j] => i = j
            /\ \A k \in 1 .. m : Gone(k) => \E i \in DOMAIN s : s[i] = Accounts[k]
        BY <3>3, Zenon DEF Has
      <4> HIDE DEF s
      <4>3. /\ t \in Seq(User) /\ DOMAIN t = 1 .. Len(s) + 1
            /\ \A i \in DOMAIN t : i = Len(s) + 1 \/ i \in DOMAIN s
            /\ \A i \in DOMAIN s : i \in DOMAIN t /\ t[i] = s[i]
            /\ Len(s) + 1 \in DOMAIN t /\ t[Len(s) + 1] = Accounts[m + 1]
        BY <4>2
      <4> HIDE DEF t
      <4>4. \A i \in DOMAIN t : \E k \in 1 .. m + 1 : Gone(k) /\ t[i] = Accounts[k]
        <5>1. m + 1 \in 1 .. m + 1
          BY <3>1
        <5> SUFFICES ASSUME NEW i \in DOMAIN t
                     PROVE  \E k \in 1 .. m + 1 : Gone(k) /\ t[i] = Accounts[k]
          BY Zenon
        <5>2. CASE i = Len(s) + 1
          BY <3>6, <4>3, <5>1, <5>2, Zenon
        <5>3. CASE i \in DOMAIN s
          <6>1. PICK k \in 1 .. m : Gone(k) /\ s[i] = Accounts[k]
            BY <4>8, <5>3, Zenon
          <6>2. k \in 1 .. m + 1 /\ t[i] = s[i]
            BY <3>5, <4>3, <5>3, Zenon
          <6> QED
            BY <6>1, <6>2, Zenon
        <5> QED
          BY <4>3, <5>2, <5>3, Zenon
      <4>5. \A i \in DOMAIN s : s[i] # Accounts[m + 1]
        <5>1. \A i \in DOMAIN s : \E k \in 1 .. m : s[i] = Accounts[k]
          BY <4>8, Zenon
        <5> QED
          BY <3>5, <4>2, <5>1, KeycloakAssumption, Zenon
      <4>6. \A i, j \in DOMAIN t : t[i] = t[j] => i = j
        <5> SUFFICES ASSUME NEW i \in DOMAIN t, NEW j \in DOMAIN t, t[i] = t[j]
                     PROVE  i = j
          BY Zenon
        <5>1. CASE i \in DOMAIN s /\ j \in DOMAIN s
          BY <4>3, <4>8, <5>1, Zenon
        <5>2. CASE i = Len(s) + 1 /\ j \in DOMAIN s
          BY <4>3, <4>5, <5>2, Zenon
        <5>3. CASE i \in DOMAIN s /\ j = Len(s) + 1
          BY <4>3, <4>5, <5>3, Zenon
        <5> QED
          BY <4>3, <5>1, <5>2, <5>3, Zenon
      <4>7. \A k \in 1 .. m + 1 : Gone(k) => \E i \in DOMAIN t : t[i] = Accounts[k]
        <5> SUFFICES ASSUME NEW k \in 1 .. m + 1, Gone(k)
                     PROVE  \E i \in DOMAIN t : t[i] = Accounts[k]
          BY Zenon
        <5>1. CASE k = m + 1
          BY <4>3, <5>1, Zenon
        <5>2. CASE k \in 1 .. m
          <6>1. PICK i \in DOMAIN s : s[i] = Accounts[k]
            BY <4>8, <5>2, Zenon
          <6> QED
            BY <4>3, <6>1, Zenon
        <5> QED
          BY <3>4, <5>1, <5>2, Zenon
      <4>9. t \in Seq(User)
        BY <4>3, Zenon
      <4>10. Has(t, m + 1)
        BY <4>4, <4>6, <4>7, <4>9, Zenon DEF Has
      <4> QED
        BY <4>1, <4>10, Zenon
    <3>7. CASE ~Gone(m + 1)
      <4>1. after[m + 1] = after[m]
        BY <1>4, <3>2, <3>7, Zenon
      <4> DEFINE s == after[m]
      <4>2. /\ s \in Seq(User)
            /\ \A i \in DOMAIN s : \E k \in 1 .. m : Gone(k) /\ s[i] = Accounts[k]
            /\ \A i, j \in DOMAIN s : s[i] = s[j] => i = j
            /\ \A k \in 1 .. m : Gone(k) => \E i \in DOMAIN s : s[i] = Accounts[k]
        BY <3>3, Zenon DEF Has
      <4> HIDE DEF s
      <4>3. \A i \in DOMAIN s : \E k \in 1 .. m + 1 : Gone(k) /\ s[i] = Accounts[k]
        BY <3>5, <4>2, Zenon
      <4>4. \A k \in 1 .. m + 1 : Gone(k) => \E i \in DOMAIN s : s[i] = Accounts[k]
        BY <3>4, <3>7, <4>2, Zenon
      <4>5. Has(s, m + 1)
        BY <4>2, <4>3, <4>4, Zenon DEF Has
      <4> QED
        BY <4>1, <4>5, Zenon DEF s
    <3> QED
      BY <3>6, <3>7
  <2>3. Good \subseteq Nat
    BY Zenon
  <2> HIDE DEF Good
  <2> QED
    BY <2>1, <2>2, <2>3, NatSet, Zenon
<1>7. Has(NewUsers, n)
  <2>1. n <= n
    BY <1>1
  <2> QED
    BY <1>1, <1>6, <1>5, <2>1, Zenon
<1>8. \A i \in DOMAIN NewUsers : Found(NewUsers[i]) = {}
  BY <1>7, Zenon DEF Has, Gone
<1>9. \A u \in User : Found(u) = {} => \E i \in DOMAIN NewUsers : NewUsers[i] = u
  <2>1. \A u \in User : \E k \in 1 .. n : Accounts[k] = u
    BY <1>1 DEF User, Range
  <2> QED
    BY <1>7, <2>1, Zenon DEF Has, Gone
<1> QED
  BY <1>7, <1>8, <1>9, Zenon DEF Has

\* IDs are a name and an era.
LEMMA Ids ==
    ASSUME KeycloakOK
    PROVE  /\ Era \in Nat
           /\ \A o \in Org : CanonicalTenant(o) \in Org \X Nat
           /\ \A u \in User : /\ UserRow(u) \in UserRows
                              /\ UserRow(u).name = u
                              /\ UserRow(u).service = ServiceId(u)
                              /\ UserRow(u).service[1] = u
                              /\ UserRow(u).realm = CanonicalTenant(OrgOf[u])
<1>1. Era \in Nat
  BY DEF KeycloakOK, Realm, Era, Local
<1>2. \A o \in Org : CanonicalTenant(o) \in Org \X Nat
  BY <1>1 DEF CanonicalTenant, Id
<1>3. \A u \in User : ServiceId(u) \in User \X Nat /\ ServiceId(u)[1] = u
  BY <1>1 DEF ServiceId, Id
<1>4. \A u \in User : OrgOf[u] \in Org
  BY KeycloakAssumption, Zenon
<1> QED
  BY <1>1, <1>2, <1>3, <1>4 DEF UserRow, UserRows

\* A user is found unless no row has the name.
LEMMA FoundAre ==
    ASSUME UsersOK, NEW u \in User
    PROVE  /\ \A i \in Found(u) : i \in DOMAIN users /\ users[i].name = u
           /\ ~back /\ Found(u) = {} => \A i \in DOMAIN users : users[i].name # u
<1>1. ServiceId(u)[1] = u
  BY DEF ServiceId, Id
<1>2. \A i \in DOMAIN users : users[i].service[1] = users[i].name
  BY DEF UsersOK
<1> DEFINE same == {i \in DOMAIN users : users[i].service = ServiceId(u)}
           named == {i \in DOMAIN users : users[i].name = u}
<1>3. Found(u) = IF same # {} \/ mode = "standalone" THEN same ELSE named
  BY Zenon DEF Found
<1>4. \A i \in same : i \in DOMAIN users /\ users[i].name = u
  BY <1>1, <1>2, Zenon
<1>5. ASSUME ~back, mode = "standalone"
      PROVE  same = named
  <2>1. ServiceId(u) = Id(u, Local)
    BY <1>5 DEF ServiceId, Era
  <2>2. \A i \in DOMAIN users : users[i].service = Id(users[i].name, Local)
    BY <1>5 DEF UsersOK
  <2>3. \A i \in DOMAIN users : users[i].name = u => users[i].service = ServiceId(u)
    BY <2>1, <2>2, Zenon
  <2> QED
    BY <1>4, <2>3, Zenon
<1> HIDE DEF same
<1>6. \A i \in Found(u) : i \in DOMAIN users /\ users[i].name = u
  BY <1>3, <1>4, Zenon
<1>7. ASSUME ~back, Found(u) = {} PROVE named = {}
  BY <1>3, <1>5, <1>7, Zenon
<1> QED
  BY <1>6, <1>7, Zenon

\* The rows that Seed leaves: the old ones in their places, then the new.
SeedsUsers(new, pick) ==
    /\ new \in Seq(UserRows)
    /\ Len(new) = Len(users) + Len(NewUsers)
    /\ \A i \in DOMAIN users :
          /\ i \in DOMAIN new
          /\ new[i] = IF \E u \in User : i = pick[u] THEN UserRow(users[i].name)
                      ELSE MovedUsers[i]
          /\ new[i].name = users[i].name
          /\ new[i].service \in {users[i].service, ServiceId(users[i].name)}
    /\ \A i \in DOMAIN NewUsers :
          /\ Len(users) + i \in DOMAIN new
          /\ new[Len(users) + i] = UserRow(NewUsers[i])
    /\ \A i \in DOMAIN new :
          i \in DOMAIN users
          \/ (i > Len(users) /\ \E j \in DOMAIN NewUsers : i = Len(users) + j)

\* One sequence of given length after another.
Joins(h, S, f, m, g, n) ==
    /\ h \in Seq(S) /\ Len(h) = m + n
    /\ \A i \in 1 .. m + n : h[i] = IF i <= m THEN f[i] ELSE g[i - m]

\* Functions on 1 .. n are sequences, and how they are joined.
LEMMA Rows ==
    ASSUME NEW S, NEW m \in Nat, NEW n \in Nat,
           NEW f \in [1 .. m -> S], NEW g \in [1 .. n -> S], NEW h, h = f \o g
    PROVE  Joins(h, S, f, m, g, n)
<1>1. f \in Seq(S) /\ Len(f) = m
  OBVIOUS
<1>2. g \in Seq(S) /\ Len(g) = n
  OBVIOUS
<1>3. h \in Seq(S) /\ Len(h) = m + n
  BY <1>1, <1>2, Concat
<1>4. ASSUME NEW i \in 1 .. m + n
      PROVE  h[i] = (IF i <= m THEN f[i] ELSE g[i - m])
  BY <1>1, <1>2, Concat
<1> QED
  BY <1>3, <1>4, Zenon DEF Joins

\* SeededUsers leaves these rows.
LEMMA SeededUsersAre ==
    ASSUME KeycloakOK, UsersOK, NEW pick \in Picks, NEW new, new = SeededUsers(pick)
    PROVE  SeedsUsers(new, pick)
<1> DEFINE old == [i \in DOMAIN users |->
                      IF \E u \in User : i = pick[u] THEN UserRow(users[i].name)
                      ELSE MovedUsers[i]]
           added == [i \in DOMAIN NewUsers |-> UserRow(NewUsers[i])]
<1>1. users \in Seq(UserRows) /\ DOMAIN users = 1 .. Len(users) /\ Len(users) \in Nat
  BY DEF UsersOK
<1>2. NewUsers \in Seq(User) /\ DOMAIN NewUsers = 1 .. Len(NewUsers) /\ Len(NewUsers) \in Nat
      /\ \A i \in DOMAIN NewUsers : NewUsers[i] \in User
  BY NewUsersAre
<1>3. \A i \in DOMAIN users : users[i] \in UserRows /\ users[i].name \in User
  <2>1. \A i \in DOMAIN users : users[i] \in UserRows
    BY <1>1
  <2> QED
    BY <2>1 DEF UserRows
<1>4. ASSUME NEW i \in DOMAIN users
      PROVE  /\ MovedUsers[i] \in UserRows
             /\ MovedUsers[i].name = users[i].name
             /\ MovedUsers[i].service = users[i].service
  <2> DEFINE o == OrgOf[users[i].name]
  <2>1. MovedUsers[i] = IF Realigned(o) /\ users[i].realm = tenant[o]
                        THEN [users[i] EXCEPT !.realm = CanonicalTenant(o)] ELSE users[i]
    BY Zenon DEF MovedUsers
  <2>2. o \in Org
    BY <1>3, KeycloakAssumption, Zenon
  <2>3. CanonicalTenant(o) \in Org \X Nat
    BY <2>2, Ids, Zenon
  <2> HIDE DEF o
  <2>4. users[i] \in UserRows
    BY <1>3, Zenon
  <2>5. CASE Realigned(o) /\ users[i].realm = tenant[o]
    BY <2>1, <2>3, <2>4, <2>5 DEF UserRows
  <2>6. CASE ~(Realigned(o) /\ users[i].realm = tenant[o])
    BY <2>1, <2>4, <2>6
  <2> QED
    BY <2>5, <2>6, Zenon
<1>5. ASSUME NEW i \in DOMAIN users
      PROVE  /\ old[i] \in UserRows
             /\ old[i].name = users[i].name
             /\ old[i].service \in {users[i].service, ServiceId(users[i].name)}
  BY <1>3, <1>4, Ids, Zenon
<1>6. \A i \in DOMAIN NewUsers : added[i] \in UserRows
  BY <1>2, Ids, Zenon
<1>7. old \in [1 .. Len(users) -> UserRows] /\ added \in [1 .. Len(NewUsers) -> UserRows]
  BY <1>1, <1>2, <1>5, <1>6, Zenon
<1>8. new = old \o added
  BY Zenon DEF SeededUsers
<1>9. /\ \A i \in DOMAIN users :
            old[i] = IF \E u \in User : i = pick[u] THEN UserRow(users[i].name)
                     ELSE MovedUsers[i]
      /\ \A i \in DOMAIN NewUsers : added[i] = UserRow(NewUsers[i])
  BY Zenon
<1> HIDE DEF old, added
<1>11. /\ new \in Seq(UserRows) /\ Len(new) = Len(users) + Len(NewUsers)
       /\ \A i \in 1 .. Len(users) + Len(NewUsers) :
             new[i] = IF i <= Len(users) THEN old[i] ELSE added[i - Len(users)]
  <2>1. Joins(new, UserRows, old, Len(users), added, Len(NewUsers))
    BY <1>1, <1>2, <1>7, <1>8, Rows, Zenon
  <2> QED
    BY <2>1, Zenon DEF Joins
<1>12. DOMAIN new = 1 .. Len(users) + Len(NewUsers)
  BY <1>11
<1>13. \A i \in DOMAIN users : i \in DOMAIN new /\ new[i] = old[i]
  BY <1>1, <1>2, <1>11, <1>12
<1>14. \A i \in DOMAIN NewUsers :
          Len(users) + i \in DOMAIN new /\ new[Len(users) + i] = added[i]
  BY <1>1, <1>2, <1>11, <1>12
<1>15. \A i \in DOMAIN new :
          i \in DOMAIN users
          \/ (i > Len(users) /\ i - Len(users) \in DOMAIN NewUsers
                 /\ i = Len(users) + (i - Len(users)))
  BY <1>1, <1>2, <1>12
<1> QED
  BY <1>5, <1>9, <1>11, <1>13, <1>14, <1>15, Zenon DEF SeedsUsers

\* Seeding keeps one row per user.
LEMMA SeedKeepsUsers ==
    ASSUME KeycloakOK, UsersOK, OneRowPerUser, Seed
    PROVE  UsersOK' /\ OneRowPerUser'
<1>1. PICK pick \in Picks : users' = SeededUsers(pick)
  BY DEF Seed
<1>2. mode' = mode /\ back' = back
  BY DEF Seed
<1>3. /\ users' \in Seq(UserRows)
      /\ \A i \in DOMAIN users :
            /\ users'[i].name = users[i].name
            /\ users'[i].service \in {users[i].service, ServiceId(users[i].name)}
      /\ \A i \in DOMAIN NewUsers : users'[Len(users) + i] = UserRow(NewUsers[i])
      /\ \A i \in DOMAIN users' :
            i \in DOMAIN users
            \/ (i > Len(users) /\ \E j \in DOMAIN NewUsers : i = Len(users) + j)
  <2>1. SeedsUsers(users', pick)
    BY <1>1, SeededUsersAre, Zenon
  <2> QED
    BY <2>1, Zenon DEF SeedsUsers
<1>4. /\ \A i \in DOMAIN users : users[i].service[1] = users[i].name
      /\ mode \in {"standalone", "shared"}
  BY DEF UsersOK
<1>5. \A u \in User : ServiceId(u)[1] = u
  BY DEF ServiceId, Id
<1>6. \A i \in DOMAIN users : users[i].name \in User
  <2>1. \A i \in DOMAIN users : users[i] \in UserRows
    BY DEF UsersOK
  <2> QED
    BY <2>1 DEF UserRows
<1>7. ASSUME NEW j \in DOMAIN NewUsers
      PROVE  /\ users'[Len(users) + j].name = NewUsers[j]
             /\ users'[Len(users) + j].service = ServiceId(NewUsers[j])
             /\ NewUsers[j] \in User
  <2>1. NewUsers[j] \in User
    BY NewUsersAre
  <2> QED
    BY <1>3, <2>1, Ids, Zenon
<1>8. ASSUME NEW i \in DOMAIN users'
      PROVE  users'[i].service[1] = users'[i].name
  <2>1. CASE i \in DOMAIN users
    BY <1>3, <1>4, <1>5, <1>6, <2>1
  <2>2. ASSUME NEW j \in DOMAIN NewUsers, i = Len(users) + j
        PROVE  users'[i].service[1] = users'[i].name
    <3>1. users'[i].name = NewUsers[j] /\ users'[i].service = ServiceId(NewUsers[j])
      BY <1>7, <2>2, Zenon
    <3>2. ServiceId(NewUsers[j])[1] = NewUsers[j]
      BY <1>5, <1>7, Zenon
    <3> QED
      BY <3>1, <3>2
  <2> QED
    BY <1>3, <2>1, <2>2, Zenon
<1>9. ASSUME ~back, mode # "shared", NEW i \in DOMAIN users'
      PROVE  users'[i].service = Id(users'[i].name, Local)
  <2>1. \A u : ServiceId(u) = Id(u, Local)
    BY <1>9 DEF ServiceId, Era
  <2>2. \A k \in DOMAIN users : users[k].service = Id(users[k].name, Local)
    BY <1>9 DEF UsersOK
  <2>3. CASE i \in DOMAIN users
    <3>1. /\ users'[i].name = users[i].name
          /\ users'[i].service = users[i].service \/ users'[i].service = ServiceId(users[i].name)
      BY <1>3, <2>3
    <3> QED
      BY <2>1, <2>2, <2>3, <3>1, Zenon
  <2>4. ASSUME NEW j \in DOMAIN NewUsers, i = Len(users) + j
        PROVE  users'[i].service = Id(users'[i].name, Local)
    BY <1>7, <2>1, <2>4, Zenon
  <2> QED
    BY <1>3, <2>3, <2>4, Zenon
<1>10. UsersOK'
  BY <1>2, <1>3, <1>4, <1>8, <1>9, Zenon DEF UsersOK
<1>11. ASSUME ~back, NEW i \in DOMAIN users', NEW j \in DOMAIN users',
              users'[i].name = users'[j].name
       PROVE  i = j
  <2>1. \A k, l \in DOMAIN users : users[k].name = users[l].name => k = l
    BY <1>11, Zenon DEF OneRowPerUser
  <2>2. \A k \in DOMAIN NewUsers : \A l \in DOMAIN users : users[l].name # NewUsers[k]
    BY <1>7, <1>11, NewUsersAre, FoundAre, Zenon
  <2>3. CASE i \in DOMAIN users /\ j \in DOMAIN users
    BY <1>3, <1>11, <2>1, <2>3, Zenon
  <2>4. ASSUME NEW k \in DOMAIN NewUsers, i = Len(users) + k, j \in DOMAIN users
        PROVE  FALSE
    <3>1. users'[i].name = NewUsers[k] /\ users'[j].name = users[j].name
      BY <1>3, <1>7, <2>4, Zenon
    <3> QED
      BY <1>11, <2>2, <2>4, <3>1, Zenon
  <2>5. ASSUME NEW k \in DOMAIN NewUsers, j = Len(users) + k, i \in DOMAIN users
        PROVE  FALSE
    <3>1. users'[j].name = NewUsers[k] /\ users'[i].name = users[i].name
      BY <1>3, <1>7, <2>5, Zenon
    <3> QED
      BY <1>11, <2>2, <2>5, <3>1, Zenon
  <2>6. ASSUME NEW k \in DOMAIN NewUsers, NEW l \in DOMAIN NewUsers,
               i = Len(users) + k, j = Len(users) + l
        PROVE  i = j
    BY <1>7, <1>11, <2>6, NewUsersAre, Zenon
  <2> QED
    BY <1>3, <2>3, <2>4, <2>5, <2>6, Zenon
<1>12. OneRowPerUser'
  BY <1>2, <1>11, Zenon DEF OneRowPerUser
<1> QED
  BY <1>10, <1>12

\* Every step keeps one row per user.
LEMMA UserStep ==
    ASSUME UserInv, [Next]_vars
    PROVE  UserInv'
<1>1. KeycloakOK /\ UsersOK /\ OneRowPerUser /\ ProvisionInv'
  BY ProvisionStep, Zenon DEF UserInv, ProvisionInv
<1> SUFFICES UsersOK' /\ OneRowPerUser'
  BY <1>1, Zenon DEF UserInv
<1>2. ASSUME users' = users, mode' = mode, back' = back
      PROVE  UsersOK' /\ OneRowPerUser'
  BY <1>1, <1>2, Zenon DEF UsersOK, OneRowPerUser
<1>3. ASSUME UNCHANGED seedVars PROVE UsersOK' /\ OneRowPerUser'
  BY <1>2, <1>3, Zenon DEF seedVars
<1>4. ASSUME NEW tables, KeepRows(tables) PROVE UsersOK' /\ OneRowPerUser'
  <2>1. mode' = mode /\ back' = back /\ (users' = users \/ users' = <<>>)
    BY <1>4, Zenon DEF KeepRows
  <2>2. CASE users' = <<>>
    <3>1. users' \in Seq(UserRows) /\ \A i : i \notin DOMAIN users'
      BY <2>2
    <3> QED
      BY <1>1, <2>1, <3>1, Zenon DEF UsersOK, OneRowPerUser
  <2> QED
    BY <1>2, <2>1, <2>2, Zenon
<1>5. ASSUME NEW m \in {"standalone", "shared"}, Start(m) PROVE UsersOK' /\ OneRowPerUser'
  <2>1. mode' = m /\ users' = users /\ back' = (back \/ (mode = "shared" /\ m = "standalone"))
    BY <1>5, Zenon DEF Start, ChooseMode
  <2>2. mode' \in {"standalone", "shared"}
    BY <2>1
  <2>3. ~back' => ~back
    BY <2>1
  <2>4. ~back' /\ mode' # "shared" => ~back /\ mode # "shared"
    BY <2>1
  <2> QED
    BY <1>1, <2>1, <2>2, <2>3, <2>4, Zenon DEF UsersOK, OneRowPerUser
<1>6. CASE Statement
  BY <1>4, <1>6, Zenon DEF Statement
<1>7. CASE CommandRefused
  BY <1>3, <1>7, Zenon DEF CommandRefused
<1>8. CASE Migrated
  BY <1>4, <1>8, Zenon DEF Migrated
<1>9. CASE Provision
  BY <1>3, <1>9, Zenon DEF Provision
<1>10. CASE ProvisionFails
  BY <1>3, <1>10, Zenon DEF ProvisionFails
<1>11. CASE SeedAndServe
  BY <1>1, <1>11, SeedKeepsUsers, Zenon DEF SeedAndServe
<1>12. CASE SeedFails
  BY <1>3, <1>12, Zenon DEF SeedFails
<1>13. CASE Page
  <2>1. CASE BrowserStep \/ LoginStep
    BY <1>3, <2>1, Zenon DEF BrowserStep, LoginStep
  <2>2. CASE WritePage
    BY <1>2, <2>2, Zenon DEF WritePage
  <2> QED
    BY <1>13, <2>1, <2>2, Zenon DEF Page
<1>14. CASE Stop
  BY <1>3, <1>14, Zenon DEF Stop
<1>15. CASE Crash
  BY <1>3, <1>15, Zenon DEF Crash
<1>16. CASE Operator
  BY <1>3, <1>16, Zenon DEF Operator
<1>17. CASE OperatorDone
  BY <1>4, <1>17, Zenon DEF OperatorDone
<1>18. CASE RealmChanges
  BY <1>3, <1>18, Zenon DEF RealmChanges
<1>19. CASE UNCHANGED vars
  BY <1>3, <1>19, Zenon DEF vars
<1> QED
  BY <1>5, <1>6, <1>7, <1>8, <1>9, <1>10, <1>11, <1>12, <1>13, <1>14, <1>15,
     <1>16, <1>17, <1>18, <1>19, Zenon DEF Next

\* There are no rows before the first start.
LEMMA UsersInitially == Init => UserInv
<1> SUFFICES ASSUME Init PROVE UserInv
  OBVIOUS
<1>1. users = <<>> /\ mode = "standalone"
  BY DEF Init, SeedInit
<1>2. users \in Seq(UserRows) /\ \A i : i \notin DOMAIN users
  BY <1>1
<1>3. mode \in {"standalone", "shared"}
  BY <1>1
<1> QED
  BY <1>2, <1>3, ProvisionInitially, Zenon DEF UserInv, UsersOK, OneRowPerUser

\* The inductive invariant of the rows of users.
LEMMA UserInvariant == Spec => []UserInv
BY UsersInitially, UserStep, PTL DEF Spec

\* From standalone to shared mode and through rebuilt realms a user keeps one
\* row: _ensure_user finds it by its service ID or else by its name.
THEOREM UsersKeepOneRow == Spec => []OneRowPerUser
<1>1. UserInv => OneRowPerUser
  BY DEF UserInv
<1> QED
  BY <1>1, UserInvariant, PTL

-----------------------------------------------------------------------------
(***************************************************************************)
(* Tenants and what belongs to them.                                       *)
(***************************************************************************)

TenantRows ==
    [table : {"library", "secret"}, org : Org, id : Org \X Nat,
     value : {"default", "edited", "model"}]

\* One row of every user has a role in the user's tenant.
Granted ==
    \A u \in User : \E i \in DOMAIN users :
        users[i].name = u /\ <<i, tenant[OrgOf[u]]>> \in granted

RealmsFollow ==
    \A i \in DOMAIN users : users[i].realm = tenant[OrgOf[users[i].name]]

\* Secrets follow their tenant where foreign keys make them.
RowsFollow ==
    \A r \in rows : r.table # "secret" \/ db.foreign = "none" => r.id = tenant[r.org]

OneSecret ==
    db.foreign = "none" =>
        \A r, s \in rows :
            r.table = "secret" /\ s.table = "secret" /\ r.org = s.org => r = s

TenantsOK ==
    /\ tenant \in [Org -> (Org \X Nat) \cup {NoTenant}]
    /\ rows \subseteq TenantRows
    /\ RowsFollow /\ OneSecret /\ RealmsFollow
    /\ phase \in {"provisioning", "serving"} => command = "none"
    /\ phase = "serving" => Granted

\* What stands for no tenant is no ID.
LEMMA NoTenantIsNone ==
    ASSUME NEW id \in Org \X Nat
    PROVE  id # NoTenant
BY SeedAssumption DEF NoTenant

\* The seed brings every row and every user to the tenant's present ID.
LEMMA SeedKeepsRows ==
    ASSUME TenantsOK, KeycloakOK, Seed, db' = db
    PROVE  (/\ tenant \in [Org -> (Org \X Nat) \cup {NoTenant}] /\ rows \subseteq TenantRows
            /\ RowsFollow /\ OneSecret)'
<1>1. /\ tenant' = [o \in Org |-> CanonicalTenant(o)]
      /\ rows' = SeededRows
  BY Zenon DEF Seed
<1>2. \A o \in Org : CanonicalTenant(o) \in Org \X Nat
  BY Ids, Zenon
<1>3. tenant' \in [Org -> (Org \X Nat) \cup {NoTenant}] /\ \A o \in Org : tenant'[o] = CanonicalTenant(o)
  BY <1>1, <1>2
<1> DEFINE move(r) == IF /\ Realigned(r.org) /\ r.id = tenant[r.org]
                         /\ r.table \in TenantScoped
                      THEN [r EXCEPT !.id = CanonicalTenant(r.org)] ELSE r
           new == {Row("secret", o, CanonicalTenant(o), "default") :
                      o \in {p \in Org : ~\E r \in MovedRows :
                                r.table = "secret" /\ r.id = CanonicalTenant(p)}}
<1>4. MovedRows = {move(r) : r \in rows} /\ rows' = MovedRows \cup new
  BY <1>1, Zenon DEF MovedRows, SeededRows
<1>5. ASSUME NEW r \in rows
      PROVE  /\ move(r) \in TenantRows
             /\ move(r).table = r.table /\ move(r).org = r.org /\ move(r).value = r.value
             /\ r.id = tenant[r.org] => move(r).id = CanonicalTenant(r.org)
             /\ move(r).id = r.id \/ move(r).id = CanonicalTenant(r.org)
  <2>1. r \in TenantRows
    BY Zenon DEF TenantsOK
  <2>2. r.org \in Org /\ r.id \in Org \X Nat /\ r.table \in TenantScoped
    BY <2>1 DEF TenantRows, TenantScoped
  <2>3. CanonicalTenant(r.org) \in Org \X Nat
    BY <1>2, <2>2, Zenon
  <2>4. CASE Realigned(r.org) /\ r.id = tenant[r.org]
    <3>1. move(r) = [r EXCEPT !.id = CanonicalTenant(r.org)]
      BY <2>2, <2>4, Zenon
    <3> HIDE DEF move
    <3> QED
      BY <2>1, <2>3, <3>1 DEF TenantRows
  <2>5. CASE ~(Realigned(r.org) /\ r.id = tenant[r.org])
    <3>1. move(r) = r
      BY <2>5, Zenon
    <3>2. r.id # NoTenant
      BY <2>2, NoTenantIsNone, Zenon
    <3>3. r.id = tenant[r.org] => r.id = CanonicalTenant(r.org)
      BY <2>5, <3>2, Zenon DEF Realigned
    <3> HIDE DEF move
    <3> QED
      BY <2>1, <3>1, <3>3, Zenon
  <2> QED
    BY <2>4, <2>5, Zenon
<1>6. ASSUME NEW r \in new
      PROVE  /\ r \in TenantRows /\ r.table = "secret" /\ r.id = CanonicalTenant(r.org)
             /\ r.value = "default"
             /\ ~\E s \in MovedRows : s.table = "secret" /\ s.id = CanonicalTenant(r.org)
  <2>1. PICK o \in Org : /\ r = Row("secret", o, CanonicalTenant(o), "default")
                         /\ ~\E s \in MovedRows : s.table = "secret" /\ s.id = CanonicalTenant(o)
    BY <1>6, Zenon
  <2>2. CanonicalTenant(o) \in Org \X Nat
    BY <1>2, Zenon
  <2>3. r.org = o /\ r.table = "secret" /\ r.id = CanonicalTenant(o) /\ r.value = "default"
        /\ r \in TenantRows
    BY <2>1, <2>2 DEF Row, TenantRows
  <2> QED
    BY <2>1, <2>3, Zenon
<1> HIDE DEF move, new
<1>7. ASSUME NEW s \in MovedRows PROVE \E r \in rows : s = move(r)
  BY <1>4, <1>7, Zenon
<1>8. rows' \subseteq TenantRows
  BY <1>4, <1>5, <1>6, <1>7
<1>9. ASSUME NEW s \in MovedRows, s.table # "secret" \/ db.foreign = "none"
      PROVE  s.id = CanonicalTenant(s.org)
  <2>1. PICK r \in rows : s = move(r)
    BY <1>7, Zenon
  <2>2. s.table = r.table /\ s.org = r.org /\ (r.id = tenant[r.org] => s.id = CanonicalTenant(r.org))
    BY <1>5, <2>1, Zenon
  <2>3. r.id = tenant[r.org]
    BY <1>9, <2>2, Zenon DEF TenantsOK, RowsFollow
  <2> QED
    BY <2>2, <2>3, Zenon
<1>10. RowsFollow'
  <2>1. ASSUME NEW r \in rows', r.table # "secret" \/ db.foreign = "none"
        PROVE  r.id = tenant'[r.org]
    <3>1. r.id = CanonicalTenant(r.org)
      BY <1>4, <1>6, <1>9, <2>1, Zenon
    <3>2. r.org \in Org
      BY <1>8 DEF TenantRows
    <3> QED
      BY <1>3, <3>1, <3>2, Zenon
  <2> QED
    BY <2>1, Zenon DEF RowsFollow
<1>11. ASSUME db.foreign = "none", NEW r \in rows', NEW s \in rows',
              r.table = "secret", s.table = "secret", r.org = s.org
       PROVE  r = s
  <2>1. ASSUME r \in MovedRows, s \in MovedRows PROVE r = s
    <3>1. PICK q \in rows : r = move(q)
      BY <1>7, <2>1, Zenon
    <3>2. PICK t \in rows : s = move(t)
      BY <1>7, <2>1, Zenon
    <3>3. q.table = "secret" /\ t.table = "secret" /\ q.org = t.org
      BY <1>5, <1>11, <3>1, <3>2, Zenon
    <3>4. q = t
      BY <1>11, <3>3, Zenon DEF TenantsOK, OneSecret
    <3> QED
      BY <3>1, <3>2, <3>4, Zenon
  <2>2. ASSUME r \in MovedRows, s \in new PROVE FALSE
    BY <1>6, <1>9, <1>11, <2>2, Zenon
  <2>3. ASSUME s \in MovedRows, r \in new PROVE FALSE
    BY <1>6, <1>9, <1>11, <2>3, Zenon
  <2>4. ASSUME r \in new, s \in new PROVE r = s
    <3>1. r \in TenantRows /\ s \in TenantRows /\ r.id = s.id /\ r.value = s.value
      BY <1>6, <1>11, <2>4, Zenon
    <3> QED
      BY <1>11, <3>1 DEF TenantRows
  <2> QED
    BY <1>4, <2>1, <2>2, <2>3, <2>4, Zenon
<1>12. OneSecret'
  BY <1>11, Zenon DEF OneSecret
<1> QED
  BY <1>3, <1>8, <1>10, <1>12, Zenon

\* And gives every user a role there.
LEMMA SeedGrants ==
    ASSUME RealmsFollow, KeycloakOK, UsersOK, Seed
    PROVE  RealmsFollow' /\ Granted'
<1>1. PICK pick \in Picks :
         /\ users' = SeededUsers(pick)
         /\ granted' = granted \cup
               {<<i, CanonicalTenant(OrgOf[users'[i].name])>> :
                   i \in {j \in DOMAIN users' :
                             \/ j > Len(users)
                             \/ \E u \in User : pick[u] = j}}
  BY Zenon DEF Seed
<1>2. \A o \in Org : tenant'[o] = CanonicalTenant(o)
  BY DEF Seed
<1>3. SeedsUsers(users', pick)
  BY <1>1, SeededUsersAre, Zenon
<1>4. OrgOf \in [User -> Org] /\ \A u \in User : OrgOf[u] \in Org
  BY KeycloakAssumption
<1>5. \A i \in DOMAIN users : users[i] \in UserRows /\ users[i].name \in User
                              /\ users[i].realm \in Org \X Nat
  <2>1. \A i \in DOMAIN users : users[i] \in UserRows
    BY DEF UsersOK
  <2>2. \A r \in UserRows : r.name \in User /\ r.realm \in Org \X Nat
    BY DEF UserRows
  <2> QED
    BY <2>1, <2>2, Zenon
<1>6. ASSUME NEW i \in DOMAIN users
      PROVE  users'[i].realm = CanonicalTenant(OrgOf[users'[i].name])
  <2>1. /\ users'[i] = IF \E u \in User : i = pick[u] THEN UserRow(users[i].name)
                       ELSE MovedUsers[i]
        /\ users'[i].name = users[i].name
    BY <1>3, Zenon DEF SeedsUsers
  <2>2. CASE \E u \in User : i = pick[u]
    <3>1. users'[i] = UserRow(users[i].name)
      BY <2>1, <2>2, Zenon
    <3>2. UserRow(users[i].name).realm = CanonicalTenant(OrgOf[users[i].name])
      BY <1>5, Ids, Zenon
    <3> QED
      BY <2>1, <3>1, <3>2, Zenon
  <2>3. CASE ~\E u \in User : i = pick[u]
    <3> DEFINE o == OrgOf[users[i].name]
    <3>1. users'[i] = MovedUsers[i]
      BY <2>1, <2>3, Zenon
    <3>2. MovedUsers[i] = IF Realigned(o) /\ users[i].realm = tenant[o]
                          THEN [users[i] EXCEPT !.realm = CanonicalTenant(o)] ELSE users[i]
      BY Zenon DEF MovedUsers
    <3>3. users[i].realm = tenant[o] /\ users[i].realm # NoTenant
      BY <1>5, NoTenantIsNone, Zenon DEF RealmsFollow
    <3>4. CASE Realigned(o)
      <4>1. users'[i] = [users[i] EXCEPT !.realm = CanonicalTenant(o)]
        BY <3>1, <3>2, <3>3, <3>4, Zenon
      <4>2. users'[i].realm = CanonicalTenant(o)
        BY <1>5, <4>1 DEF UserRows
      <4> QED
        BY <2>1, <4>2, Zenon
    <3>5. CASE ~Realigned(o)
      <4>1. users'[i] = users[i] /\ users[i].realm = CanonicalTenant(o)
        BY <3>1, <3>2, <3>3, <3>5, Zenon DEF Realigned
      <4> QED
        BY <4>1, Zenon
    <3> QED
      BY <3>4, <3>5
  <2> QED
    BY <2>2, <2>3
<1>7. ASSUME NEW j \in DOMAIN NewUsers
      PROVE  /\ Len(users) + j \in DOMAIN users' /\ NewUsers[j] \in User
             /\ users'[Len(users) + j].name = NewUsers[j]
             /\ users'[Len(users) + j].realm = CanonicalTenant(OrgOf[NewUsers[j]])
  <2>1. NewUsers[j] \in User
    BY NewUsersAre
  <2>2. Len(users) + j \in DOMAIN users' /\ users'[Len(users) + j] = UserRow(NewUsers[j])
    BY <1>3, Zenon DEF SeedsUsers
  <2> QED
    BY <2>1, <2>2, Ids, Zenon
<1>8. ASSUME NEW i \in DOMAIN users'
      PROVE  users'[i].realm = tenant'[OrgOf[users'[i].name]]
  <2>1. i \in DOMAIN users \/ \E j \in DOMAIN NewUsers : i = Len(users) + j
    BY <1>3, Zenon DEF SeedsUsers
  <2>2. users'[i].realm = CanonicalTenant(OrgOf[users'[i].name])
    <3>1. CASE i \in DOMAIN users
      BY <1>6, <3>1, Zenon
    <3>2. ASSUME NEW j \in DOMAIN NewUsers, i = Len(users) + j
          PROVE  users'[i].realm = CanonicalTenant(OrgOf[users'[i].name])
      BY <1>7, <3>2, Zenon
    <3> QED
      BY <2>1, <3>1, <3>2, Zenon
  <2>3. users'[i].name \in User
    <3>1. users' \in Seq(UserRows)
      BY <1>3, Zenon DEF SeedsUsers
    <3>2. users'[i] \in UserRows
      BY <3>1
    <3> QED
      BY <3>2 DEF UserRows
  <2> QED
    BY <1>2, <1>4, <2>2, <2>3, Zenon
<1>9. ASSUME NEW i \in DOMAIN users', i > Len(users) \/ \E u \in User : pick[u] = i
      PROVE  <<i, CanonicalTenant(OrgOf[users'[i].name])>> \in granted'
  BY <1>1, <1>9, Zenon
<1>10. ASSUME NEW u \in User
       PROVE  \E i \in DOMAIN users' : users'[i].name = u /\ <<i, tenant'[OrgOf[u]]>> \in granted'
  <2>1. tenant'[OrgOf[u]] = CanonicalTenant(OrgOf[u])
    BY <1>2, <1>4, Zenon
  <2>2. CASE Found(u) = {}
    <3>1. PICK j \in DOMAIN NewUsers : NewUsers[j] = u
      BY <2>2, NewUsersAre, Zenon
    <3>2. Len(users) + j \in DOMAIN users' /\ users'[Len(users) + j].name = u
      BY <1>7, <3>1, Zenon
    <3>3. Len(users) + j > Len(users)
      BY NewUsersAre DEF UsersOK
    <3> QED
      BY <1>9, <2>1, <3>2, <3>3, Zenon
  <2>3. CASE Found(u) # {}
    <3>1. pick[u] \in Found(u)
      BY <2>3, Zenon DEF Picks
    <3>2. pick[u] \in DOMAIN users /\ users[pick[u]].name = u
      BY <3>1, FoundAre, Zenon
    <3>3. pick[u] \in DOMAIN users' /\ users'[pick[u]].name = u
      BY <1>3, <3>2, Zenon DEF SeedsUsers
    <3> QED
      BY <1>9, <2>1, <3>3, Zenon
  <2> QED
    BY <2>2, <2>3
<1> QED
  BY <1>8, <1>10, Zenon DEF RealmsFollow, Granted

\* The pages write rows of the tenant they serve, and one secret for it.
LEMMA WriteKeeps ==
    ASSUME TenantsOK, WritePage, db' = db
    PROVE  (rows \subseteq TenantRows /\ RowsFollow /\ OneSecret)'
<1>1. PICK o \in Org : CreateSecret(o) \/ EditSecret(o) \/ DeleteSecret(o) \/ Deploy(o)
  BY Zenon DEF WritePage
<1>2. tenant' = tenant
  BY Zenon DEF WritePage
<1>3. tenant[o] \in Org \X Nat
  <2>1. tenant[o] = active.tenant /\ active.tenant # NoTenant
    BY <1>1, Zenon DEF CreateSecret, EditSecret, DeleteSecret, Deploy, MyTenant, Served
  <2> QED
    BY <2>1, Zenon DEF TenantsOK
<1> DEFINE secret == Row("secret", o, tenant[o], "edited")
           model == Row("library", o, tenant[o], "model")
<1>4. secret \in TenantRows /\ model \in TenantRows
  BY <1>3 DEF Row, TenantRows
<1>5. /\ secret.table = "secret" /\ secret.org = o /\ secret.id = tenant[o]
      /\ model.table = "library" /\ model.org = o /\ model.id = tenant[o]
  BY DEF Row
<1> HIDE DEF secret, model
<1>6. rows' \subseteq rows \cup {secret, model}
  BY <1>1, Zenon DEF CreateSecret, EditSecret, DeleteSecret, Deploy, secret, model
<1>7. (rows \subseteq TenantRows)'
  BY <1>4, <1>6, Zenon DEF TenantsOK
<1>8. ASSUME NEW r \in rows', r.table # "secret" \/ db.foreign = "none"
      PROVE  r.id = tenant[r.org]
  BY <1>5, <1>6, <1>8, Zenon DEF TenantsOK, RowsFollow
<1>9. RowsFollow'
  BY <1>2, <1>8, Zenon DEF RowsFollow
<1>10. ASSUME db.foreign = "none", secret \in rows', NEW r \in rows', r.table = "secret", r.org = o
       PROVE  r = secret \/ secret \in rows
  <2>1. ASSUME r \in rows, secret \notin rows PROVE FALSE
    <3>1. r.id = tenant[o] /\ r \in SecretsOf(o)
      BY <1>10, <2>1, Zenon DEF TenantsOK, RowsFollow, SecretsOf
    <3>2. rows' = (rows \ SecretsOf(o)) \cup {secret}
      <4>1. ~CreateSecret(o)
        BY <3>1, Zenon DEF CreateSecret
      <4>2. ~DeleteSecret(o)
        BY <1>10, <2>1, Zenon DEF DeleteSecret
      <4>3. ~Deploy(o)
        <5>1. secret # model
          BY <1>5
        <5> QED
          BY <1>10, <2>1, <5>1, Zenon DEF Deploy, model
      <4> QED
        BY <1>1, <4>1, <4>2, <4>3, Zenon DEF EditSecret, secret
    <3>3. r = secret
      BY <1>10, <3>1, <3>2, Zenon
    <3> QED
      BY <2>1, <3>3, Zenon
  <2>2. r \in rows \/ r = secret
    <3>1. r # model
      BY <1>5, <1>10
    <3> QED
      BY <1>6, <3>1, Zenon
  <2> QED
    BY <2>1, <2>2, Zenon
<1>11. ASSUME db.foreign = "none", NEW r \in rows', NEW s \in rows',
              r.table = "secret", s.table = "secret", r.org = s.org
       PROVE  r = s
  <2>1. r \in rows \cup {secret} /\ s \in rows \cup {secret}
    <3>1. r # model /\ s # model
      BY <1>5, <1>11
    <3> QED
      BY <1>6, <3>1, Zenon
  <2>2. r \in rows /\ s \in rows => r = s
    BY <1>11, Zenon DEF TenantsOK, OneSecret
  <2>3. secret \in rows => r = s
    BY <2>1, <2>2, Zenon
  <2>4. r = secret => r = s
    BY <1>5, <1>10, <1>11, <2>3, Zenon
  <2>5. s = secret => r = s
    BY <1>5, <1>10, <1>11, <2>3, Zenon
  <2> QED
    BY <2>1, <2>2, <2>4, <2>5, Zenon
<1>12. OneSecret'
  BY <1>11, Zenon DEF OneSecret
<1> QED
  BY <1>7, <1>9, <1>12

\* The settings name one database.
LEMMA DialectStays ==
    ASSUME [Next]_vars
    PROVE  dialect' = dialect
<1>1. ASSUME UNCHANGED schemaVars PROVE dialect' = dialect
  BY <1>1, Zenon DEF schemaVars
<1> QED
  BY <1>1, Zenon DEF Next, vars, Start, BeginCommand, Statement, Execute, CommandRefused,
     Refuse, Abandon, Migrated, CommitCommand, Provision, ProvisionFails, SeedAndServe,
     SeedFails, Page, Stop, Crash, Operator, OperatorCommand, OperatorDone, RealmChanges

-----------------------------------------------------------------------------
(***************************************************************************)
(* Where the row of a user is.  Rows are added for all users or for none,  *)
(* in the order of the seed, until every user has two of them.             *)
(***************************************************************************)

\* Whose the row at one of the first places is.
NameAt(i) == Accounts[IF i <= Size THEN i ELSE i - Size]

\* When nobody has a row the new ones are those of the seed, in its order, and
\* when everybody has one there is no new one.
LEMMA AllOrNone ==
    /\ (\A u \in User : Found(u) = {}) =>
          Len(NewUsers) = Size /\ \A i \in 1 .. Size : NewUsers[i] = Accounts[i]
    /\ (\A u \in User : Found(u) # {}) => Len(NewUsers) = 0
<1>1. Size \in Nat /\ DOMAIN Accounts = 1 .. Size /\ \A k \in 1 .. Size : Accounts[k] \in User
  BY KeycloakAssumption DEF Size
<1>2. ASSUME \A u \in User : Found(u) # {} PROVE Len(NewUsers) = 0
  <2>1. NewUsers \in Seq(User) /\ \A i \in DOMAIN NewUsers : NewUsers[i] \in User
    BY NewUsersAre
  <2>2. \A i \in DOMAIN NewUsers : Found(NewUsers[i]) = {}
    BY NewUsersAre, Zenon
  <2>3. \A i : i \notin DOMAIN NewUsers
    BY <1>2, <2>1, <2>2, Zenon
  <2> HIDE DEF NewUsers
  <2> QED
    BY <2>1, <2>3
<1>3. ASSUME \A u \in User : Found(u) = {}
      PROVE  Len(NewUsers) = Size /\ \A i \in 1 .. Size : NewUsers[i] = Accounts[i]
  <2>1. PICK f : /\ f[0] = <<>>
                 /\ \A k \in 1 .. Size :
                       f[k] = IF Found(Accounts[k]) = {} THEN Append(f[k - 1], Accounts[k])
                              ELSE f[k - 1]
                 /\ NewUsers = f[Size]
    BY NewUsersBuilt, Zenon
  <2>2. \A k \in 1 .. Size : f[k] = Append(f[k - 1], Accounts[k])
    BY <1>1, <1>3, <2>1, Zenon
  <2> DEFINE Has(s, m) == s \in Seq(User) /\ Len(s) = m /\ \A i \in 1 .. m : s[i] = Accounts[i]
             Good == {m \in Nat : m <= Size => Has(f[m], m)}
  <2>3. 0 \in Good
    <3>1. <<>> \in Seq(User) /\ Len(<<>>) = 0 /\ \A i : i \notin 1 .. 0
      OBVIOUS
    <3> QED
      BY <2>1, <3>1, Zenon
  <2>4. ASSUME NEW m \in Good PROVE m + 1 \in Good
    <3>1. m \in Nat /\ m + 1 \in Nat
      OBVIOUS
    <3> HIDE DEF Has
    <3> SUFFICES ASSUME m + 1 <= Size PROVE Has(f[m + 1], m + 1)
      BY <3>1, Zenon
    <3>2. m <= Size /\ m + 1 \in 1 .. Size /\ (m + 1) - 1 = m
      BY <1>1, <3>1
    <3>3. Has(f[m], m) /\ Accounts[m + 1] \in User
      BY <1>1, <3>2, Zenon
    <3>4. f[m + 1] = Append(f[m], Accounts[m + 1])
      BY <2>2, <3>2, Zenon
    <3> QED
      BY <3>1, <3>3, <3>4 DEF Has
  <2>5. Good \subseteq Nat
    BY Zenon
  <2>6. Good = Nat
    <3> HIDE DEF Good
    <3> QED
      BY <2>3, <2>4, <2>5, NatSet, Zenon
  <2>7. Size <= Size
    BY <1>1
  <2>8. Has(f[Size], Size)
    BY <1>1, <2>6, <2>7, Zenon
  <2> QED
    BY <2>1, <2>8, Zenon
<1> QED
  BY <1>2, <1>3, Zenon

\* The service ID of a row is its name and an era.
LEMMA ServiceIs ==
    ASSUME UsersOK, NEW i \in DOMAIN users
    PROVE  /\ users[i].name \in User /\ users[i].service[2] \in Nat
           /\ \A u : users[i].service = ServiceId(u) <=>
                        users[i].name = u /\ users[i].service[2] = Era
<1>1. users[i] \in UserRows /\ users[i].service[1] = users[i].name
  BY DEF UsersOK
<1>2. users[i].name \in User /\ users[i].service \in User \X Nat
  BY <1>1 DEF UserRows
<1> QED
  BY <1>1, <1>2 DEF ServiceId, Id

\* Whom the seed finds: the rows of the present era, or in shared mode any.
LEMMA FoundIs ==
    ASSUME UsersOK, NEW u \in User
    PROVE  /\ \A i \in Found(u) : i \in DOMAIN users /\ users[i].name = u
           /\ (\E i \in DOMAIN users : users[i].name = u /\ users[i].service[2] = Era) =>
                 /\ Found(u) # {}
                 /\ \A i \in Found(u) : users[i].service[2] = Era
           /\ mode = "standalone" =>
                 \A i \in Found(u) : users[i].service[2] = Era
           /\ mode # "standalone" /\ (\E i \in DOMAIN users : users[i].name = u) => Found(u) # {}
<1> DEFINE same == {i \in DOMAIN users : users[i].service = ServiceId(u)}
           named == {i \in DOMAIN users : users[i].name = u}
<1>1. Found(u) = IF same # {} \/ mode = "standalone" THEN same ELSE named
  BY Zenon DEF Found
<1>2. \A i \in DOMAIN users :
         i \in same <=> users[i].name = u /\ users[i].service[2] = Era
  BY ServiceIs, Zenon
<1>3. same \subseteq DOMAIN users
  BY Zenon
<1> HIDE DEF same
<1> QED
  BY <1>1, <1>2, <1>3, Zenon

\* What Seed does to the rows, as far as names and eras go.
SeedsEras(pick) ==
    /\ users' \in Seq(UserRows)
    /\ Len(users') = Len(users) + Len(NewUsers)
    /\ \A i \in DOMAIN users :
          /\ i \in DOMAIN users' /\ users'[i].name = users[i].name
          /\ users'[i].service[2] = IF \E u \in User : i = pick[u] THEN Era
                                    ELSE users[i].service[2]
    /\ \A j \in DOMAIN NewUsers :
          /\ users'[Len(users) + j].name = NewUsers[j]
          /\ users'[Len(users) + j].service[2] = Era
    /\ \A i \in DOMAIN users' :
          i \in DOMAIN users \/ \E j \in DOMAIN NewUsers : i = Len(users) + j

\* The rows of the seed have these names and eras.
LEMMA ErasAreSeeded ==
    ASSUME KeycloakOK, UsersOK, Seed
    PROVE  \E pick \in Picks : SeedsEras(pick)
<1>1. PICK pick \in Picks : users' = SeededUsers(pick)
  BY Zenon DEF Seed
<1>2. SeedsUsers(users', pick)
  BY <1>1, SeededUsersAre, Zenon
<1>3. \A u : ServiceId(u)[2] = Era
  BY DEF ServiceId, Id
<1>4. ASSUME NEW i \in DOMAIN users
      PROVE  users'[i].service[2] = IF \E u \in User : i = pick[u] THEN Era
                                    ELSE users[i].service[2]
  <2>1. users'[i] = IF \E u \in User : i = pick[u] THEN UserRow(users[i].name)
                    ELSE MovedUsers[i]
    BY <1>2, Zenon DEF SeedsUsers
  <2>2. CASE \E u \in User : i = pick[u]
    <3>1. users'[i].service = ServiceId(users[i].name)
      <4>1. users[i].name \in User
        BY ServiceIs, Zenon
      <4> QED
        BY <2>1, <2>2, <4>1, Ids, Zenon
    <3> QED
      BY <1>3, <2>2, <3>1, Zenon
  <2>3. CASE ~\E u \in User : i = pick[u]
    <3> DEFINE o == OrgOf[users[i].name]
    <3>1. users'[i] = IF Realigned(o) /\ users[i].realm = tenant[o]
                      THEN [users[i] EXCEPT !.realm = CanonicalTenant(o)] ELSE users[i]
      BY <2>1, <2>3, Zenon DEF MovedUsers
    <3>2. users[i] \in UserRows
      BY DEF UsersOK
    <3> HIDE DEF o
    <3>3. users'[i].service = users[i].service
      BY <3>1, <3>2 DEF UserRows
    <3> QED
      BY <2>3, <3>3, Zenon
  <2> QED
    BY <2>2, <2>3, Zenon
<1>5. ASSUME NEW j \in DOMAIN NewUsers
      PROVE  /\ users'[Len(users) + j].name = NewUsers[j]
             /\ users'[Len(users) + j].service[2] = Era
  <2>1. NewUsers[j] \in User
    BY NewUsersAre
  <2>2. users'[Len(users) + j] = UserRow(NewUsers[j])
    BY <1>2, Zenon DEF SeedsUsers
  <2>3. /\ users'[Len(users) + j].name = NewUsers[j]
        /\ users'[Len(users) + j].service = ServiceId(NewUsers[j])
    BY <2>1, <2>2, Ids, Zenon
  <2> QED
    BY <1>3, <2>3, Zenon
<1>6. SeedsEras(pick)
  BY <1>2, <1>4, <1>5, Zenon DEF SeedsUsers, SeedsEras
<1> QED
  BY <1>6, Zenon

\* How many rows there are, and whose; as long as every user has one, either
\* all of them or none is local.
Blocks ==
    /\ Len(users) \in {0, Size} \/ Len(users) >= 2 * Size
    /\ \A i \in DOMAIN users : i <= 2 * Size => users[i].name = NameAt(i)
    /\ Len(users) = Size =>
          \/ \A i \in DOMAIN users : users[i].service[2] = Local
          \/ \A i \in DOMAIN users : users[i].service[2] # Local

\* The rows of a user table that has seen no realm but the present one.
Young ==
    /\ Len(users) <= 2 * Size
    /\ \A i \in DOMAIN users : users[i].service[2] \in {Local, realm.era}
    /\ Len(users) = 2 * Size =>
          \A i \in DOMAIN users :
              users[i].service[2] = IF i <= Size THEN realm.era ELSE Local

\* Every user is somewhere in the seed, and nobody twice.
LEMMA Seats ==
    /\ Size \in Nat /\ DOMAIN Accounts = 1 .. Size
    /\ \A k \in 1 .. Size : Accounts[k] \in User
    /\ \A u \in User : \E k \in 1 .. Size : Accounts[k] = u
    /\ \A j, k \in 1 .. Size : Accounts[j] = Accounts[k] => j = k
<1>1. Size \in Nat /\ DOMAIN Accounts = 1 .. Size /\ \A k \in 1 .. Size : Accounts[k] \in User
  BY KeycloakAssumption DEF Size
<1>2. \A u \in User : \E k \in 1 .. Size : Accounts[k] = u
  BY <1>1 DEF User, Range
<1> QED
  BY <1>1, <1>2, KeycloakAssumption, Zenon

\* Names by place.
LEMMA NamesByPlace ==
    /\ \A i \in 1 .. Size : NameAt(i) = Accounts[i]
    /\ \A i \in 1 .. Size : NameAt(Size + i) = Accounts[i]
<1>1. Size \in Nat
  BY Seats
<1>2. \A i \in 1 .. Size : i <= Size /\ ~(Size + i <= Size) /\ (Size + i) - Size = i
  BY <1>1
<1> QED
  BY <1>2, Zenon DEF NameAt

\* The first rows: one for every user.
LEMMA SeedsFirst ==
    ASSUME KeycloakOK, UsersOK, NEW pick \in Picks, SeedsEras(pick), Len(users) = 0,
           realm' = realm
    PROVE  Blocks' /\ Young'
<1>1. Size \in Nat
  BY Seats, Zenon
<1>2. \A i : i \notin DOMAIN users
  BY DEF UsersOK
<1>3. \A u \in User : Found(u) = {}
  BY <1>2, FoundIs, Zenon
<1>4. Len(NewUsers) = Size /\ \A i \in 1 .. Size : NewUsers[i] = Accounts[i]
  BY <1>3, AllOrNone, Zenon
<1>5. users' \in Seq(UserRows) /\ Len(users') = Size
  BY <1>1, <1>4 DEF SeedsEras
<1>6. DOMAIN users' = 1 .. Size
  BY <1>5
<1>7. ASSUME NEW i \in DOMAIN users'
      PROVE  users'[i].name = NameAt(i) /\ users'[i].service[2] = Era
  <2>1. PICK j \in DOMAIN NewUsers : i = Len(users) + j
    BY <1>2, Zenon DEF SeedsEras
  <2>2. DOMAIN NewUsers \subseteq Nat
    BY NewUsersAre
  <2>3. i = j
    BY <2>1, <2>2
  <2>4. users'[Len(users) + j].name = NewUsers[j] /\ users'[Len(users) + j].service[2] = Era
    BY <2>1, Zenon DEF SeedsEras
  <2>5. users'[i].name = NewUsers[i] /\ users'[i].service[2] = Era
    BY <2>1, <2>3, <2>4, Zenon
  <2> QED
    BY <1>4, <1>6, <2>5, NamesByPlace, Zenon
<1>8. Era \in {Local, realm'.era}
  BY DEF Era
<1>9. Blocks'
  <2>1. Len(users') \in {0, Size}
    BY <1>5
  <2>2. \/ \A i \in DOMAIN users' : users'[i].service[2] = Local
        \/ \A i \in DOMAIN users' : users'[i].service[2] # Local
    BY <1>7, Zenon
  <2> QED
    BY <1>7, <2>1, <2>2, Zenon DEF Blocks
<1>10. Young'
  <2>1. Len(users') <= 2 * Size
    BY <1>1, <1>5
  <2>2. \A i \in DOMAIN users' : users'[i].service[2] \in {Local, realm'.era}
    BY <1>7, <1>8, Zenon
  <2>3. Len(users') = 2 * Size => \A i : i \notin DOMAIN users'
    BY <1>1, <1>5, <1>6
  <2> QED
    BY <2>1, <2>2, <2>3, Zenon DEF Young
<1> QED
  BY <1>9, <1>10

\* Everybody is found: the rows are brought to the present era.
LEMMA SeedsFound ==
    ASSUME KeycloakOK, UsersOK, Blocks, NEW pick \in Picks, SeedsEras(pick),
           Len(users) = Size, Size # 0, realm' = realm,
           mode # "standalone" \/ \A i \in DOMAIN users : users[i].service[2] = Local
    PROVE  Blocks' /\ Young'
<1>1. Size \in Nat /\ DOMAIN users = 1 .. Size
  BY Seats DEF UsersOK
<1>2. \A i \in DOMAIN users : i <= 2 * Size
  BY <1>1
<1>3. \A i \in 1 .. Size : users[i].name = Accounts[i]
  BY <1>1, <1>2, NamesByPlace, Zenon DEF Blocks
<1>4. ASSUME NEW u \in User PROVE Found(u) # {}
  <2>1. PICK k \in 1 .. Size : Accounts[k] = u
    BY Seats, Zenon
  <2>2. k \in DOMAIN users /\ users[k].name = u
    BY <1>1, <1>3, <2>1, Zenon
  <2>3. CASE mode # "standalone"
    BY <2>2, <2>3, FoundIs, Zenon
  <2>4. CASE mode = "standalone"
    <3>1. Era = Local
      BY <2>4 DEF Era
    <3>2. users[k].service[2] = Era
      BY <2>2, <2>4, <3>1, Zenon
    <3> QED
      BY <2>2, <3>2, FoundIs, Zenon
  <2> QED
    BY <2>3, <2>4
<1>5. Len(NewUsers) = 0
  BY <1>4, AllOrNone, Zenon
<1>6. users' \in Seq(UserRows) /\ Len(users') = Size
  BY <1>1, <1>5 DEF SeedsEras
<1>7. DOMAIN users' = DOMAIN users
  BY <1>1, <1>6
<1>8. ASSUME NEW i \in DOMAIN users PROVE \E u \in User : i = pick[u]
  <2>1. users[i].name \in User
    BY ServiceIs, Zenon
  <2> DEFINE u == users[i].name
  <2>2. pick[u] \in Found(u)
    BY <1>4, <2>1, Zenon DEF Picks
  <2>3. pick[u] \in DOMAIN users /\ users[pick[u]].name = u
    BY <2>1, <2>2, FoundIs, Zenon
  <2>4. pick[u] = i
    <3>1. Accounts[pick[u]] = Accounts[i] /\ pick[u] \in 1 .. Size /\ i \in 1 .. Size
      BY <1>1, <1>3, <2>3, Zenon
    <3> QED
      BY <3>1, Seats, Zenon
  <2> QED
    BY <2>1, <2>4, Zenon
<1>9. \A i \in DOMAIN users' : users'[i].name = users[i].name /\ users'[i].service[2] = Era
  <2>1. \A i \in DOMAIN users : users'[i].name = users[i].name
    BY Zenon DEF SeedsEras
  <2>2. \A i \in DOMAIN users :
           users'[i].service[2] = IF \E u \in User : i = pick[u] THEN Era
                                  ELSE users[i].service[2]
    BY Zenon DEF SeedsEras
  <2>3. \A i \in DOMAIN users : users'[i].service[2] = Era
    BY <1>8, <2>2, Zenon
  <2> QED
    BY <1>7, <2>1, <2>3, Zenon
<1>10. Era \in {Local, realm'.era}
  BY DEF Era
<1>11. Blocks'
  <2>1. Len(users') \in {0, Size}
    BY <1>6
  <2>2. \/ \A i \in DOMAIN users' : users'[i].service[2] = Local
        \/ \A i \in DOMAIN users' : users'[i].service[2] # Local
    BY <1>9, Zenon
  <2>3. \A i \in DOMAIN users' : i <= 2 * Size => users'[i].name = NameAt(i)
    BY <1>7, <1>9, Zenon DEF Blocks
  <2> QED
    BY <2>1, <2>2, <2>3, Zenon DEF Blocks
<1>12. Young'
  <2>1. Len(users') <= 2 * Size /\ Len(users') # 2 * Size
    BY <1>1, <1>6
  <2>2. \A i \in DOMAIN users' : users'[i].service[2] \in {Local, realm'.era}
    BY <1>9, <1>10, Zenon
  <2> QED
    BY <2>1, <2>2, Zenon DEF Young
<1> QED
  BY <1>11, <1>12

\* Back in standalone mode nobody is found: everybody gets a second row.
LEMMA SeedsAgain ==
    ASSUME KeycloakOK, UsersOK, Blocks, NEW pick \in Picks, SeedsEras(pick),
           Len(users) = Size, Size # 0, realm' = realm,
           mode = "standalone", \A i \in DOMAIN users : users[i].service[2] # Local
    PROVE  Blocks' /\ (Young => Young')
<1>1. Size \in Nat /\ DOMAIN users = 1 .. Size
  BY Seats DEF UsersOK
<1>2. \A i \in DOMAIN users : i <= 2 * Size
  BY <1>1
<1>3. Era = Local
  BY DEF Era
<1>4. \A u \in User : Found(u) = {}
  BY <1>3, FoundIs, Zenon
<1>5. Len(NewUsers) = Size /\ \A i \in 1 .. Size : NewUsers[i] = Accounts[i]
  BY <1>4, AllOrNone, Zenon
<1>6. users' \in Seq(UserRows) /\ Len(users') = 2 * Size /\ DOMAIN NewUsers = 1 .. Size
  BY <1>1, <1>5, NewUsersAre DEF SeedsEras
<1>7. \A u \in User : pick[u] = 0
  BY <1>4, Zenon DEF Picks
<1>8. ASSUME NEW i \in DOMAIN users
      PROVE  users'[i].name = NameAt(i) /\ users'[i].service[2] = users[i].service[2]
  <2>1. ~\E u \in User : i = pick[u]
    BY <1>1, <1>7
  <2> QED
    BY <1>2, <2>1, Zenon DEF SeedsEras, Blocks
<1>9. ASSUME NEW j \in 1 .. Size
      PROVE  users'[Size + j].name = NameAt(Size + j) /\ users'[Size + j].service[2] = Local
  <2>1. users'[Len(users) + j].name = NewUsers[j] /\ users'[Len(users) + j].service[2] = Era
    BY <1>6, Zenon DEF SeedsEras
  <2>2. NewUsers[j] = NameAt(Size + j)
    BY <1>5, NamesByPlace, Zenon
  <2> QED
    BY <1>3, <2>1, <2>2, Zenon
<1>10. \A i \in DOMAIN users' : \/ i \in DOMAIN users /\ i <= Size
                                \/ \E j \in 1 .. Size : i = Size + j /\ ~(i <= Size)
  <2>1. \A j \in 1 .. Size : ~(Size + j <= Size)
    BY <1>1
  <2>2. \A i \in DOMAIN users : i <= Size
    BY <1>1
  <2> QED
    <3>1. \A i \in DOMAIN users' :
             i \in DOMAIN users \/ \E j \in DOMAIN NewUsers : i = Len(users) + j
      BY Zenon DEF SeedsEras
    <3>2. \A i \in DOMAIN users' : i \in DOMAIN users \/ \E j \in 1 .. Size : i = Size + j
      BY <1>6, <3>1, Zenon
    <3>3. ASSUME NEW i \in DOMAIN users', NEW j \in 1 .. Size, i = Size + j
          PROVE  ~(i <= Size)
      BY <2>1, <3>3, Zenon
    <3> QED
      BY <2>2, <3>2, <3>3, Zenon
<1>11. Blocks'
  <2>1. Len(users') >= 2 * Size /\ Len(users') # Size
    BY <1>1, <1>6
  <2>2. \A i \in DOMAIN users' : users'[i].name = NameAt(i)
    BY <1>8, <1>9, <1>10, Zenon
  <2> QED
    BY <2>1, <2>2, Zenon DEF Blocks
<1>12. ASSUME Young PROVE Young'
  <2>1. Len(users') <= 2 * Size
    BY <1>1, <1>6
  <2>2. \A i \in DOMAIN users : users[i].service[2] = realm.era
    <3>1. \A i \in DOMAIN users : users[i].service[2] \in {Local, realm.era}
      BY <1>12, Zenon DEF Young
    <3> QED
      BY <3>1
  <2>3. \A i \in DOMAIN users' :
           users'[i].service[2] = IF i <= Size THEN realm'.era ELSE Local
    <3>1. ASSUME NEW i \in DOMAIN users', i \in DOMAIN users
          PROVE  users'[i].service[2] = realm'.era
      BY <1>8, <2>2, <3>1, Zenon
    <3>2. ASSUME NEW i \in DOMAIN users', NEW j \in 1 .. Size, i = Size + j
          PROVE  users'[i].service[2] = Local
      BY <1>9, <3>2, Zenon
    <3> QED
      BY <1>10, <3>1, <3>2, Zenon
  <2>4. \A i \in DOMAIN users' : users'[i].service[2] \in {Local, realm'.era}
    BY <2>3
  <2> QED
    BY <2>1, <2>3, <2>4, Zenon DEF Young
<1> QED
  BY <1>11, <1>12

\* From then on the places of two rows are fixed for every user, and while the
\* realm is the same one of them is found in either mode.
LEMMA SeedsLater ==
    ASSUME KeycloakOK, UsersOK, Blocks, NEW pick \in Picks, SeedsEras(pick),
           Len(users) >= 2 * Size, Size # 0, realm' = realm, realm.era # Local
    PROVE  Blocks' /\ (Young => Young')
<1>1. Size \in Nat /\ DOMAIN users = 1 .. Len(users) /\ Len(users) \in Nat
  BY Seats DEF UsersOK
<1>2. users' \in Seq(UserRows) /\ Len(users') = Len(users) + Len(NewUsers) /\ Len(NewUsers) \in Nat
  BY NewUsersAre DEF SeedsEras
<1>3. Blocks'
  <2>1. Len(users') >= 2 * Size /\ Len(users') # Size
    BY <1>1, <1>2
  <2>2. \A i \in DOMAIN users' : i <= 2 * Size => i \in DOMAIN users
    BY <1>1, <1>2
  <2>3. \A i \in DOMAIN users' : i <= 2 * Size => users'[i].name = NameAt(i)
    BY <2>2, Zenon DEF SeedsEras, Blocks
  <2> QED
    BY <2>1, <2>3, Zenon DEF Blocks
<1>4. ASSUME Young PROVE Young'
  <2>1. Len(users) = 2 * Size
    <3>1. Len(users) <= 2 * Size
      BY <1>4, Zenon DEF Young
    <3>2. Len(users) >= 2 * Size
      OBVIOUS
    <3>3. ASSUME NEW a \in Nat, NEW b \in Nat, a <= 2 * b, a >= 2 * b PROVE a = 2 * b
      BY <3>3
    <3> QED
      BY <1>1, <3>1, <3>2, <3>3, Zenon
  <2>2. \A i \in DOMAIN users : users[i].service[2] = IF i <= Size THEN realm.era ELSE Local
    BY <1>4, <2>1, Zenon DEF Young
  <2>3. \A k \in 1 .. Size : /\ k \in DOMAIN users /\ Size + k \in DOMAIN users
                             /\ k <= Size /\ ~(Size + k <= Size)
                             /\ k <= 2 * Size /\ Size + k <= 2 * Size
    BY <1>1, <2>1
  <2>4. \A k \in 1 .. Size : /\ users[k].name = Accounts[k] /\ users[Size + k].name = Accounts[k]
                             /\ users[k].service[2] = realm.era
                             /\ users[Size + k].service[2] = Local
    BY <2>2, <2>3, NamesByPlace, Zenon DEF Blocks
  <2>5. Era \in {Local, realm.era}
    BY DEF Era
  <2>6. ASSUME NEW u \in User
        PROVE  Found(u) # {} /\ \A i \in Found(u) : users[i].service[2] = Era
    <3>1. PICK k \in 1 .. Size : Accounts[k] = u
      BY Seats, Zenon
    <3>2. \E i \in DOMAIN users : users[i].name = u /\ users[i].service[2] = Era
      <4>1. CASE Era = Local
        BY <2>3, <2>4, <3>1, <4>1, Zenon
      <4>2. CASE Era = realm.era
        BY <2>3, <2>4, <3>1, <4>2, Zenon
      <4> QED
        BY <2>5, <4>1, <4>2
    <3> QED
      BY <3>2, FoundIs, Zenon
  <2>7. Len(NewUsers) = 0
    BY <2>6, AllOrNone, Zenon
  <2>8. Len(users') = 2 * Size /\ DOMAIN users' = DOMAIN users
    BY <1>1, <1>2, <2>1, <2>7
  <2>9. ASSUME NEW i \in DOMAIN users PROVE users'[i].service[2] = users[i].service[2]
    <3>1. ASSUME NEW u \in User, i = pick[u] PROVE users[i].service[2] = Era
      <4>1. pick[u] \in Found(u)
        BY <2>6, Zenon DEF Picks
      <4> QED
        BY <2>6, <3>1, <4>1, Zenon
    <3> QED
      BY <3>1, Zenon DEF SeedsEras
  <2>10. \A i \in DOMAIN users' :
            users'[i].service[2] = IF i <= Size THEN realm'.era ELSE Local
    BY <2>2, <2>8, <2>9, Zenon
  <2>11. \A i \in DOMAIN users' : users'[i].service[2] \in {Local, realm'.era}
    BY <2>10
  <2>12. Len(users') <= 2 * Size
    BY <1>1, <2>8
  <2> QED
    BY <2>10, <2>11, <2>12, Zenon DEF Young
<1> QED
  BY <1>3, <1>4

\* The seed keeps the places, and a young table young.
LEMMA SeedKeepsPlaces ==
    ASSUME KeycloakOK, UsersOK, Blocks, Seed, realm' = realm, realm.era # Local
    PROVE  /\ Blocks' /\ (Young => Young')
           /\ \A i \in DOMAIN users : i \in DOMAIN users' /\ users'[i].name = users[i].name
<1>1. PICK pick \in Picks : SeedsEras(pick)
  BY ErasAreSeeded, Zenon
<1>2. \A i \in DOMAIN users : i \in DOMAIN users' /\ users'[i].name = users[i].name
  BY <1>1, Zenon DEF SeedsEras
<1>3. CASE Len(users) = 0
  BY <1>1, <1>2, <1>3, SeedsFirst, Zenon
<1>4. ASSUME Len(users) # 0 PROVE Size # 0
  <2>1. 1 \in DOMAIN users
    BY <1>4 DEF UsersOK
  <2>2. users[1].name \in User
    BY <2>1, ServiceIs, Zenon
  <2>3. PICK k \in 1 .. Size : Accounts[k] = users[1].name
    BY <2>2, Seats, Zenon
  <2> QED
    BY <2>3
<1>5. CASE Len(users) # 0 /\ Len(users) = Size
  <2>1. Size # 0 /\ mode \in {"standalone", "shared"}
    BY <1>4, <1>5, Zenon DEF UsersOK
  <2>2. \/ \A i \in DOMAIN users : users[i].service[2] = Local
        \/ \A i \in DOMAIN users : users[i].service[2] # Local
    BY <1>5, Zenon DEF Blocks
  <2>3. CASE mode # "standalone" \/ \A i \in DOMAIN users : users[i].service[2] = Local
    BY <1>1, <1>2, <1>5, <2>1, <2>3, SeedsFound, Zenon
  <2>4. CASE mode = "standalone" /\ \A i \in DOMAIN users : users[i].service[2] # Local
    BY <1>1, <1>2, <1>5, <2>1, <2>4, SeedsAgain, Zenon
  <2> QED
    BY <2>2, <2>3, <2>4, Zenon
<1>6. CASE Len(users) # 0 /\ Len(users) >= 2 * Size
  BY <1>1, <1>2, <1>4, <1>6, SeedsLater, Zenon
<1>7. Len(users) \in {0, Size} \/ Len(users) >= 2 * Size
  BY Zenon DEF Blocks
<1> QED
  BY <1>3, <1>5, <1>6, <1>7

-----------------------------------------------------------------------------
(***************************************************************************)
(* Where users belong, on either database.                                 *)
(***************************************************************************)

\* No command runs while the application is up, and no command, no plan.
Idle ==
    /\ phase \in {"provisioning", "serving"} => command = "none"
    /\ command = "none" => plan = <<>>

\* Every user row names the present ID of its tenant.
Homes ==
    /\ tenant \in [Org -> (Org \X Nat) \cup {NoTenant}]
    /\ RealmsFollow

\* Users that stay keep their tenants.
LEMMA RowsKeepHomes ==
    ASSUME UsersOK, Homes, NEW tables, KeepRows(tables),
           users' # <<>> => "m8flow_tenant" \in tables
    PROVE  Homes'
<1>1. /\ tenant' = IF "m8flow_tenant" \in tables THEN tenant ELSE [o \in Org |-> NoTenant]
      /\ users' = users \/ users' = <<>>
  BY Zenon DEF KeepRows
<1>2. [o \in Org |-> NoTenant] \in [Org -> (Org \X Nat) \cup {NoTenant}]
  OBVIOUS
<1>3. tenant' \in [Org -> (Org \X Nat) \cup {NoTenant}]
  BY <1>1, <1>2, Zenon DEF Homes
<1>4. CASE users' = <<>>
  <2>1. \A i : i \notin DOMAIN users'
    BY <1>4
  <2> QED
    BY <1>3, <2>1, Zenon DEF Homes, RealmsFollow
<1>5. CASE users' # <<>>
  <2>1. users' = users /\ tenant' = tenant
    BY <1>1, <1>5, Zenon
  <2> QED
    BY <2>1, Zenon DEF Homes, RealmsFollow
<1> QED
  BY <1>4, <1>5

\* Commands run while the application is down or migrating.
LEMMA IdleStep ==
    ASSUME Idle, [Next]_vars
    PROVE  Idle'
<1>1. ASSUME UNCHANGED schemaVars, phase' = phase \/ phase' = "down" \/ phase = "provisioning"
      PROVE  Idle'
  <2>1. plan' = plan /\ command' = command
    BY <1>1, Zenon DEF schemaVars
  <2>2. phase' = "down" => phase' \notin {"provisioning", "serving"}
    OBVIOUS
  <2>3. phase = "provisioning" => phase \in {"provisioning", "serving"}
    OBVIOUS
  <2> QED
    BY <1>1, <2>1, <2>2, <2>3, Zenon DEF Idle
<1>2. ASSUME NEW c \in Commands \cup {"app upgrade"}, BeginCommand(c),
             phase' \in {"down", "migrating"}
      PROVE  Idle'
  <2>1. c # "none"
    BY SchemaAssumption, Zenon
  <2>2. phase' \notin {"provisioning", "serving"}
    BY <1>2, Zenon
  <2> QED
    BY <1>2, <2>1, <2>2, Zenon DEF Idle, BeginCommand
<1>3. ASSUME command' = "none", plan' = <<>> PROVE Idle'
  BY <1>3, Zenon DEF Idle
<1>4. ASSUME NEW m \in {"standalone", "shared"}, Start(m) PROVE Idle'
  <2>1. "app upgrade" \in Commands \cup {"app upgrade"}
    BY Zenon
  <2> QED
    BY <1>2, <1>4, <2>1, Zenon DEF Start
<1>5. CASE Statement
  <2>1. plan # <<>> /\ command' = command /\ phase' = phase
    BY <1>5, Zenon DEF Statement, Execute
  <2> QED
    BY <2>1, Zenon DEF Idle
<1>6. CASE CommandRefused \/ Crash
  BY <1>3, <1>6, Zenon DEF CommandRefused, Crash, Refuse, Abandon
<1>7. CASE Migrated \/ OperatorDone
  <2>1. command' = "none" /\ plan' = plan /\ plan = <<>>
    BY <1>7, Zenon DEF Migrated, OperatorDone, CommitCommand
  <2> QED
    BY <1>3, <2>1, Zenon
<1>8. CASE Operator
  BY <1>2, <1>8, Zenon DEF Operator, OperatorCommand
<1>9. CASE Provision \/ ProvisionFails \/ SeedAndServe \/ SeedFails
  BY <1>1, <1>9, Zenon DEF Provision, ProvisionFails, SeedAndServe, SeedFails
<1>10. CASE Page \/ Stop \/ RealmChanges \/ UNCHANGED vars
  BY <1>1, <1>10, Zenon DEF Page, Stop, RealmChanges, vars
<1> QED
  BY <1>4, <1>5, <1>6, <1>7, <1>8, <1>9, <1>10, Zenon DEF Next

-----------------------------------------------------------------------------
(***************************************************************************)
(* Whom shared mode serves.                                                *)
(***************************************************************************)

\* A session that a page of shared mode may serve: now, or after a start.
Live ==
    /\ active.tenant[2] # Local
    /\ \/ active.tenant[2] = realm.era
       \/ phase = "serving" /\ \E o \in Org : tenant[o] = active.tenant

\* The account of a session is that of its row, whichever table the row is in:
\* the names of the first rows are known, and a later row, once it is gone with
\* its table, does not come again.
Named ==
    IF active.user <= 2 * Size
    THEN active.user > 0 /\ signedIn[1] = NameAt(active.user)
    ELSE IF active.user \in DOMAIN users
    THEN signedIn[1] = users[active.user].name
    ELSE active.tenant[2] = realm.era => Young

SessionOK ==
    /\ active.user \in Nat
    /\ active.tenant[2] \in 0 .. realm.era
    /\ pending.tenant[2] \in 0 .. realm.era
    /\ Live => signedIn # Nobody /\ Named

\* The tenants of a running application.
ServingOK ==
    phase = "serving" =>
        \A o \in Org : IF mode = "shared" THEN tenant[o][2] # Local
                       ELSE tenant[o] = Slug(o)

\* The steps without a seed and without a login.
Quiet ==
    /\ active' = active /\ pending' = pending /\ signedIn' = signedIn
    /\ users' = users \/ users' = <<>>
    /\ phase' = "serving" => phase = "serving" /\ tenant' = tenant /\ mode' = mode
    /\ realm'.era = realm.era \/ realm'.era = realm.era + 1

\* The pages of the browser.
Browses ==
    /\ phase = "serving" /\ phase' = phase
    /\ realm' = realm /\ UNCHANGED seedVars
    /\ BrowserStep \/ LoginStep

\* There are no other steps.
LEMMA StepKinds ==
    ASSUME KeycloakOK, Idle, [Next]_vars
    PROVE  Quiet \/ SeedAndServe \/ Browses
<1>1. ASSUME realm'.era = realm.era \/ realm'.era = realm.era + 1,
             UNCHANGED <<seedVars, loginVars>>, phase' = phase \/ phase' = "down"
      PROVE  Quiet
  <2>1. phase' = "serving" => phase = "serving"
    BY <1>1
  <2> QED
    BY <1>1, <2>1, Zenon DEF Quiet, seedVars, loginVars
<1>2. ASSUME realm' = realm, UNCHANGED loginVars, users' = users \/ users' = <<>>,
             phase' # "serving"
      PROVE  Quiet
  BY <1>2, Zenon DEF Quiet, loginVars
<1>3. ASSUME todo # <<>>, realm' \in {realm, Effect(Head(todo))} PROVE realm'.era = realm.era
  <2>1. realm \in Realm /\ todo \in Seq(Requests)
    BY Zenon DEF KeycloakOK
  <2>2. Head(todo) \in Requests
    BY <1>3, <2>1
  <2>3. realm.era = Effect(Head(todo)).era
    BY <2>1, <2>2, EffectGrows, Zenon DEF Grows
  <2> QED
    BY <1>3, <2>3, Zenon
<1>4. ASSUME NEW m \in {"standalone", "shared"}, Start(m) PROVE Quiet
  <2>1. phase' # "serving"
    BY <1>4 DEF Start
  <2> QED
    BY <1>2, <1>4, <2>1, Zenon DEF Start, ChooseMode, keycloakVars
<1>5. CASE Statement
  <2>1. phase' = phase /\ plan # <<>> /\ KeepRows(db'.tables)
        /\ realm' = realm /\ UNCHANGED loginVars
    BY <1>5, Zenon DEF Statement, Execute, keycloakVars
  <2>2. phase \notin {"provisioning", "serving"}
    BY <2>1, Zenon DEF Idle
  <2>3. phase' # "serving"
    BY <2>1, <2>2
  <2>4. users' = users \/ users' = <<>>
    BY <2>1, Zenon DEF KeepRows
  <2> QED
    BY <1>2, <2>1, <2>3, <2>4, Zenon
<1>6. CASE Migrated \/ OperatorDone
  <2>1. phase' # "serving"
    BY <1>6 DEF Migrated, OperatorDone
  <2>2. KeepRows(db'.tables) /\ realm' = realm /\ UNCHANGED loginVars
    BY <1>6, Zenon DEF Migrated, OperatorDone, keycloakVars
  <2>3. users' = users \/ users' = <<>>
    BY <2>2, Zenon DEF KeepRows
  <2> QED
    BY <1>2, <2>1, <2>2, <2>3, Zenon
<1>7. CASE CommandRefused \/ SeedFails \/ Stop \/ Crash \/ Operator \/ UNCHANGED vars
  BY <1>1, <1>7, Zenon
     DEF CommandRefused, SeedFails, Stop, Crash, Operator, vars, keycloakVars
<1>8. CASE Provision \/ ProvisionFails
  BY <1>1, <1>3, <1>8, Zenon DEF Provision, Request, ProvisionFails, RequestFails
<1>9. CASE RealmChanges
  <2>1. ASSUME RebuildRealm PROVE realm'.era = realm.era + 1
    BY <2>1 DEF RebuildRealm, EmptyRealm
  <2>2. ASSUME Meddle PROVE realm'.era = realm.era
    BY <2>2 DEF Meddle, MoveClient, ResetPassword, KeycloakOK, Realm
  <2>3. realm'.era = realm.era \/ realm'.era = realm.era + 1
    BY <1>9, <2>1, <2>2, Zenon DEF RealmChanges
  <2> QED
    BY <1>1, <1>9, <2>3, Zenon DEF RealmChanges
<1>10. CASE Page
  <2>1. CASE WritePage
    <3>1. /\ phase' = phase /\ realm' = realm /\ UNCHANGED loginVars
          /\ users' = users /\ tenant' = tenant /\ mode' = mode
      BY <1>10, <2>1, Zenon DEF Page, WritePage, keycloakVars
    <3> QED
      BY <3>1, Zenon DEF Quiet, loginVars
  <2>2. CASE BrowserStep \/ LoginStep
    <3>1. phase = "serving" /\ phase' = phase /\ realm' = realm
      BY <1>10, Zenon DEF Page, keycloakVars
    <3>2. UNCHANGED seedVars
      BY <2>2, Zenon DEF BrowserStep, LoginStep
    <3> QED
      BY <2>2, <3>1, <3>2, Zenon DEF Browses
  <2> QED
    BY <1>10, <2>1, <2>2, Zenon DEF Page
<1> QED
  BY <1>4, <1>5, <1>6, <1>7, <1>8, <1>9, <1>10, Zenon DEF Next

\* A quiet step: whoever may be served could be served before, by that name.
LEMMA QuietKeeps ==
    ASSUME KeycloakOK, UsersOK, realm.era # Local, Blocks, ServingOK, SessionOK, Quiet
    PROVE  (realm.era # Local /\ Blocks /\ ServingOK /\ SessionOK)'
<1>1. /\ active' = active /\ pending' = pending /\ signedIn' = signedIn
      /\ users' = users \/ users' = <<>>
      /\ phase' = "serving" => phase = "serving" /\ tenant' = tenant /\ mode' = mode
      /\ realm'.era = realm.era \/ realm'.era = realm.era + 1
  BY Zenon DEF Quiet
<1>2. realm.era \in Nat /\ Size \in Nat
  BY Seats DEF KeycloakOK, Realm
<1>3. realm'.era # Local
  BY <1>1, <1>2 DEF Local
<1>4. ASSUME users' = <<>> PROVE Blocks' /\ Young'
  <2>1. Len(users') = 0 /\ 0 <= 2 * Size /\ \A i : i \notin DOMAIN users'
    BY <1>2, <1>4
  <2>2. Len(users') \in {0, Size}
    BY <2>1
  <2> QED
    BY <2>1, <2>2, Zenon DEF Blocks, Young
<1>5. Blocks'
  <2>1. CASE users' = users
    BY <2>1, Zenon DEF Blocks
  <2> QED
    BY <1>1, <1>4, <2>1
<1>6. ServingOK'
  BY <1>1, Zenon DEF ServingOK
<1>7. /\ active.user \in Nat
      /\ active.tenant[2] \in 0 .. realm.era /\ pending.tenant[2] \in 0 .. realm.era
  BY Zenon DEF SessionOK
<1>8. active.tenant[2] \in 0 .. realm'.era /\ pending.tenant[2] \in 0 .. realm'.era
  BY <1>1, <1>2, <1>7
<1>9. active.tenant[2] = realm'.era => realm'.era = realm.era
  BY <1>1, <1>2, <1>7
<1>10. ASSUME Live' PROVE signedIn' # Nobody /\ Named'
  <2>1. Live
    BY <1>1, <1>9, <1>10, Zenon DEF Live
  <2>2. signedIn # Nobody /\ Named
    BY <2>1, Zenon DEF SessionOK
  <2>3. CASE users' = <<>>
    <3>1. \A i : i \notin DOMAIN users'
      BY <2>3
    <3> QED
      BY <1>1, <1>4, <2>2, <2>3, <3>1, Zenon DEF Named
  <2>4. CASE users' = users
    <3>1. active.tenant[2] = realm'.era => (Young => Young')
      BY <1>9, <2>4, Zenon DEF Young
    <3> QED
      BY <1>1, <1>9, <2>2, <2>4, <3>1, Zenon DEF Named
  <2> QED
    BY <1>1, <2>2, <2>3, <2>4
<1>11. SessionOK'
  BY <1>1, <1>7, <1>8, <1>10, Zenon DEF SessionOK
<1> QED
  BY <1>3, <1>5, <1>6, <1>11

\* A start in shared mode makes the sessions of the present realm served again,
\* and their rows are where they were.
LEMMA SeedKeepsSessions ==
    ASSUME KeycloakOK, UsersOK, realm.era # Local, Blocks, SessionOK, SeedAndServe
    PROVE  (realm.era # Local /\ Blocks /\ ServingOK /\ SessionOK)'
<1>1. /\ Seed /\ phase' = "serving" /\ realm' = realm
      /\ active' = active /\ pending' = pending /\ signedIn' = signedIn
  BY Zenon DEF SeedAndServe, keycloakVars, loginVars
<1>2. /\ Blocks' /\ (Young => Young')
      /\ \A i \in DOMAIN users : i \in DOMAIN users' /\ users'[i].name = users[i].name
  BY <1>1, SeedKeepsPlaces, Zenon
<1>3. mode' = mode /\ \A o \in Org : tenant'[o] = CanonicalTenant(o)
  BY <1>1 DEF Seed
<1>4. \A o \in Org : CanonicalTenant(o)[2] = Era
  BY DEF CanonicalTenant, Id
<1>5. (mode = "shared" => Era = realm.era) /\ (mode # "shared" => Era = Local)
  BY DEF Era
<1>6. \A o \in Org : mode # "shared" => CanonicalTenant(o) = Slug(o)
  BY <1>5, Zenon DEF CanonicalTenant, Slug
<1>7. ServingOK'
  BY <1>3, <1>4, <1>5, <1>6, Zenon DEF ServingOK
<1>8. ASSUME Live' PROVE signedIn # Nobody /\ Named'
  <2>1. active.tenant[2] = realm.era
    BY <1>1, <1>3, <1>4, <1>5, <1>8, Zenon DEF Live
  <2>2. active.tenant[2] # Local
    BY <2>1
  <2>3. signedIn # Nobody /\ Named
    BY <2>1, <2>2, Zenon DEF SessionOK, Live
  <2>4. Size \in Nat /\ active.user \in Nat
    BY Seats, Zenon DEF SessionOK
  <2>5. CASE active.user <= 2 * Size
    BY <1>1, <2>3, <2>5, Zenon DEF Named
  <2>6. CASE ~(active.user <= 2 * Size) /\ active.user \in DOMAIN users
    BY <1>1, <1>2, <2>3, <2>6, Zenon DEF Named
  <2>7. CASE ~(active.user <= 2 * Size) /\ active.user \notin DOMAIN users
    <3>1. Young'
      BY <1>2, <2>1, <2>3, <2>7, Zenon DEF Named
    <3>2. users' \in Seq(UserRows) /\ Len(users') <= 2 * Size
      <4>1. PICK pick \in Picks : SeedsEras(pick)
        BY <1>1, ErasAreSeeded, Zenon
      <4> QED
        BY <3>1, <4>1, Zenon DEF Young, SeedsEras
    <3>3. active.user \notin DOMAIN users'
      BY <2>4, <2>7, <3>2
    <3>4. ~(active'.user <= 2 * Size) /\ active'.user \notin DOMAIN users'
      BY <1>1, <2>7, <3>3, Zenon
    <3> QED
      BY <2>3, <3>1, <3>4, Zenon DEF Named
  <2> QED
    BY <2>3, <2>5, <2>6, <2>7
<1>9. SessionOK'
  BY <1>1, <1>8, Zenon DEF SessionOK
<1> QED
  BY <1>1, <1>2, <1>7, <1>9, Zenon

\* In standalone mode a form can only select local tenants: the users belong to
\* them, and an ID of Keycloak is not among their identifiers.
LEMMA SelectionIsLocal ==
    ASSUME UsersOK, RealmsFollow, ServingOK, phase = "serving", mode = "standalone",
           NEW t \in TenantIds, NEW i \in UsersOf(t)
    PROVE  t[2] = Local
<1>1. i \in DOMAIN users /\ Belongs(i, t)
  BY Zenon DEF UsersOf
<1>2. mode # "shared"
  OBVIOUS
<1>3. \A o \in Org : tenant[o] = Slug(o)
  BY <1>2, Zenon DEF ServingOK
<1>4. users[i].name \in User
  BY <1>1, ServiceIs, Zenon
<1>5. OrgOf[users[i].name] \in Org
  BY <1>4, KeycloakAssumption
<1>6. users[i].realm = Slug(OrgOf[users[i].name])
  BY <1>1, <1>3, <1>5, Zenon DEF RealmsFollow
<1>7. \A o : Slug(o)[2] = Local
  BY DEF Slug, Id
<1>8. Slug(OrgOf[users[i].name]) \in IdentifiersOf(t)
  BY <1>1, <1>6, Zenon DEF Belongs
<1>9. CASE Slug(OrgOf[users[i].name]) = t
  BY <1>7, <1>9, Zenon
<1>10. CASE Slug(OrgOf[users[i].name]) # t
  <2>1. PICK p \in Org : t \in {tenant[p], Slug(p)}
    BY <1>8, <1>10, Zenon DEF IdentifiersOf
  <2> QED
    BY <1>3, <1>7, <2>1, Zenon
<1> QED
  BY <1>9, <1>10

\* The browser: a session of shared mode is opened for the account that signed
\* in, and every other page leaves the session alone or closes it.
LEMMA BrowserKeeps ==
    ASSUME KeycloakOK, UsersOK, RealmsFollow, realm.era # Local, Blocks, ServingOK, SessionOK,
           Browses
    PROVE  (Blocks /\ ServingOK /\ SessionOK)'
<1>1. /\ phase = "serving" /\ phase' = phase /\ realm' = realm
      /\ mode' = mode /\ tenant' = tenant /\ users' = users
  BY Zenon DEF Browses, seedVars
<1>2. Blocks' /\ ServingOK'
  BY <1>1, Zenon DEF Blocks, ServingOK
<1>3. /\ active.user \in Nat
      /\ active.tenant[2] \in 0 .. realm.era /\ pending.tenant[2] \in 0 .. realm.era
  BY Zenon DEF SessionOK
<1>4. realm.era \in Nat /\ Size \in Nat /\ Local \in 0 .. realm.era /\ 0 \in Nat
  BY Seats DEF KeycloakOK, Realm, Local
<1>5. ASSUME NEW t \in TenantIds PROVE t[2] \in 0 .. realm.era
  BY <1>5 DEF TenantIds, Id
\* The session stays, whatever becomes of the login.
<1>6. ASSUME active' = active, signedIn' = signedIn, pending'.tenant[2] \in 0 .. realm.era
      PROVE  SessionOK'
  BY <1>1, <1>6, Zenon DEF SessionOK, Live, Named, Young
\* The session is closed, or none of Keycloak's.
<1>7. ASSUME active'.user \in Nat, active'.tenant[2] = Local, pending' = NoLogin
      PROVE  SessionOK'
  <2>1. NoLogin.tenant[2] = Local
    BY DEF NoLogin, NoTenant
  <2> QED
    BY <1>1, <1>4, <1>7, <2>1, Zenon DEF SessionOK, Live
<1>8. ASSUME active' = NoIdentity, pending' = NoLogin PROVE SessionOK'
  <2>1. NoIdentity.tenant[2] = Local /\ NoIdentity.user = 0
    BY DEF NoIdentity, NoTenant
  <2> QED
    BY <1>4, <1>7, <1>8, <2>1, Zenon
<1>9. ASSUME NEW t \in TenantIds, NEW i \in DOMAIN users, SelectIdentity(t, i)
      PROVE  SessionOK'
  <2>1. /\ mode = "standalone" /\ i \in UsersOf(t) /\ pending' = NoLogin
        /\ active' = [tenant |-> t, user |-> i]
    BY <1>9, Zenon DEF SelectIdentity
  <2>2. t[2] = Local
    BY <1>1, <2>1, SelectionIsLocal, Zenon
  <2>3. i \in Nat
    BY DEF UsersOK
  <2>4. active'.tenant = t /\ active'.user = i
    BY <2>1
  <2> QED
    BY <1>7, <2>1, <2>2, <2>3, <2>4, Zenon
<1>10. ASSUME NEW t \in TenantIds, NEW i \in DOMAIN users, StartLogin(t, i)
       PROVE  SessionOK'
  <2>1. /\ active' = active /\ signedIn' = signedIn
        /\ pending' = [tenant |-> t, user |-> i, state |-> logins + 1]
    BY <1>10, Zenon DEF StartLogin
  <2>2. pending'.tenant = t
    BY <2>1
  <2> QED
    BY <1>5, <1>6, <2>1, <2>2, Zenon
<1>11. ASSUME NEW a \in answers, CallbackOpens(a) PROVE SessionOK'
  <2> DEFINE i == pending.user
  <2>1. /\ a.who[2] = realm.era /\ Resolved(a.who) = {i}
        /\ active' = [tenant |-> pending.tenant, user |-> i]
        /\ pending' = NoLogin /\ signedIn' = a.who
    BY <1>11, Zenon DEF CallbackOpens, CallbackMatches
  <2>2. i \in DOMAIN users /\ users[i].service = a.who
    BY <2>1, Zenon DEF Resolved, UsersOf
  <2>3. users[i].service[1] = users[i].name
    BY <2>2, Zenon DEF UsersOK
  <2>4. signedIn'[1] = users[i].name
    BY <2>1, <2>2, <2>3, Zenon
  <2>5. signedIn' # Nobody
    <3>1. Nobody[2] = Local
      BY DEF Nobody, Id
    <3> QED
      BY <2>1, <3>1, Zenon
  <2>6. active'.tenant = pending.tenant /\ active'.user = i
    BY <2>1
  <2>7. i \in Nat /\ i > 0
    BY <2>2 DEF UsersOK
  <2>8. Named'
    <3>1. CASE i <= 2 * Size
      <4>1. users[i].name = NameAt(i)
        BY <2>2, <3>1, Zenon DEF Blocks
      <4> QED
        BY <2>4, <2>6, <2>7, <3>1, <4>1, Zenon DEF Named
    <3>2. CASE ~(i <= 2 * Size)
      BY <1>1, <2>2, <2>4, <2>6, <3>2, Zenon DEF Named
    <3> QED
      BY <3>1, <3>2
  <2>9. pending'.tenant[2] \in 0 .. realm.era
    <3>1. NoLogin.tenant[2] = Local
      BY DEF NoLogin, NoTenant
    <3> QED
      BY <1>4, <2>1, <3>1, Zenon
  <2> QED
    BY <1>1, <1>3, <2>5, <2>6, <2>7, <2>8, <2>9, Zenon DEF SessionOK
<1>12. ASSUME CallbackRefuses PROVE SessionOK'
  <2>1. NoLogin.tenant[2] = Local
    BY DEF NoLogin, NoTenant
  <2> QED
    BY <1>4, <1>6, <1>12, <2>1, Zenon DEF CallbackRefuses
<1>13. ASSUME NEW s, NEW who, Answer(s, who) PROVE SessionOK'
  BY <1>3, <1>6, <1>13, Zenon DEF Answer
<1>14. ASSUME Visit \/ ClearIdentity PROVE SessionOK'
  BY <1>8, <1>14, Zenon DEF Visit, ClearIdentity
<1>15. SessionOK'
  BY <1>9, <1>10, <1>11, <1>12, <1>13, <1>14, Zenon
     DEF Browses, BrowserStep, LoginStep, Callback
<1> QED
  BY <1>2, <1>15

=============================================================================
