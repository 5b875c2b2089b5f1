--------------------------- MODULE LaneAssignment ---------------------------
(***************************************************************************)
(* Who may work on a task: lane groups, their members, and the potential   *)
(* owners of work items.  Lane names are equal here if they are equal      *)
(* after trimming and lower-casing, as normalize_lane_name compares them.  *)
(* Each process definition has one process instance, each manual task of   *)
(* it one work item.                                                       *)
(***************************************************************************)
EXTENDS Naturals, Sequences, FiniteSets, Functions

CONSTANTS
    Tenant, User, Lane, Name, Proc, Item,
    Home,         \* Home[u]: the tenant u belongs to
    Exact,        \* Exact[n]: users with this username, email or service id
    LocalPart,    \* LocalPart[n]: users named like the part before an @, if any
    Hash,         \* Hash[<<t, l>>]: the computed ID of a lane group
    LegacyId,     \* LegacyId[l]: the ID of a group named like the lane alone
    NoGroup, NoLane, NoMapping,
    Of,           \* Of[i]: the process of the work item i
    In,           \* In[p]: its tenant
    Initiator,    \* Initiator[p]: the user who starts it
    LaneOf,       \* LaneOf[i]: the lane of the task, or NoLane
    DataOwners,   \* DataOwners[i]: lane_owners in the task data, or NoMapping
    Properties,   \* Properties[p]: what p is imported with as properties_json
    Directory     \* bound: the memberships that the directory changes

VARIABLES
    properties,   \* properties[p]: properties_json of the stored definition
    group,        \* group[id]: the identifier of the m8f_group row, or NoGroup
    member,       \* user_group_assignment rows
    item          \* work_item rows with their work_item_user rows

vars == <<properties, group, member, item>>

Id == Range(Hash) \cup Range(LegacyId)

Label == {"process_initiator", "lane_owner", "lane_assignment"}

Mapping == UNION {[D -> SUBSET Name] : D \in SUBSET Lane}

Owners == UNION {[U -> Label] : U \in SUBSET User}

Configuration == [initiator_lanes : SUBSET Lane, lane_owners : Mapping]

\* The identifier of a group is computed from tenant and lane, or a name.
Identifier == (Tenant \X Lane) \cup Lane \cup {NoGroup}

\* A lane is not named like the identifier of a lane group, tenant:lane: the
\* lookup by the name alone would take that group for its own.
ASSUME GroupAssumption ==
    /\ IsFiniteSet(Lane)
    /\ NoLane \notin Lane
    /\ DOMAIN Hash = Tenant \X Lane
    /\ DOMAIN LegacyId \subseteq Lane
    /\ NoGroup \notin Id \cup Lane \cup (Tenant \X Lane)
    /\ Lane \cap (Tenant \X Lane) = {}

ASSUME UserAssumption ==
    /\ Home \in [User -> Tenant]
    /\ Exact \in [Name -> SUBSET User]
    /\ LocalPart \in [Name -> SUBSET User]
    /\ Directory \subseteq User \X Id

\* ensure_user_belongs_to_tenant checks the initiator of every instance.
ASSUME ProcessAssumption ==
    /\ IsFiniteSet(Item)
    /\ Of \in [Item -> Proc]
    /\ In \in [Proc -> Tenant]
    /\ Initiator \in [Proc -> User]
    /\ \A p \in Proc : Home[Initiator[p]] = In[p]
    /\ LaneOf \in [Item -> Lane \cup {NoLane}]
    /\ DataOwners \in [Item -> Mapping \cup {NoMapping}]
    /\ Properties \in [Proc -> SUBSET Configuration]

\* made: the row exists; open: ~completed; ready: the task of the stored
\* workflow is READY; lane: lane_assignment_id; owners: added_by of each user.
WorkItem == [made : BOOLEAN, open : BOOLEAN, ready : BOOLEAN,
             lane : Id \cup {NoGroup},
             owners : Owners]

\* The tables hold what their columns and constraints allow: one label per
\* potential owner, one group or none per work item.
TypeOK ==
    /\ properties \in [Proc -> Configuration]
    /\ group \in [Id -> Identifier]
    /\ member \in SUBSET (User \X Id)
    /\ item \in [Item -> WorkItem]

Unconfigured == [initiator_lanes |-> {}, lane_owners |-> << >>]

Init ==
    /\ properties = [p \in Proc |-> Unconfigured]
    /\ group = [g \in Id |-> NoGroup]
    /\ member = {}
    /\ item = [i \in Item |-> [made |-> FALSE, open |-> FALSE, ready |-> FALSE,
                               lane |-> NoGroup, owners |-> << >>]]

-----------------------------------------------------------------------------
(***************************************************************************)
(* Lane groups.  The tables that a handler changes are passed along as one *)
(* record, with the groups that an enrolment has found.                    *)
(***************************************************************************)

Tables == [group |-> group, member |-> member, item |-> item, groups |-> << >>]

Store(db) ==
    /\ group' = db.group
    /\ member' = db.member
    /\ item' = db.item

\* What f says, and what g says where f says nothing.
Completed(f, g) ==
    [x \in DOMAIN f \cup DOMAIN g |-> IF x \in DOMAIN f THEN f[x] ELSE g[x]]

Labelled(keys, label) == [k \in keys |-> label]

\* Mutant: whatever group has the computed ID is used.
LaneGroupUnchecked(db, t, l) ==
    LET g == Hash[<<t, l>>] IN
    IF db.group[g] # NoGroup THEN g
    ELSE IF l \in DOMAIN LegacyId /\ db.group[LegacyId[l]] = l THEN LegacyId[l]
    ELSE g

\* Mutant: a group named like the lane is preferred.
LaneGroupLegacyFirst(db, t, l) ==
    LET g == Hash[<<t, l>>] IN
    IF l \in DOMAIN LegacyId /\ db.group[LegacyId[l]] = l THEN LegacyId[l]
    ELSE IF db.group[g] \in {NoGroup, <<t, l>>} THEN g
    ELSE NoGroup

\* The ID of the group find_or_create_lane_group returns: the group with the
\* computed ID, but never one of another tenant or lane; a group named like
\* the lane alone; or a new group.
LaneGroup(db, t, l) ==
    LET g == Hash[<<t, l>>] IN
    IF db.group[g] = <<t, l>> THEN g
    ELSE IF db.group[g] # NoGroup THEN NoGroup
    ELSE IF l \in DOMAIN LegacyId /\ db.group[LegacyId[l]] = l THEN LegacyId[l]
    ELSE g

FindOrCreateLaneGroup(db, t, l) ==
    LET g == LaneGroup(db, t, l) IN
    IF g = NoGroup \/ db.group[g] # NoGroup THEN db
    ELSE [db EXCEPT !.group[g] = <<t, l>>]

InTenant(users, t) == {u \in users : Home[u] = t}

\* _OwnerResolver: the fallback applies only if nobody matches exactly.
UsersFor(t, n) ==
    IF InTenant(Exact[n], t) # {} THEN InTenant(Exact[n], t)
    ELSE InTenant(LocalPart[n], t)

LaneOwners(t, names) == UNION {UsersFor(t, n) : n \in names}

\* One round of _enroll_lane_owners with _add_group_members.
EnrollLane(db, t, l, names) ==
    LET found == FindOrCreateLaneGroup(db, t, l)
        g == LaneGroup(db, t, l) IN
    [found EXCEPT
        !.member = IF g = NoGroup THEN @
                   ELSE @ \cup (LaneOwners(t, names) \X {g}),
        !.groups = Completed(Labelled({l}, g), @)]

\* The members of a finite set, one after the other.
Orders(S) == {s \in [1 .. Cardinality(S) -> S] : Range(s) = S}

\* A mapping keeps its keys in one order.
Keys(mapping) == CHOOSE s \in Orders(DOMAIN mapping) : TRUE

\* _enroll_lane_owners
Enroll(db, t, mapping) ==
    LET keys == Keys(mapping)
        after[n \in 0 .. Len(keys)] ==
            IF n = 0 THEN [db EXCEPT !.groups = << >>]
            ELSE EnrollLane(after[n - 1], t, keys[n], mapping[keys[n]])
    IN  after[Len(keys)]

-----------------------------------------------------------------------------
(***************************************************************************)
(* Potential owners.                                                       *)
(***************************************************************************)

\* _tenant_group_members
GroupMembers(db, g, t) == InTenant({u \in User : <<u, g>> \in db.member}, t)

InitiatorsLane(i) ==
    LaneOf[i] \in {NoLane} \cup properties[Of[i]].initiator_lanes

\* _effective_lane_owners, without the initiator's lanes.
EffectiveOwners(i) ==
    LET all == IF DataOwners[i] # NoMapping THEN DataOwners[i]
               ELSE properties[Of[i]].lane_owners IN
    [l \in DOMAIN all \ properties[Of[i]].initiator_lanes |-> all[l]]

NamedOwners(i) ==
    IF LaneOf[i] \in DOMAIN EffectiveOwners(i)
    THEN LaneOwners(In[Of[i]], EffectiveOwners(i)[LaneOf[i]])
    ELSE {}

\* Mutant: the rows are written anew, with today's labels.
AddMissingAnew(db, i, owners) == [db EXCEPT !.item[i].owners = Completed(owners, @)]

\* _add_missing_potential_owners
AddMissing(db, i, owners) == [db EXCEPT !.item[i].owners = Completed(@, owners)]

\* Mutant: where owners are named, the group is not asked.
OwnersOfNamedOnly(db, i, g) ==
    LET named == NamedOwners(i) IN
    IF named # {} THEN Labelled(named, "lane_owner")
    ELSE IF g = NoGroup THEN << >>
    ELSE Labelled(GroupMembers(db, g, In[Of[i]]), "lane_assignment")

OwnersOf(db, i, g) ==
    Completed(Labelled(NamedOwners(i), "lane_owner"),
              IF g = NoGroup THEN << >>
              ELSE Labelled(GroupMembers(db, g, In[Of[i]]), "lane_assignment"))

\* assign_work_item_potential_owners
AssignOwners(db, i) ==
    LET t == In[Of[i]] IN
    IF InitiatorsLane(i)
    THEN AddMissing([db EXCEPT !.item[i].lane = NoGroup], i,
                    Labelled({Initiator[Of[i]]}, "process_initiator"))
    ELSE LET enrolled == Enroll(db, t, EffectiveOwners(i))
             known == LaneOf[i] \in DOMAIN enrolled.groups
             found == IF known THEN enrolled
                      ELSE FindOrCreateLaneGroup(enrolled, t, LaneOf[i])
             g == IF known THEN enrolled.groups[LaneOf[i]]
                  ELSE LaneGroup(enrolled, t, LaneOf[i]) IN
         AddMissing([found EXCEPT !.item[i].lane = g], i, OwnersOf(found, i, g))

\* The work items in the given order.
AssignAll(db, order) ==
    LET after[n \in 0 .. Len(order)] ==
            IF n = 0 THEN db ELSE AssignOwners(after[n - 1], order[n])
    IN  after[Len(order)]

ItemsOf(p) == {i \in Item : Of[i] = p}

Ready(p) == {i \in ItemsOf(p) : item[i].ready}

-----------------------------------------------------------------------------
(***************************************************************************)
(* Commands.                                                               *)
(***************************************************************************)

\* import_bpmn_process_definition, validate_initiator_lanes included.
Import(p, new) ==
    /\ new.initiator_lanes \subseteq {LaneOf[i] : i \in ItemsOf(p)}
    /\ new.initiator_lanes \cap DOMAIN new.lane_owners = {}
    /\ properties' = [properties EXCEPT ![p] = new]
    /\ Store(Enroll(Tables, In[p], new.lane_owners))

\* _materialize_ready_manual_tasks and _sync_inactive_work_items after the
\* tasks over have ended and the tasks fresh have become READY: every READY
\* task has an open work item, which is assigned again, and no other has.
RunWorkflow(p, over, fresh) ==
    LET ready == (Ready(p) \ over) \cup fresh
        moved == [i \in Item |->
                     IF Of[i] # p THEN item[i]
                     ELSE [item[i] EXCEPT !.made = @ \/ i \in fresh,
                                          !.ready = i \in ready,
                                          !.open = i \in ready]] IN
    \E order \in Orders(ready) :
        Store(AssignAll([Tables EXCEPT !.item = moved], order))

\* The instance starts, a task is completed or a timer fires.
Advance(p) ==
    /\ \A i \in Ready(p) : item[i].open
    /\ \E over \in SUBSET Ready(p), fresh \in SUBSET ItemsOf(p) :
          /\ Cardinality(over) <= 1
          /\ \A i \in fresh : ~item[i].made
          /\ RunWorkflow(p, over, fresh)
    /\ UNCHANGED properties

\* The instance is put in error: its work items are closed.
ErrorInstance(p) ==
    /\ \E i \in ItemsOf(p) : item[i].open
    /\ item' = [i \in Item |-> [item[i] EXCEPT !.open = @ /\ Of[i] # p]]
    /\ UNCHANGED <<properties, group, member>>

\* sync_open_work_item_potential_owners, on which resume_process_instance ends.
SyncOwners(p) ==
    /\ \E order \in Orders({i \in Ready(p) : item[i].open}) :
          Store(AssignAll(Tables, order))
    /\ UNCHANGED properties

\* retry_process_instance.  Without a failed service task every closed work
\* item is reopened, the completed ones included, and the owners are synced;
\* with one the workflow runs on.
Retry(p) ==
    /\ Ready(p) # {}
    /\ \A i \in Ready(p) : ~item[i].open
    /\ \/ \E order \in Orders(Ready(p)) :
             Store(AssignAll(
                [Tables EXCEPT !.item = [i \in Item |->
                   [item[i] EXCEPT !.open = @ \/ (Of[i] = p /\ item[i].made)]]],
                order))
       \/ \E fresh \in SUBSET ItemsOf(p) :
             /\ \A i \in fresh : ~item[i].made
             /\ RunWorkflow(p, {}, fresh)
    /\ UNCHANGED properties

\* assign_pending_tasks_for_user
AssignPending(u) ==
    LET newly == {i \in Item : /\ In[Of[i]] = Home[u]
                               /\ item[i].open
                               /\ <<u, item[i].lane>> \in member
                               /\ u \notin DOMAIN item[i].owners} IN
    /\ item' = [i \in Item |->
                   IF i \in newly
                   THEN [item[i] EXCEPT
                            !.owners = Completed(@,
                                Labelled({u}, "lane_assignment"))]
                   ELSE item[i]]
    /\ UNCHANGED <<properties, group, member>>

\* The application's directory moves a user into or out of a group, or has a
\* group that is named like a lane.
Join(u, g) ==
    /\ group[g] # NoGroup
    /\ member' = member \cup {<<u, g>>}
    /\ UNCHANGED <<properties, group, item>>

Leave(u, g) ==
    /\ member' = member \ {<<u, g>>}
    /\ UNCHANGED <<properties, group, item>>

CreateLegacyGroup(l) ==
    /\ group[LegacyId[l]] = NoGroup
    /\ group' = [group EXCEPT ![LegacyId[l]] = l]
    /\ UNCHANGED <<properties, member, item>>

Next ==
    \/ \E p \in Proc : \E new \in Properties[p] : Import(p, new)
    \/ \E p \in Proc : \/ Advance(p)
                       \/ ErrorInstance(p)
                       \/ SyncOwners(p)
                       \/ Retry(p)
    \/ \E u \in User : AssignPending(u)
    \/ \E m \in Directory : Join(m[1], m[2]) \/ Leave(m[1], m[2])
    \/ \E l \in DOMAIN LegacyId : CreateLegacyGroup(l)

Spec == Init /\ [][Next]_vars

-----------------------------------------------------------------------------
(***************************************************************************)
(* Properties.                                                             *)
(***************************************************************************)

\* Work stays within its tenant.  Only users of the tenant are ever offered it,
\* although usernames and groups named like a lane are shared by all tenants:
\* every way in, by name, by group or by assign_pending_tasks_for_user, filters
\* by tenant.  And its group is that of its own tenant and lane, or the one
\* named like the lane: computed IDs that collide are never taken over.
WorkStaysInTenant ==
    \A i \in Item :
        /\ \A u \in DOMAIN item[i].owners : Home[u] = In[Of[i]]
        /\ item[i].lane # NoGroup =>
              group[item[i].lane] \in {<<In[Of[i]], LaneOf[i]>>, LaneOf[i]}

\* All work of one lane of a tenant hangs on one group, in whatever order
\* groups and work items come into being, so that a user who joins it and is
\* passed to assign_pending_tasks_for_user reaches all of that work.
LaneGroupIsShared ==
    \A i, j \in Item :
        (/\ In[Of[i]] = In[Of[j]] /\ LaneOf[i] = LaneOf[j]
         /\ item[i].lane # NoGroup /\ item[j].lane # NoGroup)
            => item[i].lane = item[j].lane

\* Materializing a task again, resuming, retrying and assigning pending tasks
\* keep the potential owners that are there, with their labels.
OwnersAreKept ==
    [][\A i \in Item : \A u \in DOMAIN item[i].owners :
          /\ u \in DOMAIN item'[i].owners
          /\ item'[i].owners[u] = item[i].owners[u]]_vars

\* A task that becomes READY reaches the users named for its lane and all who
\* are in the lane group by then: through another task, through any import of
\* the tenant or through the directory.
LaneGroupIsReached ==
    [][\A i \in Item : (item'[i].ready /\ ~item[i].ready /\ ~InitiatorsLane(i))
          => /\ NamedOwners(i) \subseteq DOMAIN item'[i].owners
             /\ \A u \in User : (/\ Home[u] = In[Of[i]]
                                 /\ <<u, item'[i].lane>> \in member)
                                    => u \in DOMAIN item'[i].owners]_vars
=============================================================================
