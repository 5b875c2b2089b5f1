------------------------- MODULE TransactionProofs --------------------------
(***************************************************************************)
(* Transactions that run at once, for any number of them: sessions that    *)
(* claim and complete tasks, and granters of permissions.                  *)
(***************************************************************************)
EXTENDS TaskTransactions, Authorization, TLAPS

Writing == {"complete", "loaded", "flush", "own", "persist", "terminate",
            "close", "closing"}

\* Sessions outside Writers only claim.
WritersWrite == \A w \in Sessions : stage[w] \in Writing => w \in Writers

Completing == {"complete", "loaded", "flush", "own", "persist"}

\* A session completes a work item that it has read as owned by its user.
OwnIsRead ==
    \A w \in Sessions :
        stage[w] \in Completing =>
            /\ task[w] \in fetched[w]
            /\ ~seenItem[w][task[w]].completed
            /\ seenItem[w][task[w]].owner = user[w]

\* The inductive invariant that holds for any set of writers.
LInv == TypeOK /\ ClaimHolds /\ WritersWrite /\ OwnIsRead

-----------------------------------------------------------------------------
\* The columns of a flushed row come from the stored, loaded and assigned rows.
LEMMA RowType ==
    ASSUME NEW a \in Item, NEW b \in Item, NEW c \in Item
    PROVE  Row(a, b, c) \in Item
BY Zenon DEF Row, Column, Item

\* A claimed work item is a work item.
LEMMA OwnerType ==
    ASSUME NEW i \in Item, NEW u \in Users
    PROVE  [i EXCEPT !.owner = u] \in Item
BY Zenon DEF Item

\* What a session assigns to a work item is a work item.
LEMMA AssignedType ==
    ASSUME TypeOK, NEW w \in Sessions, NEW x \in Manual
    PROVE  /\ Assigned(w, x) \in Item
           /\ ClosedBy(user[w]) \in Item
BY DEF TypeOK, Assigned, ClosedBy, Free, Item

\* Ending a transaction keeps the types of the stages and the locks.
LEMMA EndType ==
    ASSUME TypeOK, NEW w \in Sessions, End(w)
    PROVE  /\ stage' = [stage EXCEPT ![w] = "idle"]
           /\ stage' \in [Sessions -> Stage]
           /\ lock' \in [Manual \cup {Instance} -> Sessions \cup {NoSession}]
           /\ \A r \in Manual \cup {Instance}, v \in Sessions \ {w} :
                 lock[r] = v => lock'[r] = v
BY SessionAssumption, Zenon DEF TypeOK, End, Goto, Stage

\* Taking a lock and moving on keeps the types of the stages and the locks,
\* and takes no lock from another session.
LEMMA LockType ==
    ASSUME TypeOK, NEW w \in Sessions, NEW r \in Manual \cup {Instance},
           Lock(w, r)
    PROVE  /\ lock' \in [Manual \cup {Instance} -> Sessions \cup {NoSession}]
           /\ lock'[r] = w
           /\ \A q \in Manual \cup {Instance}, v \in Sessions :
                 lock[q] = v => lock'[q] = v
BY SessionAssumption, Zenon DEF TypeOK, Lock

\* A claim that has its row lock survives a step of another session that
\* keeps every foreign lock and every row under a foreign lock.
LEMMA ClaimsSurvive ==
    ASSUME TypeOK, ClaimHolds, NEW w \in Sessions,
           stage'[w] # "claimed",
           \A v \in Sessions \ {w} : /\ stage'[v] = stage[v]
                                     /\ user'[v] = user[v]
                                     /\ task'[v] = task[v],
           \A r \in Manual \cup {Instance}, v \in Sessions \ {w} :
               lock[r] = v => lock'[r] = v,
           \A x \in Manual, v \in Sessions \ {w} :
               lock[x] = v => item'[x] = item[x]
    PROVE  ClaimHolds'
<1> SUFFICES ASSUME NEW v \in Sessions, stage'[v] = "claimed"
             PROVE  lock'[task'[v]] = v /\ Claimable(user[v], task[v])'
  BY Zenon DEF ClaimHolds
<1>1. /\ v \in Sessions \ {w}
      /\ stage[v] = "claimed" /\ user'[v] = user[v] /\ task'[v] = task[v]
  BY Zenon
<1>2. /\ task[v] \in Manual
      /\ lock[task[v]] = v
      /\ Claimable(user[v], task[v])
  BY <1>1, Zenon DEF ClaimHolds, TypeOK
<1>3. lock'[task[v]] = v /\ item'[task[v]] = item[task[v]]
  BY <1>1, <1>2, Zenon
<1> QED
  BY <1>1, <1>2, <1>3, Zenon DEF Claimable

-----------------------------------------------------------------------------
\* The initial state satisfies the lock invariant.
LEMMA InitLocked == Init => LInv
<1> SUFFICES ASSUME Init PROVE LInv
  BY Zenon
<1>1. item \in [Manual -> Item]
  BY Zenon DEF Init, Free, Item
<1> QED
  BY Zenon, <1>1, SessionAssumption
  DEF Init, LInv, TypeOK, ClaimHolds, WritersWrite, OwnIsRead, Writing,
      Completing, Stage, Ended

\* Every step of a session keeps the types.
LEMMA StepType ==
    ASSUME TypeOK, NEW w \in Sessions, Step(w)
    PROVE  TypeOK'
<1> USE DEF TypeOK
<1>0. task[w] \in Manual
  BY Zenon
<1>1. ASSUME NEW u \in Users, NEW m \in Manual, BeginClaim(w, u, m)
      PROVE  TypeOK'
  BY <1>1, Zenon DEF BeginClaim, Goto, Stage, db
<1>2. CASE UpdateClaim(w)
  <2>1. CASE Claimable(user[w], task[w])
    <3>1. Lock(w, task[w]) /\ Goto(w, "claimed") /\ UNCHANGED <<db, mem>>
      BY <1>2, <2>1, Zenon DEF UpdateClaim
    <3>2. lock' \in [Manual \cup {Instance} -> Sessions \cup {NoSession}]
      BY <1>0, <3>1, LockType, Zenon
    <3>3. stage' \in [Sessions -> Stage]
      BY <3>1, Zenon DEF Goto, Stage
    <3> QED BY <3>1, <3>2, <3>3, Zenon DEF db, mem
  <2>2. CASE ~Claimable(user[w], task[w])
    BY <1>2, <2>2, EndType, Zenon DEF UpdateClaim, db, mem
  <2> QED BY <2>1, <2>2, Zenon
<1>3. CASE CommitClaim(w)
  <2>1. item' \in [Manual -> Item]
    <3>1. user[w] \in Users
      BY Zenon
    <3>2. [item[task[w]] EXCEPT !.owner = user[w]] \in Item
      BY <1>0, <3>1, OwnerType, Zenon
    <3> QED BY <1>0, <1>3, <3>2, Zenon DEF CommitClaim
  <2> QED BY <1>3, <2>1, EndType, Zenon DEF CommitClaim, mem
<1>4. ASSUME NEW u \in Users, NEW m \in Manual, BeginComplete(w, u, m)
      PROVE  TypeOK'
  <2>1. seenItem' \in [Sessions -> [Manual -> Item]]
    BY <1>4, Zenon DEF BeginComplete
  <2> QED BY <1>4, <2>1 DEF BeginComplete, Goto, Stage, db
<1>5. CASE LoadInstance(w)
  BY <1>5, Zenon DEF LoadInstance, Goto, Stage, db
<1>6. CASE LoadWorkflow(w)
  BY <1>6, Zenon DEF LoadWorkflow, Goto, Stage, db
<1>7. CASE FlushInstance(w)
  BY <1>7, LockType, Zenon DEF FlushInstance, Goto, Stage, db, mem
<1>8. CASE FlushOwn(w)
  BY <1>0, <1>8, LockType, Zenon DEF FlushOwn, Goto, Stage, db, mem
<1>9. ASSUME NEW x \in Manual, FetchItem(w, x)
      PROVE  TypeOK'
  <2>1. seenItem' \in [Sessions -> [Manual -> Item]]
    BY <1>9, Zenon DEF FetchItem
  <2> QED BY <1>9, <2>1 DEF FetchItem, db
<1>10. ASSUME NEW x \in Manual, FlushItem(w, x)
       PROVE  TypeOK'
  BY <1>10, LockType, Zenon DEF FlushItem, db, mem
<1>11. CASE CommitComplete(w)
  <2>1. item' \in [Manual -> Item]
    BY <1>11, RowType, AssignedType DEF CommitComplete
  <2> QED BY <1>11, <2>1, EndType
          DEF CommitComplete, mem, Column, DoneHere, Ended
<1>12. ASSUME NEW u \in Users, BeginTerminate(w, u)
       PROVE  TypeOK'
  BY <1>12, Zenon DEF BeginTerminate, Goto, Stage, db
<1>13. CASE LoadItems(w)
  BY <1>13, Zenon DEF LoadItems, Goto, Stage, db
<1>14. CASE FlushTerminated(w)
  BY <1>14, LockType, Zenon DEF FlushTerminated, Goto, Stage, db, mem
<1>15. CASE CommitTerminate(w)
  <2>1. item' \in [Manual -> Item]
    BY <1>15, RowType, AssignedType DEF CommitTerminate
  <2> QED BY <1>15, <2>1, EndType, Zenon DEF CommitTerminate, mem, Column, Ended
<1>16. CASE Abort(w)
  BY <1>16, EndType, Zenon DEF Abort, db, mem
<1> QED
  BY Zenon, <1>1, <1>2, <1>3, <1>4, <1>5, <1>6, <1>7, <1>8, <1>9, <1>10, <1>11,
     <1>12, <1>13, <1>14, <1>15, <1>16 DEF Step

\* A step of w leaves the other sessions, their locks and the rows they have
\* locked alone: a commit writes only rows under the session's own locks.
LEMMA StepIsLocal ==
    ASSUME LInv, NEW w \in Sessions, Step(w)
    PROVE  /\ \A v \in Sessions \ {w} : /\ stage'[v] = stage[v]
                                        /\ user'[v] = user[v]
                                        /\ task'[v] = task[v]
           /\ \A r \in Manual \cup {Instance}, v \in Sessions \ {w} :
                 lock[r] = v => lock'[r] = v
           /\ \A x \in Manual, v \in Sessions \ {w} :
                 lock[x] = v => item'[x] = item[x]
<1> USE DEF LInv
<1>0. task[w] \in Manual
  BY Zenon DEF TypeOK
<1>1. \A v \in Sessions \ {w} : stage'[v] = stage[v]
  BY Zenon DEF TypeOK, Step, Goto, End, BeginClaim, UpdateClaim, CommitClaim,
         BeginComplete, LoadInstance, LoadWorkflow, FlushInstance, FlushOwn,
         FetchItem, FlushItem, CommitComplete, BeginTerminate, LoadItems,
         FlushTerminated, CommitTerminate, Abort
<1>2. \A v \in Sessions \ {w} : user'[v] = user[v] /\ task'[v] = task[v]
  BY Zenon DEF TypeOK, Step, mem, BeginClaim, UpdateClaim, CommitClaim,
         BeginComplete, LoadInstance, LoadWorkflow, FlushInstance, FlushOwn,
         FetchItem, FlushItem, CommitComplete, BeginTerminate, LoadItems,
         FlushTerminated, CommitTerminate, Abort
<1>3. \/ UNCHANGED lock
      \/ End(w)
      \/ \E r \in Manual \cup {Instance} : Lock(w, r)
  BY Zenon, <1>0
  DEF Step, BeginClaim, UpdateClaim, CommitClaim,
      BeginComplete, LoadInstance, LoadWorkflow, FlushInstance, FlushOwn,
      FetchItem, FlushItem, CommitComplete, BeginTerminate, LoadItems,
      FlushTerminated, CommitTerminate, Abort
<1>4. \A r \in Manual \cup {Instance}, v \in Sessions \ {w} :
         lock[r] = v => lock'[r] = v
  BY <1>3, EndType, LockType, Zenon
<1>5. \/ UNCHANGED item
      \/ CommitClaim(w) \/ CommitComplete(w) \/ CommitTerminate(w)
  BY Zenon DEF Step, db, BeginClaim, UpdateClaim,
         BeginComplete, LoadInstance, LoadWorkflow, FlushInstance, FlushOwn,
         FetchItem, FlushItem, BeginTerminate, LoadItems,
         FlushTerminated, Abort
<1>6. ASSUME NEW x \in Manual, item'[x] # item[x]
      PROVE  lock[x] = w
  <2>1. CASE CommitClaim(w)
    BY <1>6, <2>1, Zenon DEF CommitClaim, ClaimHolds, TypeOK
  <2>2. CASE CommitComplete(w)
    BY <1>6, <2>2, Zenon DEF CommitComplete, Flushed
  <2>3. CASE CommitTerminate(w)
    BY <1>6, <2>3, Zenon DEF CommitTerminate, Flushed
  <2> QED BY <1>5, <1>6, <2>1, <2>2, <2>3, Zenon
<1> QED
  BY <1>1, <1>2, <1>4, <1>6, Zenon

\* Every step of a session preserves the lock invariant.
LEMMA StepLocked ==
    ASSUME LInv, NEW w \in Sessions, Step(w)
    PROVE  LInv'
<1> USE DEF LInv
<1>1. TypeOK'
  BY StepType, Zenon
<1>2. ClaimHolds'
  <2>1. CASE stage'[w] # "claimed"
    BY <2>1, StepIsLocal, ClaimsSurvive, Zenon
  <2>2. CASE stage'[w] = "claimed"
    <3>1. UpdateClaim(w) /\ Claimable(user[w], task[w])
      BY Zenon, <2>2
      DEF TypeOK, Step, Goto, End, BeginClaim, UpdateClaim, CommitClaim,
          BeginComplete, LoadInstance, LoadWorkflow, FlushInstance, FlushOwn,
          FetchItem, FlushItem, CommitComplete, BeginTerminate, LoadItems,
          FlushTerminated, CommitTerminate, Abort
    <3>2. task[w] \in Manual /\ Lock(w, task[w])
      BY <3>1, Zenon DEF UpdateClaim, TypeOK
    <3>3. lock'[task[w]] = w /\ item' = item /\ user' = user /\ task' = task
      BY <3>1, <3>2, LockType, Zenon DEF UpdateClaim, db, mem
    <3>4. \A q \in Manual \cup {Instance}, v \in Sessions :
             lock[q] = v => lock'[q] = v
      BY <3>2, LockType, Zenon
    <3> QED BY <3>1, <3>3, <3>4, StepIsLocal
            DEF ClaimHolds, Claimable, TypeOK
  <2> QED BY <2>1, <2>2, Zenon
<1>3. WritersWrite'
  <2>1. stage'[w] \in Writing => stage[w] \in Writing \/ w \in Writers
    BY Zenon DEF TypeOK, Writing, Step, Goto, End, BeginClaim, UpdateClaim,
           CommitClaim, BeginComplete, LoadInstance, LoadWorkflow,
           FlushInstance, FlushOwn, FetchItem, FlushItem, CommitComplete,
           BeginTerminate, LoadItems, FlushTerminated, CommitTerminate, Abort
  <2> QED BY <2>1, StepIsLocal, Zenon DEF WritersWrite
<1>4. OwnIsRead'
  <2>1. \A v \in Sessions \ {w} : /\ fetched'[v] = fetched[v]
                                  /\ seenItem'[v] = seenItem[v]
    BY Zenon DEF TypeOK, Step, mem, BeginClaim, UpdateClaim, CommitClaim,
           BeginComplete, LoadInstance, LoadWorkflow, FlushInstance, FlushOwn,
           FetchItem, FlushItem, CommitComplete, BeginTerminate, LoadItems,
           FlushTerminated, CommitTerminate, Abort
  <2>2. ASSUME stage'[w] \in Completing
        PROVE  /\ task'[w] \in fetched'[w]
               /\ ~seenItem'[w][task'[w]].completed
               /\ seenItem'[w][task'[w]].owner = user'[w]
    <3>1. CASE \E u \in Users, m \in Manual : BeginComplete(w, u, m)
      BY <3>1 DEF BeginComplete, TypeOK
    <3>2. CASE \E x \in Manual : FetchItem(w, x)
      BY <2>2, <3>2 DEF FetchItem, OwnIsRead, TypeOK
    <3>3. CASE UNCHANGED mem /\ stage[w] \in Completing
      BY <3>3, Zenon DEF mem, OwnIsRead
    <3>4. CASE LoadInstance(w) \/ LoadWorkflow(w)
      BY Zenon, <2>2, <3>4
      DEF LoadInstance, LoadWorkflow, OwnIsRead, Completing
    <3> QED
      BY Zenon, <2>2, <3>1, <3>2, <3>3, <3>4
      DEF TypeOK, Completing, Step, Goto, End, BeginClaim, UpdateClaim,
          CommitClaim, FlushInstance, FlushOwn, FlushItem, CommitComplete,
          BeginTerminate, LoadItems, FlushTerminated, CommitTerminate, Abort
  <2> QED BY <2>1, <2>2, StepIsLocal DEF OwnIsRead
<1> QED
  BY <1>1, <1>2, <1>3, <1>4, Zenon
-----------------------------------------------------------------------------
\* Only a claim gives an open work item a new owner.
LEMMA StepExclusive ==
    ASSUME LInv, NEW w \in Sessions, Step(w), NEW m \in Manual,
           item[m].owner # NoUser, item'[m].owner # NoUser,
           ~item'[m].completed
    PROVE  item'[m].owner = item[m].owner
<1> USE DEF LInv
<1>1. \/ UNCHANGED item
      \/ CommitClaim(w) \/ CommitComplete(w) \/ CommitTerminate(w)
  BY Zenon DEF Step, db, BeginClaim, UpdateClaim,
         BeginComplete, LoadInstance, LoadWorkflow, FlushInstance, FlushOwn,
         FetchItem, FlushItem, BeginTerminate, LoadItems,
         FlushTerminated, Abort
<1>2. CASE CommitClaim(w)
  BY <1>2 DEF CommitClaim, ClaimHolds, Claimable, TypeOK, Item
<1>3. CASE CommitComplete(w)
  <2>1. CASE m \in Written(w)
    <3>1. item'[m] = Row(item[m], seenItem[w][m], Assigned(w, m))
      BY <1>3, <2>1, Zenon DEF CommitComplete
    <3>2. CASE m = task[w]
      <4>1. Assigned(w, m) = ClosedBy(user[w])
        BY <3>2, Zenon DEF Assigned
      <4>2. seenItem[w][m].owner = user[w]
        BY <1>3, <3>2, Zenon DEF CommitComplete, OwnIsRead, Completing
      <4>3. item'[m].owner = Column(item[m].owner, user[w], user[w])
        BY <3>1, <4>1, <4>2 DEF Row, ClosedBy
      <4> QED BY <4>3, Zenon DEF Column
    <3>3. CASE m # task[w]
      BY <3>1, <3>3 DEF Assigned, Free, Row, Column
    <3> QED BY <3>2, <3>3, Zenon
  <2>2. CASE m \notin Written(w)
    BY <1>3, <2>2, Zenon DEF CommitComplete
  <2> QED BY <2>1, <2>2, Zenon
<1>4. CASE CommitTerminate(w)
  BY <1>4, Zenon DEF CommitTerminate, Written, Row, Column, ClosedBy
<1> QED
  BY <1>1, <1>2, <1>3, <1>4, Zenon

\* Any number of sessions, users and tasks: types, row locks of claims.
THEOREM Locked == Spec => []LInv
<1>1. LInv /\ UNCHANGED vars => LInv'
  BY Zenon DEF LInv, TypeOK, ClaimHolds, Claimable, WritersWrite, OwnIsRead, vars,
         db, mem
<1>2. LInv /\ [Next]_vars => LInv'
  BY <1>1, StepLocked, Zenon DEF Next
<1> QED
  BY <1>2, InitLocked, PTL DEF Spec

\* TypeOK holds for any sessions.
THEOREM TypeCorrect == Spec => []TypeOK
BY Locked, PTL DEF LInv

\* A claim past its compare-and-set holds the row lock and stays claimable.
THEOREM ClaimsHold == Spec => []ClaimHolds
BY Locked, PTL DEF LInv

\* claim_task is exclusive, whatever the other sessions do.
THEOREM ClaimsAreExclusive == Spec => ClaimIsExclusive
<1>1. ASSUME LInv, [Next]_vars
      PROVE  [\A m \in Manual :
                 (/\ item[m].owner # NoUser
                  /\ item'[m].owner # NoUser
                  /\ ~item'[m].completed)
                     => item'[m].owner = item[m].owner]_vars
  BY <1>1, StepExclusive, Zenon DEF Next
<1> QED
  BY <1>1, Locked, PTL DEF Spec, ClaimIsExclusive

-----------------------------------------------------------------------------
(***************************************************************************)
(* One writer: completions and terminations of an instance are serialized  *)
(* by the application, claims are not.                                     *)
(***************************************************************************)
OneWriter == \A v, w \in Writers : v = w

\* Since a row was read, at most a claim of a free work item has changed it.
Current(loaded, stored) ==
    /\ loaded.completed = stored.completed
    /\ loaded.by = stored.by
    /\ loaded.owner \in {stored.owner, NoUser}

\* Nobody is named as the one who completed an open work item.
OpenIsUnsigned == \A m \in Manual : ~item[m].completed => item[m].by = NoUser

\* What the only writer has read still holds.
ReadsAreCurrent ==
    \A w \in Writers :
        /\ stage[w] \in Completing =>
              ~item[task[w]].completed /\ item[task[w]].owner = user[w]
        /\ stage[w] \in {"loaded", "flush", "own", "persist"}
              => seenStatus[w] = status
        /\ stage[w] \in {"flush", "own", "persist"} => seenDone[w] = done
        /\ stage[w] \in {"terminate", "close", "closing"}
              => status = "live" /\ seenStatus[w] = "live"
        /\ stage[w] \in {"close", "closing"} => fetched[w] = Manual
        /\ stage[w] \in Completing \cup {"close", "closing"}
              => \A x \in fetched[w] : Current(seenItem[w][x], item[x])

\* The inductive invariant for one writer.
WInv == LInv /\ WorkAgrees /\ OpenIsUnsigned /\ ReadsAreCurrent

\* A commit of a claim is the contract's Claim.
LEMMA ClaimRefines ==
    ASSUME LInv, NEW w \in Sessions, CommitClaim(w)
    PROVE  Contract!Claim(user[w], task[w])
BY Zenon DEF LInv, CommitClaim, ClaimHolds, Claimable, Contract!Claim

\* The workflow is live while a work item is open.
LEMMA OpenMeansLive ==
    ASSUME LInv, WorkAgrees, NEW m \in Manual, ~item[m].completed
    PROVE  status = "live" /\ m \notin done
BY Zenon DEF LInv, TypeOK, WorkAgrees, Ended

\* What the flush of a row does to the work item, if what was read is current.
LEMMA FlushedRow ==
    ASSUME NEW i \in Item, NEW j \in Item, Current(j, i), ~i.completed,
           i.by = NoUser, NEW u \in Users
    PROVE  /\ Row(i, j, Free) \in {i, Free}
           /\ Row(i, j, ClosedBy(u)) = ClosedBy(u)
<1>1. u # NoUser
  BY SessionAssumption, Zenon
<1>2. /\ Row(i, j, Free).completed = FALSE
      /\ Row(i, j, Free).by = NoUser
      /\ Row(i, j, Free).owner \in {i.owner, NoUser}
  BY Zenon DEF Row, Column, Free, Current, Item
<1>3. /\ Row(i, j, ClosedBy(u)).completed = TRUE
      /\ Row(i, j, ClosedBy(u)).by = u
      /\ Row(i, j, ClosedBy(u)).owner = u
  BY <1>1, Zenon DEF Row, Column, ClosedBy, Current, Item
<1>4. /\ Row(i, j, Free) \in Item
      /\ Row(i, j, ClosedBy(u)) \in Item
      /\ Free \in Item
      /\ ClosedBy(u) \in Item
  <2>1. Free \in Item /\ ClosedBy(u) \in Item
    BY Zenon DEF Free, ClosedBy, Item
  <2> QED BY <2>1, RowType, Zenon
<1>5. ASSUME NEW a \in Item, NEW b \in Item, a.completed = b.completed,
             a.owner = b.owner, a.by = b.by
      PROVE  a = b
  BY <1>5 DEF Item
<1>6. Row(i, j, Free).owner = i.owner => Row(i, j, Free) = i
  BY <1>2, <1>4, <1>5 DEF Item
<1>7. Row(i, j, Free).owner = NoUser => Row(i, j, Free) = Free
  BY <1>2, <1>4, <1>5, Zenon DEF Free
<1>8. Row(i, j, ClosedBy(u)) = ClosedBy(u)
  BY <1>3, <1>4, <1>5, Zenon DEF ClosedBy
<1> QED
  BY <1>2, <1>6, <1>7, <1>8, Zenon

\* A commit of a completion is the contract's Complete.
LEMMA CompleteRefines ==
    ASSUME WInv, NEW w \in Sessions, CommitComplete(w)
    PROVE  /\ Contract!Complete(user[w], task[w])
           /\ item' \in [Manual -> Item]
<1> USE DEF WInv, LInv
<1>1. /\ w \in Writers
      /\ task[w] \in Manual /\ user[w] \in Users
      /\ ~item[task[w]].completed /\ item[task[w]].owner = user[w]
      /\ seenStatus[w] = status /\ seenDone[w] = done
      /\ \A x \in fetched[w] : Current(seenItem[w][x], item[x])
  BY Zenon DEF CommitComplete, WritersWrite, Writing, ReadsAreCurrent, Completing,
         TypeOK
<1>2. status = "live" /\ task[w] \notin done
  BY <1>1, OpenMeansLive, Zenon
<1>3. seenStatus[w] \notin Ended /\ stage[w] # "closing"
  BY <1>1, <1>2, Zenon DEF Ended, CommitComplete
<1>4. /\ fetched[w] = Manual
      /\ DoneHere(w) = done \cup {task[w]}
  BY <1>1, <1>3, Zenon DEF CommitComplete, Flushed, DoneHere
<1>5. /\ done' = done \cup {task[w]}
      /\ status' = IF done' = Manual THEN "complete" ELSE "live"
  BY <1>1, <1>2, <1>3, <1>4, Zenon DEF CommitComplete, Column
<1>6. item'[task[w]] = ClosedBy(user[w])
  <2>1. item'[task[w]] = Row(item[task[w]], seenItem[w][task[w]],
                             ClosedBy(user[w]))
    BY <1>1, <1>3, Zenon DEF CommitComplete, Written, Assigned
  <2> QED BY <1>1, <1>4, <2>1, FlushedRow DEF OpenIsUnsigned, TypeOK
<1>7. ASSUME NEW x \in Manual \ {task[w]}
      PROVE  item'[x] = item[x] \/ (~item[x].completed /\ item'[x] = Free)
  <2>1. CASE x \in done
    <3>1. item[x].completed /\ seenItem[w][x].completed
      BY <1>1, <1>2, <1>4, <2>1, Zenon DEF WorkAgrees, Current
    <3>2. x \notin Written(w)
      BY <1>3, <1>4, <1>7, <2>1, <3>1, Zenon DEF Written
    <3> QED BY <3>2, Zenon DEF CommitComplete
  <2>2. CASE x \notin done
    <3>1. ~item[x].completed
      BY <1>2, <2>2, Zenon DEF WorkAgrees
    <3>2. item'[x] = Row(item[x], seenItem[w][x], Free)
      BY <1>3, <1>4, <1>7, <2>2, Zenon DEF CommitComplete, Written, Assigned
    <3> QED BY <1>1, <1>4, <3>1, <3>2, FlushedRow DEF OpenIsUnsigned, TypeOK
  <2> QED BY <2>1, <2>2, Zenon
<1>8. item' \in [Manual -> Item]
  BY RowType, AssignedType DEF CommitComplete, TypeOK
<1> QED
  BY Zenon, <1>1, <1>2, <1>5, <1>6, <1>7, <1>8
  DEF Contract!Complete, Contract!ClosedBy, Contract!Free, ClosedBy, Free,
      Contract!Item, Item

\* A commit of a termination is the contract's Terminate.
LEMMA TerminateRefines ==
    ASSUME WInv, NEW w \in Sessions, CommitTerminate(w)
    PROVE  Contract!Terminate(user[w])
<1> USE DEF WInv, LInv
<1>1. /\ w \in Writers /\ user[w] \in Users
      /\ status = "live" /\ seenStatus[w] = "live"
      /\ \A x \in Manual : Current(seenItem[w][x], item[x])
  BY Zenon DEF CommitTerminate, WritersWrite, Writing, ReadsAreCurrent, TypeOK
<1>2. Written(w) = {x \in Manual : ~item[x].completed}
  BY <1>1, Zenon DEF Written, CommitTerminate, Current
<1>3. ASSUME NEW x \in Manual
      PROVE  item'[x] = IF item[x].completed THEN item[x]
                        ELSE ClosedBy(user[w])
  BY <1>1, <1>2, FlushedRow, Zenon DEF CommitTerminate, OpenIsUnsigned, TypeOK
<1>4. item' = [m \in Manual |-> IF item[m].completed THEN item[m]
                                ELSE ClosedBy(user[w])]
  BY <1>3, Zenon DEF CommitTerminate
<1> QED
  BY Zenon, <1>1, <1>4
  DEF CommitTerminate, Column, Contract!Terminate, Contract!ClosedBy, ClosedBy

\* The contract keeps the tables in agreement.
LEMMA ContractAgrees ==
    ASSUME TypeOK, WorkAgrees, OpenIsUnsigned,
           NEW u \in Users, NEW m \in Manual,
           Contract!Claim(u, m) \/ Contract!Complete(u, m)
               \/ Contract!Terminate(u)
    PROVE  WorkAgrees' /\ OpenIsUnsigned'
<1>1. CASE Contract!Claim(u, m)
  BY <1>1 DEF Contract!Claim, WorkAgrees, OpenIsUnsigned, TypeOK, Item
<1>2. CASE Contract!Complete(u, m)
  <2>1. /\ status = "live" /\ done' = done \cup {m}
        /\ item'[m].completed
        /\ status' = IF done' = Manual THEN "complete" ELSE "live"
    BY <1>2 DEF Contract!Complete, Contract!ClosedBy
  <2>2. ASSUME NEW x \in Manual \ {m}
        PROVE  /\ item'[x].completed <=> item[x].completed
               /\ ~item'[x].completed => item'[x].by = NoUser
    BY <1>2, <2>2 DEF Contract!Complete, Contract!Free, OpenIsUnsigned
  <2>3. \A x \in Manual : item'[x].completed <=> x \in done'
    BY <2>1, <2>2, Zenon DEF WorkAgrees
  <2> QED BY <2>1, <2>2, <2>3, Zenon DEF WorkAgrees, OpenIsUnsigned, Ended
<1>3. CASE Contract!Terminate(u)
  BY <1>3, Zenon DEF Contract!Terminate, Contract!ClosedBy, WorkAgrees,
              OpenIsUnsigned, TypeOK
<1> QED
  BY <1>1, <1>2, <1>3, Zenon

\* A step of w leaves what the other sessions have read alone.
LEMMA ReadsAreLocal ==
    ASSUME TypeOK, NEW w \in Sessions, Step(w)
    PROVE  \A v \in Sessions \ {w} :
              /\ seenStatus'[v] = seenStatus[v]
              /\ seenDone'[v] = seenDone[v]
              /\ seenItem'[v] = seenItem[v]
              /\ fetched'[v] = fetched[v]
<1> USE DEF TypeOK
<1>1. \/ UNCHANGED mem
      \/ \E u \in Users, m \in Manual : BeginClaim(w, u, m) \/ BeginComplete(w, u, m)
      \/ \E u \in Users : BeginTerminate(w, u)
      \/ \E x \in Manual : FetchItem(w, x)
      \/ LoadInstance(w) \/ LoadWorkflow(w) \/ LoadItems(w)
  BY Zenon DEF Step, UpdateClaim, CommitClaim, FlushInstance, FlushOwn, FlushItem,
         CommitComplete, FlushTerminated, CommitTerminate, Abort
<1>2. CASE UNCHANGED mem
  BY <1>2, Zenon DEF mem
<1>3. ASSUME NEW u \in Users, NEW m \in Manual,
             BeginClaim(w, u, m) \/ BeginComplete(w, u, m)
      PROVE  \A v \in Sessions \ {w} :
                /\ seenStatus'[v] = seenStatus[v] /\ seenDone'[v] = seenDone[v]
                /\ seenItem'[v] = seenItem[v] /\ fetched'[v] = fetched[v]
  BY <1>3, Zenon DEF BeginClaim, BeginComplete
<1>4. CASE \E u \in Users : BeginTerminate(w, u)
  BY <1>4, Zenon DEF BeginTerminate
<1>5. CASE \E x \in Manual : FetchItem(w, x)
  BY <1>5, Zenon DEF FetchItem
<1>6. CASE LoadInstance(w) \/ LoadWorkflow(w)
  BY <1>6, Zenon DEF LoadInstance, LoadWorkflow
<1>7. CASE LoadItems(w)
  BY <1>7, Zenon DEF LoadItems
<1> QED BY <1>1, <1>2, <1>3, <1>4, <1>5, <1>6, <1>7, Zenon

\* A step of one session, while no other session writes, preserves WInv.
LEMMA StepOneWriter ==
    ASSUME OneWriter, WInv, NEW w \in Sessions, Step(w)
    PROVE  WInv'
<1> USE DEF WInv
<1>0. LInv' /\ TypeOK /\ user[w] \in Users /\ task[w] \in Manual
  BY StepLocked, Zenon DEF LInv, TypeOK
<1>1. CASE CommitComplete(w) \/ CommitTerminate(w)
  <2>1. WorkAgrees' /\ OpenIsUnsigned'
    BY <1>0, <1>1, CompleteRefines, TerminateRefines, ContractAgrees, Zenon
  <2>2. w \in Writers /\ stage'[w] = "idle"
    <3>1. stage[w] \in {"persist", "closing"} /\ End(w)
      BY <1>1, Zenon DEF CommitComplete, CommitTerminate
    <3>2. w \in Writers
      BY <3>1, Zenon DEF LInv, WritersWrite, Writing
    <3>3. stage' = [stage EXCEPT ![w] = "idle"] /\ w \in DOMAIN stage
      BY <1>0, <3>1, EndType, Zenon DEF TypeOK
    <3> QED BY <3>2, <3>3, Zenon
  <2>3. ReadsAreCurrent'
    BY <2>2, Zenon DEF OneWriter, ReadsAreCurrent, Completing
  <2> QED BY <1>0, <2>1, <2>3, Zenon
<1>2. CASE CommitClaim(w)
  <2>1. WorkAgrees' /\ OpenIsUnsigned'
    BY <1>0, <1>2, ClaimRefines, ContractAgrees, Zenon
  <2>2. /\ item[task[w]].owner \in {NoUser, user[w]}
        /\ \A x \in Manual : /\ item'[x].completed = item[x].completed
                             /\ item'[x].by = item[x].by
                             /\ x # task[w] => item'[x].owner = item[x].owner
        /\ item'[task[w]].owner = user[w]
        /\ UNCHANGED <<status, done, mem>>
    BY <1>0, <1>2
    DEF CommitClaim, LInv, ClaimHolds, Claimable, TypeOK, Item
  <2>3. ASSUME NEW j \in Item, NEW x \in Manual, Current(j, item[x])
        PROVE  Current(j, item'[x])
    BY <2>2, <2>3, Zenon DEF Current
  <2>4. stage' = [stage EXCEPT ![w] = "idle"]
    BY <1>0, <1>2, EndType, Zenon DEF CommitClaim
  <2>5. ASSUME NEW v \in Writers, stage'[v] # "idle"
        PROVE  v # w /\ stage'[v] = stage[v] /\ v \in Sessions
    BY <1>0, <2>4, <2>5, SessionAssumption, Zenon DEF TypeOK
  <2>6. ReadsAreCurrent'
    <3> SUFFICES ASSUME NEW v \in Writers, stage'[v] # "idle"
                 PROVE  ReadsAreCurrent!(v)'
      BY Zenon DEF ReadsAreCurrent, Completing
    <3>1. v # w /\ stage'[v] = stage[v] /\ v \in Sessions
      BY <2>5, Zenon
    <3>2. stage[v] \in Completing =>
             ~item'[task[v]].completed /\ item'[task[v]].owner = user[v]
      <4> SUFFICES ASSUME stage[v] \in Completing
                   PROVE  ~item'[task[v]].completed /\ item'[task[v]].owner = user[v]
        BY Zenon
      <4>1. task[v] \in Manual /\ user[v] \in Users
        BY <1>0, <3>1, Zenon DEF TypeOK
      <4>2. ~item[task[v]].completed /\ item[task[v]].owner = user[v]
        BY Zenon DEF ReadsAreCurrent
      <4>3. CASE task[v] # task[w]
        BY <2>2, <4>1, <4>2, <4>3, Zenon
      <4>4. CASE task[v] = task[w]
        <5>1. user[v] = user[w]
          BY <2>2, <4>1, <4>2, <4>4, SessionAssumption, Zenon
        <5> QED BY <2>2, <4>1, <4>2, <4>4, <5>1, Zenon
      <4> QED BY <4>3, <4>4, Zenon
    <3>3. stage[v] \in Completing \cup {"close", "closing"} =>
             \A x \in fetched[v] : Current(seenItem[v][x], item'[x])
      BY <1>0, <2>3, <3>1, Zenon DEF ReadsAreCurrent, TypeOK
    <3> QED BY <2>2, <3>1, <3>2, <3>3, Zenon DEF ReadsAreCurrent, mem
  <2> QED BY <1>0, <2>1, <2>6, Zenon
<1>3. CASE UNCHANGED db
  <2>1. WorkAgrees' /\ OpenIsUnsigned'
    BY <1>3, Zenon DEF db, WorkAgrees, OpenIsUnsigned
  <2>2. ASSUME NEW v \in Writers, v # w
        PROVE  ReadsAreCurrent!(v)'
    <3>1. v \in Sessions \ {w}
      BY <2>2, SessionAssumption, Zenon
    <3>2. /\ stage'[v] = stage[v]
          /\ user'[v] = user[v]
          /\ task'[v] = task[v]
      BY <3>1, StepIsLocal, Zenon
    <3>3. /\ seenStatus'[v] = seenStatus[v]
          /\ seenDone'[v] = seenDone[v]
          /\ seenItem'[v] = seenItem[v]
          /\ fetched'[v] = fetched[v]
      BY <1>0, <3>1, ReadsAreLocal, Zenon
    <3>4. status' = status /\ done' = done /\ item' = item
      BY <1>3, Zenon DEF db
    <3>5. ReadsAreCurrent!(v)
      BY <2>2, Zenon DEF ReadsAreCurrent
    <3> QED BY <3>2, <3>3, <3>4, <3>5, Zenon
  <2>3. ASSUME w \in Writers
        PROVE  ReadsAreCurrent!(w)'
    <3> USE <1>0, <1>3, <2>3 DEF db, ReadsAreCurrent, Completing
    <3>1. ASSUME NEW u \in Users, NEW m \in Manual, BeginComplete(w, u, m)
          PROVE  ReadsAreCurrent!(w)'
      <4>1. /\ stage'[w] = "complete" /\ task'[w] = m /\ user'[w] = u
            /\ fetched'[w] = {m} /\ seenItem'[w][m] = item[m]
        BY <3>1, Zenon DEF BeginComplete, Goto, TypeOK
      <4>2. item' = item /\ ~item[m].completed /\ item[m].owner = u
        BY <3>1, Zenon DEF BeginComplete
      <4>3. Current(seenItem'[w][m], item'[m])
        BY <4>1, <4>2, Zenon DEF Current
      <4> QED BY <4>1, <4>2, <4>3, Zenon
    <3>2. CASE LoadInstance(w)
      BY <3>2, Zenon DEF LoadInstance, Goto, TypeOK
    <3>3. CASE LoadWorkflow(w)
      BY <3>3, Zenon DEF LoadWorkflow, Goto, TypeOK
    <3>4. CASE FlushInstance(w) \/ FlushOwn(w)
      BY <3>4, Zenon DEF FlushInstance, FlushOwn, Goto, TypeOK, mem
    <3>5. ASSUME NEW x \in Manual, FetchItem(w, x)
          PROVE  ReadsAreCurrent!(w)'
      <4>1. /\ item' = item /\ stage' = stage /\ status' = status /\ done' = done
            /\ task' = task /\ user' = user
            /\ seenStatus' = seenStatus /\ seenDone' = seenDone
            /\ stage[w] = "persist"
        BY <3>5, Zenon DEF FetchItem
      <4>2. /\ fetched'[w] = fetched[w] \cup {x}
            /\ seenItem'[w][x] = item[x]
            /\ \A y \in fetched[w] : y # x => seenItem'[w][y] = seenItem[w][y]
        BY <3>5, Zenon DEF FetchItem, TypeOK
      <4>3. Current(seenItem'[w][x], item'[x])
        BY <4>1, <4>2, Zenon DEF Current
      <4>4. \A y \in fetched[w] : y # x => Current(seenItem'[w][y], item'[y])
        BY <4>1, <4>2, Zenon
      <4> QED BY <4>1, <4>2, <4>3, <4>4, Zenon
    <3>6. ASSUME NEW x \in Manual, FlushItem(w, x)
          PROVE  ReadsAreCurrent!(w)'
      BY <3>6, Zenon DEF FlushItem, mem
    <3>7. ASSUME NEW u \in Users, BeginTerminate(w, u)
          PROVE  ReadsAreCurrent!(w)'
      BY <3>7, Zenon DEF BeginTerminate, Goto, TypeOK, Ended
    <3>8. CASE LoadItems(w)
      BY <3>8 DEF LoadItems, Goto, TypeOK, Current
    <3>9. CASE FlushTerminated(w)
      BY <3>9, Zenon DEF FlushTerminated, Goto, TypeOK, mem
    <3>10. CASE stage'[w] \in {"idle", "claim", "claimed"}
      BY <3>10, Zenon
    <3> QED
      BY Zenon, <1>1, <1>2, <3>1, <3>2, <3>3, <3>4, <3>5, <3>6, <3>7, <3>8, <3>9,
         <3>10
      DEF Step, TypeOK, Goto, End, BeginClaim, UpdateClaim, CommitClaim,
          CommitComplete, CommitTerminate, Abort
  <2> QED BY <1>0, <2>1, <2>2, <2>3, Zenon DEF ReadsAreCurrent
<1> QED
  BY Zenon, <1>1, <1>2, <1>3
  DEF Step, BeginClaim, UpdateClaim, BeginComplete, LoadInstance,
      LoadWorkflow, FlushInstance, FlushOwn, FetchItem, FlushItem,
      BeginTerminate, LoadItems, FlushTerminated, Abort

\* With one writer the reads of a transaction stay current until it commits.
THEOREM OneWriterInvariance ==
    ASSUME OneWriter
    PROVE  Spec => []WInv
<1>1. Init => WInv
  <2> SUFFICES ASSUME Init PROVE WInv
    BY Zenon
  <2> QED BY Zenon, InitLocked, SessionAssumption
          DEF Init, WInv, WorkAgrees, OpenIsUnsigned, ReadsAreCurrent, Ended,
              Free, Completing
<1>2. WInv /\ UNCHANGED vars => WInv'
  <2> SUFFICES ASSUME WInv, UNCHANGED vars PROVE WInv'
    BY Zenon
  <2> USE DEF vars, db, mem
  <2>1. TypeOK' /\ ClaimHolds'
    BY Zenon DEF WInv, LInv, TypeOK, ClaimHolds, Claimable
  <2>2. WritersWrite' /\ OwnIsRead'
    BY Zenon DEF WInv, LInv, WritersWrite, OwnIsRead
  <2>3. WorkAgrees' /\ OpenIsUnsigned'
    BY Zenon DEF WInv, WorkAgrees, OpenIsUnsigned
  <2>4. ReadsAreCurrent'
    BY Zenon DEF WInv, ReadsAreCurrent
  <2> QED BY <2>1, <2>2, <2>3, <2>4, Zenon DEF WInv, LInv
<1>3. WInv /\ [Next]_vars => WInv'
  BY <1>2, StepOneWriter, Zenon DEF Next
<1> QED
  BY <1>1, <1>3, PTL DEF Spec

\* With one writer, the workflow, the work items and the status agree.
THEOREM TablesAgree ==
    ASSUME OneWriter
    PROVE  Spec => []WorkAgrees
BY OneWriterInvariance, PTL DEF WInv

\* With one writer, concurrent claims included, every commit is a step of the
\* contract and nothing else is visible.
THEOREM Implements ==
    ASSUME OneWriter
    PROVE  Spec => ImplementsContract
<1>1. Init => Contract!Init
  BY Zenon DEF Init, Contract!Init, Free, Contract!Free
<1>2. ASSUME WInv, NEW w \in Sessions, Step(w)
      PROVE  Contract!Next \/ UNCHANGED db
  <2>1. user[w] \in Users /\ task[w] \in Manual
    BY <1>2, Zenon DEF WInv, LInv, TypeOK
  <2>2. CASE CommitClaim(w)
    BY <1>2, <2>1, <2>2, ClaimRefines, Zenon DEF WInv, Contract!Next
  <2>3. CASE CommitComplete(w)
    BY <1>2, <2>1, <2>3, CompleteRefines, Zenon DEF Contract!Next
  <2>4. CASE CommitTerminate(w)
    BY <1>2, <2>1, <2>4, TerminateRefines, Zenon DEF Contract!Next
  <2> QED
    BY Zenon, <1>2, <2>2, <2>3, <2>4
    DEF Step, BeginClaim, UpdateClaim, BeginComplete, LoadInstance,
        LoadWorkflow, FlushInstance, FlushOwn, FetchItem, FlushItem,
        BeginTerminate, LoadItems, FlushTerminated, Abort
<1>3. WInv /\ [Next]_vars => [Contract!Next]_(Contract!vars)
  BY <1>2, Zenon DEF Next, vars, db, Contract!vars
<1> QED
  BY <1>1, <1>3, OneWriterInvariance, PTL
  DEF Spec, ImplementsContract, Contract!Spec

-----------------------------------------------------------------------------
(***************************************************************************)
(* Granters: concurrent calls of _get_or_create leave one row per key and  *)
(* never end in its RuntimeError, and decisions follow the grants.         *)
(***************************************************************************)

\* The sessions' state is total, so that a step of one leaves the others'.
Local ==
    /\ phase = [w \in Granters |-> phase[w]]
    /\ place = [w \in Granters |-> place[w]]
    /\ target = [w \in Granters |-> target[w]]

\* Between the INSERT and the second SELECT the row stays visible.
RowIsThere == \A w \in Granters : phase[w] = "reload" => Visible(w, Key(w)) # {}

\* The inductive invariant: ReloadFinds holds as the row that a session is
\* about to reload is its own or committed, and such a row stays.
GetOrCreateInv == Local /\ OneRowPerKey /\ RowIsThere /\ ReloadFinds

\* A step that keeps a session's place and target keeps its key.
LEMMA KeyIsLocal ==
    ASSUME NEW w \in Granters, place'[w] = place[w], target'[w] = target[w]
    PROVE  Key(w)' = Key(w)
BY Zenon DEF Key, Plan, Program, GrantKeys, RoleProgram

\* Finding a row ends in the state of the next row or of an update, for the
\* session that has found it alone.
LEMMA ObtainIsLocal ==
    ASSUME Local, NEW w \in Granters, NEW r, Obtain(w, r)
    PROVE  /\ Local'
           /\ phase'[w] \in {"select", "update"}
           /\ \A v \in Granters \ {w} : /\ phase'[v] = phase[v]
                                        /\ place'[v] = place[v]
                                        /\ target'[v] = target[v]
<1>1. Local' /\ \A v \in Granters \ {w} : target'[v] = target[v]
  BY Zenon DEF Local, Obtain, Proceed
<1>2. QED
  BY <1>1, Zenon DEF Local, Obtain, Proceed

\* A step of one session that keeps the rows, and does not leave it before a
\* reload, preserves the invariant.
LEMMA KeepsRows ==
    ASSUME GetOrCreateInv, NEW w \in Granters, rows' = rows, Local',
           phase'[w] \notin {"reload", "error"},
           \A v \in Granters \ {w} : /\ phase'[v] = phase[v]
                                     /\ place'[v] = place[v]
                                     /\ target'[v] = target[v]
    PROVE  GetOrCreateInv'
<1>1. OneRowPerKey' /\ ReloadFinds'
  BY Zenon DEF GetOrCreateInv, OneRowPerKey, ReloadFinds, Arbitrated
<1>2. ASSUME NEW v \in Granters, phase'[v] = "reload"
      PROVE  (Visible(v, Key(v)) # {})'
  <2>1. v # w /\ phase[v] = "reload"
    BY <1>2, Zenon
  <2>2. Key(v)' = Key(v)
    BY <2>1, KeyIsLocal, Zenon
  <2>3. QED
    BY <2>1, <2>2, Zenon DEF GetOrCreateInv, RowIsThere, Visible, RowsOf
<1>3. QED
  BY <1>1, <1>2, Zenon DEF GetOrCreateInv, RowIsThere

\* Select preserves the invariant.
LEMMA SelectPreserves ==
    ASSUME GetOrCreateInv, NEW w \in Granters, Select(w)
    PROVE  GetOrCreateInv'
<1>1. CASE Visible(w, Key(w)) = {}
  BY <1>1, KeepsRows, Zenon DEF Select, Proceed, GetOrCreateInv, Local
<1>2. CASE Visible(w, Key(w)) # {}
  <2>1. PICK r \in Visible(w, Key(w)) : Obtain(w, r)
    BY <1>2, Zenon DEF Select
  <2>2. QED
    BY <2>1, ObtainIsLocal, KeepsRows, Zenon DEF Select, GetOrCreateInv
<1>3. QED
  BY <1>1, <1>2, Zenon

\* Reload preserves the invariant: it finds the row.
LEMMA ReloadPreserves ==
    ASSUME GetOrCreateInv, NEW w \in Granters, Reload(w)
    PROVE  GetOrCreateInv'
<1>1. Visible(w, Key(w)) # {}
  BY Zenon DEF GetOrCreateInv, RowIsThere, Reload
<1>2. PICK r \in Visible(w, Key(w)) : Obtain(w, r)
  BY <1>1, Zenon DEF Reload
<1>3. QED
  BY <1>2, ObtainIsLocal, KeepsRows, Zenon DEF Reload, GetOrCreateInv

\* UpdateGrant preserves the invariant.
LEMMA UpdateGrantPreserves ==
    ASSUME GetOrCreateInv, NEW w \in Granters, UpdateGrant(w)
    PROVE  GetOrCreateInv'
<1>1. Local' /\ phase'[w] = "select"
  BY Zenon DEF UpdateGrant, Proceed, GetOrCreateInv, Local
<1>2. QED
  BY <1>1, KeepsRows, Zenon DEF UpdateGrant, Proceed, GetOrCreateInv, Local

\* Insert preserves the invariant: it adds a row only where the constraint
\* finds none, and the row it gives way to is committed.
LEMMA InsertPreserves ==
    ASSUME GetOrCreateInv, NEW w \in Granters, Insert(w)
    PROVE  GetOrCreateInv'
<1> DEFINE k == Key(w)
<1>1. Local' /\ \A v \in Granters : Key(v)' = Key(v)
  <2>1. Local' /\ \A v \in Granters : place'[v] = place[v] /\ target'[v] = target[v]
    BY Zenon DEF Insert, Proceed, GetOrCreateInv, Local
  <2>2. QED
    BY <2>1, KeyIsLocal, Zenon
<1>2. \A v \in Granters : phase'[v] = IF v = w THEN "reload" ELSE phase[v]
  BY Zenon DEF Insert, Proceed, GetOrCreateInv, Local
<1>3. NewRow(w, k).key = k /\ NewRow(w, k).by = w
  BY Zenon DEF NewRow
<1>4. \/ rows' = rows /\ RowsOf(k) # {} /\ \A r \in RowsOf(k) : r.by = Committed
      \/ rows' = rows \cup {NewRow(w, k)} /\ (Arbitrated(k) => RowsOf(k) = {})
  BY Zenon DEF Insert
<1> HIDE DEF k
<1>5. OneRowPerKey'
  BY <1>3, <1>4, Zenon DEF GetOrCreateInv, OneRowPerKey, RowsOf, Arbitrated
<1>6. ReloadFinds'
  BY <1>2, Zenon DEF GetOrCreateInv, ReloadFinds
<1>7. ASSUME NEW v \in Granters, phase'[v] = "reload"
      PROVE  (Visible(v, Key(v)) # {})'
  <2>1. CASE v = w
    <3>1. \E r \in rows' : r.key = k /\ r.by \in {Committed, w}
      BY <1>3, <1>4, Zenon DEF RowsOf
    <3>2. QED
      BY <2>1, <3>1, <1>1, Zenon DEF Visible, RowsOf, k
  <2>2. CASE v # w
    <3>1. Visible(v, Key(v)) # {} /\ rows \subseteq rows'
      BY <1>2, <1>4, <1>7, <2>2, Zenon DEF GetOrCreateInv, RowIsThere
    <3>2. QED
      BY <3>1, <1>1, Zenon DEF Visible, RowsOf
  <2>3. QED
    BY <2>1, <2>2, Zenon
<1>8. QED
  BY <1>1, <1>5, <1>6, <1>7, Zenon DEF GetOrCreateInv, RowIsThere

\* Commit preserves the invariant: rows keep their keys and stay visible.
LEMMA CommitPreserves ==
    ASSUME GetOrCreateInv, NEW w \in Granters, Commit(w)
    PROVE  GetOrCreateInv'
<1> DEFINE Image(r) == [key |-> r.key, id |-> r.id, grant |-> Seen(w, r),
                        by |-> IF r.by = w THEN Committed ELSE r.by]
<1>1. Local' /\ \A v \in Granters : Key(v)' = Key(v)
  <2>1. Local' /\ \A v \in Granters : place'[v] = place[v] /\ target'[v] = target[v]
    BY Zenon DEF Commit, Proceed, GetOrCreateInv, Local
  <2>2. QED
    BY <2>1, KeyIsLocal, Zenon
<1>2. \A v \in Granters : phase'[v] = IF v = w THEN "done" ELSE phase[v]
  BY Zenon DEF Commit, Proceed, GetOrCreateInv, Local
<1>3. rows' = {Image(r) : r \in rows}
  BY Zenon DEF Commit
<1>4. \A r \in rows : /\ Image(r).key = r.key
                      /\ Image(r).by = IF r.by = w THEN Committed ELSE r.by
  BY Zenon
<1> HIDE DEF Image
<1>5. OneRowPerKey'
  <2>1. SUFFICES ASSUME NEW r \in rows', NEW s \in rows', r.key = s.key,
                        Arbitrated(r.key)
                 PROVE  r = s
    BY Zenon DEF OneRowPerKey, Arbitrated
  <2>2. PICK r0 \in rows : r = Image(r0)
    BY <1>3, Zenon
  <2>3. PICK s0 \in rows : s = Image(s0)
    BY <1>3, Zenon
  <2>4. r0 = s0
    BY <1>4, <2>1, <2>2, <2>3, Zenon DEF GetOrCreateInv, OneRowPerKey
  <2>5. QED
    BY <2>2, <2>3, <2>4, Zenon
<1>6. ReloadFinds'
  BY <1>2, Zenon DEF GetOrCreateInv, ReloadFinds
<1>7. ASSUME NEW v \in Granters, phase'[v] = "reload"
      PROVE  (Visible(v, Key(v)) # {})'
  <2>1. v # w /\ phase[v] = "reload"
    BY <1>2, <1>7, Zenon
  <2>2. PICK r \in rows : r.key = Key(v) /\ r.by \in {Committed, v}
    BY <2>1, Zenon DEF GetOrCreateInv, RowIsThere, Visible, RowsOf
  <2>3. Image(r) \in rows' /\ Image(r).key = Key(v) /\ Image(r).by \in {Committed, v}
    BY <1>3, <1>4, <2>1, <2>2, Zenon
  <2>4. QED
    BY <2>3, <1>1, Zenon DEF Visible, RowsOf
<1>8. QED
  BY <1>1, <1>5, <1>6, <1>7, Zenon DEF GetOrCreateInv, RowIsThere

\* Rollback preserves the invariant: it removes rows that only its own session
\* has seen.
LEMMA RollbackPreserves ==
    ASSUME GetOrCreateInv, NEW w \in Granters, Rollback(w)
    PROVE  GetOrCreateInv'
<1>1. Local' /\ phase'[w] = "select"
  BY Zenon DEF Rollback, Proceed, GetOrCreateInv, Local
<1>2. \A v \in Granters \ {w} : /\ phase'[v] = phase[v]
                                /\ place'[v] = place[v]
                                /\ target'[v] = target[v]
  BY Zenon DEF Rollback, Proceed, GetOrCreateInv, Local
<1>3. OneRowPerKey'
  BY Zenon DEF Rollback, GetOrCreateInv, OneRowPerKey, Arbitrated
<1>4. ReloadFinds'
  BY <1>1, <1>2, Zenon DEF GetOrCreateInv, ReloadFinds
<1>5. ASSUME NEW v \in Granters, phase'[v] = "reload"
      PROVE  (Visible(v, Key(v)) # {})'
  <2>1. v # w /\ phase[v] = "reload" /\ Key(v)' = Key(v)
    BY <1>1, <1>2, <1>5, KeyIsLocal, Zenon
  <2>2. PICK r \in rows : r.key = Key(v) /\ r.by \in {Committed, v}
    BY <2>1, Zenon DEF GetOrCreateInv, RowIsThere, Visible, RowsOf
  <2>3. r \in rows'
    BY <2>1, <2>2, CommittedAssumption, Zenon DEF Rollback
  <2>4. QED
    BY <2>1, <2>2, <2>3, Zenon DEF Visible, RowsOf
<1>6. QED
  BY <1>1, <1>3, <1>4, <1>5, Zenon DEF GetOrCreateInv, RowIsThere

\* Every step of every session preserves the invariant.
LEMMA GetOrCreateInvariance == GrantSpec => []GetOrCreateInv
<1>1. GrantInit => GetOrCreateInv
  BY Zenon DEF GrantInit, GetOrCreateInv, Local, OneRowPerKey, RowIsThere, ReloadFinds
<1>2. GetOrCreateInv /\ [GrantNext]_grantVars => GetOrCreateInv'
  <2>1. SUFFICES ASSUME GetOrCreateInv, [GrantNext]_grantVars PROVE GetOrCreateInv'
    BY Zenon
  <2>2. ASSUME NEW w \in Granters, Statement(w) \/ Rollback(w)
        PROVE  GetOrCreateInv'
    BY Zenon, <2>1, <2>2, SelectPreserves, InsertPreserves, ReloadPreserves,
       UpdateGrantPreserves, CommitPreserves, RollbackPreserves DEF Statement
  <2>3. CASE UNCHANGED grantVars
    <3>1. \A v \in Granters : Key(v)' = Key(v)
      BY <2>3, KeyIsLocal, Zenon DEF grantVars
    <3>2. QED
      BY <2>1, <2>3, <3>1, Zenon DEF grantVars, GetOrCreateInv, Local, OneRowPerKey,
         Arbitrated, RowIsThere, ReloadFinds, Visible, RowsOf
  <2>4. QED
    BY <2>1, <2>2, <2>3, Zenon DEF GrantNext
<1>3. QED
  BY <1>1, <1>2, PTL DEF GrantSpec

\* Whatever the sessions call and however their statements interleave, the
\* permission tables have one row for each key that a constraint covers.
THEOREM RowsAreUnique == GrantSpec => []OneRowPerKey
<1>1. GetOrCreateInv => OneRowPerKey
  BY Zenon DEF GetOrCreateInv
<1>2. QED
  BY <1>1, GetOrCreateInvariance, PTL

\* Whatever the sessions call, and whichever of them roll back, the second
\* SELECT of _get_or_create finds a row.
THEOREM ReloadAlwaysFinds == GrantSpec => []ReloadFinds
<1>1. GetOrCreateInv => ReloadFinds
  BY Zenon DEF GetOrCreateInv
<1>2. QED
  BY <1>1, GetOrCreateInvariance, PTL

-----------------------------------------------------------------------------
(***************************************************************************)
(* What the programs of the calls contain.                                 *)
(***************************************************************************)

IsRole(c) == c.name = "ensure_v1_role"

GroupOf(c) == <<c.tenant, c.role>>

Commands(c) == RoleCommands[c.role]

\* The rows of a role's commands.
CommandKeys(c) ==
    [n \in 1 .. 3 * Len(Commands(c)) |->
        LET d == Commands(c)[(n + 2) \div 3] IN
        GrantKeys(GroupOf(c), d, Permission(d), "tenant", c.tenant)[((n - 1) % 3) + 1]]

MemberKeys(c) == [n \in DOMAIN c.users |-> <<"member", c.users[n], GroupOf(c)>>]

\* Roles have sequences of commands, none of which needs the permission "all".
LEMMA RoleCommandsType ==
    \A role \in DOMAIN RoleCommands :
        /\ Len(RoleCommands[role]) \in Nat
        /\ DOMAIN RoleCommands[role] = 1 .. Len(RoleCommands[role])
        /\ \A d \in Range(RoleCommands[role]) : Permission(d) # "all"
<1>1. DOMAIN RoleCommands = {"user", "manager", "admin"}
  BY DEF RoleCommands
<1>2. /\ Len(RoleCommands["user"]) \in Nat
      /\ DOMAIN RoleCommands["user"] = 1 .. Len(RoleCommands["user"])
      /\ \A d \in Range(RoleCommands["user"]) : Permission(d) # "all"
  BY DEF RoleCommands, Range, Permission
<1>3. /\ Len(RoleCommands["manager"]) \in Nat
      /\ DOMAIN RoleCommands["manager"] = 1 .. Len(RoleCommands["manager"])
      /\ \A d \in Range(RoleCommands["manager"]) : Permission(d) # "all"
  BY DEF RoleCommands, Range, Permission
<1>4. /\ Len(RoleCommands["admin"]) \in Nat
      /\ DOMAIN RoleCommands["admin"] = 1 .. Len(RoleCommands["admin"])
      /\ \A d \in Range(RoleCommands["admin"]) : Permission(d) # "all"
  BY DEF RoleCommands, Range, Permission
<1> QED
  BY <1>1, <1>2, <1>3, <1>4, Zenon

\* The rows of one command after the other.
LEMMA CommandKeysShape ==
    ASSUME NEW c, c.role \in DOMAIN RoleCommands
    PROVE  /\ DOMAIN CommandKeys(c) = 1 .. 3 * Len(Commands(c))
           /\ \A n \in DOMAIN CommandKeys(c) : \E d \in Range(Commands(c)) :
                 CommandKeys(c)[n] \in
                    {<<"principal", GroupOf(c)>>, <<"target", d, "tenant", c.tenant>>,
                     <<"assignment", GroupOf(c), Permission(d), d, "tenant", c.tenant>>}
           /\ \A d \in Range(Commands(c)) : \E n \in DOMAIN CommandKeys(c) :
                 CommandKeys(c)[n] =
                    <<"assignment", GroupOf(c), Permission(d), d, "tenant", c.tenant>>
<1> DEFINE L == Len(Commands(c))
           Keys(d) == GrantKeys(GroupOf(c), d, Permission(d), "tenant", c.tenant)
<1>1. L \in Nat /\ DOMAIN Commands(c) = 1 .. L
  BY RoleCommandsType, Zenon DEF Commands
<1>2. DOMAIN CommandKeys(c) = 1 .. 3 * L
  BY Zenon DEF CommandKeys
<1>3. \A n \in 1 .. 3 * L :
         CommandKeys(c)[n] = Keys(Commands(c)[(n + 2) \div 3])[((n - 1) % 3) + 1]
  BY Zenon DEF CommandKeys
<1>4. \A d : /\ Keys(d)[1] = <<"principal", GroupOf(c)>>
             /\ Keys(d)[2] = <<"target", d, "tenant", c.tenant>>
             /\ Keys(d)[3] = <<"assignment", GroupOf(c), Permission(d), d, "tenant", c.tenant>>
  BY DEF GrantKeys
<1> HIDE DEF L, Keys
<1>5. ASSUME NEW n \in 1 .. 3 * L
      PROVE  (n + 2) \div 3 \in 1 .. L /\ ((n - 1) % 3) + 1 \in {1, 2, 3}
  BY <1>1
<1>6. ASSUME NEW a \in 1 .. L
      PROVE  /\ 3 * a \in 1 .. 3 * L /\ (3 * a + 2) \div 3 = a
             /\ ((3 * a - 1) % 3) + 1 = 3
  BY <1>1
<1>7. ASSUME NEW n \in 1 .. 3 * L
      PROVE  \E d \in Range(Commands(c)) :
                CommandKeys(c)[n] \in
                   {<<"principal", GroupOf(c)>>, <<"target", d, "tenant", c.tenant>>,
                    <<"assignment", GroupOf(c), Permission(d), d, "tenant", c.tenant>>}
  <2> DEFINE a == (n + 2) \div 3
             b == ((n - 1) % 3) + 1
  <2>1. a \in 1 .. L /\ b \in {1, 2, 3} /\ CommandKeys(c)[n] = Keys(Commands(c)[a])[b]
    BY <1>3, <1>5, Zenon
  <2> HIDE DEF a, b
  <2>2. Commands(c)[a] \in Range(Commands(c))
    BY <1>1, <2>1, Zenon DEF Range
  <2> QED
    BY <1>4, <2>1, <2>2, Zenon
<1>8. ASSUME NEW d \in Range(Commands(c))
      PROVE  \E n \in 1 .. 3 * L : CommandKeys(c)[n] =
                <<"assignment", GroupOf(c), Permission(d), d, "tenant", c.tenant>>
  <2>1. PICK a \in 1 .. L : Commands(c)[a] = d
    BY <1>1, Zenon DEF Range
  <2> DEFINE n == 3 * a
  <2>2. n \in 1 .. 3 * L /\ (n + 2) \div 3 = a /\ ((n - 1) % 3) + 1 = 3
    BY <1>6, Zenon
  <2> HIDE DEF n
  <2>3. CommandKeys(c)[n] = Keys(d)[3]
    BY <1>3, <2>1, <2>2, Zenon
  <2> QED
    BY <1>4, <2>2, <2>3, Zenon
<1> QED
  BY <1>2, <1>7, <1>8, Zenon DEF L

\* The elements of a sequence in three parts.
InParts(p, x, a, b) ==
    /\ Len(p) = 1 + Len(a) + Len(b)
    /\ p[1] = x
    /\ \A n \in 1 .. Len(a) : p[1 + n] = a[n]
    /\ \A n \in 1 .. Len(b) : p[1 + Len(a) + n] = b[n]

\* A sequence put together of an element and two sequences.
LEMMA ThreeParts ==
    ASSUME NEW S, NEW x \in S, NEW a \in Seq(S), NEW b \in Seq(S)
    PROVE  InParts(<<x>> \o a \o b, x, a, b)
<1> DEFINE h == <<x>> \o a
<1>1. /\ h \in Seq(S) /\ Len(h) = 1 + Len(a) /\ h[1] = x
      /\ \A n \in 1 .. Len(a) : h[1 + n] = a[n]
  OBVIOUS
<1> HIDE DEF h
<1>2. h \in Seq(S)
  BY <1>1, Zenon
<1>3. /\ Len(h \o b) = Len(h) + Len(b)
      /\ \A n \in 1 .. Len(h) : (h \o b)[n] = h[n]
      /\ \A n \in 1 .. Len(b) : (h \o b)[Len(h) + n] = b[n]
  BY <1>2
<1>4. Len(a) \in Nat /\ Len(b) \in Nat
  OBVIOUS
<1>5. 1 \in 1 .. Len(h) /\ \A n \in 1 .. Len(a) : 1 + n \in 1 .. Len(h)
  BY <1>1, <1>4
<1> QED
  BY <1>1, <1>3, <1>5, Zenon DEF h, InParts

\* The program of a role: its group, its members, its commands.
LEMMA RolePlan ==
    ASSUME NEW w \in Granters, IsRole(Call[w])
    PROVE  LET c == Call[w]
               plan == Plan[w]
           IN  /\ Len(plan) \in Nat
               /\ \A m \in 1 .. Len(plan) :
                     \/ plan[m] = <<"group", GroupOf(c)>>
                     \/ \E u \in Range(c.users) : plan[m] = <<"member", u, GroupOf(c)>>
                     \/ \E d \in Range(Commands(c)) : plan[m] \in
                           {<<"principal", GroupOf(c)>>, <<"target", d, "tenant", c.tenant>>,
                            <<"assignment", GroupOf(c), Permission(d), d, "tenant", c.tenant>>}
               /\ \A u \in Range(c.users) : \E m \in 1 .. Len(plan) :
                     plan[m] = <<"member", u, GroupOf(c)>>
               /\ \A d \in Range(Commands(c)) : \E m \in 1 .. Len(plan) : plan[m] =
                     <<"assignment", GroupOf(c), Permission(d), d, "tenant", c.tenant>>
<1> DEFINE c == Call[w]
           plan == Plan[w]
           joins == MemberKeys(c)
           com == CommandKeys(c)
           M == Len(c.users)
           C == 3 * Len(Commands(c))
           head == << <<"group", GroupOf(c)>> >>
<1>1. plan = head \o joins \o com
  BY Zenon DEF Plan, Program, RoleProgram, IsRole, MemberKeys, CommandKeys, GroupOf, Commands
<1>2. c.role \in DOMAIN RoleCommands /\ c.users \in Seq(Range(c.users))
  BY CallAssumption, Zenon DEF IsRole
<1>3. M \in Nat /\ DOMAIN c.users = 1 .. M
  BY <1>2
<1>4. C \in Nat
  BY <1>2, RoleCommandsType DEF Commands
<1>5. /\ joins = [n \in 1 .. M |-> joins[n]]
      /\ \A n \in 1 .. M : joins[n] = <<"member", c.users[n], GroupOf(c)>>
  BY <1>3 DEF MemberKeys
<1>6. /\ DOMAIN com = 1 .. C /\ com = [n \in 1 .. C |-> com[n]]
      /\ \A n \in DOMAIN com : \E d \in Range(Commands(c)) :
            com[n] \in
               {<<"principal", GroupOf(c)>>, <<"target", d, "tenant", c.tenant>>,
                <<"assignment", GroupOf(c), Permission(d), d, "tenant", c.tenant>>}
      /\ \A d \in Range(Commands(c)) : \E n \in DOMAIN com :
            com[n] = <<"assignment", GroupOf(c), Permission(d), d, "tenant", c.tenant>>
  <2>1. com = [n \in 1 .. C |-> com[n]]
    BY Zenon DEF CommandKeys
  <2> QED
    BY <1>2, <2>1, CommandKeysShape, Zenon
<1> HIDE DEF joins, com, M, C, plan, c
<1>7. /\ Len(plan) = 1 + M + C
      /\ plan[1] = <<"group", GroupOf(c)>>
      /\ \A n \in 1 .. M : plan[1 + n] = joins[n]
      /\ \A n \in 1 .. C : plan[1 + M + n] = com[n]
  <2> DEFINE g == <<"group", GroupOf(c)>>
             S == {g} \cup {joins[n] : n \in 1 .. M} \cup {com[n] : n \in 1 .. C}
  <2>1. joins \in Seq(S) /\ Len(joins) = M
    <3>1. \A n \in 1 .. M : joins[n] \in S
      BY Zenon
    <3> HIDE DEF S
    <3> QED
      BY <1>3, <1>5, <3>1
  <2>2. com \in Seq(S) /\ Len(com) = C
    <3>1. \A n \in 1 .. C : com[n] \in S
      BY Zenon
    <3> HIDE DEF S
    <3> QED
      <4>1. com = [n \in 1 .. C |-> com[n]]
        BY <1>6, Zenon
      <4> QED
        BY <1>4, <3>1, <4>1
  <2>3. g \in S
    BY Zenon
  <2> HIDE DEF S, g
  <2>4. InParts(<<g>> \o joins \o com, g, joins, com)
    BY <2>1, <2>2, <2>3, ThreeParts, Zenon
  <2>5. plan = <<g>> \o joins \o com
    BY <1>1, Zenon DEF g
  <2> QED
    BY <2>1, <2>2, <2>4, <2>5, Zenon DEF g, InParts
<1>8. Len(plan) \in Nat
  BY <1>3, <1>4, <1>7
<1>9. ASSUME NEW m \in 1 .. Len(plan)
      PROVE  \/ plan[m] = <<"group", GroupOf(c)>>
             \/ \E u \in Range(c.users) : plan[m] = <<"member", u, GroupOf(c)>>
             \/ \E d \in Range(Commands(c)) : plan[m] \in
                   {<<"principal", GroupOf(c)>>, <<"target", d, "tenant", c.tenant>>,
                    <<"assignment", GroupOf(c), Permission(d), d, "tenant", c.tenant>>}
  <2>1. \/ m = 1 \/ (\E n \in 1 .. M : m = 1 + n) \/ (\E n \in 1 .. C : m = 1 + M + n)
    <3>1. m = 1 \/ m - 1 \in 1 .. M \/ m - 1 - M \in 1 .. C
      BY <1>3, <1>4, <1>7
    <3>2. m = 1 + (m - 1) /\ m = 1 + M + (m - 1 - M)
      BY <1>3
    <3> QED
      BY <3>1, <3>2, Zenon
  <2>2. CASE m = 1
    BY <1>7, <2>2, Zenon
  <2>3. ASSUME NEW n \in 1 .. M, m = 1 + n
        PROVE  \E u \in Range(c.users) : plan[m] = <<"member", u, GroupOf(c)>>
    BY <1>3, <1>5, <1>7, <2>3, Zenon DEF Range
  <2>4. ASSUME NEW n \in 1 .. C, m = 1 + M + n
        PROVE  \E d \in Range(Commands(c)) : plan[m] \in
                   {<<"principal", GroupOf(c)>>, <<"target", d, "tenant", c.tenant>>,
                    <<"assignment", GroupOf(c), Permission(d), d, "tenant", c.tenant>>}
    BY <1>6, <1>7, <2>4, Zenon
  <2> QED
    BY <2>1, <2>2, <2>3, <2>4, Zenon
<1>10. ASSUME NEW u \in Range(c.users)
       PROVE  \E m \in 1 .. Len(plan) : plan[m] = <<"member", u, GroupOf(c)>>
  <2>1. PICK n \in 1 .. M : c.users[n] = u
    BY <1>3, Zenon DEF Range
  <2>2. 1 + n \in 1 .. Len(plan)
    BY <1>3, <1>4, <1>7
  <2> QED
    BY <1>5, <1>7, <2>1, <2>2, Zenon
<1>11. ASSUME NEW d \in Range(Commands(c))
       PROVE  \E m \in 1 .. Len(plan) : plan[m] =
                 <<"assignment", GroupOf(c), Permission(d), d, "tenant", c.tenant>>
  <2>1. PICK n \in 1 .. C :
           com[n] = <<"assignment", GroupOf(c), Permission(d), d, "tenant", c.tenant>>
    BY <1>6, Zenon
  <2>2. 1 + M + n \in 1 .. Len(plan)
    BY <1>3, <1>4, <1>7
  <2> QED
    BY <1>7, <2>1, <2>2, Zenon
<1> QED
  BY <1>8, <1>9, <1>10, <1>11, Zenon DEF plan, c

\* The program of grant_permission_to_user.
LEMMA UserPlan ==
    ASSUME NEW w \in Granters, ~IsRole(Call[w])
    PROVE  LET c == Call[w]
               plan == Plan[w]
           IN  /\ Len(plan) = 3
               /\ plan[1] = <<"principal", c.user>>
               /\ plan[2] = <<"target", c.command, c.type, c.id>>
               /\ plan[3] = <<"assignment", c.user, c.permission, c.command, c.type, c.id>>
               /\ c.grant \in {"permit", "deny"}
<1>1. Plan[w] = GrantKeys(Call[w].user, Call[w].command, Call[w].permission,
                          Call[w].type, Call[w].id)
  BY Zenon DEF Plan, Program, IsRole
<1>2. Call[w].grant \in {"permit", "deny"}
  BY CallAssumption, Zenon DEF IsRole
<1> QED
  BY <1>1, <1>2 DEF GrantKeys

-----------------------------------------------------------------------------
(***************************************************************************)
(* What is stored follows from the calls.                                  *)
(***************************************************************************)

\* The key of a row that k stands for: that of an assignment goes on with the
\* ID of its target.
From(k, key) ==
    IF k[1] = "assignment"
    THEN key[1] = "assignment" /\ \A j \in 2 .. 6 : key[j] = k[j]
    ELSE key = k

Planned(w, key) == \E m \in 1 .. Len(Plan[w]) : From(Plan[w][m], key)

\* A row has been written by a call, which has committed or whose own it is.
RowsAreCalled ==
    \A r \in rows : \E u \in Granters :
        /\ phase[u] = "done" \/ r.by = u
        /\ Planned(u, r.key)
        /\ r.key[1] = "assignment" => r.grant = Grant(Call[u])

UpdatesAreCalled ==
    \A w \in Granters : \A k \in update[w] : phase[w] # "done" /\ Planned(w, k)

\* A call that has committed since session v began has set the assignment.
SetSince(v, key, grant) ==
    \E u \in Granters : /\ phase[u] = "done" /\ u \notin before[v]
                        /\ Planned(u, key) /\ Grant(Call[u]) = grant

\* What had committed when a session began has committed.
BeforeIsDone ==
    /\ before = [w \in Granters |-> before[w]]
    /\ \A w \in Granters : \A u \in before[w] : u \in Granters /\ phase[u] = "done"

\* Session w sees a row for k; an assignment as it has set it, or as another
\* call has set it that committed since w began.
Has(w, k) ==
    \E r \in rows :
        /\ r.by \in {Committed, w}
        /\ From(k, r.key)
        /\ k[1] = "assignment" =>
              Seen(w, r) = Grant(Call[w]) \/ SetSince(w, r.key, Seen(w, r))

Obtained ==
    \A w \in Granters : \A m \in 1 .. Len(Plan[w]) : m < place[w] => Has(w, Plan[w][m])

\* Where a session is.
At(w) ==
    /\ place[w] \in 1 .. Len(Plan[w]) + 1
    /\ phase[w] \in {"insert", "reload", "update"} => place[w] <= Len(Plan[w])
    /\ phase[w] = "update" => Visible(w, Key(w)) # {}
    /\ phase[w] = "done" => place[w] = Len(Plan[w]) + 1 /\ \A r \in rows : r.by # w

Progress == \A w \in Granters : At(w)

\* The inductive invariant behind the decisions.
DecisionInv ==
    /\ GetOrCreateInv
    /\ update = [w \in Granters |-> update[w]]
    /\ RowsAreCalled /\ UpdatesAreCalled /\ BeforeIsDone /\ Obtained /\ Progress

\* Programs are finite, and their assignments have six parts.
LEMMA PlanType ==
    ASSUME NEW w \in Granters
    PROVE  /\ Len(Plan[w]) \in Nat
           /\ \A m \in 1 .. Len(Plan[w]) : Plan[w][m][1] = "assignment" =>
                 \E a, b, c, d, e : Plan[w][m] = <<"assignment", a, b, c, d, e>>
<1>1. CASE IsRole(Call[w])
  <2>1. Len(Plan[w]) \in Nat
    BY <1>1, RolePlan, Zenon
  <2>2. ASSUME NEW m \in 1 .. Len(Plan[w]), Plan[w][m][1] = "assignment"
        PROVE  \E a, b, c, d, e : Plan[w][m] = <<"assignment", a, b, c, d, e>>
    <3> DEFINE k == Plan[w][m]
               c == Call[w]
    <3>1. \/ k = <<"group", GroupOf(c)>>
          \/ \E u \in Range(c.users) : k = <<"member", u, GroupOf(c)>>
          \/ \E d \in Range(Commands(c)) : k \in
                {<<"principal", GroupOf(c)>>, <<"target", d, "tenant", c.tenant>>,
                 <<"assignment", GroupOf(c), Permission(d), d, "tenant", c.tenant>>}
      BY <1>1, <2>2, RolePlan, Zenon
    <3>2. k[1] = "assignment"
      BY <2>2, Zenon
    <3> HIDE DEF k, c
    <3>3. \E d : k = <<"assignment", GroupOf(c), Permission(d), d, "tenant", c.tenant>>
      BY <3>1, <3>2
    <3> QED
      BY <3>3, Zenon DEF k
  <2> QED
    BY <2>1, <2>2, Zenon
<1>2. CASE ~IsRole(Call[w])
  <2>1. /\ Len(Plan[w]) = 3
        /\ Plan[w][1] = <<"principal", Call[w].user>>
        /\ Plan[w][2] = <<"target", Call[w].command, Call[w].type, Call[w].id>>
        /\ Plan[w][3] = <<"assignment", Call[w].user, Call[w].permission,
                           Call[w].command, Call[w].type, Call[w].id>>
    BY <1>2, UserPlan, Zenon
  <2>2. /\ Plan[w][1][1] # "assignment" /\ Plan[w][2][1] # "assignment"
    BY <2>1
  <2>3. Len(Plan[w]) \in Nat /\ \A m \in 1 .. Len(Plan[w]) : m \in {1, 2, 3}
    BY <2>1
  <2> QED
    BY <2>1, <2>2, <2>3, Zenon
<1> QED
  BY <1>1, <1>2, Zenon

\* The key that a session looks for is planned.
LEMMA KeyFrom ==
    ASSUME NEW w \in Granters, place[w] \in 1 .. Len(Plan[w])
    PROVE  From(Plan[w][place[w]], Key(w)) /\ Planned(w, Key(w))
<1> DEFINE k == Plan[w][place[w]]
<1>1. CASE k[1] = "assignment"
  <2>1. PICK a, b, c, d, e : k = <<"assignment", a, b, c, d, e>>
    BY <1>1, PlanType, Zenon
  <2>2. Key(w) = Append(k, target[w])
    BY <1>1, Zenon DEF Key
  <2> HIDE DEF k
  <2>3. Key(w)[1] = "assignment" /\ \A j \in 2 .. 6 : Key(w)[j] = k[j]
    BY <2>1, <2>2
  <2> QED
    BY <1>1, <2>3, Zenon DEF From, Planned, k
<1>2. CASE k[1] # "assignment"
  <2>1. Key(w) = k
    BY <1>2, Zenon DEF Key
  <2> QED
    BY <1>2, <2>1, Zenon DEF From, Planned
<1> QED
  BY <1>1, <1>2, Zenon

\* A row that session v sees, with the grant_type it sees after a step.
LEMMA HasAfter ==
    ASSUME NEW v \in Granters, NEW x, NEW r \in rows', r.by \in {Committed, v},
           From(x, r.key), NEW g, Seen(v, r)' = g,
           x[1] = "assignment" => g = Grant(Call[v]) \/ SetSince(v, r.key, g)'
    PROVE  Has(v, x)'
<1>1. x[1] = "assignment" => \/ Seen(v, r)' = Grant(Call[v])
                             \/ SetSince(v, r.key, Seen(v, r))'
  BY Zenon DEF SetSince
<1> QED
  BY <1>1, Zenon DEF Has

\* What a session sees stays as long as rows and updates do.
LEMMA KeepsHas ==
    ASSUME rows \subseteq rows', update' = update,
           \A v \in Granters : phase[v] = "done" => phase'[v] = "done",
           NEW v \in Granters, before'[v] = before[v], NEW x, Has(v, x)
    PROVE  Has(v, x)'
<1>1. PICK r \in rows : /\ r.by \in {Committed, v}
                        /\ From(x, r.key)
                        /\ x[1] = "assignment" =>
                              Seen(v, r) = Grant(Call[v]) \/ SetSince(v, r.key, Seen(v, r))
  BY Zenon DEF Has
<1>2. PICK g : g = Seen(v, r)
  BY Zenon
<1>3. Seen(v, r)' = g
  BY <1>2, Zenon DEF Seen
<1>4. SetSince(v, r.key, g) => SetSince(v, r.key, g)'
  BY Zenon DEF SetSince
<1>5. x[1] = "assignment" => g = Grant(Call[v]) \/ SetSince(v, r.key, g)'
  BY <1>1, <1>2, <1>4, Zenon
<1> QED
  BY <1>1, <1>3, <1>5, HasAfter, Zenon

\* What the sessions see stays as long as rows, updates and commits do.
LEMMA SameView ==
    ASSUME rows' = rows, update' = update,
           \A v \in Granters : phase'[v] = "done" <=> phase[v] = "done"
    PROVE  /\ \A v \in Granters : before'[v] = before[v] =>
                 \A k : Has(v, k) => Has(v, k)'
           /\ RowsAreCalled => RowsAreCalled'
           /\ UpdatesAreCalled => UpdatesAreCalled'
<1>2. \A v \in Granters : before'[v] = before[v] => \A k : Has(v, k) => Has(v, k)'
  BY KeepsHas, Zenon
<1>3. RowsAreCalled => RowsAreCalled'
  BY Zenon DEF RowsAreCalled
<1>4. UpdatesAreCalled => UpdatesAreCalled'
  BY Zenon DEF UpdatesAreCalled
<1> QED
  BY <1>2, <1>3, <1>4, Zenon

\* Where a session is stays where the others move.
LEMMA KeepsAt ==
    ASSUME NEW v \in Granters, At(v), rows' = rows,
           phase'[v] = phase[v], place'[v] = place[v],
           Visible(v, Key(v))' = Visible(v, Key(v))
    PROVE  At(v)'
BY Zenon DEF At

\* A session that has found its row, and needs no update, goes on.
LEMMA ObtainDecides ==
    ASSUME DecisionInv, GetOrCreateInv', NEW w \in Granters, phase[w] # "done",
           place[w] <= Len(Plan[w]), NEW r \in Visible(w, Key(w)), Obtain(w, r),
           rows' = rows, update' = update, BeforeIsDone',
           \A v \in Granters : v # w \/ place[w] > 1 => before'[v] = before[v]
    PROVE  DecisionInv'
<1> DEFINE k == Plan[w][place[w]]
<1>1. /\ phase'[w] \in {"select", "update"}
      /\ \A v \in Granters \ {w} : /\ phase'[v] = phase[v]
                                   /\ place'[v] = place[v]
                                   /\ target'[v] = target[v]
  BY ObtainIsLocal, Zenon DEF DecisionInv, GetOrCreateInv
<1>2. /\ \A v \in Granters : v # w \/ place[w] > 1 =>
            \A x : Has(v, x) => Has(v, x)'
      /\ RowsAreCalled' /\ UpdatesAreCalled'
  <2>1. \A v \in Granters : phase'[v] = "done" <=> phase[v] = "done"
    BY <1>1, Zenon
  <2> QED
    BY <2>1, SameView, Zenon DEF DecisionInv
<1>3. place[w] \in 1 .. Len(Plan[w]) /\ Len(Plan[w]) \in Nat
  BY PlanType DEF DecisionInv, Progress, At
<1>4. r \in rows /\ r.key = Key(w) /\ r.by \in {Committed, w} /\ From(k, r.key)
  BY <1>3, KeyFrom, Zenon DEF Visible, RowsOf
<1>5. ASSUME NEW v \in Granters \ {w}
      PROVE  /\ At(v)'
             /\ \A m \in 1 .. Len(Plan[v]) : m < place'[v] => Has(v, Plan[v][m])'
  <2>1. Key(v)' = Key(v)
    BY <1>1, KeyIsLocal, Zenon
  <2>2. Visible(v, Key(v))' = Visible(v, Key(v))
    BY <2>1, Zenon DEF Visible, RowsOf
  <2>3. \A m \in 1 .. Len(Plan[v]) : m < place'[v] => Has(v, Plan[v][m])'
    BY <1>1, <1>2, Zenon DEF DecisionInv, Obtained
  <2>4. At(v)
    BY Zenon DEF DecisionInv, Progress
  <2> QED
    BY <1>1, <2>2, <2>3, <2>4, KeepsAt, Zenon
<1>6. CASE r.key[1] = "assignment" /\ Seen(w, r) # Grant(Call[w])
  <2>1. phase'[w] = "update" /\ place' = place
    BY <1>6, Zenon DEF Obtain, Proceed, DecisionInv, GetOrCreateInv, Local
  <2>2. target' = target
    <3>1. r.key[1] # "target"
      BY <1>6
    <3> QED
      BY <3>1, Zenon DEF Obtain
  <2>3. Key(w)' = Key(w)
    BY <2>1, <2>2, KeyIsLocal, Zenon
  <2>4. Visible(w, Key(w))' # {}
    BY <2>3, Zenon DEF Visible, RowsOf
  <2>5. Obtained'
    <3> SUFFICES ASSUME NEW v \in Granters, NEW m \in 1 .. Len(Plan[v]), m < place[v]
                 PROVE  Has(v, Plan[v][m])'
      BY <2>1, Zenon DEF Obtained
    <3>1. v # w \/ place[w] > 1
      BY <1>3
    <3>2. Has(v, Plan[v][m])
      BY Zenon DEF Obtained, DecisionInv
    <3> QED
      BY <1>2, <3>1, <3>2, Zenon
  <2>6. Progress'
    <3> SUFFICES ASSUME NEW v \in Granters
                 PROVE  At(v)'
      BY Zenon DEF Progress
    <3>1. CASE v = w
      BY <2>1, <2>4, <3>1, Zenon DEF DecisionInv, Progress, At
    <3>2. CASE v # w
      BY <1>5, <3>2, Zenon
    <3> QED
      BY <3>1, <3>2, Zenon
  <2> QED
    BY <1>2, <2>5, <2>6, Zenon DEF DecisionInv
<1>7. CASE ~(r.key[1] = "assignment" /\ Seen(w, r) # Grant(Call[w]))
  <2>1. phase'[w] = "select" /\ place'[w] = place[w] + 1
    BY <1>7, Zenon DEF Obtain, Proceed, DecisionInv, GetOrCreateInv, Local
  <2>2. ASSUME NEW x, x = k PROVE Has(w, x)'
    <3>1. k[1] = "assignment" => Seen(w, r) = Grant(Call[w])
      BY <1>4, <1>7, Zenon DEF From
    <3>2. Seen(w, r)' = Seen(w, r)
      BY Zenon DEF Seen
    <3>3. PICK g : g = Seen(w, r)
      BY Zenon
    <3>4. From(x, r.key) /\ (x[1] = "assignment" => g = Grant(Call[w]))
      BY <1>4, <2>2, <3>1, <3>3, Zenon
    <3>5. r \in rows' /\ r.by \in {Committed, w}
      BY <1>4, Zenon
    <3> QED
      BY <3>2, <3>3, <3>4, <3>5, HasAfter, Zenon
  <2>3. ASSUME NEW m \in 1 .. Len(Plan[w]), m < place'[w]
        PROVE  Has(w, Plan[w][m])'
    <3>1. (m < place[w] /\ place[w] > 1) \/ m = place[w]
      BY <1>3, <2>1, <2>3
    <3>2. CASE m < place[w] /\ place[w] > 1
      BY <1>2, <3>2, Zenon DEF DecisionInv, Obtained
    <3>3. CASE m = place[w]
      BY <2>2, <3>3, Zenon DEF k
    <3> QED
      BY <3>1, <3>2, <3>3, Zenon
  <2>4. Obtained'
    BY <1>5, <2>3, Zenon DEF Obtained
  <2>5. Progress'
    <3> SUFFICES ASSUME NEW v \in Granters
                 PROVE  At(v)'
      BY Zenon DEF Progress
    <3>1. CASE v = w
      BY <1>3, <2>1, <3>1 DEF At
    <3>2. CASE v # w
      BY <1>5, <3>2, Zenon
    <3> QED
      BY <3>1, <3>2, Zenon
  <2> QED
    BY <1>2, <2>4, <2>5, Zenon DEF DecisionInv
<1> QED
  BY <1>6, <1>7, Zenon

\* Select: the session goes on with a row, or to its INSERT.
LEMMA SelectDecides ==
    ASSUME DecisionInv, GetOrCreateInv', NEW w \in Granters, Select(w)
    PROVE  DecisionInv'
<1>1. phase[w] = "select" /\ place[w] <= Len(Plan[w]) /\ rows' = rows /\ update' = update
  BY Zenon DEF Select, Running
<1>0. /\ \A v \in Granters : phase[v] = "done" => phase'[v] = "done"
      /\ place[w] \in 1 .. Len(Plan[w])
  <2>1. \A v \in Granters \ {w} : phase'[v] = phase[v]
    BY Zenon DEF Select, Obtain, Proceed, DecisionInv, GetOrCreateInv, Local
  <2>2. place[w] \in 1 .. Len(Plan[w])
    BY <1>1, PlanType DEF DecisionInv, Progress, At
  <2> QED
    BY <1>1, <2>1, <2>2, Zenon
<1>4. /\ BeforeIsDone'
      /\ \A v \in Granters : v # w \/ place[w] > 1 => before'[v] = before[v]
  <2>1. \/ before' = before
        \/ /\ ~(place[w] > 1)
           /\ before' = [before EXCEPT ![w] = {v \in Granters : /\ phase[v] = "done"
                                                                /\ Plan[v] = Plan[w]}]
    BY Zenon DEF Select, Begin
  <2>2. CASE before' = before
    BY <1>0, <2>2, Zenon DEF BeforeIsDone, DecisionInv
  <2>3. CASE /\ ~(place[w] > 1)
             /\ before' = [before EXCEPT ![w] = {v \in Granters : /\ phase[v] = "done"
                                                                  /\ Plan[v] = Plan[w]}]
    <3>1. before = [v \in Granters |-> before[v]]
      BY Zenon DEF BeforeIsDone, DecisionInv
    <3>2. /\ before'[w] = {v \in Granters : phase[v] = "done" /\ Plan[v] = Plan[w]}
          /\ \A v \in Granters \ {w} : before'[v] = before[v]
          /\ before' = [v \in Granters |-> before'[v]]
      BY <2>3, <3>1, Zenon
    <3>3. \A v \in Granters : \A u \in before'[v] : u \in Granters /\ phase[u] = "done"
      BY <3>2, Zenon DEF BeforeIsDone, DecisionInv
    <3> QED
      BY <1>0, <2>3, <3>2, <3>3, Zenon DEF BeforeIsDone
  <2> QED
    BY <2>1, <2>2, <2>3, Zenon
<1>2. CASE Visible(w, Key(w)) # {}
  <2>1. PICK r \in Visible(w, Key(w)) : Obtain(w, r)
    BY <1>2, Zenon DEF Select
  <2> QED
    BY <1>1, <1>4, <2>1, ObtainDecides, Zenon
<1>3. CASE Visible(w, Key(w)) = {}
  <2>1. /\ place' = place /\ target' = target
        /\ \A v \in Granters : phase'[v] = IF v = w THEN "insert" ELSE phase[v]
    BY <1>3, Zenon DEF Select, Proceed, DecisionInv, GetOrCreateInv, Local
  <2>2. /\ \A v \in Granters : v # w \/ place[w] > 1 =>
              \A x : Has(v, x) => Has(v, x)'
        /\ RowsAreCalled' /\ UpdatesAreCalled'
    <3>1. \A v \in Granters : phase'[v] = "done" <=> phase[v] = "done"
      BY <1>1, <2>1, Zenon
    <3> QED
      BY <1>1, <1>4, <3>1, SameView, Zenon DEF DecisionInv
  <2>3. Obtained'
    <3> SUFFICES ASSUME NEW v \in Granters, NEW m \in 1 .. Len(Plan[v]), m < place[v]
                 PROVE  Has(v, Plan[v][m])'
      BY <2>1, Zenon DEF Obtained
    <3>1. v # w \/ place[w] > 1
      BY <1>0
    <3>2. Has(v, Plan[v][m])
      BY Zenon DEF Obtained, DecisionInv
    <3> QED
      BY <2>2, <3>1, <3>2, Zenon
  <2>4. ASSUME NEW v \in Granters PROVE At(v)'
    <3>1. Key(v)' = Key(v)
      BY <2>1, KeyIsLocal, Zenon
    <3>2. Visible(v, Key(v))' = Visible(v, Key(v))
      BY <1>1, <3>1, Zenon DEF Visible, RowsOf
    <3> QED
      BY <1>1, <2>1, <3>2, Zenon DEF At, Progress, DecisionInv, Running
  <2> QED
    BY <1>1, <1>4, <2>2, <2>3, <2>4, Zenon DEF DecisionInv, Progress
<1> QED
  BY <1>2, <1>3, Zenon

\* Reload: the row is there, so the session goes on with it.
LEMMA ReloadDecides ==
    ASSUME DecisionInv, GetOrCreateInv', NEW w \in Granters, Reload(w)
    PROVE  DecisionInv'
<1>1. phase[w] = "reload" /\ rows' = rows /\ update' = update
  BY Zenon DEF Reload
<1>2. PICK r \in Visible(w, Key(w)) : Obtain(w, r)
  BY <1>1, Zenon DEF Reload, DecisionInv, GetOrCreateInv, RowIsThere
<1>3. place[w] <= Len(Plan[w])
  BY <1>1, Zenon DEF DecisionInv, Progress, At
<1>4. before' = before /\ \A v \in Granters : phase[v] = "done" => phase'[v] = "done"
  <2>1. before' = before /\ \A v \in Granters \ {w} : phase'[v] = phase[v]
    BY <1>2, ObtainIsLocal, Zenon DEF Reload, DecisionInv, GetOrCreateInv
  <2> QED
    BY <1>1, <2>1, Zenon
<1>5. BeforeIsDone'
  BY <1>4, Zenon DEF BeforeIsDone, DecisionInv
<1> QED
  BY <1>1, <1>2, <1>3, <1>4, <1>5, ObtainDecides, Zenon

\* Insert adds a row of the session's own.
LEMMA InsertDecides ==
    ASSUME DecisionInv, GetOrCreateInv', NEW w \in Granters, Insert(w)
    PROVE  DecisionInv'
<1> DEFINE new == NewRow(w, Key(w))
<1>1. /\ phase[w] = "insert" /\ update' = update /\ place' = place /\ target' = target
      /\ before' = before
      /\ rows' = rows \/ rows' = rows \cup {new}
      /\ \A v \in Granters : phase'[v] = IF v = w THEN "reload" ELSE phase[v]
  BY Zenon DEF Insert, Proceed, DecisionInv, GetOrCreateInv, Local
<1>2. /\ new.key = Key(w) /\ new.by = w
      /\ Key(w)[1] = "assignment" => new.grant = Grant(Call[w])
  BY Zenon DEF NewRow
<1>3. place[w] \in 1 .. Len(Plan[w])
  BY <1>1, PlanType DEF DecisionInv, Progress, At
<1>4. Planned(w, Key(w))
  BY <1>3, KeyFrom, Zenon
<1> HIDE DEF new
<1>5. /\ rows \subseteq rows'
      /\ \A v \in Granters : phase[v] = "done" => phase'[v] = "done"
  BY <1>1, Zenon
<1>6. \A v \in Granters : \A k : Has(v, k) => Has(v, k)'
  BY <1>1, <1>5, KeepsHas, Zenon
<1>7. RowsAreCalled'
  <2> SUFFICES ASSUME NEW r \in rows'
               PROVE  \E u \in Granters :
                         /\ phase'[u] = "done" \/ r.by = u
                         /\ Planned(u, r.key)
                         /\ r.key[1] = "assignment" => r.grant = Grant(Call[u])
    BY Zenon DEF RowsAreCalled
  <2>1. CASE r \in rows
    <3>1. PICK u \in Granters : /\ phase[u] = "done" \/ r.by = u
                                /\ Planned(u, r.key)
                                /\ r.key[1] = "assignment" => r.grant = Grant(Call[u])
      BY <2>1, Zenon DEF RowsAreCalled, DecisionInv
    <3> QED
      BY <1>5, <3>1, Zenon
  <2>2. CASE r = new
    BY <1>2, <1>4, <2>2, Zenon
  <2> QED
    BY <1>1, <2>1, <2>2, Zenon
<1>8. UpdatesAreCalled' /\ BeforeIsDone'
  BY <1>1, Zenon DEF UpdatesAreCalled, BeforeIsDone, DecisionInv
<1>9. Obtained'
  BY <1>1, <1>6, Zenon DEF Obtained, DecisionInv
<1>10. ASSUME NEW v \in Granters PROVE At(v)'
  <2>1. Key(v)' = Key(v)
    BY <1>1, KeyIsLocal, Zenon
  <2>2. phase'[v] = "update" => Visible(v, Key(v))' # {}
    <3>1. Visible(v, Key(v)) \subseteq Visible(v, Key(v))'
      BY <1>1, <2>1, Zenon DEF Visible, RowsOf
    <3> QED
      BY <1>1, <3>1, Zenon DEF At, Progress, DecisionInv
  <2>3. phase'[v] = "done" => \A r \in rows' : r.by # v
    <3>1. phase'[v] = "done" => v # w /\ \A r \in rows : r.by # v
      BY <1>1, Zenon DEF At, Progress, DecisionInv
    <3> QED
      BY <1>1, <1>2, <3>1, Zenon
  <2> QED
    BY <1>1, <2>2, <2>3, Zenon DEF At, Progress, DecisionInv
<1> QED
  BY <1>1, <1>7, <1>8, <1>9, <1>10, Zenon DEF DecisionInv, Progress

\* UpdateGrant: the session has set the assignment, for itself to see.
LEMMA UpdateDecides ==
    ASSUME DecisionInv, GetOrCreateInv', NEW w \in Granters, UpdateGrant(w)
    PROVE  DecisionInv'
<1> DEFINE k == Plan[w][place[w]]
<1>1. /\ phase[w] = "update" /\ rows' = rows /\ target' = target /\ before' = before
      /\ \A v \in Granters : phase'[v] = IF v = w THEN "select" ELSE phase[v]
      /\ \A v \in Granters : place'[v] = IF v = w THEN place[w] + 1 ELSE place[v]
  BY Zenon DEF UpdateGrant, Proceed, DecisionInv, GetOrCreateInv, Local
<1>2. /\ update' = [v \in Granters |-> update'[v]]
      /\ \A v \in Granters : update'[v] = IF v = w THEN update[w] \cup {Key(w)}
                                           ELSE update[v]
  BY Zenon DEF UpdateGrant, DecisionInv
<1>3. place[w] \in 1 .. Len(Plan[w]) /\ Len(Plan[w]) \in Nat
  BY <1>1, PlanType DEF DecisionInv, Progress, At
<1>4. From(k, Key(w)) /\ Planned(w, Key(w))
  BY <1>3, KeyFrom, Zenon
<1> HIDE DEF k
<1>5. /\ \A v \in Granters : phase'[v] = "done" <=> phase[v] = "done"
      /\ \A v \in Granters : \A key, grant : SetSince(v, key, grant) => SetSince(v, key, grant)'
  BY <1>1, Zenon DEF SetSince
<1>6. \A v \in Granters : \A r :
         Seen(v, r)' = Seen(v, r) \/ Seen(v, r)' = Grant(Call[v])
  BY <1>2, Zenon DEF Seen
<1>7. ASSUME NEW v \in Granters, NEW x, Has(v, x) PROVE Has(v, x)'
  <2>1. PICK r \in rows : /\ r.by \in {Committed, v}
                          /\ From(x, r.key)
                          /\ x[1] = "assignment" =>
                                Seen(v, r) = Grant(Call[v]) \/ SetSince(v, r.key, Seen(v, r))
    BY <1>7, Zenon DEF Has
  <2>2. CASE Seen(v, r)' = Grant(Call[v])
    BY <1>1, <2>1, <2>2, Zenon DEF Has
  <2>3. CASE Seen(v, r)' = Seen(v, r)
    <3>1. PICK g : g = Seen(v, r)
      BY Zenon
    <3>2. x[1] = "assignment" => g = Grant(Call[v]) \/ SetSince(v, r.key, g)'
      BY <1>5, <2>1, <3>1, Zenon
    <3>3. r \in rows' /\ Seen(v, r)' = g
      BY <1>1, <2>3, <3>1, Zenon
    <3> QED
      BY <2>1, <3>2, <3>3, HasAfter, Zenon
  <2> QED
    BY <1>6, <2>2, <2>3, Zenon
<1>8. ASSUME NEW x, x = k PROVE Has(w, x)'
  <2>1. PICK r \in rows : r.key = Key(w) /\ r.by \in {Committed, w}
    BY <1>1, Zenon DEF DecisionInv, Progress, At, Visible, RowsOf
  <2>2. Seen(w, r)' = Grant(Call[w])
    BY <1>2, <2>1, Zenon DEF Seen
  <2>3. From(x, r.key)
    BY <1>4, <1>8, <2>1, Zenon
  <2> QED
    BY <1>1, <2>1, <2>2, <2>3, Zenon DEF Has
<1>9. RowsAreCalled'
  BY <1>1, <1>5, Zenon DEF RowsAreCalled, DecisionInv
<1>10. UpdatesAreCalled' /\ BeforeIsDone'
  <2>1. UpdatesAreCalled'
    BY <1>1, <1>2, <1>4, <1>5, Zenon DEF UpdatesAreCalled, DecisionInv
  <2>2. BeforeIsDone'
    BY <1>1, Zenon DEF BeforeIsDone, DecisionInv
  <2> QED
    BY <2>1, <2>2
<1>11. Obtained'
  <2> SUFFICES ASSUME NEW v \in Granters, NEW m \in 1 .. Len(Plan[v]), m < place'[v]
               PROVE  Has(v, Plan[v][m])'
    BY Zenon DEF Obtained
  <2>1. CASE v # w
    BY <1>1, <1>7, <2>1, Zenon DEF Obtained, DecisionInv
  <2>2. CASE v = w
    <3>1. m < place[w] \/ m = place[w]
      BY <1>1, <1>3, <2>2
    <3>2. CASE m < place[w]
      BY <1>7, <2>2, <3>2, Zenon DEF Obtained, DecisionInv
    <3>3. CASE m = place[w]
      <4>1. Plan[w][m] = k
        BY <3>3, Zenon DEF k
      <4> QED
        BY <1>8, <2>2, <4>1, Zenon
    <3> QED
      BY <3>1, <3>2, <3>3, Zenon
  <2> QED
    BY <2>1, <2>2, Zenon
<1>12. ASSUME NEW v \in Granters PROVE At(v)'
  <2>1. CASE v = w
    BY <1>1, <1>3, <2>1 DEF At
  <2>2. CASE v # w
    <3>1. Key(v)' = Key(v)
      BY <1>1, <2>2, KeyIsLocal, Zenon
    <3>2. Visible(v, Key(v))' = Visible(v, Key(v))
      BY <1>1, <3>1, Zenon DEF Visible, RowsOf
    <3> QED
      BY <1>1, <2>2, <3>2, Zenon DEF At, Progress, DecisionInv
  <2> QED
    BY <2>1, <2>2, Zenon
<1> QED
  BY <1>2, <1>9, <1>10, <1>11, <1>12, Zenon DEF DecisionInv, Progress

\* Commit: the session's rows and updates become everybody's, and where it has
\* set an assignment that another session had found, a committed call has.
LEMMA CommitDecides ==
    ASSUME DecisionInv, GetOrCreateInv', NEW w \in Granters, Commit(w)
    PROVE  DecisionInv'
<1> DEFINE Image(r) == [key |-> r.key, id |-> r.id, grant |-> Seen(w, r),
                        by |-> IF r.by = w THEN Committed ELSE r.by]
<1>1. /\ phase[w] = "select" /\ ~(place[w] <= Len(Plan[w]))
      /\ place' = place /\ target' = target /\ before' = before
      /\ \A v \in Granters : phase'[v] = IF v = w THEN "done" ELSE phase[v]
  BY Zenon DEF Commit, Running, Proceed, DecisionInv, GetOrCreateInv, Local
<1>2. /\ update' = [v \in Granters |-> update'[v]]
      /\ \A v \in Granters : update'[v] = IF v = w THEN {} ELSE update[v]
  BY Zenon DEF Commit, DecisionInv
<1>3. rows' = {Image(r) : r \in rows}
  BY Zenon DEF Commit
<1>4. \A r \in rows : /\ Image(r).key = r.key
                      /\ Image(r).grant = Seen(w, r)
                      /\ Image(r).by = IF r.by = w THEN Committed ELSE r.by
  BY Zenon
<1> HIDE DEF Image
<1>5. /\ \A v \in Granters : phase[v] = "done" => phase'[v] = "done"
      /\ \A v \in Granters : \A key, grant : SetSince(v, key, grant) => SetSince(v, key, grant)'
      /\ \A key \in update[w] : /\ Planned(w, key)
                                 /\ \A v \in Granters : SetSince(v, key, Grant(Call[w]))'
  BY <1>1, Zenon DEF SetSince, DecisionInv, UpdatesAreCalled, BeforeIsDone
<1>6. ASSUME NEW v \in Granters, NEW x, Has(v, x) PROVE Has(v, x)'
  <2>1. PICK r \in rows : /\ r.by \in {Committed, v}
                          /\ From(x, r.key)
                          /\ x[1] = "assignment" =>
                                Seen(v, r) = Grant(Call[v]) \/ SetSince(v, r.key, Seen(v, r))
    BY <1>6, Zenon DEF Has
  <2>2. PICK s \in rows' : s = Image(r)
    BY <1>3, Zenon
  <2>3. /\ s.by \in {Committed, v} /\ From(x, s.key)
        /\ s.key = r.key /\ s.grant = Seen(w, r)
    BY <1>4, <2>1, <2>2, Zenon
  <2>4. PICK g : g = Seen(v, s)'
    BY Zenon
  <2>5. g = Seen(v, r) \/ g = Grant(Call[v]) \/ SetSince(v, r.key, g)'
    <3>1. CASE v = w
      <4>1. Seen(v, s)' = s.grant
        BY <1>2, <3>1, Zenon DEF Seen
      <4> QED
        BY <2>3, <2>4, <3>1, <4>1, Zenon
    <3>2. CASE v # w /\ r.key \in update[v]
      <4>1. Seen(v, s)' = Grant(Call[v])
        BY <1>2, <2>3, <3>2, Zenon DEF Seen
      <4> QED
        BY <2>4, <4>1, Zenon
    <3>3. CASE v # w /\ r.key \notin update[v]
      <4>1. Seen(v, s)' = Seen(w, r) /\ Seen(v, r) = r.grant
        BY <1>2, <2>3, <3>3, Zenon DEF Seen
      <4>2. CASE r.key \in update[w]
        <5>1. g = Grant(Call[w])
          BY <2>4, <4>1, <4>2, Zenon DEF Seen
        <5> QED
          BY <1>5, <4>2, <5>1, Zenon
      <4>3. CASE r.key \notin update[w]
        BY <2>4, <4>1, <4>3, Zenon DEF Seen
      <4> QED
        BY <4>2, <4>3, Zenon
    <3> QED
      BY <3>1, <3>2, <3>3, Zenon
  <2>6. x[1] = "assignment" => g = Grant(Call[v]) \/ SetSince(v, r.key, g)'
    BY <1>5, <2>1, <2>5, Zenon
  <2> QED
    BY <2>3, <2>4, <2>6, HasAfter, Zenon
<1>7. RowsAreCalled'
  <2> SUFFICES ASSUME NEW s \in rows'
               PROVE  \E u \in Granters :
                         /\ phase'[u] = "done" \/ s.by = u
                         /\ Planned(u, s.key)
                         /\ s.key[1] = "assignment" => s.grant = Grant(Call[u])
    BY Zenon DEF RowsAreCalled
  <2>1. PICK r \in rows : s = Image(r)
    BY <1>3, Zenon
  <2>2. CASE r.key \in update[w]
    BY <1>1, <1>4, <1>5, <2>1, <2>2, Zenon DEF Seen
  <2>3. CASE r.key \notin update[w]
    <3>1. PICK u \in Granters : /\ phase[u] = "done" \/ r.by = u
                                /\ Planned(u, r.key)
                                /\ r.key[1] = "assignment" => r.grant = Grant(Call[u])
      BY Zenon DEF RowsAreCalled, DecisionInv
    <3>2. s.key = r.key /\ s.grant = r.grant /\ (r.by # w => s.by = r.by)
      BY <1>4, <2>1, <2>3, Zenon DEF Seen
    <3>3. phase'[u] = "done" \/ s.by = u
      BY <1>1, <3>1, <3>2, Zenon
    <3> QED
      BY <3>1, <3>2, <3>3, Zenon
  <2> QED
    BY <2>2, <2>3, Zenon
<1>8. UpdatesAreCalled' /\ BeforeIsDone'
  BY <1>1, <1>2, <1>5, Zenon DEF UpdatesAreCalled, BeforeIsDone, DecisionInv
<1>9. Obtained'
  BY <1>1, <1>6, Zenon DEF Obtained, DecisionInv
<1>10. ASSUME NEW v \in Granters PROVE At(v)'
  <2>1. phase'[v] = "done" => \A s \in rows' : s.by # v
    <3> SUFFICES ASSUME phase'[v] = "done", NEW s \in rows' PROVE s.by # v
      BY Zenon
    <3>1. PICK r \in rows : s = Image(r)
      BY <1>3, Zenon
    <3>2. s.by = IF r.by = w THEN Committed ELSE r.by
      BY <1>4, <3>1, Zenon
    <3>3. Committed # v
      BY CommittedAssumption, Zenon
    <3> QED
      BY <1>1, <3>2, <3>3, Zenon DEF At, Progress, DecisionInv
  <2>2. CASE v = w
    <3>1. place'[v] = Len(Plan[v]) + 1
      BY <1>1, <2>2, PlanType DEF At, Progress, DecisionInv
    <3> QED
      BY <1>1, <2>1, <2>2, <3>1, Zenon DEF At, Progress, DecisionInv
  <2>3. CASE v # w
    <3>1. Key(v)' = Key(v)
      BY <1>1, KeyIsLocal, Zenon
    <3>2. Visible(v, Key(v)) # {} => Visible(v, Key(v))' # {}
      <4> SUFFICES ASSUME NEW r \in Visible(v, Key(v)) PROVE Visible(v, Key(v))' # {}
        BY Zenon
      <4>1. r \in rows /\ r.key = Key(v) /\ r.by \in {Committed, v}
        BY Zenon DEF Visible, RowsOf
      <4>2. Image(r) \in rows' /\ Image(r).key = Key(v) /\ Image(r).by \in {Committed, v}
        BY <1>3, <1>4, <4>1, <2>3, Zenon
      <4> QED
        BY <3>1, <4>2, Zenon DEF Visible, RowsOf
    <3> QED
      BY <1>1, <2>1, <2>3, <3>2, Zenon DEF At, Progress, DecisionInv
  <2> QED
    BY <2>2, <2>3, Zenon
<1> QED
  BY <1>2, <1>7, <1>8, <1>9, <1>10, Zenon DEF DecisionInv, Progress

\* Rollback removes rows that only its own session has seen.
LEMMA RollbackDecides ==
    ASSUME DecisionInv, GetOrCreateInv', NEW w \in Granters, Rollback(w)
    PROVE  DecisionInv'
<1>1. /\ phase[w] # "done" /\ before' = before
      /\ \A r : r \in rows' <=> r \in rows /\ r.by # w
      /\ \A v \in Granters : /\ phase'[v] = IF v = w THEN "select" ELSE phase[v]
                             /\ place'[v] = IF v = w THEN 1 ELSE place[v]
                             /\ target'[v] = target[v]
  BY Zenon DEF Rollback, Proceed, DecisionInv, GetOrCreateInv, Local
<1>2. /\ update' = [v \in Granters |-> update'[v]]
      /\ \A v \in Granters : update'[v] = IF v = w THEN {} ELSE update[v]
  BY Zenon DEF Rollback, DecisionInv
<1>3. /\ \A v \in Granters : phase'[v] = "done" <=> phase[v] = "done"
      /\ \A v \in Granters : \A key, grant : SetSince(v, key, grant) => SetSince(v, key, grant)'
  BY <1>1, Zenon DEF SetSince
<1>4. ASSUME NEW v \in Granters, v # w, NEW x, Has(v, x) PROVE Has(v, x)'
  <2>1. PICK r \in rows : /\ r.by \in {Committed, v}
                          /\ From(x, r.key)
                          /\ x[1] = "assignment" =>
                                Seen(v, r) = Grant(Call[v]) \/ SetSince(v, r.key, Seen(v, r))
    BY <1>4, Zenon DEF Has
  <2>2. r \in rows'
    BY <1>1, <1>4, <2>1, CommittedAssumption, Zenon
  <2>3. Seen(v, r)' = Seen(v, r)
    BY <1>2, <1>4, Zenon DEF Seen
  <2>4. PICK g : g = Seen(v, r)
    BY Zenon
  <2>5. x[1] = "assignment" => g = Grant(Call[v]) \/ SetSince(v, r.key, g)'
    BY <1>3, <2>1, <2>4, Zenon
  <2>6. Seen(v, r)' = g
    BY <2>3, <2>4, Zenon
  <2> QED
    BY <2>1, <2>2, <2>5, <2>6, HasAfter, Zenon
<1>5. RowsAreCalled'
  <2> SUFFICES ASSUME NEW r \in rows'
               PROVE  \E u \in Granters :
                         /\ phase'[u] = "done" \/ r.by = u
                         /\ Planned(u, r.key)
                         /\ r.key[1] = "assignment" => r.grant = Grant(Call[u])
    BY Zenon DEF RowsAreCalled
  <2>1. PICK u \in Granters : /\ phase[u] = "done" \/ r.by = u
                              /\ Planned(u, r.key)
                              /\ r.key[1] = "assignment" => r.grant = Grant(Call[u])
    BY <1>1, Zenon DEF RowsAreCalled, DecisionInv
  <2> QED
    BY <1>3, <2>1, Zenon
<1>6. UpdatesAreCalled' /\ BeforeIsDone'
  BY <1>1, <1>2, <1>3, Zenon DEF UpdatesAreCalled, BeforeIsDone, DecisionInv
<1>7. Obtained'
  <2> SUFFICES ASSUME NEW v \in Granters, NEW m \in 1 .. Len(Plan[v]), m < place'[v]
               PROVE  Has(v, Plan[v][m])'
    BY Zenon DEF Obtained
  <2>1. v # w
    BY <1>1, PlanType
  <2> QED
    BY <1>1, <1>4, <2>1, Zenon DEF Obtained, DecisionInv
<1>8. ASSUME NEW v \in Granters PROVE At(v)'
  <2>1. CASE v = w
    BY <1>1, <2>1, PlanType DEF At
  <2>2. CASE v # w
    <3>1. Key(v)' = Key(v)
      BY <1>1, <2>2, KeyIsLocal, Zenon
    <3>2. Visible(v, Key(v)) \subseteq Visible(v, Key(v))'
      BY <1>1, <2>2, <3>1, CommittedAssumption, Zenon DEF Visible, RowsOf
    <3> QED
      BY <1>1, <2>2, <3>2, Zenon DEF At, Progress, DecisionInv
  <2> QED
    BY <2>1, <2>2, Zenon
<1> QED
  BY <1>2, <1>5, <1>6, <1>7, <1>8, Zenon DEF DecisionInv, Progress

\* What is stored follows from the calls in every state.
LEMMA DecisionInvariance == GrantSpec => []DecisionInv
<1>1. GrantInit => GetOrCreateInv
  BY Zenon DEF GrantInit, GetOrCreateInv, Local, OneRowPerKey, RowIsThere, ReloadFinds
<1>2. GrantInit => DecisionInv
  <2> SUFFICES ASSUME GrantInit PROVE DecisionInv
    BY Zenon
  <2>1. Obtained
    BY PlanType DEF GrantInit, Obtained
  <2>2. Progress
    BY PlanType DEF GrantInit, Progress, At
  <2> QED
    BY <1>1, <2>1, <2>2, Zenon
       DEF GrantInit, DecisionInv, RowsAreCalled, UpdatesAreCalled, BeforeIsDone
<1>3. ASSUME DecisionInv, [GrantNext]_grantVars, GetOrCreateInv' PROVE DecisionInv'
  <2>1. ASSUME NEW w \in Granters, Statement(w) \/ Rollback(w)
        PROVE  DecisionInv'
    BY Zenon, <1>3, <2>1, SelectDecides, InsertDecides, ReloadDecides,
       UpdateDecides, CommitDecides, RollbackDecides DEF Statement
  <2>2. CASE UNCHANGED grantVars
    <3>1. /\ \A v \in Granters : \A x : Has(v, x) => Has(v, x)'
          /\ RowsAreCalled' /\ UpdatesAreCalled' /\ BeforeIsDone'
      BY <1>3, <2>2, SameView, Zenon DEF grantVars, DecisionInv, BeforeIsDone
    <3>2. Obtained'
      BY <1>3, <2>2, <3>1, Zenon DEF grantVars, Obtained, DecisionInv
    <3>3. ASSUME NEW v \in Granters PROVE At(v)'
      <4>1. Key(v)' = Key(v)
        BY <2>2, KeyIsLocal, Zenon DEF grantVars
      <4>2. Visible(v, Key(v))' = Visible(v, Key(v))
        BY <2>2, <4>1, Zenon DEF grantVars, Visible, RowsOf
      <4> QED
        BY <1>3, <2>2, <4>2, Zenon DEF grantVars, At, Progress, DecisionInv
    <3> QED
      BY <1>3, <2>2, <3>1, <3>2, <3>3, Zenon DEF grantVars, DecisionInv, Progress
  <2> QED
    BY <1>3, <2>1, <2>2, Zenon DEF GrantNext
<1> QED
  BY <1>2, <1>3, GetOrCreateInvariance, PTL DEF GrantSpec

-----------------------------------------------------------------------------
(***************************************************************************)
(* Decisions follow from the calls.                                        *)
(***************************************************************************)

\* What a role has planned.
LEMMA RoleKeys ==
    ASSUME NEW w \in Granters, IsRole(Call[w]), NEW key, Planned(w, key)
    PROVE  /\ key[1] = "assignment" =>
                 /\ key[2] = GroupOf(Call[w])
                 /\ key[3] = Permission(key[4])
                 /\ key[4] \in Range(Commands(Call[w]))
                 /\ key[5] = "tenant" /\ key[6] = Call[w].tenant
           /\ key[1] = "member" =>
                 key[2] \in Range(Call[w].users) /\ key[3] = GroupOf(Call[w])
<1> DEFINE c == Call[w]
<1>1. PICK m \in 1 .. Len(Plan[w]) : From(Plan[w][m], key)
  BY Zenon DEF Planned
<1> DEFINE k == Plan[w][m]
<1>2. \/ k = <<"group", GroupOf(c)>>
      \/ \E u \in Range(c.users) : k = <<"member", u, GroupOf(c)>>
      \/ \E d \in Range(Commands(c)) : k \in
            {<<"principal", GroupOf(c)>>, <<"target", d, "tenant", c.tenant>>,
             <<"assignment", GroupOf(c), Permission(d), d, "tenant", c.tenant>>}
  BY <1>1, RolePlan, Zenon
<1> HIDE DEF k, c
<1>3. k = <<"group", GroupOf(c)>> => key[1] = "group"
  BY <1>1 DEF From, k
<1>4. ASSUME NEW u \in Range(c.users), k = <<"member", u, GroupOf(c)>>
      PROVE  key[1] = "member" /\ key[2] = u /\ key[3] = GroupOf(c)
  BY <1>1, <1>4 DEF From, k
<1>5. ASSUME NEW d \in Range(Commands(c)), k = <<"principal", GroupOf(c)>>
      PROVE  key[1] = "principal"
  BY <1>1, <1>5 DEF From, k
<1>6. ASSUME NEW d \in Range(Commands(c)), k = <<"target", d, "tenant", c.tenant>>
      PROVE  key[1] = "target"
  BY <1>1, <1>6 DEF From, k
<1>7. ASSUME NEW d \in Range(Commands(c)),
             k = <<"assignment", GroupOf(c), Permission(d), d, "tenant", c.tenant>>
      PROVE  /\ key[1] = "assignment" /\ key[2] = GroupOf(c) /\ key[3] = Permission(d)
             /\ key[4] = d /\ key[5] = "tenant" /\ key[6] = c.tenant
  BY <1>1, <1>7 DEF From, k
<1>8. CASE key[1] = "assignment"
  <2>1. \E d \in Range(Commands(c)) :
           /\ key[2] = GroupOf(c) /\ key[3] = Permission(d)
           /\ key[4] = d /\ key[5] = "tenant" /\ key[6] = c.tenant
    BY <1>2, <1>3, <1>4, <1>5, <1>6, <1>7, <1>8
  <2> QED
    BY <1>8, <2>1, Zenon DEF c
<1>9. CASE key[1] = "member"
  <2>1. \E u \in Range(c.users) : key[2] = u /\ key[3] = GroupOf(c)
    BY <1>2, <1>3, <1>4, <1>5, <1>6, <1>7, <1>9
  <2> QED
    BY <1>9, <2>1, Zenon DEF c
<1> QED
  BY <1>8, <1>9, Zenon

\* What a call for a user has planned.
LEMMA UserKeys ==
    ASSUME NEW w \in Granters, ~IsRole(Call[w]), NEW key, Planned(w, key)
    PROVE  /\ key[1] = "assignment" =>
                 /\ key[2] = Call[w].user /\ key[3] = Call[w].permission
                 /\ key[4] = Call[w].command
                 /\ key[5] = Call[w].type /\ key[6] = Call[w].id
           /\ key[1] # "member"
<1>1. PICK m \in 1 .. Len(Plan[w]) : From(Plan[w][m], key)
  BY Zenon DEF Planned
<1>2. /\ Len(Plan[w]) = 3
      /\ Plan[w][1] = <<"principal", Call[w].user>>
      /\ Plan[w][2] = <<"target", Call[w].command, Call[w].type, Call[w].id>>
      /\ Plan[w][3] = <<"assignment", Call[w].user, Call[w].permission,
                        Call[w].command, Call[w].type, Call[w].id>>
  BY UserPlan, Zenon
<1>3. m \in {1, 2, 3}
  BY <1>1, <1>2
<1>4. CASE m = 1
  BY <1>1, <1>2, <1>4 DEF From
<1>5. CASE m = 2
  BY <1>1, <1>2, <1>5 DEF From
<1>6. CASE m = 3
  BY <1>1, <1>2, <1>6 DEF From
<1> QED
  BY <1>3, <1>4, <1>5, <1>6, Zenon

\* The committed assignment r matches request q.
Matching(r, q) ==
    /\ r.by = Committed
    /\ r.key[1] = "assignment"
    /\ r.key[2] \in Principals(q)
    /\ Matches(r.key[3], r.key[4], r.key[5], r.key[6], q)

\* A committed row has been called for.
LEMMA CommittedCall ==
    ASSUME DecisionInv, NEW r \in rows, r.by = Committed
    PROVE  \E u \in Granters :
              /\ phase[u] = "done"
              /\ Planned(u, r.key)
              /\ r.key[1] = "assignment" => r.grant = Grant(Call[u])
BY CommittedAssumption, Zenon DEF DecisionInv, RowsAreCalled

\* A group of a requesting user has been given to them by a committed role.
LEMMA GroupCall ==
    ASSUME DecisionInv, NEW q, NEW g \in Principals(q), g # q.user
    PROVE  \E v \in Granters :
              /\ phase[v] = "done" /\ IsRole(Call[v])
              /\ g = GroupOf(Call[v])
              /\ q.user \in Range(Call[v].users)
<1>1. PICK s \in rows : /\ s.by = Committed /\ s.key[1] = "member"
                        /\ s.key[2] = q.user /\ s.key[3] = g
                        /\ AppliesToTenant(g, q.tenant)
  BY Zenon DEF Principals
<1>2. PICK v \in Granters : phase[v] = "done" /\ Planned(v, s.key)
  BY <1>1, CommittedCall, Zenon
<1>3. IsRole(Call[v])
  BY <1>1, <1>2, UserKeys, Zenon
<1>4. q.user \in Range(Call[v].users) /\ g = GroupOf(Call[v])
  BY <1>1, <1>2, <1>3, RoleKeys, Zenon
<1> QED
  BY <1>2, <1>3, <1>4, Zenon

\* An assignment that matches a request comes from a committed call that
\* decides the request in that way.
LEMMA MatchIsDecided ==
    ASSUME DecisionInv, NEW q \in Request, NEW r \in rows, Matching(r, q)
    PROVE  Decided(q, r.grant) # {} /\ r.grant \in {"permit", "deny"}
<1>1. PICK u \in Granters : /\ phase[u] = "done" /\ Planned(u, r.key)
                            /\ r.grant = Grant(Call[u])
  BY CommittedCall, Zenon DEF Matching
<1>2. CASE ~IsRole(Call[u])
  <2>1. /\ r.key[2] = Call[u].user /\ r.key[3] = Call[u].permission
        /\ r.key[4] = Call[u].command /\ r.key[5] = Call[u].type
        /\ r.key[6] = Call[u].id
    BY <1>1, <1>2, UserKeys, Zenon DEF Matching
  <2>2. Call[u].user = q.user
    <3> SUFFICES ASSUME Call[u].user # q.user PROVE FALSE
      BY Zenon
    <3>1. Call[u].user \in Principals(q)
      BY <2>1, Zenon DEF Matching
    <3>2. PICK v \in Granters : IsRole(Call[v]) /\ Call[u].user = GroupOf(Call[v])
      BY <3>1, GroupCall, Zenon
    <3> QED
      BY <1>2, <3>2, CallAssumption, Zenon DEF IsRole, GroupOf
  <2>3. Concerns(Call[u], q)
    BY <1>2, <2>1, <2>2, Zenon DEF Concerns, IsRole, Matching
  <2>4. Grant(Call[u]) \in {"permit", "deny"}
    BY <1>2, UserPlan, Zenon DEF Grant, IsRole
  <2> QED
    BY <1>1, <2>3, <2>4, Zenon DEF Decided
<1>3. CASE IsRole(Call[u])
  <2>1. /\ r.key[2] = GroupOf(Call[u]) /\ r.key[3] = Permission(r.key[4])
        /\ r.key[4] \in Range(Commands(Call[u]))
        /\ r.key[5] = "tenant" /\ r.key[6] = Call[u].tenant
    BY <1>1, <1>3, RoleKeys, Zenon DEF Matching
  <2>2. GroupOf(Call[u]) # q.user
    BY <1>3, CallAssumption, Zenon DEF IsRole, GroupOf
  <2>3. PICK v \in Granters : /\ phase[v] = "done" /\ IsRole(Call[v])
                              /\ GroupOf(Call[u]) = GroupOf(Call[v])
                              /\ q.user \in Range(Call[v].users)
    BY <2>1, <2>2, GroupCall, Zenon DEF Matching
  <2>4. Call[v].role = Call[u].role /\ Call[v].tenant = Call[u].tenant
    BY <2>3 DEF GroupOf
  <2>11. Call[u].tenant = q.tenant
    BY <1>3, <2>1, CallAssumption, Zenon DEF Matching, Matches, IsRole
  <2>5. r.key[4] = q.command /\ r.key[3] \in {q.permission, "all"}
    BY Zenon DEF Matching, Matches
  <2>6. Call[u].role \in DOMAIN RoleCommands
    BY <1>3, CallAssumption, Zenon DEF IsRole
  <2>7. Permission(r.key[4]) # "all"
    BY <2>1, <2>6, RoleCommandsType, Zenon DEF Commands
  <2>8. /\ q.command \in Range(RoleCommands[Call[v].role])
        /\ q.permission = Permission(q.command)
    BY <2>1, <2>4, <2>5, <2>7, Zenon DEF Commands
  <2>9. Concerns(Call[v], q)
    BY <2>3, <2>4, <2>8, <2>11, Zenon DEF Concerns, IsRole
  <2>10. Grant(Call[u]) = "permit" /\ Grant(Call[v]) = "permit"
    BY <1>3, <2>3, Zenon DEF Grant, IsRole
  <2> QED
    BY <1>1, <2>3, <2>9, <2>10, Zenon DEF Decided
<1> QED
  BY <1>2, <1>3, Zenon

\* What a committed call has planned is stored and committed.
LEMMA DoneIsStored ==
    ASSUME DecisionInv, NEW w \in Granters, phase[w] = "done",
           NEW m \in 1 .. Len(Plan[w])
    PROVE  \E r \in rows :
              /\ r.by = Committed
              /\ From(Plan[w][m], r.key)
              /\ Plan[w][m][1] = "assignment" =>
                    r.grant = Grant(Call[w]) \/ SetSince(w, r.key, r.grant)
<1>1. m < place[w]
  BY PlanType DEF DecisionInv, Progress, At
<1>2. PICK r \in rows : /\ r.by \in {Committed, w}
                        /\ From(Plan[w][m], r.key)
                        /\ Plan[w][m][1] = "assignment" =>
                              Seen(w, r) = Grant(Call[w]) \/ SetSince(w, r.key, Seen(w, r))
  BY <1>1, Zenon DEF DecisionInv, Obtained, Has
<1>3. r.by = Committed
  BY <1>2, Zenon DEF DecisionInv, Progress, At
<1>4. Seen(w, r) = r.grant
  BY Zenon DEF Seen, DecisionInv, UpdatesAreCalled
<1> QED
  BY <1>2, <1>3, <1>4, Zenon

\* A request that a committed call decides has a matching assignment, as that
\* call or another committed one has set it.
LEMMA DecidedIsStored ==
    ASSUME DecisionInv, NEW q \in Request, NEW g, NEW w \in Decided(q, g)
    PROVE  \E r \in rows :
              /\ Matching(r, q)
              /\ Planned(w, r.key)
              /\ r.grant = g \/ SetSince(w, r.key, r.grant)
<1>1. w \in Granters /\ phase[w] = "done" /\ Grant(Call[w]) = g /\ Concerns(Call[w], q)
  BY Zenon DEF Decided
<1> DEFINE c == Call[w]
<1>2. CASE IsRole(c)
  <2>1. /\ c.tenant = q.tenant /\ q.user \in Range(c.users)
        /\ q.command \in Range(Commands(c)) /\ q.permission = Permission(q.command)
    BY <1>1, <1>2, Zenon DEF Concerns, IsRole, Commands
  <2>2. PICK m \in 1 .. Len(Plan[w]) : Plan[w][m] = <<"member", q.user, GroupOf(c)>>
    BY <1>1, <1>2, <2>1, RolePlan, Zenon
  <2>3. PICK n \in 1 .. Len(Plan[w]) :
           Plan[w][n] = <<"assignment", GroupOf(c), Permission(q.command), q.command,
                          "tenant", c.tenant>>
    BY <1>1, <1>2, <2>1, RolePlan, Zenon
  <2>4. PICK s \in rows : s.by = Committed /\ From(Plan[w][m], s.key)
    BY <1>1, <2>2, DoneIsStored, Zenon
  <2>5. PICK r \in rows : /\ r.by = Committed
                          /\ From(Plan[w][n], r.key)
                          /\ Plan[w][n][1] = "assignment" =>
                                r.grant = g \/ SetSince(w, r.key, r.grant)
    BY <1>1, <2>3, DoneIsStored, Zenon
  <2> HIDE DEF c
  <2>6. s.key[1] = "member" /\ s.key[2] = q.user /\ s.key[3] = GroupOf(c)
    BY <2>2, <2>4 DEF From
  <2>7. /\ Plan[w][n][1] = "assignment" /\ r.key[1] = "assignment"
        /\ r.key[2] = GroupOf(c) /\ r.key[3] = Permission(q.command)
        /\ r.key[4] = q.command /\ r.key[5] = "tenant" /\ r.key[6] = c.tenant
    BY <2>3, <2>5 DEF From
  <2>8. AppliesToTenant(GroupOf(c), q.tenant)
    BY <2>1, TenantAssumption DEF AppliesToTenant, GroupOf
  <2>9. GroupOf(c) \in Principals(q)
    BY <2>4, <2>6, <2>8, Zenon DEF Principals
  <2>10. Matches(r.key[3], r.key[4], r.key[5], r.key[6], q)
    BY <2>1, <2>7, Zenon DEF Matches
  <2>11. Matching(r, q)
    BY <2>5, <2>7, <2>9, <2>10, Zenon DEF Matching
  <2>12. Planned(w, r.key)
    BY <2>3, <2>5, Zenon DEF Planned
  <2> QED
    BY <2>5, <2>7, <2>11, <2>12, Zenon
<1>3. CASE ~IsRole(c)
  <2>1. c.user = q.user /\ Matches(c.permission, c.command, c.type, c.id, q)
    BY <1>1, <1>3, Zenon DEF Concerns, IsRole
  <2>2. PICK n \in 1 .. Len(Plan[w]) : n = 3
    <3>1. Len(Plan[w]) = 3
      BY <1>1, <1>3, UserPlan, Zenon
    <3> QED
      BY <3>1
  <2>3. Plan[w][n] = <<"assignment", c.user, c.permission, c.command, c.type, c.id>>
    BY <1>1, <1>3, <2>2, UserPlan, Zenon
  <2>4. PICK r \in rows : /\ r.by = Committed
                          /\ From(Plan[w][n], r.key)
                          /\ Plan[w][n][1] = "assignment" =>
                                r.grant = g \/ SetSince(w, r.key, r.grant)
    BY <1>1, DoneIsStored, Zenon
  <2> HIDE DEF c
  <2>5. /\ Plan[w][n][1] = "assignment" /\ r.key[1] = "assignment"
        /\ r.key[2] = c.user /\ r.key[3] = c.permission
        /\ r.key[4] = c.command /\ r.key[5] = c.type /\ r.key[6] = c.id
    BY <2>3, <2>4 DEF From
  <2>6. c.user \in Principals(q)
    BY <2>1, Zenon DEF Principals
  <2>7. Matching(r, q)
    BY <2>1, <2>4, <2>5, <2>6, Zenon DEF Matching
  <2>8. Planned(w, r.key)
    BY <2>4, Zenon DEF Planned
  <2> QED
    BY <2>4, <2>5, <2>7, <2>8, Zenon
<1> QED
  BY <1>2, <1>3, Zenon

\* A committed call that has set what a denial had set has the denial's
\* program.
LEMMA SameAssignment ==
    ASSUME NEW w \in Granters, Grant(Call[w]) = "deny", NEW v \in Granters,
           NEW key, key[1] = "assignment", Planned(w, key), Planned(v, key)
    PROVE  Plan[v] = Plan[w]
<1>1. ~IsRole(Call[w])
  BY Zenon DEF IsRole, Grant
<1>2. /\ key[2] = Call[w].user /\ key[3] = Call[w].permission
      /\ key[4] = Call[w].command /\ key[5] = Call[w].type /\ key[6] = Call[w].id
  BY <1>1, UserKeys, Zenon
<1>3. ~IsRole(Call[v])
  <2> SUFFICES ASSUME IsRole(Call[v]) PROVE FALSE
    BY Zenon
  <2>1. key[2] = GroupOf(Call[v])
    BY RoleKeys, Zenon
  <2> QED
    BY <1>1, <1>2, <2>1, CallAssumption, Zenon DEF IsRole, GroupOf
<1>4. /\ key[2] = Call[v].user /\ key[3] = Call[v].permission
      /\ key[4] = Call[v].command /\ key[5] = Call[v].type /\ key[6] = Call[v].id
  BY <1>3, UserKeys, Zenon
<1>5. \A u \in {v, w} : Plan[u] = GrantKeys(key[2], key[4], key[3], key[5], key[6])
  BY <1>1, <1>2, <1>3, <1>4, Zenon DEF Plan, Program, IsRole
<1> QED
  BY <1>5, Zenon

\* Whatever the sessions call, in whatever order their statements are executed
\* and whoever rolls back, DatabaseAuthorizationPolicy allows what committed
\* calls have granted and not denied, and nothing else; a denial prevails over
\* every permission that had committed when it began.
THEOREM DecisionsFollow == GrantSpec => []DecisionMatchesGrants
<1>1. ASSUME DecisionInv PROVE DecisionMatchesGrants
  <2> USE <1>1
  <2> SUFFICES ASSUME NEW q \in Request
               PROVE  /\ Authorize(q) => Decided(q, "permit") # {}
                      /\ Decided(q, "permit") # {} /\ Decided(q, "deny") = {} =>
                            Authorize(q)
                      /\ (\E w \in Decided(q, "deny") : ~Overruled(w)) => ~Authorize(q)
    BY Zenon DEF DecisionMatchesGrants
  <2>1. \A g : g \in MatchingGrants(q) <=> \E r \in rows : Matching(r, q) /\ r.grant = g
    BY Zenon DEF MatchingGrants, Matching
  <2>2. \A g \in MatchingGrants(q) : Decided(q, g) # {}
    BY <2>1, MatchIsDecided, Zenon
  <2>3. ASSUME NEW w \in Decided(q, "permit"), Decided(q, "deny") = {}
        PROVE  Authorize(q)
    <3>1. PICK r \in rows : Matching(r, q)
      BY DecidedIsStored, Zenon
    <3>2. r.grant \in {"permit", "deny"}
      BY <3>1, MatchIsDecided, Zenon
    <3> QED
      BY <2>1, <2>2, <2>3, <3>1, <3>2, Zenon DEF Authorize
  <2>4. ASSUME NEW w \in Decided(q, "deny"), ~Overruled(w)
        PROVE  "deny" \in MatchingGrants(q)
    <3>1. w \in Granters /\ Grant(Call[w]) = "deny"
      BY Zenon DEF Decided
    <3>2. PICK r \in rows : /\ Matching(r, q) /\ Planned(w, r.key)
                            /\ r.grant = "deny" \/ SetSince(w, r.key, r.grant)
      BY DecidedIsStored, Zenon
    <3>3. r.grant \in {"permit", "deny"}
      BY <3>2, MatchIsDecided, Zenon
    <3>4. ASSUME r.grant = "permit" PROVE FALSE
      <4>1. PICK v \in Granters : /\ phase[v] = "done" /\ v \notin before[w]
                                  /\ Planned(v, r.key) /\ Grant(Call[v]) = "permit"
        BY <3>2, <3>4 DEF SetSince
      <4>2. Plan[v] = Plan[w]
        BY <3>1, <3>2, <4>1, SameAssignment, Zenon DEF Matching
      <4> QED
        BY <2>4, <4>1, <4>2, Zenon DEF Overruled
    <3> QED
      BY <2>1, <3>2, <3>3, <3>4, Zenon
  <2> QED
    BY <2>2, <2>3, <2>4, Zenon DEF Authorize
<1> QED
  BY <1>1, DecisionInvariance, PTL

=============================================================================
