------------------------- MODULE HostRequestsProofs -------------------------
(***************************************************************************)
(* What the requests of a host keep, for any number of requests,           *)
(* definitions, process models, instances, secrets and files: the versions *)
(* of instances, the called processes of a workflow, the secrets of        *)
(* service calls, the shared catalog, and the effects of service calls.    *)
(***************************************************************************)
EXTENDS HostRequests, TLAPS

-----------------------------------------------------------------------------
(***************************************************************************)
(* What the steps of the definition store, of the shared catalog and of    *)
(* service calls preserve.                                                 *)
(***************************************************************************)

Steps == {"idle", "import", "publish", "files", "shell", "load", "seed", "run",
          "call", "finish", "failed", "end"}

Session ==
    [step : Steps, source : Source \cup {"none"},
     file : BpmnFile \cup {"none"}, id : Nat, seen : Form \cup {NoForm},
     want : Form \cup {NoForm}, tasks : BOOLEAN, locked : BOOLEAN,
     instance : Nat, touched : BOOLEAN, draft : Instance,
     result : {"none", "passed", "retried"}, raised : BOOLEAN]

StoreTypeOK ==
    /\ nextId \in Nat /\ 0 < nextId
    /\ nextInstance \in Nat
    /\ \A i \in DOMAIN rows : i \in Nat /\ 0 < i /\ i < nextId /\ rows[i] \in Row
    /\ instances = [n \in DOMAIN instances |-> instances[n]]
    /\ \A n \in DOMAIN instances :
          n \in Nat /\ n < nextInstance /\ instances[n] \in Instance
    /\ session \in [Request -> Session]

\* What a session has read is of the definition it is about: one that is
\* committed, whose source never changes, or one that it has itself inserted.
SessionOK(mine) ==
    /\ mine.id < nextId
    /\ mine.id \in DOMAIN rows => rows[mine.id].source = mine.source
    /\ mine.locked => mine.id # 0 /\ mine.want # NoForm
    /\ mine.want # NoForm => mine.source \in Source
    /\ mine.step \in {"import", "publish", "files", "shell"} =>
          /\ mine.want # NoForm
          /\ mine.draft = NoInstance
          /\ mine.result = "none"
    /\ mine.step = "import" =>
          IF mine.id = 0 THEN mine.seen = NoForm ELSE mine.id \in DOMAIN rows
    /\ mine.step \in {"publish", "files", "shell", "load", "seed"} =>
          mine.id # 0 /\ mine.want # NoForm
    /\ mine.id # 0 /\ mine.id \notin DOMAIN rows =>
          mine.locked /\ mine.seen = NoForm
    /\ mine.draft # NoInstance =>
          /\ mine.id # 0
          /\ mine.id \notin DOMAIN rows
          /\ mine.want # NoForm
          /\ mine.draft.definition = mine.id
          /\ mine.draft.source = mine.source
          /\ mine.draft.model = mine.want.model
          /\ mine.instance < nextInstance
          /\ mine.instance \notin DOMAIN instances
    /\ mine.step \in {"load", "seed", "run", "call", "finish", "failed"}
       \/ mine.result # "none" =>
          mine.draft # NoInstance \/ mine.instance \in DOMAIN instances
    /\ mine.step \in {"seed", "run", "call", "finish", "failed"} /\ mine.want # NoForm =>
          mine.id # 0
    /\ mine.step \in {"run", "call", "finish", "failed"} /\ mine.want = NoForm =>
          /\ mine.draft = NoInstance
          /\ mine.source = instances[mine.instance].source

\* What two sessions have yet to commit is not the same.
Private ==
    \A q, r \in Request : q # r =>
        /\ session[q].id # 0 /\ session[q].id \notin DOMAIN rows =>
              session[r].id # session[q].id
        /\ session[q].draft # NoInstance /\ session[r].draft # NoInstance =>
              session[r].instance # session[q].instance

StoreInv ==
    /\ StoreTypeOK
    /\ \A q \in Request : SessionOK(session[q])
    /\ Private
    /\ VersionsAreKept

-----------------------------------------------------------------------------
\* A session that has done nothing, and an instance that is none, are typed.
LEMMA IdleIsSession == Idle \in Session /\ NoInstance \in Instance
<1>1. NoInstance \in Instance
  BY Zenon DEF NoInstance, Instance
<1> QED
  BY <1>1, Zenon DEF Idle, Session, Steps

\* A session that a step leaves alone stays consistent, if the step changes
\* no source, removes nothing, and commits nothing the session has reserved.
LEMMA OtherSession ==
    ASSUME NEW r \in Request, SessionOK(session[r]), session'[r] = session[r],
           session[r].id < nextId',
           DOMAIN rows \subseteq DOMAIN rows',
           \A i \in DOMAIN rows : rows'[i].source = rows[i].source,
           session[r].id \notin DOMAIN rows => session[r].id \notin DOMAIN rows',
           DOMAIN instances \subseteq DOMAIN instances',
           \A n \in DOMAIN instances : instances'[n].source = instances[n].source,
           session[r].draft # NoInstance =>
               /\ session[r].instance < nextInstance'
               /\ session[r].instance \notin DOMAIN instances'
    PROVE  SessionOK(session[r])'
<1> PICK mine : mine = session[r]
  BY Zenon
<1>1. SessionOK(mine)
  BY Zenon
<1>2. mine.id \in DOMAIN rows' <=> mine.id \in DOMAIN rows
  BY Zenon
<1>3. mine.id \in DOMAIN rows' => rows'[mine.id].source = mine.source
  BY <1>1, <1>2, Zenon DEF SessionOK
<1>4. mine.step \in {"run", "call", "finish", "failed"} /\ mine.want = NoForm =>
         mine.source = instances'[mine.instance].source
  BY <1>1, Zenon DEF SessionOK
<1>5. mine.draft # NoInstance =>
         mine.instance < nextInstance' /\ mine.instance \notin DOMAIN instances'
  BY Zenon
<1>6. mine.instance \in DOMAIN instances => mine.instance \in DOMAIN instances'
  BY Zenon
<1>7. mine.id < nextId'
  BY Zenon
<1>8. SessionOK(session[r])' <=> SessionOK(mine)'
  BY SMTT(30) DEF SessionOK
<1>9. SessionOK(mine)'
  BY <1>1, <1>2, <1>3, <1>4, <1>5, <1>6, <1>7, ZenonT(30) DEF SessionOK
<1> QED
  BY <1>8, <1>9, Zenon

-----------------------------------------------------------------------------
(***************************************************************************)
(* Steps that change nothing but the session of the request.               *)
(***************************************************************************)

\* A session may change as long as it stays consistent, and reserves neither
\* a definition nor an instance that it did not have.
LEMMA QuietStep ==
    ASSUME StoreInv, NEW q \in Request, NEW new \in Session,
           session' = [session EXCEPT ![q] = new],
           UNCHANGED <<rows, nextId, snapshots, instances, nextInstance>>,
           SessionOK(new),
           new.id = 0 \/ new.id \in DOMAIN rows \/ new.id = session[q].id,
           \/ new.draft = NoInstance
           \/ session[q].draft # NoInstance /\ new.instance = session[q].instance
    PROVE  StoreInv'
<1>1. session \in [Request -> Session]
  BY Zenon DEF StoreInv, StoreTypeOK
<1>2. session'[q] = new /\ \A r \in Request \ {q} : session'[r] = session[r]
  BY <1>1, Zenon
<1>3. StoreTypeOK'
  BY <1>1, Zenon DEF StoreInv, StoreTypeOK
<1>4. ASSUME NEW r \in Request PROVE SessionOK(session[r])'
  <2>1. SessionOK(session'[r])
    BY <1>2, Zenon DEF StoreInv
  <2> QED
    BY <2>1, Zenon DEF SessionOK
<1>5. Private'
  BY <1>2 DEF StoreInv, Private
<1>6. VersionsAreKept'
  BY Zenon DEF StoreInv, VersionsAreKept
<1> QED
  BY <1>3, <1>4, <1>5, <1>6, Zenon DEF StoreInv

\* The SELECT of an import: the session records what it has read.
LEMMA LookKeeps ==
    ASSUME StoreInv, NEW q \in Request, NEW s \in Source, NEW m \in Model,
           NEW d \in Decision \cup {NoDecision},
           NEW f \in BpmnFile \cup {"none"}, Look(q, s, m, d, f)
    PROVE  StoreInv'
<1> DEFINE found == Found(s, m)
           i == IF found = {} THEN 0 ELSE CHOOSE x \in found : TRUE
           seen == IF i = 0 THEN NoForm ELSE rows[i].form
           tasks == IF i = 0 THEN FALSE ELSE rows[i].tasks
           want == [model |-> m, dmn |-> d, spec |-> FALSE]
           new == [Idle EXCEPT !.step = "import", !.source = s, !.id = i,
                               !.file = f, !.seen = seen, !.tasks = tasks,
                               !.want = want]
<1>1. session' = [session EXCEPT ![q] = new]
      /\ UNCHANGED <<rows, nextId, snapshots, instances, nextInstance>>
  BY Zenon DEF Look, Set
<1>2. i = 0 \/ (i \in DOMAIN rows /\ rows[i].source = s)
  BY Zenon DEF Found
<1>3. want \in Form /\ want # NoForm
  BY StoreAssumption, Zenon DEF Form, NoForm
<1> HIDE DEF i, want
<1>4. i \in Nat /\ i < nextId /\ 0 \notin DOMAIN rows
  BY <1>2 DEF StoreInv, StoreTypeOK
<1>5. seen \in Form \cup {NoForm} /\ (i = 0 => seen = NoForm) /\ tasks \in BOOLEAN
  BY <1>2, Zenon DEF StoreInv, StoreTypeOK, Row
<1> HIDE DEF seen, tasks
<1>6. new \in Session
  BY <1>3, <1>4, <1>5, IdleIsSession, ZenonT(30) DEF Session, Steps, Idle
<1>7. SessionOK(new)
  BY <1>2, <1>3, <1>4, <1>5 DEF SessionOK, Idle
<1>8. new.id = i /\ new.draft = NoInstance
  BY Zenon DEF Idle
<1> QED
  BY <1>1, <1>2, <1>6, <1>7, <1>8, QuietStep, ZenonT(30)

\* A request that starts an instance of a committed definition.
LEMMA ChooseKeeps ==
    ASSUME StoreInv, NEW q \in Request, NEW m \in Model, Choose(q, m)
    PROVE  StoreInv'
<1>1. PICK i \in DOMAIN rows :
          session' = [session EXCEPT ![q] =
              [Idle EXCEPT !.step = "shell", !.id = i, !.source = rows[i].source,
                           !.seen = rows[i].form, !.want = rows[i].form,
                           !.tasks = rows[i].tasks]]
  BY ZenonT(30) DEF Choose, Set
<1> DEFINE new == [Idle EXCEPT !.step = "shell", !.id = i,
                               !.source = rows[i].source,
                               !.seen = rows[i].form, !.want = rows[i].form,
                               !.tasks = rows[i].tasks]
<1>2. i \in Nat /\ i # 0 /\ i < nextId /\ rows[i].source \in Source
      /\ rows[i].form \in Form /\ rows[i].form # NoForm /\ rows[i].tasks \in BOOLEAN
  BY StoreAssumption, SMTT(30) DEF StoreInv, StoreTypeOK, Row, Form, NoForm
<1>3. new \in Session
  BY <1>2, IdleIsSession, ZenonT(30) DEF Session, Steps, Idle
<1>4. SessionOK(new)
  BY <1>2, ZenonT(40) DEF SessionOK, Idle
<1>5. new.id = i /\ new.draft = NoInstance
  BY Zenon DEF Idle
<1>6. UNCHANGED <<rows, nextId, snapshots, instances, nextInstance>>
  BY Zenon DEF Choose
<1> QED
  BY <1>1, <1>3, <1>4, <1>5, <1>6, QuietStep, ZenonT(30)

\* One that goes on with an instance: its definition has the source that the
\* instance was started with.
LEMMA InitializeKeeps ==
    ASSUME StoreInv, NEW q \in Request, NEW n \in DOMAIN instances,
           Initialize(q, n)
    PROVE  StoreInv'
<1> DEFINE i == instances[n].definition
           new == [Idle EXCEPT !.step = "load", !.instance = n, !.id = i,
                               !.source = rows[i].source,
                               !.seen = rows[i].form, !.want = rows[i].form,
                               !.tasks = rows[i].tasks]
<1>1. session' = [session EXCEPT ![q] = new]
      /\ UNCHANGED <<rows, nextId, snapshots, instances, nextInstance>>
  BY Zenon DEF Initialize, Set
<1>2. i \in DOMAIN rows /\ n \in Nat
  BY ZenonT(30) DEF StoreInv, StoreTypeOK, VersionsAreKept
<1> HIDE DEF i
<1>3. i \in Nat /\ i # 0 /\ i < nextId /\ rows[i].source \in Source
      /\ rows[i].form \in Form /\ rows[i].form # NoForm /\ rows[i].tasks \in BOOLEAN
  BY <1>2, StoreAssumption, SMTT(30) DEF StoreInv, StoreTypeOK, Row, Form, NoForm
<1>4. new \in Session
  BY <1>2, <1>3, IdleIsSession, ZenonT(30) DEF Session, Steps, Idle
<1>5. SessionOK(new)
  BY <1>2, <1>3, ZenonT(40) DEF SessionOK, Idle
<1>6. new.id = i /\ new.draft = NoInstance
  BY Zenon DEF Idle
<1> QED
  BY <1>1, <1>2, <1>4, <1>5, <1>6, QuietStep, ZenonT(30)

\* A retry begins with the instance alone.
LEMMA RetryKeeps ==
    ASSUME StoreInv, NEW q \in Request, NEW n \in DOMAIN instances, Retry(q, n)
    PROVE  StoreInv'
<1> DEFINE new == [Idle EXCEPT !.step = "run", !.instance = n,
                               !.source = instances[n].source]
<1>1. session' = [session EXCEPT ![q] = new]
      /\ UNCHANGED <<rows, nextId, snapshots, instances, nextInstance>>
  BY Zenon DEF Retry, Set
<1>2. n \in Nat /\ instances[n].source \in Source \cup {"none"}
      /\ 0 < nextId /\ nextId \in Nat /\ 0 \notin DOMAIN rows
  BY DEF StoreInv, StoreTypeOK, Instance
<1>3. new \in Session
  BY <1>2, IdleIsSession, ZenonT(30) DEF Session, Steps, Idle
<1>4. SessionOK(new)
  BY <1>2, Zenon DEF SessionOK, Idle
<1>5. new.id = 0 /\ new.draft = NoInstance
  BY Zenon DEF Idle
<1> QED
  BY <1>1, <1>3, <1>4, <1>5, QuietStep, ZenonT(30)

\* The end of a session without a commit.
LEMMA IdleKeeps ==
    ASSUME StoreInv, NEW q \in Request, session' = [session EXCEPT ![q] = Idle],
           UNCHANGED <<rows, nextId, snapshots, instances, nextInstance>>
    PROVE  StoreInv'
<1>1. 0 < nextId /\ nextId \in Nat /\ 0 \notin DOMAIN rows
  BY DEF StoreInv, StoreTypeOK
<1>2. SessionOK(Idle)
  BY <1>1, Zenon DEF SessionOK, Idle
<1>3. Idle.id = 0 /\ Idle.draft = NoInstance
  BY Zenon DEF Idle
<1> QED
  BY <1>2, <1>3, IdleIsSession, QuietStep, ZenonT(30)

\* A request that moves on, or raises, with what it has.
LEMMA MoveKeeps ==
    ASSUME StoreInv, NEW q \in Request, NEW new \in Session,
           session' = [session EXCEPT ![q] = new],
           UNCHANGED <<rows, nextId, snapshots, instances, nextInstance>>,
           \/ <<session[q].step, new.step>> \in Moves
           \/ session[q].step = "publish" /\ new.step = "shell"
           \/ session[q].step \in {"publish", "load"} /\ new.step = "end",
           new.source = session[q].source, new.id = session[q].id,
           new.seen = session[q].seen, new.want = session[q].want,
           new.locked = session[q].locked, new.instance = session[q].instance,
           new.draft = session[q].draft, new.result = session[q].result
    PROVE  StoreInv'
<1>1. SessionOK(session[q])
  BY Zenon DEF StoreInv
<1>2. SessionOK(new)
  BY <1>1 DEF SessionOK, Moves
<1> QED
  BY <1>2, QuietStep, ZenonT(30)

\* What a request does between the steps that touch the store.
LEMMA PassKeeps ==
    ASSUME StoreInv, NEW q \in Request,
           \/ \E move \in Moves : Pass(q, move[1], move[2])
           \/ StartOwn(q)
           \/ ImportRaises(q)
           \/ BuildRaises(q)
    PROVE  StoreInv'
<1>1. session[q] \in Session
  BY Zenon DEF StoreInv, StoreTypeOK
<1>2. UNCHANGED <<rows, nextId, snapshots, instances, nextInstance>>
  BY ZenonT(30) DEF Pass, StartOwn, ImportRaises, BuildRaises
<1>3. CASE \E move \in Moves : Pass(q, move[1], move[2])
  <2>1. PICK move \in Moves : Pass(q, move[1], move[2])
    BY <1>3, Zenon
  <2> DEFINE new == [session[q] EXCEPT !.step = move[2]]
  <2>2. session' = [session EXCEPT ![q] = new] /\ session[q].step = move[1]
        /\ <<move[1], move[2]>> \in Moves
    BY <2>1, Zenon DEF Pass, Move, Set, At
  <2>3. move[2] \in Steps
    BY <2>2, Zenon DEF Moves, Steps
  <2>4. new \in Session /\ new.step = move[2]
    BY <1>1, <2>3, Zenon DEF Session
  <2>5. /\ new.source = session[q].source /\ new.id = session[q].id
        /\ new.seen = session[q].seen /\ new.want = session[q].want
        /\ new.locked = session[q].locked /\ new.instance = session[q].instance
        /\ new.draft = session[q].draft /\ new.result = session[q].result
    BY <1>1, Zenon DEF Session
  <2> QED
    BY <1>2, <2>2, <2>4, <2>5, MoveKeeps, ZenonT(30)
<1>4. CASE StartOwn(q)
  <2> DEFINE new == [session[q] EXCEPT !.step = "shell"]
  <2>1. session' = [session EXCEPT ![q] = new] /\ session[q].step = "publish"
    BY <1>4, Zenon DEF StartOwn, Move, Set, At
  <2>2. new \in Session /\ new.step = "shell"
    BY <1>1, Zenon DEF Session, Steps
  <2>3. /\ new.source = session[q].source /\ new.id = session[q].id
        /\ new.seen = session[q].seen /\ new.want = session[q].want
        /\ new.locked = session[q].locked /\ new.instance = session[q].instance
        /\ new.draft = session[q].draft /\ new.result = session[q].result
    BY <1>1, Zenon DEF Session
  <2> QED
    BY <1>2, <2>1, <2>2, <2>3, MoveKeeps, ZenonT(30)
<1>5. CASE ImportRaises(q) \/ BuildRaises(q)
  <2> DEFINE new == [session[q] EXCEPT !.step = "end", !.raised = TRUE]
  <2>1. /\ session' = [session EXCEPT ![q] = new]
        /\ session[q].step \in {"publish", "load"}
    BY <1>5, Zenon DEF ImportRaises, BuildRaises, Raise, Set, At
  <2>2. new \in Session /\ new.step = "end"
    BY <1>1, ZenonT(30) DEF Session, Steps
  <2>3. /\ new.source = session[q].source /\ new.id = session[q].id
        /\ new.seen = session[q].seen /\ new.want = session[q].want
        /\ new.locked = session[q].locked /\ new.instance = session[q].instance
        /\ new.draft = session[q].draft /\ new.result = session[q].result
    BY <1>1, Zenon DEF Session
  <2> QED
    BY <1>2, <2>1, <2>2, <2>3, MoveKeeps, ZenonT(30)
<1> QED
  BY <1>3, <1>4, <1>5, Zenon

\* The definition is locked, and its new column stays with the session.
LEMMA SeedRowKeeps ==
    ASSUME StoreInv, NEW q \in Request, SeedRow(q)
    PROVE  StoreInv'
<1> DEFINE mine == session[q]
           want == [mine.want EXCEPT !.spec = TRUE]
           new == [mine EXCEPT !.step = "run", !.want = want, !.locked = TRUE]
<1>1. mine \in Session /\ SessionOK(mine) /\ mine.step = "seed"
  BY Zenon DEF StoreInv, StoreTypeOK, SeedRow, At
<1>2. mine.want \in Form /\ mine.id # 0
  BY <1>1, Zenon DEF SessionOK, Session
<1>3. want \in Form /\ want # NoForm /\ want.model = mine.want.model
  BY <1>2, StoreAssumption, ZenonT(30) DEF Form, NoForm
<1>4. session' = [session EXCEPT ![q] = new]
      /\ UNCHANGED <<rows, nextId, snapshots, instances, nextInstance>>
  BY <1>1, <1>2, Zenon DEF SeedRow, Set, Session, Form
<1> HIDE DEF want
<1>5. new \in Session
  BY <1>1, <1>3, ZenonT(30) DEF Session, Steps
<1>6. /\ new.step = "run" /\ new.want = want /\ new.locked = TRUE
      /\ new.source = mine.source /\ new.id = mine.id /\ new.seen = mine.seen
      /\ new.instance = mine.instance /\ new.draft = mine.draft
      /\ new.result = mine.result
  BY <1>1, Zenon DEF Session
<1> HIDE DEF new
<1>7. SessionOK(new)
  BY <1>1, <1>2, <1>3, <1>6, Zenon DEF SessionOK
<1> QED
  BY <1>4, <1>5, <1>6, <1>7, QuietStep, ZenonT(30)

\* A retry reads the definition of its instance.
LEMMA ReadDefinitionKeeps ==
    ASSUME StoreInv, NEW q \in Request, ReadDefinition(q)
    PROVE  StoreInv'
<1> DEFINE mine == session[q]
           i == instances[mine.instance].definition
           seen == rows[i].form
           want == [rows[i].form EXCEPT !.spec = TRUE]
           tasks == rows[i].tasks
           new == [mine EXCEPT !.id = i, !.seen = seen, !.want = want, !.tasks = tasks]
<1>1. /\ mine \in Session /\ SessionOK(mine) /\ mine.step = "finish"
      /\ mine.want = NoForm
  BY Zenon DEF StoreInv, StoreTypeOK, ReadDefinition, At
<1>2. session' = [session EXCEPT ![q] = new]
      /\ UNCHANGED <<rows, nextId, snapshots, instances, nextInstance>>
  BY <1>1, Zenon DEF ReadDefinition, Set, Session
<1>3. /\ mine.draft = NoInstance
      /\ mine.instance \in DOMAIN instances
      /\ mine.source = instances[mine.instance].source
      /\ ~mine.locked
  BY <1>1, Zenon DEF SessionOK
<1>4. i \in DOMAIN rows /\ rows[i].source = mine.source
  BY <1>3, ZenonT(30) DEF StoreInv, VersionsAreKept
<1> HIDE DEF i
<1>5. i \in Nat /\ i # 0 /\ i < nextId /\ seen \in Form /\ rows[i].source \in Source
      /\ tasks \in BOOLEAN
  BY <1>4 DEF StoreInv, StoreTypeOK, Row
<1>6. want \in Form /\ want # NoForm
  BY <1>5, StoreAssumption, ZenonT(30) DEF Form, NoForm
<1> HIDE DEF seen, want, tasks
<1>7. new \in Session
  BY <1>1, <1>5, <1>6, ZenonT(30) DEF Session, Steps
<1>8. /\ new.step = "finish" /\ new.result = mine.result /\ new.locked = mine.locked
      /\ new.id = i /\ new.seen = seen /\ new.want = want
      /\ new.source = mine.source /\ new.instance = mine.instance
      /\ new.draft = mine.draft
  BY <1>1, Zenon DEF Session
<1> HIDE DEF new
<1>9. SessionOK(new)
  BY <1>3, <1>4, <1>5, <1>6, <1>8, Zenon DEF SessionOK
<1> QED
  BY <1>2, <1>3, <1>4, <1>7, <1>8, <1>9, QuietStep, ZenonT(30)

\* Storing the workflow.
LEMMA FinishKeeps ==
    ASSUME StoreInv, NEW q \in Request, Finish(q)
    PROVE  StoreInv'
<1> DEFINE mine == session[q]
           new == [mine EXCEPT !.step = "end", !.result = "passed",
                               !.touched = TRUE, !.locked = TRUE]
<1>1. /\ mine \in Session /\ SessionOK(mine) /\ mine.step = "finish"
      /\ mine.want # NoForm
  BY Zenon DEF StoreInv, StoreTypeOK, Finish, At
<1>2. session' = [session EXCEPT ![q] = new]
      /\ UNCHANGED <<rows, nextId, snapshots, instances, nextInstance>>
  BY <1>1, Zenon DEF Finish, Set, Session
<1>3. new \in Session
  BY <1>1, ZenonT(30) DEF Session, Steps
<1>4. /\ new.step = "end" /\ new.result = "passed" /\ new.locked = TRUE
      /\ new.id = mine.id /\ new.seen = mine.seen /\ new.want = mine.want
      /\ new.source = mine.source /\ new.instance = mine.instance
      /\ new.draft = mine.draft
  BY <1>1, Zenon DEF Session
<1> HIDE DEF new
<1>5. SessionOK(new)
  BY <1>1, <1>4, Zenon DEF SessionOK
<1> QED
  BY <1>2, <1>3, <1>4, <1>5, QuietStep, ZenonT(30)

-----------------------------------------------------------------------------
(***************************************************************************)
(* Steps that reserve or write something.                                  *)
(***************************************************************************)

\* The flush of an import: a new definition gets an id that nobody has.
LEMMA WriteKeeps ==
    ASSUME StoreInv, NEW q \in Request, Write(q)
    PROVE  StoreInv'
<1> DEFINE mine == session[q]
           id == IF mine.id = 0 THEN nextId ELSE mine.id
           Locking(b) == [mine EXCEPT !.step = "publish", !.locked = b, !.id = id]
<1>1. mine \in Session /\ SessionOK(mine) /\ mine.step = "import"
      /\ session \in [Request -> Session]
  BY Zenon DEF StoreInv, StoreTypeOK, Write, At
<1>5. PICK changes \in BOOLEAN :
         /\ mine.id = 0 => changes
         /\ session' = [session EXCEPT ![q] = Locking(changes)]
  BY <1>1, ZenonT(30) DEF Write, Set, Session
<1> DEFINE new == Locking(changes)
<1>2. session' = [session EXCEPT ![q] = new]
      /\ nextId' = (IF mine.id = 0 THEN nextId + 1 ELSE nextId)
      /\ UNCHANGED <<rows, snapshots, instances, nextInstance>>
  BY <1>1, <1>5, Zenon DEF Write
<1>3. /\ nextId \in Nat /\ 0 < nextId /\ 0 \notin DOMAIN rows
      /\ nextId \notin DOMAIN rows
  BY DEF StoreInv, StoreTypeOK
<1>4. nextId' \in Nat /\ nextId <= nextId' /\ id \in Nat /\ id # 0 /\ id < nextId'
  BY <1>1, <1>2, <1>3 DEF SessionOK, Session
<1>6. id = nextId \/ (id \in DOMAIN rows /\ id = mine.id)
  BY <1>1, Zenon DEF SessionOK
<1>7. id = nextId => mine.id = 0
  BY <1>1, <1>3, Zenon DEF SessionOK, Session
<1> HIDE DEF id
<1>8. mine.id = 0 => changes
  BY <1>5, Zenon
<1>9. new \in Session
  BY <1>1, <1>4, ZenonT(30) DEF Session, Steps
<1>10. /\ new.step = "publish" /\ new.locked = changes /\ new.id = id
       /\ new.source = mine.source /\ new.want = mine.want
       /\ new.seen = mine.seen /\ new.instance = mine.instance
       /\ new.draft = mine.draft /\ new.result = mine.result
  BY <1>1, Zenon DEF Session
<1> HIDE DEF new
<1>11. session'[q] = new /\ \A r \in Request \ {q} : session'[r] = session[r]
  BY <1>1, <1>2, Zenon
<1>12. StoreTypeOK'
  BY <1>1, <1>2, <1>3, <1>4, <1>9 DEF StoreInv, StoreTypeOK
<1>13. SessionOK(session[q])'
  BY Zenon, <1>1, <1>2, <1>3, <1>4, <1>6, <1>7, <1>8, <1>10, <1>11 DEF
     SessionOK
<1>14. ASSUME NEW r \in Request \ {q} PROVE SessionOK(session[r])'
  <2>1. SessionOK(session[r]) /\ session[r].id \in Nat
    BY <1>1, Zenon DEF StoreInv, Session
  <2> QED
    <3>1. session[r].id < nextId'
      BY <1>3, <1>4, <2>1 DEF SessionOK
    <3>2. session[r].draft # NoInstance =>
             /\ session[r].instance < nextInstance
             /\ session[r].instance \notin DOMAIN instances
      BY <2>1, Zenon DEF SessionOK
    <3> QED
      BY <1>2, <1>11, <2>1, <3>1, <3>2, OtherSession, Zenon
<1>15. ASSUME NEW r \in Request PROVE session[r].id # nextId
  <2>1. session[r].id \in Nat /\ session[r].id < nextId
    BY <1>1, Zenon DEF StoreInv, SessionOK, Session
  <2> QED
    BY <1>3, <2>1
<1>16. Private'
  BY <1>1, <1>2, <1>6, <1>10, <1>11, <1>15 DEF StoreInv, Private
<1>17. VersionsAreKept'
  BY <1>2, Zenon DEF StoreInv, VersionsAreKept
<1> QED
  BY <1>11, <1>12, <1>13, <1>14, <1>16, <1>17, Zenon DEF StoreInv

\* A new instance: committed on its own, or kept in the session.
LEMMA PrepareKeeps ==
    ASSUME StoreInv, NEW q \in Request, Prepare(q)
    PROVE  StoreInv'
<1> PICK n : n = nextInstance
  BY Zenon
<1> DEFINE mine == session[q]
           commits == mine.id \in DOMAIN rows
           draft == IF commits THEN NoInstance ELSE Shell(q)
           new == [mine EXCEPT !.step = "load", !.instance = n, !.draft = draft]
<1>1. mine \in Session /\ SessionOK(mine) /\ mine.step = "shell"
      /\ session \in [Request -> Session]
  BY Zenon DEF StoreInv, StoreTypeOK, Prepare, At
<1>2. /\ session' = [session EXCEPT ![q] = new]
      /\ instances' = (IF commits THEN Put(instances, n, Shell(q)) ELSE instances)
      /\ nextInstance' = n + 1
      /\ UNCHANGED <<rows, nextId, snapshots>>
      /\ commits => <<mine.want.model, mine.source>> \in snapshots
  BY <1>1, Zenon DEF Prepare, Set, WaitsForItself, At
<1>3. n \in Nat /\ n \notin DOMAIN instances
  BY DEF StoreInv, StoreTypeOK
<1>4. /\ Shell(q) \in Instance
      /\ Shell(q) # NoInstance
      /\ Shell(q).definition = mine.id /\ Shell(q).source = mine.source
      /\ Shell(q).model = mine.want.model
  BY <1>1, Zenon DEF Shell, Instance, NoInstance, Session, SessionOK, Form
<1>5. draft \in Instance /\ (commits => draft = NoInstance)
      /\ (~commits => draft = Shell(q))
  BY <1>4, IdleIsSession, Zenon
<1> HIDE DEF draft
<1>6. new \in Session
  BY <1>1, <1>3, <1>5, ZenonT(30) DEF Session, Steps
<1>7. /\ new.step = "load" /\ new.instance = n /\ new.draft = draft
      /\ new.source = mine.source /\ new.id = mine.id /\ new.seen = mine.seen
      /\ new.want = mine.want /\ new.locked = mine.locked
      /\ new.result = mine.result
  BY <1>1, Zenon DEF Session
<1> HIDE DEF new
<1>8. session'[q] = new /\ \A r \in Request \ {q} : session'[r] = session[r]
  BY <1>1, <1>2, Zenon
<1>9. /\ DOMAIN instances \subseteq DOMAIN instances'
      /\ DOMAIN instances' \subseteq DOMAIN instances \cup {n}
      /\ commits => n \in DOMAIN instances' /\ instances'[n] = Shell(q)
      /\ ~commits => instances' = instances
      /\ \A k \in DOMAIN instances : instances'[k] = instances[k]
      /\ instances' = [k \in DOMAIN instances' |-> instances'[k]]
  BY <1>2, <1>3, ZenonT(30) DEF Put, StoreInv, StoreTypeOK
<1>10. StoreTypeOK'
  BY <1>1, <1>2, <1>3, <1>4, <1>6, <1>9 DEF StoreInv, StoreTypeOK
<1>11. SessionOK(session[q])'
  <2>1. rows' = rows /\ nextId' = nextId /\ n < nextInstance'
    BY <1>2, <1>3
  <2>2. /\ mine.id # 0 /\ mine.id < nextId
        /\ mine.id \in DOMAIN rows => rows[mine.id].source = mine.source
        /\ mine.id \notin DOMAIN rows => mine.locked /\ mine.seen = NoForm
        /\ mine.want # NoForm /\ mine.source \in Source
        /\ mine.result = "none"
    BY <1>1, Zenon DEF SessionOK
  <2>3. draft # NoInstance =>
           /\ mine.id \notin DOMAIN rows /\ draft = Shell(q)
           /\ n \notin DOMAIN instances'
    BY <1>3, <1>5, <1>9, Zenon
  <2>4. draft # NoInstance \/ n \in DOMAIN instances'
    BY <1>4, <1>5, <1>9, Zenon
  <2> QED
    BY <1>4, <1>7, <1>8, <2>1, <2>2, <2>3, <2>4, Zenon DEF SessionOK
<1>12. ASSUME NEW r \in Request \ {q} PROVE SessionOK(session[r])'
  <2>1. SessionOK(session[r]) /\ session[r].instance \in Nat
    BY <1>1, Zenon DEF StoreInv, Session
  <2> QED
    <3>1. session[r].id < nextId
      BY <2>1, Zenon DEF SessionOK
    <3>2. session[r].draft # NoInstance =>
             /\ session[r].instance < n
             /\ session[r].instance \notin DOMAIN instances
      BY <2>1, Zenon DEF SessionOK
    <3>3. session[r].draft # NoInstance =>
             /\ session[r].instance < nextInstance'
             /\ session[r].instance \notin DOMAIN instances'
      BY <1>2, <1>3, <1>9, <2>1, <3>2
    <3> QED
      BY <1>2, <1>8, <1>9, <2>1, <3>1, <3>3, OtherSession, Zenon
<1>13. \A r \in Request : session[r].draft # NoInstance => session[r].instance # n
  <2> SUFFICES ASSUME NEW r \in Request, session[r].draft # NoInstance
               PROVE  session[r].instance # n
    BY Zenon
  <2>1. SessionOK(session[r])
    BY Zenon DEF StoreInv
  <2>2. session[r].instance < n
    BY <2>1, Zenon DEF SessionOK
  <2>3. session[r].instance \in Nat
    BY <1>1, Zenon DEF Session
  <2> QED
    BY <1>3, <2>2, <2>3
<1>14. Private'
  BY <1>1, <1>2, <1>7, <1>8, <1>13, SMTT(30) DEF StoreInv, Private
<1>15. commits => /\ rows[mine.id].source = mine.source
                  /\ <<mine.want.model, mine.source>> \in snapshots
  BY <1>1, <1>2, Zenon DEF SessionOK
<1>16. ASSUME NEW k \in DOMAIN instances'
       PROVE  /\ instances'[k].definition \in DOMAIN rows
              /\ rows[instances'[k].definition].source = instances'[k].source
              /\ <<instances'[k].model, instances'[k].source>> \in snapshots
  <2>1. CASE k \in DOMAIN instances
    BY <1>9, <2>1, Zenon DEF StoreInv, VersionsAreKept
  <2>2. CASE k \notin DOMAIN instances
    BY <1>4, <1>9, <1>15, <2>2, Zenon
  <2> QED
    BY <2>1, <2>2, Zenon
<1>17. VersionsAreKept'
  BY <1>2, <1>16, Zenon DEF StoreInv, VersionsAreKept
<1> QED
  BY <1>8, <1>10, <1>11, <1>12, <1>14, <1>17, Zenon DEF StoreInv

\* The failure of an instance: neither its definition nor its source changes.
LEMMA FailKeeps ==
    ASSUME StoreInv, NEW q \in Request, RecordFailure(q)
    PROVE  StoreInv'
<1> DEFINE mine == session[q]
<1>1. mine \in Session /\ SessionOK(mine) /\ mine.step = "failed"
      /\ session \in [Request -> Session]
      /\ UNCHANGED <<rows, nextId, snapshots, nextInstance>>
  BY Zenon DEF StoreInv, StoreTypeOK, RecordFailure, Fail, At
<1>2. CASE mine.instance \notin DOMAIN instances
  <2> DEFINE draft == [mine.draft EXCEPT !.status = "error"]
             new == [mine EXCEPT !.step = "end", !.raised = TRUE, !.draft = draft]
  <2>1. session' = [session EXCEPT ![q] = new] /\ UNCHANGED instances
    BY <1>1, <1>2, Zenon DEF RecordFailure, Fail, Set, Session
  <2>2. mine.draft \in Instance /\ mine.draft # NoInstance
    BY <1>1, <1>2, Zenon DEF Session, SessionOK
  <2>3. /\ draft \in Instance
        /\ draft.definition = mine.draft.definition
        /\ draft.source = mine.draft.source /\ draft.model = mine.draft.model
    BY <2>2, Zenon DEF Instance
  <2>4. draft # NoInstance
    BY <1>1, <2>2, <2>3, Zenon DEF SessionOK, NoInstance
  <2> HIDE DEF draft
  <2>5. new \in Session
    BY <1>1, <2>3, ZenonT(30) DEF Session, Steps
  <2>6. /\ new.step = "end" /\ new.draft = draft
        /\ new.source = mine.source /\ new.id = mine.id /\ new.seen = mine.seen
        /\ new.want = mine.want /\ new.locked = mine.locked
        /\ new.instance = mine.instance /\ new.result = mine.result
    BY <1>1, Zenon DEF Session
  <2> HIDE DEF new
  <2>7. SessionOK(new)
    BY <1>1, <2>2, <2>3, <2>4, <2>6, Zenon DEF SessionOK
  <2> QED
    BY <1>1, <2>1, <2>2, <2>5, <2>6, <2>7, QuietStep, ZenonT(30)
<1>3. CASE mine.instance \in DOMAIN instances
  <2> DEFINE result == IF mine.want = NoForm THEN "retried" ELSE mine.result
             new == [mine EXCEPT !.step = "end", !.raised = TRUE, !.result = result]
  <2>1. /\ session' = [session EXCEPT ![q] = new]
        /\ instances' = [instances EXCEPT ![mine.instance].status = "error"]
    BY <1>1, <1>3, Zenon DEF RecordFailure, Fail, Set, Session
  <2>2. result \in {"none", "passed", "retried"}
    BY <1>1, Zenon DEF Session
  <2> HIDE DEF result
  <2>3. new \in Session
    BY <1>1, <2>2, ZenonT(30) DEF Session, Steps
  <2>4. /\ new.step = "end" /\ new.draft = mine.draft
        /\ new.source = mine.source /\ new.id = mine.id /\ new.seen = mine.seen
        /\ new.want = mine.want /\ new.locked = mine.locked
        /\ new.instance = mine.instance
    BY <1>1, Zenon DEF Session
  <2> HIDE DEF new
  <2>5. session'[q] = new /\ \A r \in Request \ {q} : session'[r] = session[r]
    BY <1>1, <2>1, Zenon
  <2>6. /\ DOMAIN instances' = DOMAIN instances
        /\ instances' = [k \in DOMAIN instances' |-> instances'[k]]
        /\ \A k \in DOMAIN instances :
              /\ instances'[k] \in Instance
              /\ instances'[k].definition = instances[k].definition
              /\ instances'[k].source = instances[k].source
              /\ instances'[k].model = instances[k].model
    BY <1>3, <2>1, ZenonT(30) DEF StoreInv, StoreTypeOK, Instance
  <2>7. StoreTypeOK'
    BY <1>1, <2>1, <2>3, <2>6, Zenon DEF StoreInv, StoreTypeOK
  <2>8. SessionOK(session[q])'
    BY <1>1, <1>3, <2>4, <2>5, <2>6, Zenon DEF SessionOK
  <2>9. ASSUME NEW r \in Request \ {q} PROVE SessionOK(session[r])'
    <3>1. SessionOK(session[r])
      BY Zenon DEF StoreInv
    <3> QED
      <4>1. session[r].id < nextId
        BY <3>1, Zenon DEF SessionOK
      <4>2. session[r].draft # NoInstance =>
               /\ session[r].instance < nextInstance
               /\ session[r].instance \notin DOMAIN instances
        BY <3>1, Zenon DEF SessionOK
      <4> QED
        BY <1>1, <2>1, <2>5, <2>6, <3>1, <4>1, <4>2, OtherSession, Zenon
  <2>10. Private'
    BY <1>1, <2>4, <2>5 DEF StoreInv, Private
  <2>11. VersionsAreKept'
    BY <1>1, <2>6 DEF StoreInv, VersionsAreKept
  <2> QED
    BY <2>7, <2>8, <2>9, <2>10, <2>11, Zenon DEF StoreInv
<1> QED
  BY <1>2, <1>3, Zenon

\* The commit: a definition is written with the source that it had or under an
\* id of its own, and its snapshot with it.
LEMMA CommitKeeps ==
    ASSUME StoreInv, NEW q \in Request, Commit(q)
    PROVE  StoreInv'
<1> DEFINE mine == session[q]
           writes == mine.locked /\ mine.want # mine.seen
           had == mine.id \in DOMAIN rows /\ rows[mine.id].tasks
           row == [source |-> mine.source, form |-> mine.want,
                   tasks |-> had \/ mine.want.spec]
           stores == mine.result # "none" \/ mine.draft # NoInstance
           n == mine.instance
<1>1. mine \in Session /\ SessionOK(mine) /\ mine.step = "end"
      /\ session \in [Request -> Session] /\ mine.id \in Nat /\ n \in Nat
  BY Zenon DEF StoreInv, StoreTypeOK, Commit, At, Session
<1>2. /\ rows' = (IF writes THEN Put(rows, mine.id, row) ELSE rows)
      /\ snapshots' = (IF mine.want = NoForm THEN snapshots
                       ELSE snapshots \cup {<<mine.want.model, mine.source>>})
      /\ instances' = (IF stores THEN Put(instances, n, Outcome(q)) ELSE instances)
      /\ session' = [session EXCEPT ![q] = Idle]
      /\ UNCHANGED <<nextId, nextInstance>>
  BY Zenon DEF Commit, Set
<1>3. session'[q] = Idle /\ \A r \in Request \ {q} : session'[r] = session[r]
  BY <1>1, <1>2, Zenon
<1>4. /\ snapshots \subseteq snapshots'
      /\ mine.want # NoForm => <<mine.want.model, mine.source>> \in snapshots'
  BY <1>2, Zenon
<1>5. writes => row \in Row /\ row.source = mine.source /\ row.form = mine.want
                /\ mine.id # 0 /\ mine.id < nextId
                /\ <<mine.want.model, mine.source>> \in snapshots'
  BY <1>1, <1>4, Zenon DEF SessionOK, Session, Row
<1>6. /\ DOMAIN rows \subseteq DOMAIN rows'
      /\ DOMAIN rows' \subseteq DOMAIN rows \cup {mine.id}
      /\ mine.id \in DOMAIN rows' \ DOMAIN rows => writes
      /\ writes => mine.id \in DOMAIN rows' /\ rows'[mine.id] = row
      /\ \A i \in DOMAIN rows : i # mine.id => rows'[i] = rows[i]
      /\ ~writes => rows' = rows
  BY <1>2, Zenon DEF Put
<1> HIDE DEF row
<1>7. \A i \in DOMAIN rows : rows'[i].source = rows[i].source
  BY <1>1, <1>5, <1>6, Zenon DEF SessionOK
<1>8. ASSUME NEW i \in DOMAIN rows'
      PROVE  /\ i \in Nat /\ 0 < i /\ i < nextId /\ rows'[i] \in Row
             /\ <<rows'[i].form.model, rows'[i].source>> \in snapshots'
  <2>1. CASE writes /\ i = mine.id
    BY <1>1, <1>5, <1>6, <2>1
  <2>2. CASE ~(writes /\ i = mine.id)
    <3>1. i \in DOMAIN rows /\ rows'[i] = rows[i]
      <4> HIDE DEF writes
      <4> QED
        BY <1>6, <2>2, Zenon
    <3> QED
      BY <1>4, <3>1, Zenon DEF StoreInv, StoreTypeOK, VersionsAreKept
  <2> QED
    BY <2>1, <2>2, Zenon
<1>9. mine.draft # NoInstance =>
         /\ writes
         /\ mine.draft.definition = mine.id
         /\ mine.draft.source = mine.source
         /\ mine.draft.model = mine.want.model
         /\ mine.draft \in Instance
         /\ n < nextInstance
  BY <1>1, ZenonT(30) DEF SessionOK, Session
<1> DEFINE base == IF mine.draft # NoInstance THEN mine.draft ELSE instances[n]
<1>10. stores => base \in Instance /\ n < nextInstance
  BY <1>1, <1>9, ZenonT(30) DEF SessionOK, StoreInv, StoreTypeOK
<1>11. stores => /\ base.definition \in DOMAIN rows'
                 /\ rows'[base.definition].source = base.source
                 /\ <<base.model, base.source>> \in snapshots'
  <2>1. CASE mine.draft # NoInstance
    BY <1>5, <1>6, <1>9, <2>1, Zenon
  <2>2. CASE stores /\ mine.draft = NoInstance
    <3>1. n \in DOMAIN instances /\ base = instances[n]
      BY <1>1, <2>2, Zenon DEF SessionOK
    <3> QED
      BY <1>4, <1>6, <1>7, <3>1 DEF StoreInv, VersionsAreKept
  <2> QED
    BY <2>1, <2>2, Zenon
<1>12. stores => Outcome(q) \in Instance
                 /\ Outcome(q).definition = base.definition
                 /\ Outcome(q).source = base.source
                 /\ Outcome(q).model = base.model
  <2> HIDE DEF base
  <2>1. Outcome(q) = CASE mine.result = "passed" ->
                             [base EXCEPT !.status = "running", !.passed = TRUE]
                       [] mine.result = "retried" -> [base EXCEPT !.status = "running"]
                       [] OTHER -> base
    BY Zenon DEF Outcome, base
  <2> QED
    BY <1>10, <2>1, ZenonT(30) DEF Instance
<1>13. /\ DOMAIN instances \subseteq DOMAIN instances'
       /\ DOMAIN instances' \subseteq DOMAIN instances \cup {n}
       /\ n \in DOMAIN instances' \ DOMAIN instances => stores
       /\ stores => n \in DOMAIN instances' /\ instances'[n] = Outcome(q)
       /\ \A k \in DOMAIN instances : k # n => instances'[k] = instances[k]
       /\ ~stores => instances' = instances
       /\ instances' = [k \in DOMAIN instances' |-> instances'[k]]
  BY <1>2, SMTT(30) DEF Put, StoreInv, StoreTypeOK
<1>14. n \in DOMAIN instances => base = instances[n]
  BY <1>1, Zenon DEF SessionOK
<1> HIDE DEF base
<1>15. \A k \in DOMAIN instances : instances'[k].source = instances[k].source
  BY <1>12, <1>13, <1>14, Zenon
<1>16. ASSUME NEW k \in DOMAIN instances'
       PROVE  /\ k \in Nat /\ k < nextInstance /\ instances'[k] \in Instance
              /\ instances'[k].definition \in DOMAIN rows'
              /\ rows'[instances'[k].definition].source = instances'[k].source
              /\ <<instances'[k].model, instances'[k].source>> \in snapshots'
  <2>1. CASE stores /\ k = n
    BY <1>1, <1>10, <1>11, <1>12, <1>13, <2>1, Zenon
  <2>2. CASE ~(stores /\ k = n)
    <3>1. k \in DOMAIN instances /\ instances'[k] = instances[k]
      BY <1>13, <2>2, SMTT(30)
    <3> QED
      BY <1>4, <1>6, <1>7, <3>1 DEF StoreInv, StoreTypeOK,
         VersionsAreKept
  <2> QED
    BY <2>1, <2>2, Zenon
<1>17. StoreTypeOK'
  BY <1>1, <1>2, <1>8, <1>13, <1>16, IdleIsSession, ZenonT(30) DEF StoreInv,
     StoreTypeOK
<1>18. VersionsAreKept'
  BY <1>8, <1>16, Zenon DEF VersionsAreKept
<1>19. SessionOK(session[q])'
  <2>1. nextId' \in Nat /\ 0 < nextId' /\ 0 \notin DOMAIN rows'
    BY <1>17 DEF StoreTypeOK
  <2>2. /\ Idle.step = "idle" /\ Idle.id = 0 /\ Idle.want = NoForm
        /\ Idle.locked = FALSE /\ Idle.draft = NoInstance
        /\ Idle.result = "none"
    BY Zenon DEF Idle
  <2>3. session'[q] = Idle
    BY <1>3, Zenon
  <2> QED
    BY <2>1, <2>2, <2>3, Zenon DEF SessionOK
<1>20. ASSUME NEW r \in Request \ {q} PROVE SessionOK(session[r])'
  <2>1. SessionOK(session[r]) /\ session[r] \in Session
    BY <1>1, Zenon DEF StoreInv
  <2>2. session[r].id \notin DOMAIN rows => session[r].id \notin DOMAIN rows'
    <3>1. 0 \notin DOMAIN rows'
      BY <1>17 DEF StoreTypeOK
    <3> QED
      BY <1>1, <1>6, <3>1, Zenon DEF StoreInv, Private
  <2>3. session[r].id < nextId /\ (session[r].draft # NoInstance =>
                                    session[r].instance < nextInstance)
    BY <2>1, Zenon DEF SessionOK
  <2>4. session[r].draft # NoInstance =>
           session[r].instance \notin DOMAIN instances'
    <3>1. CASE mine.draft # NoInstance
      <4>1. session[r].draft # NoInstance => session[r].instance # n
        BY <3>1, Zenon DEF StoreInv, Private
      <4>2. session[r].draft # NoInstance =>
               session[r].instance \notin DOMAIN instances
        BY <2>1, Zenon DEF SessionOK
      <4> QED
        BY <1>13, <4>1, <4>2, Zenon
    <3>2. CASE mine.draft = NoInstance
      BY <1>1, <1>13, <2>1, <3>2, Zenon DEF SessionOK
    <3> QED
      BY <3>1, <3>2, SMTT(30)
  <2> QED
    BY Zenon, <1>2, <1>3, <1>6, <1>7, <1>13, <1>15, <2>1, <2>2, <2>3, <2>4,
       OtherSession
<1>21. Private'
  <2>1. Idle.id = 0 /\ Idle.draft = NoInstance
    BY Zenon DEF Idle
  <2>2. \A r \in Request :
           \/ session'[r] = session[r]
           \/ session'[r].id = 0 /\ session'[r].draft = NoInstance
    BY <1>3, <2>1, Zenon
  <2>3. \A k : k \notin DOMAIN rows' => k \notin DOMAIN rows
    BY <1>6, Zenon
  <2> QED
    BY <2>2, <2>3 DEF StoreInv, Private
<1> QED
  BY <1>17, <1>18, <1>19, <1>20, <1>21, Zenon DEF StoreInv

-----------------------------------------------------------------------------
\* Every step of a request on the store keeps the invariant.
LEMMA StoreStepKeeps ==
    ASSUME StoreInv, NEW q \in Request, StoreStep(q)
    PROVE  StoreInv'
<1>1. ASSUME NEW s \in Source, NEW m \in Model,
             NEW d \in Decision \cup {NoDecision},
             NEW f \in BpmnFile \cup {"none"}, Look(q, s, m, d, f)
      PROVE  StoreInv'
  BY <1>1, LookKeeps, Zenon
<1>2. CASE Write(q)
  BY <1>2, WriteKeeps, Zenon
<1>3. CASE DuplicateDigest(q) \/ TasksCollide(q) \/ Abandon(q)
  BY <1>3, IdleKeeps, Zenon DEF DuplicateDigest, TasksCollide, Abandon, Set
<1>4. CASE \/ ImportRaises(q) \/ StartOwn(q) \/ BuildRaises(q)
           \/ \E move \in Moves : Pass(q, move[1], move[2])
  BY <1>4, PassKeeps, Zenon
<1>5. CASE \E m \in Model : Choose(q, m)
  BY <1>5, ChooseKeeps, Zenon
<1>6. CASE Prepare(q)
  BY <1>6, PrepareKeeps, Zenon
<1>7. CASE \E n \in DOMAIN instances : Initialize(q, n) \/ Retry(q, n)
  BY <1>7, InitializeKeeps, RetryKeeps, Zenon
<1>8. CASE SeedRow(q)
  BY <1>8, SeedRowKeeps, Zenon
<1>9. CASE ReadDefinition(q) \/ Finish(q)
  BY <1>9, ReadDefinitionKeeps, FinishKeeps, Zenon
<1>10. CASE RecordFailure(q)
  BY <1>10, FailKeeps, Zenon
<1>11. CASE Commit(q)
  BY <1>11, CommitKeeps, Zenon
<1> QED
  BY Zenon, <1>1, <1>2, <1>3, <1>4, <1>5, <1>6, <1>7, <1>8, <1>9, <1>10, <1>11
     DEF StoreStep

\* A step between two steps of the store.
LEMMA PassIsStep ==
    ASSUME NEW q, NEW a, NEW b, Pass(q, a, b)
    PROVE  StoreStep(q)
<1> DEFINE move == <<a, b>>
<1>1. move \in Moves /\ move[1] = a /\ move[2] = b
  BY Zenon DEF Pass
<1>2. Pass(q, move[1], move[2])
  BY <1>1, Zenon
<1> QED
  BY <1>1, <1>2, Zenon DEF StoreStep

-----------------------------------------------------------------------------
\* Before the first request nothing is reserved.
LEMMA StoreInitially ==
    ASSUME StoreInit, rows \in Seq(Row)
    PROVE  StoreInv
<1>1. nextId = Len(rows) + 1 /\ nextInstance = 1 /\ instances = <<>>
      /\ session = [q \in Request |-> Idle]
      /\ snapshots = {<<rows[i].form.model, rows[i].source>> : i \in DOMAIN rows}
  BY Zenon DEF StoreInit
<1>2. \A i \in DOMAIN rows : i \in Nat /\ 0 < i /\ i < nextId /\ rows[i] \in Row
  BY <1>1
<1>3. DOMAIN instances = {} /\ instances = [n \in DOMAIN instances |-> instances[n]]
  BY <1>1
<1>4. StoreTypeOK
  BY <1>1, <1>2, <1>3, IdleIsSession DEF StoreTypeOK
<1>5. \A q \in Request : SessionOK(session[q])
  <2>1. 0 \notin DOMAIN rows /\ 0 < nextId
    BY <1>1, <1>2
  <2> QED
    BY <1>1, <2>1, Zenon DEF SessionOK, Idle
<1>6. Private
  BY <1>1, Zenon DEF Private, Idle
<1>7. VersionsAreKept
  BY <1>1, <1>3, Zenon DEF VersionsAreKept
<1> QED
  BY <1>4, <1>5, <1>6, <1>7, Zenon DEF StoreInv

\* A step that leaves the store alone.
LEMMA StoreUntouched ==
    ASSUME StoreInv, UNCHANGED storeVars
    PROVE  StoreInv'
<1>1. StoreTypeOK'
  BY Zenon DEF storeVars, StoreInv, StoreTypeOK
<1>2. ASSUME NEW q \in Request PROVE SessionOK(session[q])'
  BY Zenon DEF storeVars, StoreInv, SessionOK
<1>3. Private'
  BY Zenon DEF storeVars, StoreInv, Private
<1>4. VersionsAreKept'
  BY Zenon DEF storeVars, StoreInv, VersionsAreKept
<1> QED
  BY <1>1, <1>2, <1>3, <1>4, Zenon DEF StoreInv, storeVars

-----------------------------------------------------------------------------
(***************************************************************************)
(* The secrets of service calls.                                           *)
(***************************************************************************)

\* A call that is under way knows the present secret of its tenant as one that
\* the secret has been since it began.
CallOK(c) ==
    /\ DOMAIN c = {"step", "value", "window"}
    /\ c.step # "none" => secrets[Own] \in c.window

Services ==
    /\ DOMAIN secrets = Tenant
    /\ DOMAIN call = Request
    /\ \A q \in Request : CallOK(call[q])
    /\ SecretsAreFresh

\* The initial calls and secrets.
LEMMA ServicesInitially == ServiceInit => Services
<1> SUFFICES ASSUME ServiceInit PROVE Services
  BY Zenon
<1>1. /\ DOMAIN secrets = Tenant
      /\ call = [q \in Request |-> NoCall]
  BY Zenon DEF ServiceInit
<1> QED
  BY <1>1, Zenon DEF Services, CallOK, NoCall, SecretsAreFresh

\* A step that changes the call of one request, and no secret.
LEMMA CallKeeps ==
    ASSUME Services, NEW q \in Request, NEW new, UNCHANGED secrets,
           call' = [call EXCEPT ![q] = new], CallOK(new),
           new.step = "post" => Usable(new.value) /\ new.value \in new.window
    PROVE  Services'
<1>1. DOMAIN call = Request
  BY Zenon DEF Services
<1>2. /\ call'[q] = new /\ \A r \in Request \ {q} : call'[r] = call[r]
      /\ DOMAIN call' = Request
  BY <1>1, Zenon
<1>3. \A r \in Request : CallOK(call'[r])
  BY <1>2, Zenon DEF Services
<1>4. \A r \in Request : CallOK(call[r])'
  BY <1>3, Zenon DEF CallOK
<1>5. SecretsAreFresh'
  BY <1>2, Zenon DEF Services, SecretsAreFresh, Usable
<1> QED
  BY <1>2, <1>4, <1>5, Zenon DEF Services

\* The steps of a call, and its end.
LEMMA CallStepKeeps ==
    ASSUME Services, NEW q \in Request,
           \/ BeginCall(q) \/ CommandsArrive(q) \/ CommandsFail(q)
           \/ ResolveSecrets(q) \/ SecretsFail(q)
           \/ \E a \in Answers : Post(q, a)
           \/ call' = [call EXCEPT ![q] = NoCall] /\ UNCHANGED secrets
    PROVE  Services'
<1> DEFINE mine == call[q]
<1>1. CallOK(mine)
  BY Zenon DEF Services
<1>2. UNCHANGED secrets
  BY Zenon DEF BeginCall, CommandsArrive, CommandsFail, ResolveSecrets,
     SecretsFail, Post
<1>3. CASE BeginCall(q)
  <2> DEFINE new == [step |-> "commands", value |-> Missing,
                     window |-> {secrets[Own]}]
  <2>1. call' = [call EXCEPT ![q] = new]
    BY <1>3, Zenon DEF BeginCall
  <2>2. CallOK(new) /\ new.step # "post"
    BY Zenon DEF CallOK
  <2> QED
    BY <1>2, <2>1, <2>2, CallKeeps, Zenon
<1>4. CASE CommandsArrive(q)
  <2> DEFINE new == [mine EXCEPT !.step = "secrets"]
  <2>1. call' = [call EXCEPT ![q] = new] /\ mine.step = "commands"
    BY <1>4, Zenon DEF CommandsArrive
  <2>2. CallOK(new) /\ new.step # "post"
    BY <1>1, <2>1, Zenon DEF CallOK
  <2> QED
    BY <1>2, <2>1, <2>2, CallKeeps, Zenon
<1>5. CASE ResolveSecrets(q)
  <2> DEFINE v == secrets[Own]
             new == [mine EXCEPT !.step = "post", !.value = v]
  <2>1. mine.step = "secrets" /\ Usable(v)
    BY <1>5, Zenon DEF ResolveSecrets, TenantSecrets
  <2>2. call' = [call EXCEPT ![q] = new]
    BY <1>5, Zenon DEF ResolveSecrets, TenantSecrets, Services
  <2>3. CallOK(new) /\ new.value = v /\ v \in new.window
    BY <1>1, <2>1, Zenon DEF CallOK
  <2> QED
    BY <1>2, <2>1, <2>2, <2>3, CallKeeps, Zenon
<1>6. CASE \/ CommandsFail(q) \/ SecretsFail(q) \/ \E a \in Answers : Post(q, a)
           \/ call' = [call EXCEPT ![q] = NoCall] /\ UNCHANGED secrets
  <2>1. call' = [call EXCEPT ![q] = NoCall]
    BY <1>6, Zenon DEF CommandsFail, SecretsFail, Post
  <2>2. CallOK(NoCall) /\ NoCall.step # "post"
    BY Zenon DEF NoCall, CallOK
  <2> QED
    BY <1>2, <2>1, <2>2, CallKeeps, Zenon
<1> QED
  BY <1>3, <1>4, <1>5, <1>6, Zenon

\* Editing a secret: every call that is under way sees the new value come.
LEMMA EditKeeps ==
    ASSUME Services, NEW t \in Tenant, NEW v, SetSecret(t, v)
    PROVE  Services'
<1>1. /\ DOMAIN secrets' = Tenant /\ secrets'[t] = v
      /\ \A u \in Tenant \ {t} : secrets'[u] = secrets[u]
  BY Zenon DEF Services, SetSecret
<1>2. ASSUME NEW q \in Request
      PROVE  /\ CallOK(call[q])'
             /\ call'[q].step = call[q].step /\ call'[q].value = call[q].value
             /\ call[q].window \subseteq call'[q].window
  <2>1. CallOK(call[q])
    BY Zenon DEF Services
  <2>2. CASE t = Own /\ call[q] # NoCall
    <3>1. call'[q] = [call[q] EXCEPT !.window = @ \cup {v}]
      BY <2>2, Zenon DEF SetSecret
    <3>2. /\ call'[q].step = call[q].step /\ call'[q].value = call[q].value
          /\ call'[q].window = call[q].window \cup {v}
          /\ DOMAIN call'[q] = DOMAIN call[q]
      BY <2>1, <3>1, Zenon DEF CallOK
    <3> QED
      BY <1>1, <2>1, <2>2, <3>2, Zenon DEF CallOK
  <2>3. CASE ~(t = Own /\ call[q] # NoCall)
    BY <1>1, <2>1, <2>3, ServiceAssumption DEF SetSecret, CallOK, NoCall
  <2> QED
    BY <2>2, <2>3, Zenon
<1>3. DOMAIN call' = Request
  BY Zenon DEF SetSecret
<1>4. SecretsAreFresh'
  BY <1>2, Zenon DEF Services, SecretsAreFresh, Usable
<1> QED
  BY <1>1, <1>2, <1>3, <1>4, Zenon DEF Services

-----------------------------------------------------------------------------
(***************************************************************************)
(* The shared catalog.                                                     *)
(***************************************************************************)

GoalSet == [model : Model, file : BpmnFile, source : Source,
            dmn : Decision \cup {NoDecision}]

\* The files of a publication read as they should, save those still to be
\* written.
Written(goal, todo) ==
    \A w \in Range(Plan(goal)) :
        w \in Range(todo) \/ ReadText(directory[goal.model][w[1]]) = ReadText(w[2])

PublishOK(p) ==
    /\ DOMAIN p = {"goal", "todo", "alone"}
    /\ p # NotPublishing =>
          /\ p.goal \in GoalSet
          /\ p.todo \in Seq(Range(Plan(p.goal)))
          /\ p.alone => Written(p.goal, p.todo)

CatalogInv ==
    /\ DOMAIN directory = Model
    /\ \A m \in Model : DOMAIN directory[m] = Files
    /\ DOMAIN publishing = Request
    /\ \A q \in Request : PublishOK(publishing[q])
    /\ DOMAIN published = Model
    /\ \A m \in Model : published[m] # Nothing =>
          /\ published[m] \in GoalSet /\ published[m].model = m
          /\ Written(published[m], <<>>)

\* The files of a publication have different names, and are files of the
\* directory of its process model.
LEMMA PlanFiles ==
    ASSUME NEW goal \in GoalSet
    PROVE  /\ \A w \in Range(Plan(goal)) : w[1] \in Files
           /\ \A v, w \in Range(Plan(goal)) : v[1] = w[1] => v = w
           /\ Plan(goal) \in Seq(Range(Plan(goal)))
           /\ <<"process_model.json", goal.file>> \in Range(Plan(goal))
           /\ <<goal.file, goal.source>> \in Range(Plan(goal))
           /\ goal.dmn # NoDecision =>
                 <<DmnOf[goal.file], goal.dmn>> \in Range(Plan(goal))
<1> DEFINE f == goal.file
           a == <<"process_model.json", f>>
           b == <<f, goal.source>>
           c == <<DmnOf[f], goal.dmn>>
<1>1. f \in BpmnFile /\ DmnOf[f] \in DmnFile
  BY Zenon DEF GoalSet, DmnFile
<1>2. /\ a[1] \in Files /\ b[1] \in Files /\ c[1] \in Files
      /\ a[1] # b[1] /\ a[1] # c[1] /\ b[1] # c[1]
  BY <1>1, CatalogAssumption, Zenon DEF Files
<1>3. CASE goal.dmn = NoDecision
  <2>1. Plan(goal) = <<a, b>>
    BY <1>3 DEF Plan
  <2>2. Range(Plan(goal)) = {a, b}
    BY <2>1 DEF Range
  <2> QED
    BY <1>2, <1>3, <2>1, <2>2
<1>4. CASE goal.dmn # NoDecision
  <2>1. Plan(goal) = <<a, b>> \o <<c>>
    BY <1>4, Zenon DEF Plan
  <2> HIDE DEF a, b, c
  <2>2. /\ Plan(goal) \in Seq({a, b, c}) /\ Len(Plan(goal)) = 3
        /\ Plan(goal)[1] = a /\ Plan(goal)[2] = b /\ Plan(goal)[3] = c
    BY <2>1
  <2>3. Range(Plan(goal)) = {a, b, c}
    BY <2>2 DEF Range
  <2> QED
    BY <1>2, <1>4, <2>2, <2>3, Zenon DEF a, b, c
<1> QED
  BY <1>3, <1>4, Zenon

\* The elements of a sequence are its head and those of its tail.
LEMMA HeadAndTail ==
    ASSUME NEW S, NEW s \in Seq(S), s # <<>>
    PROVE  /\ Head(s) \in S /\ Tail(s) \in Seq(S)
           /\ Range(s) = {Head(s)} \cup Range(Tail(s))
<1>1. Len(s) \in Nat /\ Len(s) > 0 /\ DOMAIN s = 1 .. Len(s)
  OBVIOUS
<1>2. /\ Len(Tail(s)) = Len(s) - 1 /\ DOMAIN Tail(s) = 1 .. (Len(s) - 1)
      /\ \A i \in 1 .. (Len(s) - 1) : Tail(s)[i] = s[i + 1]
      /\ Head(s) = s[1] /\ Tail(s) \in Seq(S)
  BY <1>1
<1>3. Range(s) \subseteq {Head(s)} \cup Range(Tail(s))
  <2> SUFFICES ASSUME NEW i \in 1 .. Len(s)
               PROVE  s[i] = Head(s) \/ s[i] \in Range(Tail(s))
    BY <1>1, Zenon DEF Range
  <2>1. CASE i = 1
    BY <1>2, <2>1, Zenon
  <2>2. CASE i # 1
    <3>1. i - 1 \in 1 .. (Len(s) - 1) /\ (i - 1) + 1 = i
      BY <1>1, <2>2
    <3> QED
      BY <1>2, <3>1, Zenon DEF Range
  <2> QED
    BY <2>1, <2>2, Zenon
<1>4. {Head(s)} \cup Range(Tail(s)) \subseteq Range(s)
  <2>1. Head(s) \in Range(s)
    BY <1>1, <1>2 DEF Range
  <2>2. ASSUME NEW i \in 1 .. (Len(s) - 1) PROVE Tail(s)[i] \in Range(s)
    <3>1. i + 1 \in 1 .. Len(s)
      BY <1>1
    <3> QED
      BY <1>1, <1>2, <3>1, Zenon DEF Range
  <2> QED
    BY <1>2, <2>1, <2>2, Zenon DEF Range
<1> QED
  BY <1>1, <1>2, <1>3, <1>4

\* An empty catalog is in order.
LEMMA CatalogInitially == CatalogInit => CatalogInv
<1> SUFFICES ASSUME CatalogInit PROVE CatalogInv
  BY Zenon
<1>1. /\ directory = [m \in Model |-> [f \in Files |-> NoFile]]
      /\ publishing = [q \in Request |-> NotPublishing]
      /\ published = [m \in Model |-> Nothing]
  BY Zenon DEF CatalogInit
<1>2. PublishOK(NotPublishing)
  BY Zenon DEF PublishOK, NotPublishing
<1> QED
  BY <1>1, <1>2, Zenon DEF CatalogInv

\* What has been read stays as it is when it is read again.
LEMMA ReadTwice == \A x : ReadText(ReadText(x)) = ReadText(x)
BY CatalogAssumption DEF ReadText

\* A publication begins, or finds its files in place.
LEMMA BeginKeeps ==
    ASSUME CatalogInv, NEW q \in Request, Goal(q) \in GoalSet, BeginPublish(q)
    PROVE  CatalogInv'
<1> DEFINE goal == Goal(q)
<1>1. UNCHANGED directory /\ goal \in GoalSet
  BY Zenon DEF BeginPublish
<1>2. \A g, todo : Written(g, todo) <=> Written(g, todo)'
  BY <1>1, Zenon DEF Written
<1>3. CASE Matches(goal)
  <2> DEFINE new == IF \A r \in Request : publishing[r].goal.model # goal.model
                    THEN goal ELSE Nothing
  <2>1. published' = [published EXCEPT ![goal.model] = new] /\ UNCHANGED publishing
    BY <1>3, Zenon DEF BeginPublish
  <2>2. new = Nothing \/ new = goal
    BY Zenon
  <2>3. Written(goal, <<>>)
    BY <1>3, ReadTwice, Zenon DEF Matches, Written
  <2>4. goal.model \in Model
    BY <1>1, Zenon DEF GoalSet
  <2>5. \A r \in Request : PublishOK(publishing[r])'
    BY <1>2, <2>1, Zenon DEF CatalogInv, PublishOK
  <2>6. ASSUME NEW m \in Model, published'[m] # Nothing
        PROVE  /\ published'[m] \in GoalSet /\ published'[m].model = m
               /\ Written(published[m], <<>>)'
    <3>1. CASE m = goal.model
      <4>1. published'[m] = goal
        BY <2>1, <2>2, <2>6, <3>1, Zenon DEF CatalogInv
      <4> HIDE DEF goal
      <4> QED
        BY <1>1, <1>2, <2>3, <3>1, <4>1, Zenon
    <3>2. CASE m # goal.model
      <4>1. published'[m] = published[m]
        BY <2>1, <3>2, Zenon DEF CatalogInv
      <4> QED
        BY <1>2, <2>6, <4>1, Zenon DEF CatalogInv
    <3> QED
      BY <3>1, <3>2, Zenon
  <2>7. DOMAIN published' = Model
    BY <2>1, Zenon DEF CatalogInv
  <2> QED
    BY <1>1, <2>1, <2>5, <2>6, <2>7, Zenon DEF CatalogInv
<1>4. CASE ~Matches(goal)
  <2> DEFINE alone == \A r \in Request : publishing[r].goal.model # goal.model
             new == [goal |-> goal, todo |-> Plan(goal), alone |-> alone]
  <2>1. publishing' = [publishing EXCEPT ![q] = new] /\ UNCHANGED published
    BY <1>4, Zenon DEF BeginPublish
  <2>2. PublishOK(new)
    BY <1>1, PlanFiles, Zenon DEF PublishOK, Written
  <2> QED
    BY <1>1, <1>2, <2>1, <2>2, Zenon DEF CatalogInv, PublishOK
<1> QED
  BY <1>3, <1>4, Zenon

\* A publication that is under way has a process model of its own; one that is
\* none has not.
LEMMA HasModel ==
    ASSUME CatalogInv, NEW q \in Request
    PROVE  /\ publishing[q] # NotPublishing => publishing[q].goal.model \in Model
           /\ publishing[q] = NotPublishing => publishing[q].goal.model \notin Model
           /\ publishing[q].todo # <<>> => publishing[q] # NotPublishing
<1>1. PublishOK(publishing[q])
  BY Zenon DEF CatalogInv
<1>2. NotPublishing.goal.model = "none" /\ NotPublishing.todo = <<>>
  BY Zenon DEF NotPublishing, Nothing
<1>3. \A g \in GoalSet : g.model \in Model
  BY Zenon DEF GoalSet
<1> QED
  BY <1>1, <1>2, <1>3, StoreAssumption, Zenon DEF PublishOK

\* What a write or its failure does to the publications of other requests: those
\* into the same directory are no longer alone.
LEMMA DisturbedOK ==
    ASSUME CatalogInv, NEW q \in Request, NEW r \in Request \ {q},
           publishing[q].goal.model \in Model,
           publishing'[r] = Disturb(q)[r],
           \A m \in Model \ {publishing[q].goal.model} : directory'[m] = directory[m]
    PROVE  PublishOK(publishing[r])'
<1> DEFINE p == publishing[r]
           m == publishing[q].goal.model
<1>1. PublishOK(p)
  BY Zenon DEF CatalogInv
<1>2. CASE p.goal.model = m
  <2>1. p # NotPublishing
    BY <1>2, HasModel, Zenon
  <2>2. publishing'[r] = [p EXCEPT !.alone = FALSE]
    BY <1>2, Zenon DEF Disturb
  <2>3. /\ DOMAIN publishing'[r] = {"goal", "todo", "alone"}
        /\ publishing'[r].goal = p.goal /\ publishing'[r].todo = p.todo
        /\ publishing'[r].alone = FALSE
    BY <1>1, <2>2, Zenon DEF PublishOK
  <2> QED
    BY <1>1, <2>1, <2>3, Zenon DEF PublishOK
<1>3. CASE p.goal.model # m
  <2>1. publishing'[r] = p
    BY <1>3, Zenon DEF Disturb
  <2>2. p # NotPublishing => directory'[p.goal.model] = directory[p.goal.model]
    BY <1>3, HasModel, Zenon
  <2> QED
    BY <1>1, <2>1, <2>2 DEF PublishOK, Written
<1> QED
  BY <1>2, <1>3, Zenon

\* What is published elsewhere is not touched.
LEMMA PublishedKeeps ==
    ASSUME CatalogInv, NEW m \in Model,
           \A k \in Model \ {m} : directory'[k] = directory[k],
           published' = [published EXCEPT ![m] = Nothing]
    PROVE  /\ DOMAIN published' = Model
           /\ \A k \in Model : published'[k] # Nothing =>
                 /\ published'[k] \in GoalSet /\ published'[k].model = k
                 /\ Written(published[k], <<>>)'
<1>1. /\ DOMAIN published' = Model
      /\ \A k \in Model : published'[k] # Nothing =>
            k # m /\ published'[k] = published[k]
  BY Zenon DEF CatalogInv
<1>2. ASSUME NEW k \in Model, published'[k] # Nothing
      PROVE  /\ published'[k] \in GoalSet /\ published'[k].model = k
             /\ Written(published[k], <<>>)'
  <2>1. published'[k] = published[k] /\ directory'[k] = directory[k]
    BY <1>1, <1>2, Zenon
  <2>2. published[k] \in GoalSet /\ published[k].model = k /\ Written(published[k], <<>>)
    BY <1>2, <2>1, Zenon DEF CatalogInv
  <2> QED
    BY <2>1, <2>2 DEF Written
<1> QED
  BY <1>1, <1>2, Zenon

\* A file is written.
LEMMA WriteFileKeeps ==
    ASSUME CatalogInv, NEW q \in Request, WriteFile(q)
    PROVE  CatalogInv'
<1> DEFINE mine == publishing[q]
           goal == mine.goal
           m == goal.model
           w == Head(mine.todo)
<1>1. /\ PublishOK(mine) /\ mine.todo # <<>> /\ mine # NotPublishing
      /\ goal \in GoalSet /\ m \in Model
  BY HasModel, Zenon DEF CatalogInv, WriteFile, PublishOK
<1>2. /\ directory' = [directory EXCEPT ![m][w[1]] = w[2]]
      /\ publishing' = [Disturb(q) EXCEPT ![q].todo = Tail(@)]
      /\ published' = [published EXCEPT ![m] = Nothing]
  BY Zenon DEF WriteFile
<1>3. /\ mine.todo \in Seq(Range(Plan(goal))) /\ w \in Range(Plan(goal))
      /\ Tail(mine.todo) \in Seq(Range(Plan(goal)))
      /\ Range(mine.todo) = {w} \cup Range(Tail(mine.todo))
  BY <1>1, HeadAndTail, Zenon DEF PublishOK
<1>4. w[1] \in Files /\ \A v \in Range(Plan(goal)) : v[1] = w[1] => v = w
  BY <1>1, <1>3, PlanFiles, Zenon
<1>5. /\ DOMAIN directory' = Model
      /\ \A k \in Model \ {m} : directory'[k] = directory[k]
      /\ \A k \in Model : DOMAIN directory'[k] = Files
      /\ directory'[m][w[1]] = w[2]
      /\ \A f \in Files \ {w[1]} : directory'[m][f] = directory[m][f]
  BY <1>1, <1>2, <1>4, Zenon DEF CatalogInv
<1>6. Disturb(q)[q] = mine /\ DOMAIN Disturb(q) = Request
  BY Zenon DEF Disturb
<1>7. /\ DOMAIN publishing' = Request
      /\ publishing'[q] = [mine EXCEPT !.todo = Tail(mine.todo)]
      /\ \A r \in Request \ {q} : publishing'[r] = Disturb(q)[r]
  BY <1>2, <1>6, Zenon
<1>8. /\ DOMAIN publishing'[q] = {"goal", "todo", "alone"}
      /\ publishing'[q].goal = goal /\ publishing'[q].todo = Tail(mine.todo)
      /\ publishing'[q].alone = mine.alone
  BY <1>1, <1>7, Zenon DEF PublishOK
<1>9. ASSUME mine.alone, NEW v \in Range(Plan(goal))
      PROVE  v \in Range(Tail(mine.todo))
                \/ ReadText(directory'[m][v[1]]) = ReadText(v[2])
  <2>1. v[1] \in Files
    BY <1>1, PlanFiles, Zenon
  <2>2. v \in Range(mine.todo) \/ ReadText(directory[m][v[1]]) = ReadText(v[2])
    BY <1>1, <1>9, Zenon DEF PublishOK, Written
  <2> QED
    BY <1>3, <1>4, <1>5, <2>1, <2>2, Zenon
<1>10. PublishOK(publishing[q])'
  BY <1>1, <1>3, <1>8, <1>9, Zenon DEF PublishOK, Written
<1>11. ASSUME NEW r \in Request \ {q} PROVE PublishOK(publishing[r])'
  BY <1>1, <1>5, <1>7, DisturbedOK, Zenon
<1>12. /\ DOMAIN published' = Model
       /\ \A k \in Model : published'[k] # Nothing =>
             /\ published'[k] \in GoalSet /\ published'[k].model = k
             /\ Written(published[k], <<>>)'
  BY <1>1, <1>2, <1>5, PublishedKeeps, Zenon
<1> QED
  BY <1>5, <1>7, <1>10, <1>11, <1>12, Zenon DEF CatalogInv

\* A publication is forgotten; the others go on.
LEMMA ForgetOK ==
    ASSUME CatalogInv, NEW q \in Request, UNCHANGED directory,
           publishing' = [publishing EXCEPT ![q] = NotPublishing]
    PROVE  \A r \in Request : PublishOK(publishing[r])'
<1> TAKE r \in Request
<1>1. CASE r = q
  <2>1. publishing'[r] = NotPublishing
    BY <1>1, Zenon DEF CatalogInv
  <2> QED
    BY <2>1, Zenon DEF PublishOK, NotPublishing
<1>2. CASE r # q
  <2>1. publishing'[r] = publishing[r] /\ PublishOK(publishing[r])
    BY <1>2, Zenon DEF CatalogInv
  <2> QED
    BY <2>1, Zenon DEF PublishOK, Written
<1> QED
  BY <1>1, <1>2, Zenon

\* A publication ends: if it was alone, its files are in place.
LEMMA EndKeeps ==
    ASSUME CatalogInv, NEW q \in Request, EndPublish(q)
    PROVE  CatalogInv'
<1> DEFINE mine == publishing[q]
           m == mine.goal.model
           new == IF mine.alone THEN mine.goal ELSE Nothing
<1>1. /\ PublishOK(mine) /\ mine # NotPublishing /\ mine.todo = <<>>
      /\ m \in Model /\ mine.goal \in GoalSet
      /\ mine.alone => Written(mine.goal, <<>>)
  BY HasModel, Zenon DEF CatalogInv, EndPublish, PublishOK
<1>2. /\ published' = [published EXCEPT ![m] = new]
      /\ publishing' = [publishing EXCEPT ![q] = NotPublishing]
      /\ UNCHANGED directory
  BY Zenon DEF EndPublish
<1>3. \A r \in Request : PublishOK(publishing[r])'
  BY <1>2, ForgetOK, Zenon
<1>4. /\ DOMAIN published' = Model /\ published'[m] = new
      /\ \A k \in Model \ {m} : published'[k] = published[k]
  BY <1>1, <1>2, Zenon DEF CatalogInv
<1>5. ASSUME NEW k \in Model, published'[k] # Nothing
      PROVE  /\ published'[k] \in GoalSet /\ published'[k].model = k
             /\ Written(published[k], <<>>)'
  <2>1. CASE k = m
    <3>1. published'[k] = mine.goal /\ Written(mine.goal, <<>>)
      BY <1>1, <1>4, <1>5, <2>1, Zenon
    <3> QED
      BY <1>1, <1>2, <2>1, <3>1, Zenon DEF Written
  <2>2. CASE k # m
    BY <1>2, <1>4, <1>5, <2>2 DEF CatalogInv, Written
  <2> QED
    BY <2>1, <2>2, Zenon
<1> QED
  BY <1>2, <1>3, <1>4, <1>5, Zenon DEF CatalogInv

\* A publication stops in the middle of a file.
LEMMA WriteStopsKeeps ==
    ASSUME CatalogInv, NEW q \in Request, WriteStops(q)
    PROVE  CatalogInv'
<1> DEFINE mine == publishing[q]
           goal == mine.goal
           m == goal.model
           w == Head(mine.todo)
<1>1. /\ PublishOK(mine) /\ mine.todo # <<>> /\ mine # NotPublishing
      /\ goal \in GoalSet /\ m \in Model
  BY HasModel, Zenon DEF CatalogInv, WriteStops, PublishOK
<1>2. /\ \/ \E x : directory' = [directory EXCEPT ![m][w[1]] = x]
         \/ UNCHANGED directory
      /\ publishing' = [Disturb(q) EXCEPT ![q] = NotPublishing]
      /\ published' = [published EXCEPT ![m] = Nothing]
  BY Zenon DEF WriteStops
<1>3. /\ DOMAIN directory' = Model
      /\ \A k \in Model \ {m} : directory'[k] = directory[k]
      /\ \A k \in Model : DOMAIN directory'[k] = Files
  BY <1>1, <1>2, Zenon DEF CatalogInv
<1>4. DOMAIN Disturb(q) = Request
  BY Zenon DEF Disturb
<1>5. /\ DOMAIN publishing' = Request /\ publishing'[q] = NotPublishing
      /\ \A r \in Request \ {q} : publishing'[r] = Disturb(q)[r]
  BY <1>2, <1>4, Zenon
<1>6. PublishOK(publishing[q])'
  BY <1>5, Zenon DEF PublishOK, NotPublishing
<1>7. ASSUME NEW r \in Request \ {q} PROVE PublishOK(publishing[r])'
  BY <1>1, <1>3, <1>5, DisturbedOK, Zenon
<1>8. /\ DOMAIN published' = Model
      /\ \A k \in Model : published'[k] # Nothing =>
            /\ published'[k] \in GoalSet /\ published'[k].model = k
            /\ Written(published[k], <<>>)'
  BY <1>1, <1>2, <1>3, PublishedKeeps, Zenon
<1> QED
  BY <1>3, <1>5, <1>6, <1>7, <1>8, Zenon DEF CatalogInv

\* A request that ends without a word about what it was publishing.
LEMMA DropKeeps ==
    ASSUME CatalogInv, NEW q \in Request, UNCHANGED <<directory, published>>,
           publishing' = [publishing EXCEPT ![q] = NotPublishing]
    PROVE  CatalogInv'
<1>1. \A r \in Request : PublishOK(publishing[r])'
  BY ForgetOK, Zenon
<1> QED
  BY <1>1 DEF CatalogInv, Written

\* What the invariant says of a directory, a reader finds.
LEMMA CatalogReads == CatalogInv => CatalogIsWhole
<1> SUFFICES ASSUME CatalogInv, NEW m \in Model, published[m] # Nothing
             PROVE  /\ \/ Readable(m)
                       \/ /\ published[m].dmn = NoDecision
                          /\ \/ \E c, d \in DmnFiles(m) : c # d
                             \/ \E d \in DmnFiles(m) : directory[m][d] = Garbled
                    /\ Loaded(m).source = AsRead[published[m].source]
                    /\ published[m].dmn # NoDecision =>
                          Loaded(m).dmn = AsRead[published[m].dmn]
  BY Zenon DEF CatalogIsWhole
<1> DEFINE goal == published[m]
           f == goal.file
           text == Source \cup Decision
<1>1. /\ goal \in GoalSet /\ goal.model = m
      /\ \A w \in Range(Plan(goal)) : ReadText(directory[m][w[1]]) = ReadText(w[2])
  BY DEF CatalogInv, Written, Range
<1> HIDE DEF goal
<1>2. /\ ReadText(directory[m]["process_model.json"]) = ReadText(f)
      /\ ReadText(directory[m][f]) = ReadText(goal.source)
      /\ goal.dmn # NoDecision =>
            ReadText(directory[m][DmnOf[f]]) = ReadText(goal.dmn)
  BY <1>1, PlanFiles, Zenon
<1>3. /\ f \in BpmnFile /\ goal.source \in Source
      /\ DmnOf[f] \in DmnFile
      /\ goal.dmn # NoDecision => goal.dmn \in Decision
  BY <1>1, Zenon DEF GoalSet, DmnFile
<1>10. /\ \A x : ReadText(x) \in text => x \in text
       /\ \A x \in text : ReadText(x) = AsRead[x] /\ ReadText(x) \in text
       /\ \A x : x \notin text => ReadText(x) = x
  BY CatalogAssumption DEF ReadText
<1>11. /\ directory[m]["process_model.json"] = f
       /\ directory[m][f] \in text /\ ReadText(directory[m][f]) = AsRead[goal.source]
       /\ goal.dmn # NoDecision =>
             /\ directory[m][DmnOf[f]] \in text
             /\ ReadText(directory[m][DmnOf[f]]) = AsRead[goal.dmn]
  <2>1. f \notin text /\ goal.source \in text
        /\ (goal.dmn # NoDecision => goal.dmn \in text)
    BY <1>3, CatalogAssumption, Zenon
  <2> HIDE DEF text, f
  <2>2. directory[m]["process_model.json"] = f
    BY <1>2, <1>10, <2>1, Zenon
  <2>3. directory[m][f] \in text /\ ReadText(directory[m][f]) = AsRead[goal.source]
    BY <1>2, <1>10, <2>1, Zenon
  <2>4. ASSUME goal.dmn # NoDecision
        PROVE  /\ directory[m][DmnOf[f]] \in text
               /\ ReadText(directory[m][DmnOf[f]]) = AsRead[goal.dmn]
    BY <1>2, <1>10, <2>1, <2>4, Zenon
  <2> QED
    BY <2>2, <2>3, <2>4, Zenon
<1>12. NoFile \notin text /\ Garbled \notin text
  BY CatalogAssumption, Zenon
<1> HIDE DEF text
<1>4. DmnOf[f] \in DmnFiles(m) => DecisionFile(m, f) = {DmnOf[f]}
  BY Zenon DEF DecisionFile
<1>5. goal.dmn # NoDecision => DmnOf[f] \in DmnFiles(m)
  BY <1>3, <1>11, <1>12, Zenon DEF DmnFiles
<1>6. DecisionFile(m, f) \subseteq DmnFiles(m)
  BY Zenon DEF DecisionFile
<1>7. Loaded(m).source = AsRead[goal.source]
  BY <1>11, Zenon DEF Loaded
<1>8. goal.dmn # NoDecision => Loaded(m).dmn = AsRead[goal.dmn]
  BY <1>4, <1>5, <1>11, Zenon DEF Loaded
<1>9. \/ Readable(m)
      \/ /\ goal.dmn = NoDecision
         /\ \/ \E c, d \in DmnFiles(m) : c # d
            \/ \E d \in DmnFiles(m) : directory[m][d] = Garbled
  <2>1. f \in BpmnFile /\ directory[m][f] \notin {NoFile, Garbled}
    BY <1>3, <1>11, <1>12, Zenon
  <2>2. goal.dmn # NoDecision =>
           /\ \A c, d \in DecisionFile(m, f) : c = d
           /\ \A d \in DecisionFile(m, f) : directory[m][d] # Garbled
    BY <1>4, <1>5, <1>11, <1>12, Zenon
  <2> QED
    BY <1>6, <1>11, <2>1, <2>2, Zenon DEF Readable
<1> QED
  BY <1>7, <1>8, <1>9, Zenon DEF goal

\* What is published is a deployment of the definition that was imported.
LEMMA GoalTyped ==
    ASSUME StoreInv, NEW q \in Request, At(q, "publish"), session[q].file # "none"
    PROVE  Goal(q) \in GoalSet
<1> DEFINE mine == session[q]
<1>1. mine \in Session /\ SessionOK(mine) /\ mine.step = "publish"
  BY Zenon DEF StoreInv, StoreTypeOK, At
<1>2. mine.want # NoForm /\ mine.source \in Source
  BY <1>1, Zenon DEF SessionOK
<1>3. mine.want \in Form /\ mine.file \in BpmnFile
  BY <1>1, <1>2, Zenon DEF Session
<1> QED
  BY <1>2, <1>3, Zenon DEF Goal, GoalSet, Form

-----------------------------------------------------------------------------
(***************************************************************************)
(* The loads of called processes, and the requests together.               *)
(***************************************************************************)

\* The state of a load that has not been refused.
LoadTypeOK ==
    /\ verdict \in {"none", "loading", "loaded", "refused"}
    /\ root \in Process
    /\ Known \subseteq Process
    /\ parser \in [Known -> Seq(Process \cup {NoElement})]
    /\ pending \in Seq(Process)
    /\ inspected \in SUBSET Process
    /\ remaining \in Seq(Process \cup {NoElement})

\* What is to be inspected, and what has been, is in the parser.
PendingIsKnown ==
    verdict \in {"loading", "loaded"} =>
        /\ Elements(pending) \subseteq Known
        /\ inspected \subseteq Known

\* The root and everything an inspected process calls has been inspected or
\* still waits for it.
NothingIsForgotten ==
    verdict \in {"loading", "loaded"} =>
        /\ root \in inspected \cup Elements(pending)
        /\ \A p \in inspected :
              Elements(parser[p]) \subseteq
                  inspected \cup Elements(pending) \cup Elements(remaining)

LoadedIsFinished ==
    verdict = "loaded" => pending = <<>> /\ remaining = <<>>

LoadInv ==
    /\ LoadTypeOK
    /\ PendingIsKnown
    /\ NothingIsForgotten
    /\ LoadedIsFinished
-----------------------------------------------------------------------------
(***************************************************************************)
(* Sequences and their elements.                                           *)
(***************************************************************************)

\* Appending an element, as pending.append does, adds it and nothing else.
LEMMA AppendElements ==
    ASSUME NEW S, NEW s \in Seq(S), NEW e \in S
    PROVE  /\ Append(s, e) \in Seq(S)
           /\ Elements(Append(s, e)) = Elements(s) \cup {e}
<1>1. Append(s, e) \in Seq(S) /\ Len(Append(s, e)) = Len(s) + 1
  OBVIOUS
<1>2. Elements(Append(s, e)) \subseteq Elements(s) \cup {e}
  <2> SUFFICES ASSUME NEW i \in 1 .. Len(Append(s, e))
               PROVE  Append(s, e)[i] \in Elements(s) \cup {e}
    BY Zenon DEF Elements
  <2>1. CASE i \in 1 .. Len(s)
    BY <2>1 DEF Elements
  <2>2. CASE i = Len(s) + 1
    BY <2>2
  <2> QED
    BY <1>1, <2>1, <2>2
<1>3. Elements(s) \subseteq Elements(Append(s, e))
  <2> SUFFICES ASSUME NEW i \in 1 .. Len(s)
               PROVE  s[i] \in Elements(Append(s, e))
    BY Zenon DEF Elements
  <2>1. Append(s, e)[i] = s[i] /\ i \in 1 .. Len(Append(s, e))
    BY <1>1
  <2> QED
    BY <2>1, Zenon DEF Elements
<1>4. e \in Elements(Append(s, e))
  <2>1. Append(s, e)[Len(s) + 1] = e /\ Len(s) + 1 \in 1 .. Len(Append(s, e))
    BY <1>1
  <2> QED
    BY <2>1, Zenon DEF Elements
<1> QED
  BY <1>1, <1>2, <1>3, <1>4, Zenon

\* Taking the last element, as pending.pop does, loses only that one.
LEMMA FrontElements ==
    ASSUME NEW S, NEW s \in Seq(S), s # <<>>
    PROVE  /\ s[Len(s)] \in S
           /\ SubSeq(s, 1, Len(s) - 1) \in Seq(S)
           /\ Elements(s) = Elements(SubSeq(s, 1, Len(s) - 1)) \cup {s[Len(s)]}
<1>1. Len(s) \in Nat /\ Len(s) # 0
  OBVIOUS
<1>2. PICK n \in Nat : n + 1 = Len(s)
  BY <1>1
<1> DEFINE front == SubSeq(s, 1, n)
<1>3. Len(s) - 1 = n /\ s[Len(s)] \in S
  BY <1>2
<1>4. front \in Seq(S)
  BY <1>2
<1>5. Len(front) = n
  <2>1. CASE n = 0
    BY <1>2, <2>1
  <2>2. CASE 1 <= n
    BY <1>2, <2>2
  <2> QED
    BY <2>1, <2>2
<1>6. \A i \in 1 .. n : front[i] = s[i]
  BY <1>2
<1> HIDE DEF front
<1>7. Elements(s) \subseteq Elements(front) \cup {s[Len(s)]}
  <2> SUFFICES ASSUME NEW i \in 1 .. Len(s)
               PROVE  s[i] \in Elements(front) \cup {s[Len(s)]}
    BY Zenon DEF Elements
  <2>1. CASE i = Len(s)
    BY <2>1, Zenon
  <2>2. CASE i \in 1 .. n
    BY <1>5, <1>6, <2>2, Zenon DEF Elements
  <2> QED
    BY <1>2, <2>1, <2>2
<1>8. Elements(front) \subseteq Elements(s)
  BY <1>2, <1>5, <1>6 DEF Elements
<1>9. s[Len(s)] \in Elements(s)
  BY <1>2 DEF Elements
<1> QED
  BY <1>3, <1>4, <1>7, <1>8, <1>9, Zenon DEF front

\* The loop over the called elements sees the head first, then the others.
LEMMA TailElements ==
    ASSUME NEW S, NEW s \in Seq(S), s # <<>>
    PROVE  /\ Head(s) \in S
           /\ Tail(s) \in Seq(S)
           /\ Elements(s) = {Head(s)} \cup Elements(Tail(s))
<1>1. Len(s) \in Nat /\ Len(s) # 0
  OBVIOUS
<1>2. Head(s) = s[1] /\ Head(s) \in S /\ Tail(s) \in Seq(S)
  BY <1>1
<1>3. Len(Tail(s)) = Len(s) - 1 /\ \A i \in 1 .. Len(s) - 1 : Tail(s)[i] = s[i + 1]
  BY <1>1
<1>4. Elements(s) \subseteq {Head(s)} \cup Elements(Tail(s))
  <2> SUFFICES ASSUME NEW i \in 1 .. Len(s)
               PROVE  s[i] \in {Head(s)} \cup Elements(Tail(s))
    BY Zenon DEF Elements
  <2>1. CASE i = 1
    BY <1>2, <2>1, Zenon
  <2>2. CASE i - 1 \in 1 .. Len(s) - 1
    <3>1. Tail(s)[i - 1] = s[i]
      BY <1>3, <2>2
    <3> QED
      BY <1>3, <2>2, <3>1, Zenon DEF Elements
  <2> QED
    BY <1>1, <2>1, <2>2
<1>5. Elements(Tail(s)) \subseteq Elements(s)
  <2> SUFFICES ASSUME NEW i \in 1 .. Len(s) - 1
               PROVE  s[i + 1] \in Elements(s)
    BY <1>3 DEF Elements
  <2> QED
    BY <1>1 DEF Elements
<1>6. Head(s) \in Elements(s)
  BY <1>1, <1>2 DEF Elements
<1> QED
  BY <1>2, <1>4, <1>5, <1>6, Zenon

\* Nothing is pending, or remains, in an empty sequence.
LEMMA EmptyElements == Elements(<<>>) = {}
  BY DEF Elements

-----------------------------------------------------------------------------
(***************************************************************************)
(* The invariant.                                                          *)
(***************************************************************************)

\* Before the first load there is nothing to hold.
LEMMA LoadInitially == LoadInit => LoadInv
<1> SUFFICES ASSUME LoadInit
             PROVE  LoadInv
  BY Zenon
<1>1. LoadTypeOK
  BY DEF LoadInit, LoadTypeOK, Known
<1> QED
  BY <1>1, Zenon DEF LoadInit, LoadInv, PendingIsKnown, NothingIsForgotten,
              LoadedIsFinished

\* Reading the definition's own file begins a load with its root pending.
LEMMA BeginLoadKeeps ==
    ASSUME LoadInv, NEW f \in File, NEW p \in Process, BeginLoad(f, p)
    PROVE  LoadInv'
<1> USE DEF BeginLoad
<1>1. /\ <<p>> \in Seq(Process)
      /\ <<>> \in Seq(Process \cup {NoElement})
      /\ Elements(<<p>>) = {p}
  BY DEF Elements
<1>2. LoadTypeOK'
  BY <1>1, FileAssumption, Zenon DEF LoadInv, LoadTypeOK, Known
<1>3. PendingIsKnown'
  BY <1>1, Zenon DEF PendingIsKnown, Known, Elements
<1>4. NothingIsForgotten'
  BY <1>1, Zenon DEF NothingIsForgotten, Elements
<1> QED
  BY <1>2, <1>3, <1>4, Zenon DEF LoadInv, LoadedIsFinished

\* Inspecting the last pending process puts what it calls in the loop.
LEMMA InspectKeeps ==
    ASSUME LoadInv, Inspect
    PROVE  LoadInv'
<1> DEFINE p == pending[Len(pending)]
           front == SubSeq(pending, 1, Len(pending) - 1)
<1>1. /\ p \in Process
      /\ front \in Seq(Process)
      /\ Elements(pending) = Elements(front) \cup {p}
  BY FrontElements, Zenon DEF Inspect, LoadInv, LoadTypeOK
<1>2. /\ verdict = "loading" /\ verdict' = verdict
      /\ root' = root /\ parser' = parser
      /\ pending' = front
      /\ inspected' = inspected \cup {p}
      /\ remaining = <<>>
      /\ remaining' = IF p \in inspected THEN <<>> ELSE parser[p]
  BY Zenon DEF Inspect
<1> HIDE DEF p, front
<1>3. Elements(pending') = Elements(front) /\ Known' = Known
  BY <1>2, Zenon DEF Elements, Known
<1>4. p \in Known
  BY <1>1, <1>2, Zenon DEF LoadInv, PendingIsKnown
<1>5. LoadTypeOK'
  BY <1>1, <1>2, <1>3, <1>4, Zenon DEF LoadInv, LoadTypeOK
<1>6. PendingIsKnown'
  BY <1>1, <1>2, <1>3, <1>4, Zenon DEF LoadInv, PendingIsKnown
<1>7. NothingIsForgotten'
  <2>1. root' \in inspected' \cup Elements(pending')
    BY <1>1, <1>2, <1>3, Zenon DEF LoadInv, NothingIsForgotten
  <2>2. ASSUME NEW q \in inspected'
        PROVE  Elements(parser'[q]) \subseteq
                   inspected' \cup Elements(pending') \cup Elements(remaining')
    <3>1. CASE q \in inspected
      BY Zenon, <1>1, <1>2, <1>3, <3>1, EmptyElements
      DEF LoadInv, NothingIsForgotten
    <3>2. CASE q = p /\ p \notin inspected
      <4>1. remaining' = parser'[q]
        BY <1>2, <3>2, Zenon
      <4> QED
        BY <4>1, Zenon
    <3> QED
      BY <1>2, <2>2, <3>1, <3>2, Zenon
  <2> QED
    BY <2>1, <2>2, Zenon DEF NothingIsForgotten, Elements
<1> QED
  BY <1>2, <1>5, <1>6, <1>7, Zenon DEF LoadInv, LoadedIsFinished

\* Following a call that the parser has, or that the resolver adds to it,
\* moves the called process from the loop to the pending ones.  The processes
\* the parser had keep what they call.
LEMMA FollowKeeps ==
    ASSUME LoadInv, verdict = "loading", remaining # <<>>,
           Head(remaining) \in Known',
           Known \subseteq Known', Known' \subseteq Process,
           parser' \in [Known' -> Seq(Process \cup {NoElement})],
           \A p \in Known : parser'[p] = parser[p],
           verdict' = verdict, root' = root, inspected' = inspected,
           pending' = Append(pending, Head(remaining)),
           remaining' = Tail(remaining)
    PROVE  LoadInv'
<1> DEFINE e == Head(remaining)
<1>1. /\ Tail(remaining) \in Seq(Process \cup {NoElement})
      /\ Elements(remaining) = {e} \cup Elements(Tail(remaining))
  BY TailElements, Zenon DEF LoadInv, LoadTypeOK
<1>2. e \in Process
  BY Zenon
<1>3. /\ Append(pending, e) \in Seq(Process)
      /\ Elements(Append(pending, e)) = Elements(pending) \cup {e}
  BY <1>2, AppendElements DEF LoadInv, LoadTypeOK
<1>4. /\ Elements(pending') = Elements(pending) \cup {e}
      /\ Elements(remaining) = {e} \cup Elements(remaining')
  BY <1>1, <1>3, Zenon
<1>5. LoadTypeOK'
  BY <1>1, <1>3, Zenon DEF LoadInv, LoadTypeOK
<1> HIDE DEF e
<1>6. PendingIsKnown'
  BY <1>4, Zenon DEF LoadInv, PendingIsKnown, e
<1>7. NothingIsForgotten'
  <2>1. root' \in inspected' \cup Elements(pending')
    BY <1>4, Zenon DEF LoadInv, NothingIsForgotten
  <2>2. ASSUME NEW q \in inspected'
        PROVE  Elements(parser'[q]) \subseteq
                   inspected' \cup Elements(pending') \cup Elements(remaining')
    <3>1. parser'[q] = parser[q]
      BY Zenon DEF LoadInv, PendingIsKnown
    <3>2. Elements(parser[q]) \subseteq
              inspected \cup Elements(pending) \cup Elements(remaining)
      BY Zenon DEF LoadInv, NothingIsForgotten
    <3> QED
      BY <1>4, <3>1, <3>2, Zenon
  <2> QED
    BY <2>1, <2>2, Zenon DEF NothingIsForgotten, Elements
<1> QED
  BY <1>5, <1>6, <1>7, Zenon DEF LoadInv, LoadedIsFinished

\* Every step of the loop, and the beginning of the next load, keeps the
\* invariant.
LEMMA LoadNextKeeps == LoadInv /\ [LoadNext]_loadVars => LoadInv'
<1> SUFFICES ASSUME LoadInv, [LoadNext]_loadVars
             PROVE  LoadInv'
  BY Zenon
<1>1. CASE \E f \in File, p \in Process : BeginLoad(f, p)
  BY <1>1, BeginLoadKeeps, Zenon
<1>2. CASE Inspect
  BY <1>2, InspectKeeps, Zenon
<1>3. CASE Follow
  <2>1. /\ Known' = Known /\ Known \subseteq Process
        /\ parser' = parser
        /\ parser \in [Known -> Seq(Process \cup {NoElement})]
    BY <1>3, Zenon DEF Follow, LoadInv, LoadTypeOK, Known
  <2> QED
    BY <1>3, <2>1, FollowKeeps, Zenon DEF Follow
<1>4. ASSUME NEW f \in File, Resolve(f)
      PROVE  LoadInv'
  <2>1. /\ DOMAIN Calls[f] \subseteq Process
        /\ Calls[f] \in [DOMAIN Calls[f] -> Seq(Process \cup {NoElement})]
    BY FileAssumption, Zenon
  <2>2. /\ Known \subseteq Process
        /\ parser \in [Known -> Seq(Process \cup {NoElement})]
    BY Zenon DEF LoadInv, LoadTypeOK
  <2>3. parser' = [p \in Known \cup DOMAIN Calls[f] |->
                      IF p \in Known THEN parser[p] ELSE Calls[f][p]]
    BY <1>4, Zenon DEF Resolve
  <2>4. Known' = Known \cup DOMAIN Calls[f]
    BY <2>3, Zenon DEF Known
  <2>5. \A p \in Known : parser'[p] = parser[p]
    BY <2>3, Zenon
  <2>6. \A p \in Known' : parser'[p] \in Seq(Process \cup {NoElement})
    BY <2>1, <2>2, <2>3, <2>4, Zenon
  <2>7. parser' \in [Known' -> Seq(Process \cup {NoElement})]
    BY <2>3, <2>4, <2>6, Zenon
  <2>8. Head(remaining) \in Known' /\ Known \subseteq Known' /\ Known' \subseteq Process
    BY <1>4, <2>1, <2>2, <2>4, Zenon DEF Resolve
  <2> QED
    BY <1>4, <2>5, <2>7, <2>8, FollowKeeps, Zenon DEF Resolve
<1>5. CASE RefuseCall
  BY <1>5, Zenon DEF RefuseCall, LoadInv, LoadTypeOK, PendingIsKnown,
              NothingIsForgotten, LoadedIsFinished, Known
<1>6. CASE AllLoaded
  BY <1>6 DEF AllLoaded, LoadInv, LoadTypeOK, PendingIsKnown,
              NothingIsForgotten, LoadedIsFinished, Known, Elements
<1>7. CASE UNCHANGED loadVars
  <2>1. LoadTypeOK'
    BY <1>7, Zenon DEF loadVars, LoadInv, LoadTypeOK, Known
  <2>2. PendingIsKnown'
    BY <1>7, Zenon DEF loadVars, LoadInv, PendingIsKnown, Known, Elements
  <2>3. NothingIsForgotten'
    BY <1>7 DEF loadVars, LoadInv, NothingIsForgotten, Elements
  <2>4. LoadedIsFinished'
    BY <1>7, Zenon DEF loadVars, LoadInv, LoadedIsFinished
  <2> QED
    BY <2>1, <2>2, <2>3, <2>4, Zenon DEF LoadInv
<1> QED
  BY <1>1, <1>2, <1>3, <1>4, <1>5, <1>6, <1>7, Zenon DEF LoadNext, LoadStep

\* A finished load has inspected a set that holds the root and is closed
\* under calls, so it has everything the root can reach.
LEMMA FinishedIsClosed == LoadInv => LoadedIsClosed
<1> SUFFICES ASSUME LoadInv, verdict = "loaded", NEW p \in Reachable
             PROVE  p \in Known
  BY Zenon DEF LoadedIsClosed
<1>1. Elements(pending) = {} /\ Elements(remaining) = {}
  BY EmptyElements, Zenon DEF LoadInv, LoadedIsFinished
<1>2. inspected \in SUBSET (Process \cup {NoElement}) /\ inspected \subseteq Known
  BY Zenon DEF LoadInv, LoadTypeOK, PendingIsKnown
<1>3. root \in inspected
  BY <1>1, Zenon DEF LoadInv, NothingIsForgotten
<1>4. \A q \in inspected \cap Known : Elements(parser[q]) \subseteq inspected
  BY <1>1, Zenon DEF LoadInv, NothingIsForgotten
<1>5. p \in inspected
  BY <1>2, <1>3, <1>4, Zenon DEF Reachable
<1> QED
  BY <1>2, <1>5, Zenon

-----------------------------------------------------------------------------
\* Every step of the host is a step of the definition store by one request, or
\* leaves the store alone.
LEMMA HostStep ==
    Next => (\E q \in Request : StoreStep(q)) \/ UNCHANGED storeVars
<1> SUFFICES ASSUME Next
             PROVE  (\E q \in Request : StoreStep(q)) \/ UNCHANGED storeVars
  BY Zenon
<1>1. CASE EditSecret
  BY <1>1, Zenon DEF EditSecret
<1>2. ASSUME NEW q \in Request, Ask(q) PROVE StoreStep(q)
  <2>1. CASE Deploy(q)
    <3>1. PICK u \in Upload : Look(q, u.source, u.model, u.dmn, u.file)
      BY <2>1, Zenon DEF Deploy
    <3>2. /\ u.source \in Source /\ u.model \in Model
          /\ u.dmn \in Decision \cup {NoDecision}
          /\ u.file \in BpmnFile \cup {"none"}
      BY HostAssumption, Zenon
    <3> QED
      BY <3>1, <3>2, SMTT(30) DEF StoreStep
  <2>2. CASE DeployFromCatalog(q)
    BY <2>2, Zenon DEF DeployFromCatalog, StoreStep
  <2>3. CASE StartProcess(q)
    BY <2>3, Zenon DEF StartProcess, StoreStep
  <2>4. CASE RetryProcess(q)
    BY <2>4, Zenon DEF RetryProcess, StoreStep
  <2> QED
    BY <1>2, <2>1, <2>2, <2>3, <2>4, SMTT(30) DEF Ask
<1>3. ASSUME NEW q \in Request, Proceed(q)
      PROVE  StoreStep(q) \/ UNCHANGED storeVars
  <2>1. CASE SkipPublish(q) \/ Publish(q) \/ Published(q)
    <3>1. Pass(q, "publish", "end") \/ Pass(q, "publish", "files") \/ Pass(q, "files", "end")
      BY <2>1, Zenon DEF SkipPublish, Publish, Published
    <3> QED
      BY <3>1, PassIsStep, SMTT(30)
  <2>2. CASE RunToEnd(q) \/ RunToService(q) \/ CallFails(q)
    BY <2>2, PassIsStep, Zenon DEF RunToEnd, RunToService, CallFails
  <2>3. CASE CallReturns(q)
    <3>1. Pass(q, "call", "finish") \/ Pass(q, "call", "failed")
      BY <2>3, Zenon DEF CallReturns
    <3> QED
      BY <3>1, PassIsStep, SMTT(30)
  <2>4. CASE WorkflowBuilt(q)
    BY <2>4, PassIsStep, SMTT(30) DEF WorkflowBuilt, StoreStep
  <2>5. CASE Store(q) \/ PrepareInstance(q) \/ SeedDefinitions(q) \/ FirstStartsCollide(q)
    BY <2>5, Zenon DEF Store, PrepareInstance, SeedDefinitions, FirstStartsCollide, StoreStep
  <2>6. CASE StoreWorkflow(q) \/ CommitRequest(q) \/ RollBack(q) \/ PublishRaises(q)
    BY <2>6, Zenon DEF StoreWorkflow, CommitRequest, RollBack, PublishRaises, StoreStep
  <2>7. CASE PublishFile(q) \/ BuildWorkflow(q) \/ LoadCalled(q) \/ PrepareCall(q)
    BY <2>7, Zenon DEF PublishFile, BuildWorkflow, LoadCalled, PrepareCall
  <2> QED
    BY <1>3, <2>1, <2>2, <2>3, <2>4, <2>5, <2>6, <2>7, SMTT(30) DEF Proceed
<1>4. ASSUME NEW q \in Request, GoWrong(q) PROVE StoreStep(q)
  <2>1. CASE ScheduleFails(q)
    BY <2>1, Zenon DEF ScheduleFails, StoreStep
  <2>2. CASE PublishFails(q)
    BY <2>2, PassIsStep, SMTT(30) DEF PublishFails
  <2>3. CASE Crash(q)
    BY <2>3, Zenon DEF Crash, StoreStep
  <2> QED
    BY <1>4, <2>1, <2>2, <2>3, SMTT(30) DEF GoWrong
<1> QED
  BY <1>1, <1>2, <1>3, <1>4, SMTT(30) DEF Next

\* Every step of the host keeps the store invariant.
LEMMA StoreKeeps ==
    ASSUME StoreInv, [Next]_vars
    PROVE  StoreInv'
<1>1. CASE \E q \in Request : StoreStep(q)
  BY <1>1, StoreStepKeeps, Zenon
<1>2. CASE UNCHANGED storeVars
  BY <1>2, StoreUntouched, Zenon
<1>3. CASE UNCHANGED vars
  BY <1>2, <1>3, Zenon DEF vars
<1> QED
  BY <1>1, <1>2, <1>3, HostStep, Zenon

\* The store invariant holds at the beginning.
LEMMA HostStoreInitially == Init => StoreInv
<1> SUFFICES ASSUME Init PROVE StoreInv
  BY Zenon
<1>1. StoreInit /\ rows \in Seq(Row)
  BY HostAssumption, Zenon DEF Init
<1> QED
  BY <1>1, StoreInitially, Zenon

\* The store invariant, and with it VersionsAreKept: whatever is deployed,
\* moved to another process model, retried, rolled back or lost in a crash
\* while instances run, import_bpmn_process_definition never changes the source
\* behind an instance, and its snapshot stays.
THEOREM InstancesKeepTheirVersion == Spec => []VersionsAreKept
<1>1. StoreInv => VersionsAreKept
  BY Zenon DEF StoreInv
<1> QED
  BY <1>1, HostStoreInitially, StoreKeeps, PTL DEF Spec

\* Every step of the host is a step of a load, which begins with the source of
\* the request's session, or leaves the load alone.
LEMMA HostLoads ==
    ASSUME StoreInv, Next
    PROVE  [LoadNext]_loadVars
<1>1. CASE EditSecret
  BY <1>1, Zenon DEF EditSecret
<1>2. ASSUME NEW q \in Request, Ask(q) PROVE UNCHANGED loadVars
  BY <1>2, Zenon DEF Ask, Deploy, DeployFromCatalog, StartProcess, RetryProcess
<1>3. ASSUME NEW q \in Request, Proceed(q) PROVE [LoadNext]_loadVars
  <2>1. CASE \/ Store(q) \/ SkipPublish(q) \/ Publish(q) \/ PublishRaises(q)
             \/ PublishFile(q) \/ Published(q)
    BY <2>1, Zenon DEF Store, SkipPublish, Publish, PublishRaises, PublishFile, Published
  <2>2. CASE \/ PrepareInstance(q) \/ WorkflowBuilt(q) \/ SeedDefinitions(q)
             \/ FirstStartsCollide(q) \/ RunToEnd(q)
    BY <2>2, Zenon DEF PrepareInstance, WorkflowBuilt, SeedDefinitions, FirstStartsCollide,
                      RunToEnd
  <2>3. CASE BuildWorkflow(q)
    <3>1. session[q] \in Session /\ SessionOK(session[q]) /\ session[q].step = "load"
      BY <2>3, Zenon DEF BuildWorkflow, StoreInv, StoreTypeOK, At
    <3>2. session[q].source \in File
      BY <3>1, HostAssumption, Zenon DEF SessionOK
    <3> QED
      BY <2>3, <3>2, Zenon DEF BuildWorkflow, LoadNext
  <2>4. CASE LoadCalled(q)
    BY <2>4, Zenon DEF LoadCalled, LoadNext
  <2>5. CASE RunToService(q) \/ PrepareCall(q) \/ CallFails(q) \/ CallReturns(q)
    BY <2>5, Zenon DEF RunToService, PrepareCall, CallFails, CallReturns
  <2>6. CASE StoreWorkflow(q) \/ CommitRequest(q) \/ RollBack(q)
    BY <2>6, Zenon DEF StoreWorkflow, CommitRequest, RollBack
  <2> QED
    BY <1>3, <2>1, <2>2, <2>3, <2>4, <2>5, <2>6, Zenon DEF Proceed
<1>4. ASSUME NEW q \in Request, GoWrong(q) PROVE UNCHANGED loadVars
  BY <1>4, Zenon DEF GoWrong, ScheduleFails, PublishFails, Crash
<1> QED
  BY <1>1, <1>2, <1>3, <1>4, Zenon DEF Next

\* The load invariant holds of the host.
LEMMA HostLoadsKeep == Spec => []LoadInv
<1>1. StoreInv /\ LoadInv /\ [Next]_vars => LoadInv'
  <2> SUFFICES ASSUME StoreInv, LoadInv, [Next]_vars PROVE LoadInv'
    BY Zenon
  <2>1. [LoadNext]_loadVars
    BY HostLoads, Zenon DEF vars
  <2> QED
    BY <2>1, LoadNextKeeps, Zenon
<1>2. Init => LoadInv
  BY LoadInitially, Zenon DEF Init
<1> QED
  BY <1>1, <1>2, HostStoreInitially, StoreKeeps, PTL DEF Spec

\* LoadedIsClosed, whatever the files call and whatever the resolver answers: a
\* workflow is built only when the parser has every process that it can come to
\* call.
THEOREM LoadsAreClosed == Spec => []LoadedIsClosed
  BY HostLoadsKeep, FinishedIsClosed, PTL

\* The loop never takes a process that the parser does not have: the error
\* "was not found in the resolved BPMN" is never raised.
THEOREM PendingIsInParser == Spec => []PendingIsKnown
<1>1. LoadInv => PendingIsKnown
  BY Zenon DEF LoadInv
<1> QED
  BY <1>1, HostLoadsKeep, PTL

-----------------------------------------------------------------------------
(***************************************************************************)
(* The secrets of service calls and the shared catalog.                    *)
(***************************************************************************)

\* Every step of the host keeps the secrets fresh: it is a step of a service
\* call, an edit, or leaves both alone.
LEMMA ServicesKeep ==
    ASSUME Services, [Next]_vars
    PROVE  Services'
<1>1. CASE UNCHANGED serviceVars
  BY <1>1, Zenon DEF serviceVars, Services, CallOK, SecretsAreFresh, Usable
<1>2. CASE UNCHANGED vars
  BY <1>1, <1>2, Zenon DEF vars
<1>3. CASE EditSecret
  BY <1>3, EditKeeps, Zenon DEF EditSecret
<1>4. ASSUME NEW q \in Request, Ask(q) PROVE Services'
  BY <1>1, <1>4, Zenon DEF Ask, Deploy, DeployFromCatalog, StartProcess, RetryProcess
<1>5. ASSUME NEW q \in Request, Proceed(q) PROVE Services'
  <2>1. CASE \/ Store(q) \/ SkipPublish(q) \/ Publish(q) \/ PublishRaises(q)
             \/ PublishFile(q) \/ Published(q)
    BY <1>1, <2>1, Zenon DEF Store, SkipPublish, Publish, PublishRaises, PublishFile,
                      Published
  <2>2. CASE \/ PrepareInstance(q) \/ BuildWorkflow(q) \/ LoadCalled(q)
             \/ WorkflowBuilt(q) \/ SeedDefinitions(q) \/ FirstStartsCollide(q)
             \/ RunToEnd(q)
    BY <1>1, <2>2, Zenon DEF PrepareInstance, BuildWorkflow, LoadCalled, WorkflowBuilt,
                      SeedDefinitions, FirstStartsCollide, RunToEnd
  <2>3. CASE RunToService(q) \/ PrepareCall(q) \/ CallFails(q) \/ CallReturns(q)
    BY <2>3, CallStepKeeps, Zenon DEF RunToService, PrepareCall, CallFails, CallReturns
  <2>4. CASE StoreWorkflow(q) \/ CommitRequest(q) \/ RollBack(q)
    BY <1>1, <2>4, Zenon DEF StoreWorkflow, CommitRequest, RollBack
  <2> QED
    BY <1>5, <2>1, <2>2, <2>3, <2>4, Zenon DEF Proceed
<1>6. ASSUME NEW q \in Request, GoWrong(q) PROVE Services'
  <2>1. CASE ScheduleFails(q) \/ PublishFails(q)
    BY <1>1, <2>1, Zenon DEF ScheduleFails, PublishFails
  <2>2. CASE Crash(q)
    BY <2>2, CallStepKeeps, Zenon DEF Crash, Answers
  <2> QED
    BY <1>6, <2>1, <2>2, Zenon DEF GoWrong
<1> QED
  BY <1>2, <1>3, <1>4, <1>5, <1>6, Zenon DEF Next

\* SecretsAreFresh, for any number of requests, tenants and values: whatever is
\* edited between _load_tenant_secret_map and the call to the proxy, and
\* whichever attempt this is.
THEOREM SecretsStayFresh == Spec => []SecretsAreFresh
<1>1. Services => SecretsAreFresh
  BY Zenon DEF Services
<1>2. Init => Services
  BY ServicesInitially, Zenon DEF Init
<1> QED
  BY <1>1, <1>2, ServicesKeep, PTL DEF Spec

\* Every step of the host keeps the catalog whole.
LEMMA CatalogKeeps ==
    ASSUME StoreInv, CatalogInv, [Next]_vars
    PROVE  CatalogInv'
<1>1. CASE UNCHANGED catalogVars
  <2>1. /\ directory' = directory /\ publishing' = publishing
        /\ published' = published
    BY <1>1, Zenon DEF catalogVars
  <2>2. \A goal, todo : Written(goal, todo) => Written(goal, todo)'
    BY <2>1, Zenon DEF Written
  <2>3. \A q \in Request : PublishOK(publishing[q])'
    BY <2>1, <2>2, Zenon DEF CatalogInv, PublishOK
  <2> QED
    BY <2>1, <2>2, <2>3, Zenon DEF CatalogInv
<1>2. CASE UNCHANGED vars
  BY <1>1, <1>2, Zenon DEF vars
<1>3. CASE EditSecret
  BY <1>1, <1>3, Zenon DEF EditSecret
<1>4. ASSUME NEW q \in Request, Ask(q) PROVE CatalogInv'
  BY <1>1, <1>4, Zenon DEF Ask, Deploy, DeployFromCatalog, StartProcess, RetryProcess
<1>5. ASSUME NEW q \in Request, Proceed(q) PROVE CatalogInv'
  <2>1. CASE Store(q) \/ SkipPublish(q) \/ PublishRaises(q)
    BY <1>1, <2>1, Zenon DEF Store, SkipPublish, PublishRaises
  <2>2. CASE Publish(q)
    BY <2>2, GoalTyped, BeginKeeps, Zenon DEF Publish, Pass
  <2>3. CASE PublishFile(q) \/ Published(q)
    BY <2>3, WriteFileKeeps, EndKeeps, Zenon DEF PublishFile, Published
  <2>4. CASE \/ PrepareInstance(q) \/ BuildWorkflow(q) \/ LoadCalled(q)
             \/ WorkflowBuilt(q) \/ SeedDefinitions(q) \/ FirstStartsCollide(q)
             \/ RunToEnd(q)
    BY <1>1, <2>4, Zenon DEF PrepareInstance, BuildWorkflow, LoadCalled, WorkflowBuilt,
                      SeedDefinitions, FirstStartsCollide, RunToEnd
  <2>5. CASE RunToService(q) \/ PrepareCall(q) \/ CallFails(q) \/ CallReturns(q)
    BY <1>1, <2>5, Zenon DEF RunToService, PrepareCall, CallFails, CallReturns
  <2>6. CASE StoreWorkflow(q) \/ CommitRequest(q) \/ RollBack(q)
    BY <1>1, <2>6, Zenon DEF StoreWorkflow, CommitRequest, RollBack
  <2> QED
    BY <1>5, <2>1, <2>2, <2>3, <2>4, <2>5, <2>6, Zenon DEF Proceed
<1>6. ASSUME NEW q \in Request, GoWrong(q) PROVE CatalogInv'
  <2>1. CASE ScheduleFails(q)
    BY <1>1, <2>1, Zenon DEF ScheduleFails
  <2>2. CASE PublishFails(q)
    BY <2>2, WriteStopsKeeps, Zenon DEF PublishFails
  <2>3. CASE Crash(q)
    BY <2>3, WriteStopsKeeps, DropKeeps, Zenon DEF Crash
  <2> QED
    BY <1>6, <2>1, <2>2, <2>3, Zenon DEF GoWrong
<1> QED
  BY <1>2, <1>3, <1>4, <1>5, <1>6, Zenon DEF Next

\* CatalogIsWhole, for any number of requests, process models and files: what
\* publish_process_model_to_m8flow_backend writes undisturbed, the loader reads
\* back up to line ends, whatever other publications, errors and crashes left
\* there before.
THEOREM CatalogStaysWhole == Spec => []CatalogIsWhole
<1>1. CatalogInv => CatalogIsWhole
  BY CatalogReads, Zenon
<1>2. Init => CatalogInv
  BY CatalogInitially, Zenon DEF Init
<1> QED
  BY <1>1, HostStoreInitially, StoreKeeps, <1>2, CatalogKeeps, PTL DEF Spec

-----------------------------------------------------------------------------
(***************************************************************************)
(* The effects of service calls.                                           *)
(***************************************************************************)

Resumed(mine) ==
    \/ mine.step \in {"load", "seed", "run", "call", "finish", "failed"}
    \/ mine.result # "none"

AdvanceOK(mine, run) ==
    /\ ~mine.draft.passed
    /\ Resumed(mine) /\ mine.draft = NoInstance =>
          instances[mine.instance].source = mine.source
    /\ (mine.step = "finish" \/ mine.result = "passed")
       /\ mine.source \in WithService => mine.instance \in run

AdvanceInv == (\A q \in Request : AdvanceOK(session[q], effects)) /\ AdvanceMeansEffect

\* The session of another request, when instances only grow and keep their
\* sources, and the proxy has run what it had run.
LEMMA OtherAdvances ==
    ASSUME StoreInv, NEW r \in Request, AdvanceOK(session[r], effects),
           session'[r] = session[r], effects \subseteq effects',
           \A n \in DOMAIN instances : instances'[n].source = instances[n].source
    PROVE  AdvanceOK(session[r], effects)'
<1> DEFINE mine == session[r]
<1>1. Resumed(mine) /\ mine.draft = NoInstance => mine.instance \in DOMAIN instances
  BY Zenon DEF StoreInv, SessionOK, Resumed
<1>2. AdvanceOK(mine, effects) /\ mine' = mine
  BY Zenon
<1> QED
  BY <1>1, <1>2, Zenon DEF AdvanceOK, Resumed

\* A step that changes no instance: what the request does to its own session.
LEMMA QuietAdvance ==
    ASSUME StoreInv, AdvanceInv, NEW q \in Request, NEW new,
           session' = [session EXCEPT ![q] = new],
           UNCHANGED instances, effects \subseteq effects', AdvanceOK(new, effects')
    PROVE  AdvanceInv'
<1>1. DOMAIN session = Request
  BY Zenon DEF StoreInv, StoreTypeOK
<1>2. session'[q] = new /\ \A r \in Request \ {q} : session'[r] = session[r]
  BY <1>1, Zenon
<1>3. AdvanceOK(session[q], effects)'
  <2>1. AdvanceOK(session[q], effects)' <=> AdvanceOK(new, effects')
    BY <1>2, Zenon DEF AdvanceOK, Resumed
  <2> QED
    BY <2>1, Zenon
<1>4. ASSUME NEW r \in Request \ {q} PROVE AdvanceOK(session[r], effects)'
  BY <1>2, OtherAdvances, Zenon DEF AdvanceInv
<1>5. AdvanceMeansEffect'
  BY Zenon DEF AdvanceInv, AdvanceMeansEffect
<1> QED
  BY <1>3, <1>4, <1>5, Zenon DEF AdvanceInv

\* A session that has not come to an instance, or is over.
LEMMA FreshAdvance ==
    ASSUME NEW new, new.draft = NoInstance, new.result = "none",
           new.step \notin {"load", "seed", "run", "call", "finish", "failed"}
    PROVE  AdvanceOK(new, effects')
BY DEF AdvanceOK, Resumed, NoInstance

\* A request that goes on with the instance it has, and does not get past a
\* service task by itself.
LEMMA SameAdvance ==
    ASSUME StoreInv, AdvanceInv, NEW q \in Request, NEW new,
           UNCHANGED instances, effects \subseteq effects',
           new.draft.passed = session[q].draft.passed,
           new.draft = NoInstance => session[q].draft = NoInstance,
           new.source = session[q].source, new.instance = session[q].instance,
           Resumed(new) => Resumed(session[q]),
           new.step = "finish" \/ new.result = "passed" =>
               \/ session[q].step = "finish" \/ session[q].result = "passed"
               \/ new.source \notin WithService
               \/ new.instance \in effects'
    PROVE  AdvanceOK(new, effects')
<1>1. AdvanceOK(session[q], effects)
  BY Zenon DEF AdvanceInv
<1> QED
  BY <1>1, Zenon DEF AdvanceOK, Resumed

\* A request that moves on with what it has.
LEMMA PassAdvance ==
    ASSUME StoreInv, AdvanceInv, NEW q \in Request, NEW a, NEW b, Pass(q, a, b),
           effects \subseteq effects',
           b = "finish" => \/ session[q].source \notin WithService
                           \/ session[q].instance \in effects'
    PROVE  AdvanceInv'
<1> DEFINE mine == session[q]
           new == [mine EXCEPT !.step = b]
<1>1. mine \in Session /\ mine.step = a
  BY Zenon DEF StoreInv, StoreTypeOK, Pass, At
<1>2. session' = [session EXCEPT ![q] = new] /\ UNCHANGED instances
  BY Zenon DEF Pass, Move, Set
<1>3. /\ new.step = b /\ new.source = mine.source /\ new.draft = mine.draft
      /\ new.instance = mine.instance /\ new.result = mine.result
  BY <1>1, Zenon DEF Session
<1>4. b \in {"load", "seed", "run", "call", "finish", "failed"} =>
         a \in {"load", "seed", "run", "call", "finish", "failed"}
  BY Zenon DEF Pass, Moves
<1> HIDE DEF new
<1>5. Resumed(new) => Resumed(mine)
  BY <1>1, <1>3, <1>4, Zenon DEF Resumed
<1>6. AdvanceOK(new, effects')
  <2>1. /\ new.draft.passed = session[q].draft.passed
        /\ new.draft = NoInstance => session[q].draft = NoInstance
    BY <1>3, Zenon
  <2>2. new.step = "finish" \/ new.result = "passed" =>
           \/ session[q].step = "finish" \/ session[q].result = "passed"
           \/ new.source \notin WithService
           \/ new.instance \in effects'
    BY <1>3, Zenon
  <2> QED
    BY <1>2, <1>3, <1>5, <2>1, <2>2, SameAdvance, Zenon
<1> QED
  BY <1>2, <1>6, QuietAdvance, Zenon

\* The steps of a request before it comes to an instance, and its end without
\* a commit.
LEMMA EarlyAdvance ==
    ASSUME StoreInv, AdvanceInv, NEW q \in Request, effects \subseteq effects',
           \/ \E s \in Source, m \in Model, d \in Decision \cup {NoDecision},
                 f \in BpmnFile \cup {"none"} : Look(q, s, m, d, f)
           \/ \E m \in Model : Choose(q, m)
           \/ Write(q) \/ StartOwn(q) \/ ImportRaises(q)
           \/ DuplicateDigest(q) \/ TasksCollide(q) \/ Abandon(q)
    PROVE  AdvanceInv'
<1> DEFINE mine == session[q]
           fresh(new) == /\ new.draft = NoInstance /\ new.result = "none"
                         /\ new.step \notin {"load", "seed", "run", "call",
                                             "finish", "failed"}
<1>1. UNCHANGED instances
  BY Zenon DEF Look, Choose, Write, StartOwn, ImportRaises, DuplicateDigest,
               TasksCollide, Abandon
<1>2. mine \in Session /\ SessionOK(mine)
  BY Zenon DEF StoreInv, StoreTypeOK
<1>3. mine.step \in {"import", "publish"} =>
         mine.draft = NoInstance /\ mine.result = "none"
  BY <1>2, Zenon DEF SessionOK
<1>4. ASSUME NEW new, session' = [session EXCEPT ![q] = new], fresh(new)
      PROVE  AdvanceInv'
  <2>1. AdvanceOK(new, effects')
    BY <1>4, FreshAdvance, Zenon
  <2> QED
    BY <1>1, <1>4, <2>1, QuietAdvance, Zenon
<1>5. ASSUME NEW s \in Source, NEW m \in Model,
             NEW d \in Decision \cup {NoDecision},
             NEW f \in BpmnFile \cup {"none"}, Look(q, s, m, d, f)
      PROVE  AdvanceInv'
  <2> DEFINE found == Found(s, m)
             i == IF found = {} THEN 0 ELSE CHOOSE x \in found : TRUE
             seen == IF i = 0 THEN NoForm ELSE rows[i].form
             tasks == IF i = 0 THEN FALSE ELSE rows[i].tasks
             want == [model |-> m, dmn |-> d, spec |-> FALSE]
             new == [Idle EXCEPT !.step = "import", !.source = s, !.id = i,
                                 !.file = f, !.seen = seen, !.tasks = tasks,
                                 !.want = want]
  <2>1. session' = [session EXCEPT ![q] = new]
    BY <1>5, Zenon DEF Look, Set
  <2> HIDE DEF i, seen, tasks, want
  <2>2. fresh(new)
    BY Zenon DEF Idle
  <2> QED
    BY <1>4, <2>1, <2>2, Zenon
<1>6. ASSUME NEW m \in Model, Choose(q, m) PROVE AdvanceInv'
  <2>1. PICK i \in DOMAIN rows :
          session' = [session EXCEPT ![q] =
              [Idle EXCEPT !.step = "shell", !.id = i, !.source = rows[i].source,
                           !.seen = rows[i].form, !.want = rows[i].form,
                           !.tasks = rows[i].tasks]]
    BY <1>6, Zenon DEF Choose, Set
  <2> DEFINE new == [Idle EXCEPT !.step = "shell", !.id = i,
                                 !.source = rows[i].source,
                                 !.seen = rows[i].form, !.want = rows[i].form,
                                 !.tasks = rows[i].tasks]
  <2>2. fresh(new)
    BY Zenon DEF Idle
  <2> QED
    BY <1>4, <2>1, <2>2, Zenon
<1>7. CASE Write(q)
  <2> DEFINE id == IF mine.id = 0 THEN nextId ELSE mine.id
             Locking(b) == [mine EXCEPT !.step = "publish", !.locked = b, !.id = id]
  <2>1. PICK b : session' = [session EXCEPT ![q] = Locking(b)]
    BY <1>7, <1>2, Zenon DEF Write, Set, Session
  <2>2. mine.step = "import"
    BY <1>7, Zenon DEF Write, At
  <2> HIDE DEF id
  <2>3. fresh(Locking(b))
    BY <1>2, <1>3, <2>2, Zenon DEF Session
  <2> QED
    BY <1>4, <2>1, <2>3, Zenon
<1>8. CASE StartOwn(q) \/ ImportRaises(q)
  <2>1. PICK step \in {"shell", "end"}, raised \in BOOLEAN :
           session' = [session EXCEPT ![q] =
                         [mine EXCEPT !.step = step, !.raised = raised]]
    <3>1. CASE StartOwn(q)
      <4>1. session' = [session EXCEPT ![q] = [mine EXCEPT !.step = "shell"]]
        BY <3>1, Zenon DEF StartOwn, Move, Set
      <4>2. [mine EXCEPT !.step = "shell"]
            = [mine EXCEPT !.step = "shell", !.raised = mine.raised]
        BY <1>2, Zenon DEF Session
      <4>3. mine.raised \in BOOLEAN
        BY <1>2, Zenon DEF Session
      <4> QED
        BY <4>1, <4>2, <4>3, Zenon
    <3>2. CASE ImportRaises(q)
      BY <3>2, Zenon DEF ImportRaises, Raise, Set
    <3> QED
      BY <1>8, <3>1, <3>2, Zenon
  <2>2. mine.step = "publish"
    BY <1>8, Zenon DEF StartOwn, ImportRaises, At
  <2> DEFINE new == [mine EXCEPT !.step = step, !.raised = raised]
  <2>3. fresh(new)
    BY <1>2, <1>3, <2>2, Zenon DEF Session
  <2> QED
    BY <1>4, <2>1, <2>3, Zenon
<1>9. CASE DuplicateDigest(q) \/ TasksCollide(q) \/ Abandon(q)
  <2>1. session' = [session EXCEPT ![q] = Idle]
    BY <1>9, Zenon DEF DuplicateDigest, TasksCollide, Abandon, Set
  <2>2. fresh(Idle)
    BY Zenon DEF Idle
  <2> QED
    BY <1>4, <2>1, <2>2, Zenon
<1> QED
  BY <1>5, <1>6, <1>7, <1>8, <1>9, Zenon

\* A request that takes up an instance: its definition still has the source
\* that the instance was started with.
LEMMA ResumeAdvance ==
    ASSUME StoreInv, AdvanceInv, NEW q \in Request, UNCHANGED effects,
           NEW n \in DOMAIN instances, Initialize(q, n) \/ Retry(q, n)
    PROVE  AdvanceInv'
<1> DEFINE i == instances[n].definition
<1>1. rows[i].source = instances[n].source
  BY Zenon DEF StoreInv, VersionsAreKept
<1>2. UNCHANGED instances
  BY Zenon DEF Initialize, Retry
<1>3. CASE Initialize(q, n)
  <2> DEFINE new == [Idle EXCEPT !.step = "load", !.instance = n, !.id = i,
                               !.source = rows[i].source,
                               !.seen = rows[i].form, !.want = rows[i].form,
                               !.tasks = rows[i].tasks]
  <2>1. session' = [session EXCEPT ![q] = new]
    BY <1>3, Zenon DEF Initialize, Set
  <2> HIDE DEF i
  <2>2. /\ new.step = "load" /\ new.instance = n /\ new.source = rows[i].source
        /\ new.draft = NoInstance /\ new.result = "none"
    BY Zenon DEF Idle
  <2>3. AdvanceOK(new, effects')
    BY <1>1, <2>2 DEF AdvanceOK, NoInstance
  <2> QED
    BY <1>2, <2>1, <2>3, QuietAdvance, Zenon
<1>4. CASE Retry(q, n)
  <2> DEFINE new == [Idle EXCEPT !.step = "run", !.instance = n,
                               !.source = instances[n].source]
  <2>1. session' = [session EXCEPT ![q] = new]
    BY <1>4, Zenon DEF Retry, Set
  <2>2. /\ new.step = "run" /\ new.instance = n
        /\ new.source = instances[n].source
        /\ new.draft = NoInstance /\ new.result = "none"
    BY Zenon DEF Idle
  <2>3. AdvanceOK(new, effects')
    BY <2>2 DEF AdvanceOK, NoInstance
  <2> QED
    BY <1>2, <2>1, <2>3, QuietAdvance, Zenon
<1> QED
  BY <1>3, <1>4, Zenon

\* A request that goes on with its instance: the workflow could not be built,
\* the definitions are seeded, the definition is read, or the workflow is
\* stored.
LEMMA WorkAdvance ==
    ASSUME StoreInv, AdvanceInv, NEW q \in Request, UNCHANGED effects,
           BuildRaises(q) \/ SeedRow(q) \/ ReadDefinition(q) \/ Finish(q)
    PROVE  AdvanceInv'
<1> DEFINE mine == session[q]
<1>1. mine \in Session /\ Resumed(mine)
  BY Zenon DEF StoreInv, StoreTypeOK, Resumed, BuildRaises, SeedRow, ReadDefinition,
               Finish, At
<1>2. UNCHANGED instances
  BY Zenon DEF BuildRaises, SeedRow, ReadDefinition, Finish
<1>3. ASSUME NEW new, session' = [session EXCEPT ![q] = new],
             new.draft = mine.draft, new.source = mine.source,
             new.instance = mine.instance,
             new.step # "finish" \/ mine.step = "finish",
             new.result = mine.result \/ mine.step = "finish"
      PROVE  AdvanceInv'
  <2>1. AdvanceOK(new, effects')
    <3>1. AdvanceOK(mine, effects)
      BY Zenon DEF AdvanceInv
    <3> QED
      BY <1>1, <1>3, <3>1, Zenon DEF AdvanceOK
  <2> QED
    BY <1>2, <1>3, <2>1, QuietAdvance, Zenon
<1>4. CASE BuildRaises(q)
  <2> DEFINE new == [mine EXCEPT !.step = "end", !.raised = TRUE]
  <2>1. session' = [session EXCEPT ![q] = new]
    BY <1>4, Zenon DEF BuildRaises, Raise, Set
  <2>2. /\ new.draft = mine.draft /\ new.source = mine.source
        /\ new.instance = mine.instance /\ new.step # "finish"
        /\ new.result = mine.result
    BY <1>1, Zenon DEF Session
  <2> QED
    BY <1>3, <2>1, <2>2, Zenon
<1>5. CASE SeedRow(q)
  <2> DEFINE want == [mine.want EXCEPT !.spec = TRUE]
             new == [mine EXCEPT !.step = "run", !.want = want, !.locked = TRUE]
  <2>1. session' = [session EXCEPT ![q] = new]
    BY <1>1, <1>5, Zenon DEF SeedRow, Set, Session
  <2> HIDE DEF want
  <2>2. /\ new.draft = mine.draft /\ new.source = mine.source
        /\ new.instance = mine.instance /\ new.step # "finish"
        /\ new.result = mine.result
    BY <1>1, Zenon DEF Session
  <2> QED
    BY <1>3, <2>1, <2>2, Zenon
<1>6. CASE Finish(q)
  <2> DEFINE new == [mine EXCEPT !.step = "end", !.result = "passed",
                                 !.touched = TRUE, !.locked = TRUE]
  <2>1. session' = [session EXCEPT ![q] = new] /\ mine.step = "finish"
    BY <1>1, <1>6, Zenon DEF Finish, Set, Session, At
  <2>2. /\ new.draft = mine.draft /\ new.source = mine.source
        /\ new.instance = mine.instance
    BY <1>1, Zenon DEF Session
  <2> QED
    BY <1>3, <2>1, <2>2, Zenon
<1>7. CASE ReadDefinition(q)
  <2> DEFINE i == instances[mine.instance].definition
             seen == rows[i].form
             want == [rows[i].form EXCEPT !.spec = TRUE]
             tasks == rows[i].tasks
             new == [mine EXCEPT !.id = i, !.seen = seen, !.want = want,
                                 !.tasks = tasks]
  <2>1. session' = [session EXCEPT ![q] = new] /\ mine.step = "finish"
    BY <1>1, <1>7, Zenon DEF ReadDefinition, Set, Session, At
  <2> HIDE DEF i, seen, want, tasks
  <2>2. /\ new.draft = mine.draft /\ new.source = mine.source
        /\ new.instance = mine.instance /\ new.result = mine.result
    BY <1>1, Zenon DEF Session
  <2> QED
    BY <1>3, <2>1, <2>2, Zenon
<1> QED
  BY <1>4, <1>5, <1>6, <1>7, Zenon

\* A new instance, committed or kept in the session, has got past nothing.
LEMMA PrepareAdvance ==
    ASSUME StoreInv, AdvanceInv, NEW q \in Request, UNCHANGED effects, Prepare(q)
    PROVE  AdvanceInv'
<1> PICK n : n = nextInstance
  BY Zenon
<1> DEFINE mine == session[q]
           commits == mine.id \in DOMAIN rows
           draft == IF commits THEN NoInstance ELSE Shell(q)
           new == [mine EXCEPT !.step = "load", !.instance = n, !.draft = draft]
<1>1. mine \in Session /\ SessionOK(mine) /\ mine.step = "shell"
      /\ DOMAIN session = Request
  BY Zenon DEF StoreInv, StoreTypeOK, Prepare, At
<1>2. /\ session' = [session EXCEPT ![q] = new]
      /\ instances' = (IF commits THEN Put(instances, n, Shell(q)) ELSE instances)
  BY Zenon DEF Prepare, Set
<1>3. n \notin DOMAIN instances /\ n \in Nat
  BY DEF StoreInv, StoreTypeOK
<1>4. /\ Shell(q).source = mine.source /\ ~Shell(q).passed
      /\ Shell(q) # NoInstance
  BY Zenon DEF Shell, NoInstance
<1>5. /\ \A k \in DOMAIN instances : instances'[k] = instances[k]
      /\ commits => instances'[n] = Shell(q)
      /\ \A k \in DOMAIN instances' :
            k \in DOMAIN instances \/ instances'[k] = Shell(q)
  BY <1>2, <1>3, Zenon DEF Put
<1>6. draft = (IF commits THEN NoInstance ELSE Shell(q))
  BY Zenon
<1> HIDE DEF draft
<1>7. /\ new.step = "load" /\ new.instance = n /\ new.draft = draft
      /\ new.source = mine.source /\ new.result = mine.result
  BY <1>1, Zenon DEF Session
<1> HIDE DEF new
<1>8. session'[q] = new /\ \A r \in Request \ {q} : session'[r] = session[r]
  BY <1>1, <1>2, Zenon
<1>9. AdvanceOK(session[q], effects)'
  <2>1. ~draft.passed
    BY <1>4, <1>6, Zenon DEF NoInstance
  <2>2. draft = NoInstance => instances'[n].source = mine.source
    BY <1>4, <1>5, <1>6, Zenon
  <2>3. mine.result = "none"
    BY <1>1, Zenon DEF SessionOK
  <2> QED
    BY <1>7, <1>8, <2>1, <2>2, <2>3, Zenon DEF AdvanceOK
<1>10. ASSUME NEW r \in Request \ {q} PROVE AdvanceOK(session[r], effects)'
  BY <1>5, <1>8, OtherAdvances, Zenon DEF AdvanceInv
<1>11. AdvanceMeansEffect'
  BY <1>4, <1>5, Zenon DEF AdvanceInv, AdvanceMeansEffect
<1> QED
  BY <1>9, <1>10, <1>11, Zenon DEF AdvanceInv

\* The failure that an independent session records moves no instance on.
LEMMA FailAdvance ==
    ASSUME StoreInv, AdvanceInv, NEW q \in Request, UNCHANGED effects,
           RecordFailure(q)
    PROVE  AdvanceInv'
<1> DEFINE mine == session[q]
<1>1. mine \in Session /\ SessionOK(mine) /\ mine.step = "failed"
      /\ DOMAIN session = Request /\ AdvanceOK(mine, effects)
  BY Zenon DEF StoreInv, StoreTypeOK, AdvanceInv, RecordFailure, Fail, At
<1>2. CASE mine.instance \notin DOMAIN instances
  <2> DEFINE draft == [mine.draft EXCEPT !.status = "error"]
             new == [mine EXCEPT !.step = "end", !.raised = TRUE, !.draft = draft]
  <2>1. session' = [session EXCEPT ![q] = new] /\ UNCHANGED instances
    BY <1>1, <1>2, Zenon DEF RecordFailure, Fail, Set, Session
  <2>2. /\ mine.draft # NoInstance /\ mine.draft \in Instance
        /\ mine.draft.definition # 0
    BY <1>1, <1>2, Zenon DEF Session, SessionOK
  <2>3. /\ draft.passed = mine.draft.passed
        /\ draft.definition = mine.draft.definition
    BY <2>2, Zenon DEF Instance
  <2>4. draft # NoInstance
    BY <2>2, <2>3, Zenon DEF NoInstance
  <2> HIDE DEF draft
  <2>5. /\ new.step = "end" /\ new.draft = draft
        /\ new.source = mine.source /\ new.instance = mine.instance
        /\ new.result = mine.result
    BY <1>1, Zenon DEF Session
  <2>6. AdvanceOK(new, effects')
    BY <1>1, <2>3, <2>4, <2>5 DEF AdvanceOK
  <2> QED
    BY <2>1, <2>6, QuietAdvance, Zenon
<1>3. CASE mine.instance \in DOMAIN instances
  <2> DEFINE result == IF mine.want = NoForm THEN "retried" ELSE mine.result
             new == [mine EXCEPT !.step = "end", !.raised = TRUE, !.result = result]
  <2>1. /\ session' = [session EXCEPT ![q] = new]
        /\ instances' = [instances EXCEPT ![mine.instance].status = "error"]
    BY <1>1, <1>3, Zenon DEF RecordFailure, Fail, Set, Session
  <2>2. result = "passed" => mine.result = "passed"
    BY Zenon
  <2> HIDE DEF result
  <2>3. /\ new.step = "end" /\ new.draft = mine.draft
        /\ new.source = mine.source /\ new.instance = mine.instance
        /\ new.result = result
    BY <1>1, Zenon DEF Session
  <2> HIDE DEF new
  <2>4. session'[q] = new /\ \A r \in Request \ {q} : session'[r] = session[r]
    BY <1>1, <2>1, Zenon
  <2>5. /\ DOMAIN instances' = DOMAIN instances
        /\ \A k \in DOMAIN instances :
              /\ instances'[k].source = instances[k].source
              /\ instances'[k].passed = instances[k].passed
    BY <1>3, <2>1, Zenon DEF StoreInv, StoreTypeOK, Instance
  <2>6. AdvanceOK(session[q], effects)'
    BY <1>1, <1>3, <2>2, <2>3, <2>4, <2>5, Zenon DEF AdvanceOK, Resumed
  <2>7. ASSUME NEW r \in Request \ {q} PROVE AdvanceOK(session[r], effects)'
    BY <2>4, <2>5, OtherAdvances, Zenon DEF AdvanceInv
  <2>8. AdvanceMeansEffect'
    BY <2>5, Zenon DEF AdvanceInv, AdvanceMeansEffect
  <2> QED
    BY <2>6, <2>7, <2>8, Zenon DEF AdvanceInv
<1> QED
  BY <1>2, <1>3, Zenon

\* The commit: the instance that is stored has got past its service task only
\* if the session has, and the session's source is the instance's.
LEMMA CommitAdvance ==
    ASSUME StoreInv, AdvanceInv, NEW q \in Request, UNCHANGED effects, Commit(q)
    PROVE  AdvanceInv'
<1> DEFINE mine == session[q]
           stores == mine.result # "none" \/ mine.draft # NoInstance
           n == mine.instance
           base == IF mine.draft # NoInstance THEN mine.draft ELSE instances[n]
<1>1. mine \in Session /\ SessionOK(mine) /\ AdvanceOK(mine, effects)
      /\ DOMAIN session = Request
  BY Zenon DEF StoreInv, StoreTypeOK, AdvanceInv
<1>2. /\ instances' = (IF stores THEN Put(instances, n, Outcome(q)) ELSE instances)
      /\ session' = [session EXCEPT ![q] = Idle]
  BY Zenon DEF Commit, Set
<1>3. session'[q] = Idle /\ \A r \in Request \ {q} : session'[r] = session[r]
  BY <1>1, <1>2, Zenon
<1>4. stores => /\ base \in Instance
                /\ base.source = mine.source
                /\ base.passed => n \in DOMAIN instances /\ base = instances[n]
  <2>1. CASE mine.draft # NoInstance
    BY <1>1, <2>1, Zenon DEF Session, SessionOK, AdvanceOK
  <2>2. CASE stores /\ mine.draft = NoInstance
    BY <1>1, <2>2, Zenon DEF SessionOK, AdvanceOK, Resumed, StoreInv, StoreTypeOK
  <2> QED
    BY <2>1, <2>2, Zenon
<1>5. n \in DOMAIN instances => base = instances[n]
  BY <1>1, Zenon DEF SessionOK
<1>6. Outcome(q) = CASE mine.result = "passed" ->
                          [base EXCEPT !.status = "running", !.passed = TRUE]
                     [] mine.result = "retried" -> [base EXCEPT !.status = "running"]
                     [] OTHER -> base
  BY Zenon DEF Outcome
<1> HIDE DEF base
<1>7. stores => /\ Outcome(q).source = base.source
                /\ Outcome(q).passed => base.passed \/ mine.result = "passed"
  BY <1>4, <1>6, Zenon DEF Instance
<1>8. /\ DOMAIN instances' \subseteq DOMAIN instances \cup {n}
      /\ stores => n \in DOMAIN instances' /\ instances'[n] = Outcome(q)
      /\ \A k \in DOMAIN instances : k # n => instances'[k] = instances[k]
      /\ ~stores => instances' = instances
  BY <1>2, Zenon DEF Put
<1>9. \A k \in DOMAIN instances : instances'[k].source = instances[k].source
  BY <1>5, <1>7, <1>8, Zenon
<1>10. AdvanceOK(session[q], effects)'
  <2>1. /\ Idle.step = "idle" /\ Idle.result = "none"
        /\ Idle.draft = NoInstance /\ ~NoInstance.passed
    BY Zenon DEF Idle, NoInstance
  <2>2. ~Resumed(Idle)
    BY <2>1, Zenon DEF Resumed
  <2> QED
    BY <1>3, <2>1, <2>2, Zenon DEF AdvanceOK, Resumed
<1>11. ASSUME NEW r \in Request \ {q} PROVE AdvanceOK(session[r], effects)'
  BY <1>3, <1>9, OtherAdvances, Zenon DEF AdvanceInv
<1>12. ASSUME NEW k \in DOMAIN instances', instances'[k].passed,
              instances'[k].source \in WithService
       PROVE  k \in effects
  <2>1. CASE stores /\ k = n
    <3>1. base.source \in WithService
      BY <1>7, <1>8, <1>12, <2>1, Zenon
    <3>2. CASE mine.result = "passed"
      BY <1>1, <1>4, <2>1, <3>1, <3>2, Zenon DEF AdvanceOK
    <3>3. CASE base.passed
      BY <1>4, <2>1, <3>1, <3>3, Zenon DEF AdvanceInv, AdvanceMeansEffect
    <3> QED
      BY <1>7, <1>8, <1>12, <2>1, <3>2, <3>3, Zenon
  <2>2. CASE ~(stores /\ k = n)
    <3>1. k \in DOMAIN instances /\ instances'[k] = instances[k]
      BY <1>2, <1>8, <2>2, Zenon DEF Put
    <3> QED
      BY <1>12, <3>1, Zenon DEF AdvanceInv, AdvanceMeansEffect
  <2> QED
    BY <2>1, <2>2, Zenon
<1>13. AdvanceMeansEffect'
  BY <1>12, Zenon DEF AdvanceMeansEffect
<1> QED
  BY <1>10, <1>11, <1>13, Zenon DEF AdvanceInv

\* The initial states of the host: nobody has got past anything.
LEMMA AdvanceInitially == Init => AdvanceInv
<1> SUFFICES ASSUME Init PROVE AdvanceInv
  BY Zenon
<1>1. instances = <<>> /\ session = [q \in Request |-> Idle]
  BY Zenon DEF Init, StoreInit
<1>2. DOMAIN instances = {}
  BY <1>1
<1>3. AdvanceOK(Idle, effects)
  BY Zenon DEF AdvanceOK, Resumed, Idle, NoInstance
<1> QED
  BY <1>1, <1>2, <1>3, Zenon DEF AdvanceInv, AdvanceMeansEffect

\* A step that leaves the store alone, and takes no effect back.
LEMMA IdleAdvance ==
    ASSUME StoreInv, AdvanceInv, UNCHANGED storeVars, effects \subseteq effects'
    PROVE  AdvanceInv'
<1>1. ASSUME NEW q \in Request PROVE AdvanceOK(session[q], effects)'
  BY Zenon DEF AdvanceInv, AdvanceOK, Resumed, storeVars
<1>2. AdvanceMeansEffect'
  BY Zenon DEF AdvanceInv, AdvanceMeansEffect, storeVars
<1> QED
  BY <1>1, <1>2, Zenon DEF AdvanceInv

\* Every step of the host keeps it that an instance gets past a service task
\* only with the effect of its command.
LEMMA AdvanceKeeps ==
    ASSUME StoreInv, AdvanceInv, [Next]_vars
    PROVE  AdvanceInv'
<1>1. CASE UNCHANGED vars
  BY <1>1, IdleAdvance, Zenon DEF vars, serviceVars
<1>2. CASE EditSecret
  BY <1>2, IdleAdvance, Zenon DEF EditSecret, SetSecret
<1>3. ASSUME NEW q \in Request, Ask(q) PROVE AdvanceInv'
  <2>1. UNCHANGED effects
    BY <1>3, Zenon DEF Ask, Deploy, DeployFromCatalog, StartProcess, RetryProcess, serviceVars
  <2>2. CASE Deploy(q)
    <3>1. PICK u \in Upload : Look(q, u.source, u.model, u.dmn, u.file)
      BY <2>2, Zenon DEF Deploy
    <3>2. /\ u.source \in Source /\ u.model \in Model
          /\ u.dmn \in Decision \cup {NoDecision}
          /\ u.file \in BpmnFile \cup {"none"}
      BY HostAssumption, Zenon
    <3> QED
      BY <2>1, <3>1, <3>2, EarlyAdvance, Zenon
  <2>3. CASE DeployFromCatalog(q)
    BY <2>1, <2>3, EarlyAdvance, Zenon DEF DeployFromCatalog
  <2>4. CASE StartProcess(q)
    BY <2>1, <2>4, EarlyAdvance, ResumeAdvance, Zenon DEF StartProcess
  <2>5. CASE RetryProcess(q)
    BY <2>1, <2>5, ResumeAdvance, Zenon DEF RetryProcess
  <2> QED
    BY <1>3, <2>2, <2>3, <2>4, <2>5, Zenon DEF Ask
<1>4. ASSUME NEW q \in Request, Proceed(q) PROVE AdvanceInv'
  <2>1. CASE Store(q)
    BY <2>1, EarlyAdvance, Zenon DEF Store, serviceVars
  <2>2. CASE SkipPublish(q) \/ Publish(q) \/ Published(q)
    <3>1. PICK b \in {"end", "files"} : \E a : Pass(q, a, b)
      BY <2>2, Zenon DEF SkipPublish, Publish, Published
    <3>2. UNCHANGED effects
      BY <2>2, Zenon DEF SkipPublish, Publish, Published, serviceVars
    <3> QED
      BY <3>1, <3>2, PassAdvance, Zenon
  <2>3. CASE PublishFile(q) \/ BuildWorkflow(q) \/ LoadCalled(q) \/ PrepareCall(q)
    <3>1. UNCHANGED storeVars /\ UNCHANGED effects
      BY <2>3, Zenon DEF PublishFile, BuildWorkflow, LoadCalled, PrepareCall, serviceVars,
                  CommandsArrive, ResolveSecrets
    <3> QED
      BY <3>1, IdleAdvance, Zenon
  <2>4. CASE PrepareInstance(q)
    BY <2>4, PrepareAdvance, Zenon DEF PrepareInstance, serviceVars
  <2>5. CASE WorkflowBuilt(q)
    <3>1. UNCHANGED effects /\ (Pass(q, "load", "seed") \/ BuildRaises(q))
      BY <2>5, Zenon DEF WorkflowBuilt, serviceVars
    <3> QED
      BY <3>1, PassAdvance, WorkAdvance, Zenon
  <2>6. CASE SeedDefinitions(q)
    BY <2>6, WorkAdvance, Zenon DEF SeedDefinitions, serviceVars
  <2>7. CASE RunToEnd(q)
    <3>1. UNCHANGED effects /\ Pass(q, "run", "finish") /\ session[q].source \notin WithService
      BY <2>7, Zenon DEF RunToEnd, serviceVars
    <3> QED
      BY <3>1, PassAdvance, Zenon
  <2>8. CASE RunToService(q) \/ CallFails(q)
    <3>1. UNCHANGED effects /\ \E a : \E b \in {"call", "failed"} : Pass(q, a, b)
      BY <2>8, Zenon DEF RunToService, CallFails, BeginCall, CommandsFail, SecretsFail
    <3> QED
      BY <3>1, PassAdvance, Zenon
  <2>9. CASE CallReturns(q)
    <3>1. PICK a \in Answers :
              /\ Pass(q, "call", IF Accepted(a) THEN "finish" ELSE "failed")
              /\ Post(q, a)
      BY <2>9, Zenon DEF CallReturns
    <3>2. effects \subseteq effects' /\ (Accepted(a) => session[q].instance \in effects')
      BY <3>1, Zenon DEF Post, Accepted
    <3>3. PICK b : /\ Pass(q, "call", b)
                   /\ b = "finish" => session[q].instance \in effects'
      BY <3>1, <3>2, Zenon
    <3> QED
      BY <3>2, <3>3, PassAdvance, Zenon
  <2>10. CASE StoreWorkflow(q)
    BY <2>10, WorkAdvance, FailAdvance, Zenon DEF StoreWorkflow, serviceVars
  <2>11. CASE CommitRequest(q)
    BY <2>11, CommitAdvance, Zenon DEF CommitRequest, serviceVars
  <2>12. CASE RollBack(q) \/ PublishRaises(q) \/ FirstStartsCollide(q)
    BY <2>12, EarlyAdvance, Zenon DEF RollBack, PublishRaises, FirstStartsCollide,
                                     serviceVars
  <2> QED
    BY <1>4, <2>1, <2>2, <2>3, <2>4, <2>5, <2>6, <2>7, <2>8, <2>9, <2>10, <2>11,
       <2>12, Zenon DEF Proceed
<1>5. ASSUME NEW q \in Request, GoWrong(q) PROVE AdvanceInv'
  <2>1. CASE ScheduleFails(q)
    BY <2>1, EarlyAdvance, Zenon DEF ScheduleFails, serviceVars
  <2>2. CASE PublishFails(q)
    <3>1. UNCHANGED effects /\ Pass(q, "files", "end")
      BY <2>2, Zenon DEF PublishFails, serviceVars
    <3> QED
      BY <3>1, PassAdvance, Zenon
  <2>3. CASE Crash(q)
    <3>1. effects \subseteq effects' /\ Abandon(q)
      BY <2>3, Zenon DEF Crash, Post
    <3> QED
      BY <3>1, EarlyAdvance, Zenon
  <2> QED
    BY <1>5, <2>1, <2>2, <2>3, Zenon DEF GoWrong
<1> QED
  BY <1>1, <1>2, <1>3, <1>4, <1>5, Zenon DEF Next

\* AdvanceMeansEffect, for any number of requests and instances: errors, lost
\* answers, crashes, rollbacks and retries in any order.
THEOREM AdvanceHasEffect == Spec => []AdvanceMeansEffect
<1>1. AdvanceInv => AdvanceMeansEffect
  BY Zenon DEF AdvanceInv
<1> QED
  BY <1>1, HostStoreInitially, StoreKeeps, AdvanceInitially, AdvanceKeeps, PTL DEF Spec
=============================================================================
