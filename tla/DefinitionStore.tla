-------------------------- MODULE DefinitionStore --------------------------
(***************************************************************************)
(* Process definitions, their version snapshots and the instances started  *)
(* from them, as concurrent requests of one tenant see them in PostgreSQL  *)
(* at READ COMMITTED.  A definition is found by the digest of its source,  *)
(* so importing a source again updates its row in place.  Everything the   *)
(* row says of the source is one JSON column: the process model it belongs *)
(* to, the decision table, and what the engine adds when it first runs.    *)
(***************************************************************************)
EXTENDS Integers, Sequences

CONSTANTS
    Request,    \* concurrent requests, each with its own session
    Source,     \* BPMN sources, told apart by their digests
    Model,      \* process model identifiers
    Decision,   \* DMN sources
    NoDecision,
    BpmnFile    \* names under which a deployment publishes its source

ASSUME StoreAssumption == "none" \notin Model

VARIABLES
    rows,         \* committed definitions by id
    nextId,
    snapshots,    \* committed <<process model, source>>
    instances,    \* committed process instances by id
    nextInstance,
    session       \* what each request has read and will commit

storeVars == <<rows, nextId, snapshots, instances, nextInstance, session>>

Form == [model : Model, dmn : Decision \cup {NoDecision}, spec : BOOLEAN]

\* A definition, and whether it has the task definitions of its first start.
Row == [source : Source, form : Form, tasks : BOOLEAN]

Instance == [definition : Nat, source : Source \cup {"none"},
             model : Model \cup {"none"},
             status : {"none", "not_started", "running", "error"},
             passed : BOOLEAN]

NoForm == [model |-> "none", dmn |-> NoDecision, spec |-> FALSE]
NoInstance == [definition |-> 0, source |-> "none", model |-> "none",
               status |-> "none", passed |-> FALSE]

Idle == [step |-> "idle", source |-> "none", file |-> "none",
         id |-> 0, seen |-> NoForm, want |-> NoForm, tasks |-> FALSE,
         locked |-> FALSE,
         instance |-> 0, touched |-> FALSE, draft |-> NoInstance,
         result |-> "none", raised |-> FALSE]

StoreInit ==
    /\ nextId = Len(rows) + 1
    /\ snapshots = {<<rows[i].form.model, rows[i].source>> : i \in DOMAIN rows}
    /\ instances = <<>>
    /\ nextInstance = 1
    /\ session = [q \in Request |-> Idle]

\* A table with a row inserted or updated.
Put(table, key, row) ==
    [k \in DOMAIN table \cup {key} |-> IF k = key THEN row ELSE table[k]]

At(q, step) == session[q].step = step

Set(q, new) == session' = [session EXCEPT ![q] = new]

Move(q, step) == Set(q, [session[q] EXCEPT !.step = step])

Raise(q) == Set(q, [session[q] EXCEPT !.step = "end", !.raised = TRUE])

\* What a request does between the steps below: it publishes the definition,
\* builds the workflow, runs it, and calls services.
Moves ==
    {<<"publish", "end">>, <<"publish", "files">>, <<"files", "end">>,
     <<"load", "seed">>, <<"run", "finish">>, <<"run", "call">>,
     <<"call", "finish">>, <<"call", "failed">>}

Pass(q, a, b) ==
    /\ <<a, b>> \in Moves
    /\ At(q, a)
    /\ Move(q, b)
    /\ UNCHANGED <<rows, nextId, snapshots, instances, nextInstance>>

\* No other transaction has inserted or updated the definition of the source.
RowIsFree(q) ==
    \A r \in Request \ {q} :
        ~(session[r].locked /\ session[r].source = session[q].source)

\* No other transaction has flushed the instance.
InstanceIsFree(q) ==
    \A r \in Request \ {q} :
        ~(session[r].touched /\ session[r].instance = session[q].instance)

-----------------------------------------------------------------------------
(***************************************************************************)
(* import_bpmn_process_definition.                                         *)
(***************************************************************************)

\* Mutant: the definition is found by its process model.
FoundByModel(s, m) == {i \in DOMAIN rows : rows[i].form.model = m}

\* SELECT by tenant and digest.
Found(s, m) == {i \in DOMAIN rows : rows[i].source = s}

\* The application gives properties with every import, so the new column
\* keeps nothing of the old one: no decision table unless one is given.
Look(q, s, m, d, f) ==
    /\ At(q, "idle")
    /\ LET found == Found(s, m)
           id == IF found = {} THEN 0 ELSE CHOOSE i \in found : TRUE IN
       Set(q, [Idle EXCEPT !.step = "import", !.source = s, !.id = id,
                           !.file = f,
                           !.seen = IF id = 0 THEN NoForm ELSE rows[id].form,
                           !.tasks = IF id = 0 THEN FALSE ELSE rows[id].tasks,
                           !.want = [model |-> m, dmn |-> d, spec |-> FALSE]])
    /\ UNCHANGED <<rows, nextId, snapshots, instances, nextInstance>>

\* The flush inserts the row or updates the column if it differs from what
\* was read, and waits for a transaction that has done so.  A deployment from
\* a file updates a timestamp in any case, one from the catalog perhaps the
\* name.  The snapshot is looked up and, if missing, inserted behind that lock.
Write(q) ==
    LET mine == session[q]
        changes == mine.id = 0 \/ mine.want # mine.seen \/ mine.file # "none" IN
    /\ At(q, "import")
    /\ mine.id = 0 => Found(mine.source, mine.want.model) = {}
    /\ \E updates \in {changes, TRUE} :
          /\ updates => RowIsFree(q)
          /\ Set(q, [mine EXCEPT !.step = "publish", !.locked = updates,
                                 !.id = IF @ = 0 THEN nextId ELSE @])
    /\ nextId' = IF mine.id = 0 THEN nextId + 1 ELSE nextId
    /\ UNCHANGED <<rows, snapshots, instances, nextInstance>>

\* Another import of the source was committed after the SELECT: the unique
\* constraint raises, and the session is rolled back.
DuplicateDigest(q) ==
    /\ At(q, "import")
    /\ session[q].id = 0
    /\ RowIsFree(q)
    /\ Found(session[q].source, session[q].want.model) # {}
    /\ Set(q, Idle)
    /\ UNCHANGED <<rows, nextId, snapshots, instances, nextInstance>>

\* The timer starts of the source cannot be scheduled: the import raises after
\* its flush, and nothing is published.
ImportRaises(q) ==
    /\ At(q, "publish")
    /\ Raise(q)
    /\ UNCHANGED <<rows, nextId, snapshots, instances, nextInstance>>

-----------------------------------------------------------------------------
(***************************************************************************)
(* Starting an instance.                                                   *)
(***************************************************************************)

\* latest_process_definition_ids: the highest id of the process model.
IsLatest(i, m) ==
    /\ rows[i].form.model = m
    /\ \A j \in DOMAIN rows : rows[j].form.model = m => j <= i

\* The page lists the definitions in the session that will start one.
Choose(q, m) ==
    /\ At(q, "idle")
    /\ \E i \in DOMAIN rows :
          /\ IsLatest(i, m)
          /\ Set(q, [Idle EXCEPT !.step = "shell", !.id = i,
                                 !.source = rows[i].source,
                                 !.seen = rows[i].form, !.want = rows[i].form,
                                 !.tasks = rows[i].tasks])
    /\ UNCHANGED <<rows, nextId, snapshots, instances, nextInstance>>

\* A host imports and starts in one session.
StartOwn(q) ==
    /\ At(q, "publish")
    /\ Move(q, "shell")
    /\ UNCHANGED <<rows, nextId, snapshots, instances, nextInstance>>

Shell(q) ==
    [definition |-> session[q].id, source |-> session[q].source,
     model |-> session[q].want.model, status |-> "not_started",
     passed |-> FALSE]

\* The independent session would insert a snapshot that this very request has
\* inserted, for an import that moved the definition to another process model.
WaitsForItself(q) ==
    LET mine == session[q] IN
    /\ At(q, "shell")
    /\ mine.id \in DOMAIN rows
    /\ <<mine.want.model, mine.source>> \notin snapshots

\* _prepare_process_instance_from_definition: an independent session reads the
\* definition again and commits the instance.  It does not find a definition
\* that the request itself has yet to commit; then the instance is part of the
\* request's own transaction.
Prepare(q) ==
    LET mine == session[q]
        commits == mine.id \in DOMAIN rows IN
    /\ At(q, "shell")
    /\ ~WaitsForItself(q)
    /\ instances' = IF commits THEN Put(instances, nextInstance, Shell(q))
                    ELSE instances
    /\ nextInstance' = nextInstance + 1
    /\ Set(q, [mine EXCEPT !.step = "load", !.instance = nextInstance,
                           !.draft = IF commits THEN NoInstance ELSE Shell(q)])
    /\ UNCHANGED <<rows, nextId, snapshots>>

\* initialize_process_instance_workflow of an instance without a workflow.
Initialize(q, n) ==
    /\ At(q, "idle")
    /\ n \in DOMAIN instances
    /\ instances[n].status = "not_started"
    /\ LET i == instances[n].definition IN
       Set(q, [Idle EXCEPT !.step = "load", !.instance = n, !.id = i,
                           !.source = rows[i].source, !.seen = rows[i].form,
                           !.want = rows[i].form, !.tasks = rows[i].tasks])
    /\ UNCHANGED <<rows, nextId, snapshots, instances, nextInstance>>

\* The workflow cannot be built.
BuildRaises(q) ==
    /\ At(q, "load")
    /\ Raise(q)
    /\ UNCHANGED <<rows, nextId, snapshots, instances, nextInstance>>

\* _seed_runtime_definitions merges the engine's specification into the column
\* as the session read it.  The row is updated, and locked, in any case.
SeedRow(q) ==
    /\ At(q, "seed")
    /\ RowIsFree(q)
    /\ Set(q, [session[q] EXCEPT !.step = "run", !.want.spec = TRUE,
                                 !.locked = TRUE])
    /\ UNCHANGED <<rows, nextId, snapshots, instances, nextInstance>>

\* The task definitions are looked up and, if missing, inserted before the
\* flush that takes the lock.  If another request has committed them since this
\* one read the definition, the lookup may have come before: then the unique
\* constraint raises, and the session is rolled back.
TasksCollide(q) ==
    LET mine == session[q] IN
    /\ At(q, "seed") \/ At(q, "finish")
    /\ ~mine.locked
    /\ ~mine.tasks
    /\ mine.id \in DOMAIN rows
    /\ rows[mine.id].tasks
    /\ RowIsFree(q)
    /\ Set(q, Idle)
    /\ UNCHANGED <<rows, nextId, snapshots, instances, nextInstance>>

\* retry_process_instance restores the stored workflow.
Retry(q, n) ==
    /\ At(q, "idle")
    /\ n \in DOMAIN instances
    /\ instances[n].status = "error"
    /\ Set(q, [Idle EXCEPT !.step = "run", !.instance = n,
                           !.source = instances[n].source])
    /\ UNCHANGED <<rows, nextId, snapshots, instances, nextInstance>>

-----------------------------------------------------------------------------
(***************************************************************************)
(* The end of a request.                                                   *)
(***************************************************************************)

\* A retry reads the definition only when it stores the workflow.
ReadDefinition(q) ==
    LET mine == session[q]
        i == instances[mine.instance].definition IN
    /\ At(q, "finish")
    /\ mine.want = NoForm
    /\ Set(q, [mine EXCEPT !.id = i, !.seen = rows[i].form,
                           !.want = [rows[i].form EXCEPT !.spec = TRUE],
                           !.tasks = rows[i].tasks])
    /\ UNCHANGED <<rows, nextId, snapshots, instances, nextInstance>>

\* The workflow is stored: the instance is flushed, and the definition once
\* more, with the column as the session read it.
Finish(q) ==
    /\ At(q, "finish")
    /\ session[q].want # NoForm
    /\ InstanceIsFree(q)
    /\ RowIsFree(q)
    /\ Set(q, [session[q] EXCEPT !.step = "end", !.result = "passed",
                                 !.touched = TRUE, !.locked = TRUE])
    /\ UNCHANGED <<rows, nextId, snapshots, instances, nextInstance>>

\* _persist_service_task_failure_state_in_independent_session; or, for an
\* instance that only this session has, the error in the session itself.  Then
\* the command raises.  A retry leaves the session's copy of the instance
\* running.
Fail(q) ==
    LET mine == session[q] IN
    /\ At(q, "failed")
    /\ InstanceIsFree(q)
    /\ IF mine.instance \in DOMAIN instances
       THEN /\ instances' = [instances EXCEPT ![mine.instance].status = "error"]
            /\ Set(q, [mine EXCEPT !.step = "end", !.raised = TRUE,
                          !.result = IF mine.want = NoForm THEN "retried" ELSE @])
       ELSE /\ Set(q, [mine EXCEPT !.step = "end", !.raised = TRUE,
                                   !.draft.status = "error"])
            /\ UNCHANGED instances
    /\ UNCHANGED <<rows, nextId, snapshots, nextInstance>>

\* Mutant: the independent session stores the whole workflow state, the
\* definition included, and waits for the request that it belongs to.
RecordFailureWhole(q) ==
    /\ session[q].instance \in DOMAIN instances => ~session[q].locked
    /\ Fail(q)

\* _persist_workflow_recovery_state leaves the definition alone.
RecordFailure(q) == Fail(q)

\* The instance as the session commits it.
Outcome(q) ==
    LET mine == session[q]
        base == IF mine.draft # NoInstance THEN mine.draft
                ELSE instances[mine.instance] IN
    CASE mine.result = "passed" ->
            [base EXCEPT !.status = "running", !.passed = TRUE]
      [] mine.result = "retried" -> [base EXCEPT !.status = "running"]
      [] OTHER -> base

\* session_scope commits a request that returns, also one that has caught a
\* BpmnCoreError to show it on the page.
Commit(q) ==
    LET mine == session[q]
        stores == mine.result # "none" \/ mine.draft # NoInstance
        had == mine.id \in DOMAIN rows /\ rows[mine.id].tasks IN
    /\ At(q, "end")
    /\ stores => InstanceIsFree(q)
    /\ rows' = IF mine.locked /\ mine.want # mine.seen
               THEN Put(rows, mine.id, [source |-> mine.source, form |-> mine.want,
                                        tasks |-> had \/ mine.want.spec])
               ELSE rows
    /\ snapshots' = IF mine.want = NoForm THEN snapshots
                    ELSE snapshots \cup {<<mine.want.model, mine.source>>}
    /\ instances' = IF stores THEN Put(instances, mine.instance, Outcome(q))
                    ELSE instances
    /\ Set(q, Idle)
    /\ UNCHANGED <<nextId, nextInstance>>

\* Anything else that escapes is rolled back, and so is a crash.
Abandon(q) ==
    /\ ~At(q, "idle")
    /\ Set(q, Idle)
    /\ UNCHANGED <<rows, nextId, snapshots, instances, nextInstance>>

StoreStep(q) ==
    \/ \E s \in Source, m \in Model, d \in Decision \cup {NoDecision},
          f \in BpmnFile \cup {"none"} : Look(q, s, m, d, f)
    \/ Write(q) \/ DuplicateDigest(q) \/ ImportRaises(q)
    \/ \E m \in Model : Choose(q, m)
    \/ StartOwn(q) \/ Prepare(q)
    \/ \E n \in DOMAIN instances : Initialize(q, n) \/ Retry(q, n)
    \/ BuildRaises(q) \/ SeedRow(q) \/ TasksCollide(q)
    \/ \E move \in Moves : Pass(q, move[1], move[2])
    \/ ReadDefinition(q) \/ Finish(q) \/ RecordFailure(q) \/ Commit(q) \/ Abandon(q)

-----------------------------------------------------------------------------
\* Every definition has a snapshot of its source under its process model, and
\* an instance keeps the version it was started with: the definition it points
\* to still has that source, whatever was deployed since, and its snapshot is
\* there.
VersionsAreKept ==
    /\ \A i \in DOMAIN rows : <<rows[i].form.model, rows[i].source>> \in snapshots
    /\ \A n \in DOMAIN instances :
          LET mine == instances[n] IN
          /\ mine.definition \in DOMAIN rows
          /\ rows[mine.definition].source = mine.source
          /\ <<mine.model, mine.source>> \in snapshots
=============================================================================
