---------------------------- MODULE HostRequests ----------------------------
(***************************************************************************)
(* Requests of a host application: they deploy definitions from an upload  *)
(* or from the shared catalog, start instances, retry failed ones, and     *)
(* edit secrets, several at once.  Each request runs in a session of its   *)
(* own, which the host commits or rolls back; a crash ends it anywhere.    *)
(***************************************************************************)
EXTENDS ServiceCalls, CallActivities

CONSTANTS
    Upload,      \* deployments: [source, model, dmn, file]
    WithService, \* the sources that have a service task
    NoRequest,
    Scenarios    \* committed definitions, whether there is a shared catalog,
                 \* and bounds on what is asked and on what goes wrong

ASSUME HostAssumption ==
    /\ Source \subseteq File
    /\ NoRequest \notin Request
    /\ Upload \subseteq [source : Source, model : Model,
                         dmn : Decision \cup {NoDecision}, file : BpmnFile]
    /\ \A s \in Scenarios : s.rows \in Seq(Row)

VARIABLES
    shared,  \* the application has found a local backend
    loader,  \* the request that is building a workflow
    budget

vars == <<storeVars, catalogVars, serviceVars, loadVars, shared, loader, budget>>

Bounds == {"imports", "starts", "retries", "edits", "faults", "crashes"}

Init ==
    /\ \E s \in Scenarios :
          /\ rows = s.rows
          /\ shared = s.shared
          /\ budget = [b \in Bounds |-> s.bounds[b]]
    /\ StoreInit
    /\ CatalogInit
    /\ ServiceInit
    /\ LoadInit
    /\ root = CHOOSE p \in Process : TRUE
    /\ loader = NoRequest

Spend(what) ==
    /\ budget[what] > 0
    /\ budget' = [budget EXCEPT ![what] = @ - 1]

Others == <<shared, loader>>

-----------------------------------------------------------------------------
(***************************************************************************)
(* Deploying.                                                              *)
(***************************************************************************)

\* import-upload, deploy-demo, deploy-timeout
Deploy(q) ==
    /\ \E u \in Upload : Look(q, u.source, u.model, u.dmn, u.file)
    /\ Spend("imports")
    /\ UNCHANGED <<catalogVars, serviceVars, loadVars, Others>>

\* import-catalog: what does not parse is refused before anything is stored.
DeployFromCatalog(q) ==
    /\ shared
    /\ \E m \in Model :
          /\ Readable(m)
          /\ Loaded(m).source \in Source
          /\ Loaded(m).dmn \in Decision \cup {NoDecision}
          /\ Look(q, Loaded(m).source, m, Loaded(m).dmn, "none")
    /\ Spend("imports")
    /\ UNCHANGED <<catalogVars, serviceVars, loadVars, Others>>

Store(q) ==
    /\ Write(q) \/ DuplicateDigest(q)
    /\ UNCHANGED <<catalogVars, serviceVars, loadVars, Others, budget>>

ScheduleFails(q) ==
    /\ publishing[q] = NotPublishing
    /\ ImportRaises(q)
    /\ Spend("faults")
    /\ UNCHANGED <<catalogVars, serviceVars, loadVars, Others>>

\* Without a backend, and for what came from the catalog.
SkipPublish(q) ==
    /\ ~shared \/ session[q].file = "none"
    /\ Pass(q, "publish", "end")
    /\ UNCHANGED <<catalogVars, serviceVars, loadVars, Others, budget>>

Publish(q) ==
    /\ shared
    /\ session[q].file # "none"
    /\ ~Undecodable(Goal(q))
    /\ Pass(q, "publish", IF Matches(Goal(q)) THEN "end" ELSE "files")
    /\ BeginPublish(q)
    /\ UNCHANGED <<serviceVars, loadVars, Others, budget>>

PublishFile(q) ==
    /\ WriteFile(q)
    /\ UNCHANGED <<storeVars, serviceVars, loadVars, Others, budget>>

\* A UnicodeDecodeError is no BpmnCoreError: the request is rolled back.
PublishRaises(q) ==
    /\ shared
    /\ session[q].file # "none"
    /\ At(q, "publish")
    /\ Undecodable(Goal(q))
    /\ Abandon(q)
    /\ UNCHANGED <<catalogVars, serviceVars, loadVars, Others, budget>>

Published(q) ==
    /\ Pass(q, "files", "end")
    /\ EndPublish(q)
    /\ UNCHANGED <<serviceVars, loadVars, Others, budget>>

\* The page warns, and the definition is committed all the same.
PublishFails(q) ==
    /\ Pass(q, "files", "end")
    /\ WriteStops(q)
    /\ Spend("faults")
    /\ UNCHANGED <<serviceVars, loadVars, Others>>

-----------------------------------------------------------------------------
(***************************************************************************)
(* Starting and retrying.                                                  *)
(***************************************************************************)

StartProcess(q) ==
    /\ \/ \E m \in Model : Choose(q, m)
       \/ StartOwn(q) /\ ~shared
       \/ \E n \in DOMAIN instances : Initialize(q, n)
    /\ Spend("starts")
    /\ UNCHANGED <<catalogVars, serviceVars, loadVars, Others>>

RetryProcess(q) ==
    /\ \E n \in DOMAIN instances : Retry(q, n)
    /\ Spend("retries")
    /\ UNCHANGED <<catalogVars, serviceVars, loadVars, Others>>

PrepareInstance(q) ==
    /\ Prepare(q)
    /\ UNCHANGED <<catalogVars, serviceVars, loadVars, Others, budget>>

\* Building a workflow touches nothing that requests share, so one is built
\* at a time.
BuildWorkflow(q) ==
    /\ At(q, "load")
    /\ loader = NoRequest
    /\ \E p \in Process : BeginLoad(session[q].source, p)
    /\ loader' = q
    /\ UNCHANGED <<storeVars, catalogVars, serviceVars, shared, budget>>

LoadCalled(q) ==
    /\ loader = q
    /\ LoadStep
    /\ UNCHANGED <<storeVars, catalogVars, serviceVars, Others, budget>>

\* A call that cannot be resolved raises, and leaves the instance not started.
WorkflowBuilt(q) ==
    /\ loader = q
    /\ \/ verdict = "loaded" /\ Pass(q, "load", "seed")
       \/ verdict = "refused" /\ BuildRaises(q)
    /\ loader' = NoRequest
    /\ UNCHANGED <<catalogVars, serviceVars, loadVars, shared, budget>>

SeedDefinitions(q) ==
    /\ SeedRow(q)
    /\ UNCHANGED <<catalogVars, serviceVars, loadVars, Others, budget>>

FirstStartsCollide(q) ==
    /\ TasksCollide(q)
    /\ UNCHANGED <<catalogVars, serviceVars, loadVars, Others, budget>>

\* run_all
RunToEnd(q) ==
    /\ session[q].source \notin WithService
    /\ Pass(q, "run", "finish")
    /\ UNCHANGED <<catalogVars, serviceVars, loadVars, Others, budget>>

RunToService(q) ==
    /\ session[q].source \in WithService
    /\ Pass(q, "run", "call")
    /\ BeginCall(q)
    /\ UNCHANGED <<catalogVars, loadVars, Others, budget>>

PrepareCall(q) ==
    /\ CommandsArrive(q) \/ ResolveSecrets(q)
    /\ UNCHANGED <<storeVars, catalogVars, loadVars, Others, budget>>

CallFails(q) ==
    /\ Pass(q, "call", "failed")
    /\ \/ CommandsFail(q) /\ Spend("faults")
       \/ SecretsFail(q) /\ UNCHANGED budget
    /\ UNCHANGED <<catalogVars, loadVars, Others>>

CallReturns(q) ==
    /\ \E a \in Answers :
          /\ Pass(q, "call", IF Accepted(a) THEN "finish" ELSE "failed")
          /\ Post(q, a)
          /\ IF a \in {"result", "other body"} THEN UNCHANGED budget ELSE Spend("faults")
    /\ UNCHANGED <<catalogVars, loadVars, Others>>

StoreWorkflow(q) ==
    /\ ReadDefinition(q) \/ Finish(q) \/ RecordFailure(q)
    /\ UNCHANGED <<catalogVars, serviceVars, loadVars, Others, budget>>

-----------------------------------------------------------------------------
CommitRequest(q) ==
    /\ Commit(q)
    /\ UNCHANGED <<catalogVars, serviceVars, loadVars, Others, budget>>

RollBack(q) ==
    /\ At(q, "end")
    /\ session[q].raised
    /\ Abandon(q)
    /\ UNCHANGED <<catalogVars, serviceVars, loadVars, Others, budget>>

\* In the middle of a call, a command that was posted may have been run.
Crash(q) ==
    /\ loader # q
    /\ Abandon(q)
    /\ Spend("crashes")
    /\ \/ WriteStops(q)
       \/ publishing[q].todo = <<>> /\ UNCHANGED <<directory, published>>
          /\ publishing' = [publishing EXCEPT ![q] = NotPublishing]
    /\ \/ Post(q, "lost")
       \/ call' = [call EXCEPT ![q] = NoCall] /\ UNCHANGED <<secrets, effects>>
    /\ UNCHANGED <<loadVars, Others>>

EditSecret ==
    /\ \E t \in Tenant, v \in Value \cup {Missing} : SetSecret(t, v)
    /\ Spend("edits")
    /\ UNCHANGED <<storeVars, catalogVars, loadVars, Others>>

-----------------------------------------------------------------------------
Ask(q) == Deploy(q) \/ DeployFromCatalog(q) \/ StartProcess(q) \/ RetryProcess(q)

Proceed(q) ==
    \/ Store(q) \/ SkipPublish(q) \/ Publish(q) \/ PublishRaises(q)
    \/ PublishFile(q) \/ Published(q)
    \/ PrepareInstance(q) \/ BuildWorkflow(q) \/ LoadCalled(q)
    \/ WorkflowBuilt(q) \/ SeedDefinitions(q) \/ FirstStartsCollide(q)
    \/ RunToEnd(q) \/ RunToService(q) \/ PrepareCall(q) \/ CallFails(q)
    \/ CallReturns(q) \/ StoreWorkflow(q)
    \/ CommitRequest(q) \/ RollBack(q)

GoWrong(q) == ScheduleFails(q) \/ PublishFails(q) \/ Crash(q)

Next == EditSecret \/ \E q \in Request : Ask(q) \/ Proceed(q) \/ GoWrong(q)

\* A request runs on: the database grants a lock when it is free, and the proxy
\* answers or times out.
Spec == Init /\ [][Next]_vars /\ \A q \in Request : WF_vars(Proceed(q))

-----------------------------------------------------------------------------
\* An instance gets past a service task only when the proxy has run its
\* command: errors, lost answers and retries in any order lead to a second
\* run, never to none.
AdvanceMeansEffect ==
    \A n \in DOMAIN instances :
        instances[n].passed /\ instances[n].source \in WithService => n \in effects

\* Every request ends, whatever it waits for, save those behind a request that
\* starts what it has just moved to another process model, and that waits for
\* its own snapshot.
RequestEnds ==
    \A q \in Request :
        ~At(q, "idle") ~> At(q, "idle") \/ \E r \in Request : WaitsForItself(r)
=============================================================================
