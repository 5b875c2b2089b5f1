---------------------------- MODULE ServiceCalls ----------------------------
(***************************************************************************)
(* The call of a service task: the registry is built from the catalog of   *)
(* the connector proxy, references to secrets are resolved with those of   *)
(* the tenant, and the proxy is asked to run the command.  The proxy may   *)
(* have run it whatever becomes of its answer.                             *)
(***************************************************************************)
EXTENDS ModelCatalog

CONSTANTS
    Tenant,
    Own,         \* the tenant of the requests
    Value,       \* values of a secret
    Missing,
    Placeholder  \* what seeding gives a secret that nobody has configured

ASSUME ServiceAssumption == Own \in Tenant

VARIABLES
    secrets,  \* the committed secret of each tenant
    call,     \* the call of each request, with what its tenant's secret has
              \* been since it began
    effects   \* instances for which the proxy has run the command

serviceVars == <<secrets, call, effects>>

NoCall == [step |-> "none", value |-> Missing, window |-> {}]

ServiceInit ==
    /\ secrets = [t \in Tenant |-> IF t = Own THEN Placeholder
                                   ELSE CHOOSE v \in Value : TRUE]
    /\ call = [q \in Request |-> NoCall]
    /\ effects = {}

\* call_service: resolve_service_task_registry asks the proxy for its commands.
BeginCall(q) ==
    /\ call[q] = NoCall
    /\ call' = [call EXCEPT ![q] = [step |-> "commands", value |-> Missing,
                                    window |-> {secrets[Own]}]]
    /\ UNCHANGED <<secrets, effects>>

CommandsArrive(q) ==
    /\ call[q].step = "commands"
    /\ call' = [call EXCEPT ![q].step = "secrets"]
    /\ UNCHANGED <<secrets, effects>>

\* The proxy does not answer, its catalog is not one, it does not have the
\* connector or the command, or no registry is configured.
CommandsFail(q) ==
    /\ call[q].step = "commands"
    /\ call' = [call EXCEPT ![q] = NoCall]
    /\ UNCHANGED <<secrets, effects>>

\* Mutant: the rows are not filtered by tenant.
SecretsOfAll == {secrets[t] : t \in Tenant}

\* _load_tenant_secret_map, in a session of its own.
TenantSecrets == {secrets[Own]}

Usable(v) == v \notin {Missing, Placeholder}

ResolveSecrets(q) ==
    /\ call[q].step = "secrets"
    /\ \E v \in TenantSecrets :
          /\ Usable(v)
          /\ call' = [call EXCEPT ![q].step = "post", ![q].value = v]
    /\ UNCHANGED <<secrets, effects>>

\* The secret is missing or nobody has configured it.
SecretsFail(q) ==
    /\ call[q].step = "secrets"
    /\ \E v \in TenantSecrets : ~Usable(v)
    /\ call' = [call EXCEPT ![q] = NoCall]
    /\ UNCHANGED <<secrets, effects>>

\* A result; a body that is empty, no object, or whose "error" is no object; an
\* error object; an HTTP error; no answer within the timeout.
Answers == {"result", "other body", "error object", "http error", "lost"}

\* Mutant: an error object is taken for a result.
AcceptedBody(a) == a \in {"result", "other body", "error object"}

\* _connector_proxy_json_request returns: only an "error" that is an object is
\* taken for one.
Accepted(a) == a \in {"result", "other body"}

\* The proxy reports a command that it could not run by an error object or an
\* HTTP error; then, and when the answer is lost, it may have run it or not.
Post(q, a) ==
    /\ call[q].step = "post"
    /\ \/ effects' = effects \cup {session[q].instance}
       \/ a \notin {"result", "other body"} /\ UNCHANGED effects
    /\ call' = [call EXCEPT ![q] = NoCall]
    /\ UNCHANGED secrets

\* The secrets page, or an administrator of another tenant.
SetSecret(t, v) ==
    /\ secrets[t] # v
    /\ secrets' = [secrets EXCEPT ![t] = v]
    /\ call' = [q \in Request |->
                   IF t = Own /\ call[q] # NoCall
                   THEN [call[q] EXCEPT !.window = @ \cup {v}] ELSE call[q]]
    /\ UNCHANGED effects

-----------------------------------------------------------------------------
\* The proxy gets a value that the tenant's own secret has had since this call
\* began, and one that somebody has configured: not another tenant's, nor the
\* one an earlier attempt failed with.
SecretsAreFresh ==
    \A q \in Request :
        call[q].step = "post" => /\ Usable(call[q].value)
                                 /\ call[q].value \in call[q].window
=============================================================================
