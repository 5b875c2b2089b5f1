--------------------------- MODULE MCHostRequests ---------------------------
(***************************************************************************)
(* Two requests at once.  In each scenario the bounds on what is asked and *)
(* on what goes wrong leave out what another scenario is about.            *)
(***************************************************************************)
EXTENDS HostRequests, TLC

\* "windows" is "plain" with CRLF.
MCSource == {"plain", "windows", "service", "caller"}
MCAsRead == [s \in MCSource \cup {"table"} |-> IF s = "windows" THEN "plain" ELSE s]
MCDmnOf == ("demo.bpmn" :> "demo.dmn") @@ ("second.bpmn" :> "second.dmn")
           @@ ("other.bpmn" :> "other.dmn")

\* "main" calls "sub", which calls "leaf" and "main" again; "sub" and "leaf"
\* are in one file; a call in "broken" names nothing.
MCCalls ==
    ("plain" :> ("one" :> <<>>)) @@
    ("windows" :> ("one" :> <<>>)) @@
    ("service" :> ("one" :> <<>>)) @@
    ("caller" :> ("main" :> <<"sub", "other">>)) @@
    ("subs" :> (("sub" :> <<"leaf", "main">>) @@ ("leaf" :> <<"far">>))) @@
    ("others" :> ("other" :> <<>>)) @@
    ("fars" :> ("far" :> <<>>)) @@
    ("broken" :> ("other" :> <<"none">>))

\* Two built-in workflows with a decision table, and two uploads without.
MCUpload ==
    {[source |-> "plain", model |-> "a", dmn |-> "table", file |-> "demo.bpmn"],
     [source |-> "service", model |-> "a", dmn |-> "table", file |-> "second.bpmn"],
     [source |-> "windows", model |-> "a", dmn |-> "no table", file |-> "other.bpmn"],
     [source |-> "plain", model |-> "b", dmn |-> "no table", file |-> "other.bpmn"]}

Deployed(s) ==
    [source |-> s, form |-> [model |-> "a", dmn |-> "no table", spec |-> FALSE],
     tasks |-> FALSE]

Bound(i, s, r, e, f, c) ==
    [imports |-> i, starts |-> s, retries |-> r, edits |-> e, faults |-> f,
     crashes |-> c]

MCScenarios ==
    {\* redeploying while an instance is started
     [rows |-> (1 :> Deployed("plain")), shared |-> FALSE,
      bounds |-> Bound(2, 1, 0, 0, 1, 1)],
     [rows |-> <<>>, shared |-> FALSE, bounds |-> Bound(3, 1, 0, 0, 0, 0)],
     \* publishing into the catalog and deploying from it
     [rows |-> <<>>, shared |-> TRUE, bounds |-> Bound(3, 0, 0, 0, 0, 0)],
     [rows |-> <<>>, shared |-> TRUE, bounds |-> Bound(2, 0, 0, 0, 1, 1)],
     \* called processes
     [rows |-> (1 :> Deployed("caller")), shared |-> FALSE,
      bounds |-> Bound(0, 2, 0, 0, 0, 0)],
     \* service tasks that fail and are retried
     [rows |-> (1 :> Deployed("service")), shared |-> FALSE,
      bounds |-> Bound(0, 1, 2, 2, 1, 1)],
     [rows |-> (1 :> Deployed("service")), shared |-> FALSE,
      bounds |-> Bound(0, 2, 1, 1, 1, 0)]}
=============================================================================
