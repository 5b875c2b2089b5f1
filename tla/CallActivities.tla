-------------------------- MODULE CallActivities ---------------------------
(***************************************************************************)
(* _load_called_process_definitions: the processes a definition calls, and *)
(* those they call, are added to the parser before the workflow is built.  *)
(* The host's resolver names a BPMN file for each process that the parser  *)
(* does not have.  What the parser has read is a function from process ids *)
(* to the called elements of the process, in the order of the file.        *)
(***************************************************************************)
EXTENDS Integers, Sequences

CONSTANTS
    Process,   \* process ids
    NoElement, \* the calledElement of a call activity that names none
    File,      \* BPMN files: the sources of definitions, and the resolver's
    Calls      \* Calls[f]: the processes of the file, with what they call

ASSUME FileAssumption ==
    /\ NoElement \notin Process
    /\ \A f \in File :
          /\ DOMAIN Calls[f] \subseteq Process
          /\ Calls[f] \in [DOMAIN Calls[f] -> Seq(Process \cup {NoElement})]

VARIABLES
    verdict,    \* "none", "loading", "loaded", "refused"
    root,       \* the process that is started
    parser,     \* the processes the parser has, with what they call
    pending,    \* processes to inspect, the next one last
    inspected,
    remaining   \* called elements of the current process, still to be seen

loadVars == <<verdict, root, parser, pending, inspected, remaining>>

Known == DOMAIN parser

Elements(s) == {s[i] : i \in 1 .. Len(s)}

LoadInit ==
    /\ verdict = "none"
    /\ root \in Process
    /\ parser = [p \in {} |-> <<>>]
    /\ pending = <<>>
    /\ inspected = {}
    /\ remaining = <<>>

\* _build_workflow has read the file that holds the root process.
BeginLoad(f, p) ==
    /\ verdict # "loading"
    /\ p \in DOMAIN Calls[f]
    /\ verdict' = "loading"
    /\ root' = p
    /\ parser' = Calls[f]
    /\ pending' = <<p>>
    /\ inspected' = {}
    /\ remaining' = <<>>

\* The next process, which may have been inspected under another call.  The
\* parser has every pending process, so the branch that finds it missing is
\* left out: HostRequestsProofs shows that it is never taken.
Inspect ==
    /\ verdict = "loading"
    /\ remaining = <<>>
    /\ pending # <<>>
    /\ LET p == pending[Len(pending)] IN
          /\ pending' = SubSeq(pending, 1, Len(pending) - 1)
          /\ inspected' = inspected \cup {p}
          /\ remaining' = IF p \in inspected THEN <<>> ELSE parser[p]
    /\ UNCHANGED <<verdict, root, parser>>

\* Mutant: a process the parser already has is not inspected.
FollowSkipping ==
    /\ verdict = "loading"
    /\ remaining # <<>>
    /\ Head(remaining) \in Known
    /\ remaining' = Tail(remaining)
    /\ UNCHANGED <<verdict, root, parser, pending, inspected>>

\* A called process that the parser has, from the file of its caller or from
\* the file of another.
Follow ==
    /\ verdict = "loading"
    /\ remaining # <<>>
    /\ Head(remaining) \in Known
    /\ pending' = Append(pending, Head(remaining))
    /\ remaining' = Tail(remaining)
    /\ UNCHANGED <<verdict, root, parser, inspected>>

\* The resolver returns one file, which has the process and none that the
\* parser has already.
Resolve(f) ==
    /\ verdict = "loading"
    /\ remaining # <<>>
    /\ Head(remaining) \in Process \ Known
    /\ Head(remaining) \in DOMAIN Calls[f]
    /\ DOMAIN Calls[f] \cap Known = {}
    /\ parser' = [p \in Known \cup DOMAIN Calls[f] |->
                     IF p \in Known THEN parser[p] ELSE Calls[f][p]]
    /\ pending' = Append(pending, Head(remaining))
    /\ remaining' = Tail(remaining)
    /\ UNCHANGED <<verdict, root, inspected>>

\* CallActivityResolutionError: the call names no process, or there is no
\* resolver, or it raises, or returns nothing, several definitions, another
\* process, or a file that does not parse beside what the parser has.
RefuseCall ==
    /\ verdict = "loading"
    /\ remaining # <<>>
    /\ Head(remaining) \notin Known
    /\ verdict' = "refused"
    /\ UNCHANGED <<root, parser, pending, inspected, remaining>>

AllLoaded ==
    /\ verdict = "loading"
    /\ remaining = <<>>
    /\ pending = <<>>
    /\ verdict' = "loaded"
    /\ UNCHANGED <<root, parser, pending, inspected, remaining>>

LoadStep ==
    \/ Inspect
    \/ Follow
    \/ \E f \in File : Resolve(f)
    \/ RefuseCall
    \/ AllLoaded

LoadNext == LoadStep \/ \E f \in File, p \in Process : BeginLoad(f, p)

LoadSpec == LoadInit /\ [][LoadNext]_loadVars

-----------------------------------------------------------------------------
\* The processes that the root calls, directly or through others: those that
\* every set has which holds the root and what its members call.
Reachable ==
    {p \in Process \cup {NoElement} :
        \A S \in SUBSET (Process \cup {NoElement}) :
            (/\ root \in S
             /\ \A q \in S \cap Known : Elements(parser[q]) \subseteq S)
            => p \in S}

\* A workflow is only built when the parser has every process that it can
\* come to call: no call activity fails in the middle of a run, when the
\* resolver is no longer there to be asked.
LoadedIsClosed == verdict = "loaded" => Reachable \subseteq Known
=============================================================================
