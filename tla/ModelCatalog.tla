---------------------------- MODULE ModelCatalog ----------------------------
(***************************************************************************)
(* The process model catalog of a local m8flow backend, a directory for    *)
(* each process model that the sample application shares with it.  A       *)
(* deployment publishes file after file; anything may stop it in between,  *)
(* and nothing keeps two of them apart.  Deploying from the catalog reads  *)
(* the files back.                                                         *)
(***************************************************************************)
EXTENDS DefinitionStore, Functions

CONSTANTS
    DmnOf,     \* the DMN file with the stem of a BPMN file
    AsRead,    \* what read_text makes of a source: CRLF and CR become LF
    NoFile,
    Torn,      \* what a write that failed leaves of a file
    Garbled    \* the same, cut inside a character

VARIABLES
    directory, \* directory[m]: the contents of the files of process model m
    publishing,\* what each request has still to write, and for what
    published  \* what was last published into each directory undisturbed

catalogVars == <<directory, publishing, published>>

DmnFile == {DmnOf[f] : f \in BpmnFile}
Files == {"process_model.json"} \cup BpmnFile \cup DmnFile

\* The metadata, the BPMN files and the DMN files have different names, no file
\* that was written looks like one that is not there or cannot be decoded, and
\* what was read once has no other line ends to convert.
ASSUME CatalogAssumption ==
    /\ BpmnFile \cap DmnFile = {}
    /\ "process_model.json" \notin BpmnFile \cup DmnFile
    /\ "none" \notin BpmnFile
    /\ (BpmnFile \cup {NoFile, Garbled}) \cap (Source \cup Decision) = {}
    /\ NoFile # Garbled
    /\ DOMAIN AsRead = Source \cup Decision
    /\ \A s \in Source : AsRead[s] \in Source
    /\ \A d \in Decision : AsRead[d] \in Decision
    /\ \A s \in Source \cup Decision : AsRead[AsRead[s]] = AsRead[s]

Nothing == [model |-> "none", file |-> "none", source |-> "none",
            dmn |-> NoDecision]
NotPublishing == [goal |-> Nothing, todo |-> <<>>, alone |-> TRUE]

CatalogInit ==
    /\ directory = [m \in Model |-> [f \in Files |-> NoFile]]
    /\ publishing = [q \in Request |-> NotPublishing]
    /\ published = [m \in Model |-> Nothing]

\* The files to write, in order.  process_model.json names the BPMN file;
\* process_group.json is the same for all.
Plan(goal) ==
    <<<<"process_model.json", goal.file>>, <<goal.file, goal.source>>>>
    \o (IF goal.dmn = NoDecision THEN <<>>
        ELSE <<<<DmnOf[goal.file], goal.dmn>>>>)

\* What read_text returns of the contents of a file.
ReadText(contents) ==
    IF contents \in Source \cup Decision THEN AsRead[contents] ELSE contents

\* Mutant: the supplemental files are not compared.
MatchesPrimary(goal) ==
    \A w \in {Plan(goal)[1], Plan(goal)[2]} :
        ReadText(directory[goal.model][w[1]]) = w[2]

\* _existing_backend_catalog_deployment_matches: what is read is compared with
\* what would be written, so a source with CRLF never matches.
Matches(goal) ==
    \A w \in Range(Plan(goal)) : ReadText(directory[goal.model][w[1]]) = w[2]

\* The comparison meets a file that was cut inside a character: read_text raises
\* a UnicodeDecodeError.  It reads no file after one that differs, and none
\* unless all are there.
Undecodable(goal) ==
    LET plan == Plan(goal) IN
    /\ \A w \in Range(plan) : directory[goal.model][w[1]] # NoFile
    /\ \E i \in 2 .. Len(plan) :
          /\ directory[goal.model][plan[i][1]] = Garbled
          /\ \A j \in 1 .. i - 1 :
                ReadText(directory[goal.model][plan[j][1]]) = plan[j][2]

Goal(q) ==
    [model |-> session[q].want.model, file |-> session[q].file,
     source |-> session[q].source, dmn |-> session[q].want.dmn]

\* publish_process_model_to_m8flow_backend begins, or finds nothing to do.
BeginPublish(q) ==
    LET goal == Goal(q) IN
    /\ publishing[q] = NotPublishing
    /\ IF Matches(goal)
       THEN /\ published' = [published EXCEPT ![goal.model] =
                   IF \A r \in Request : publishing[r].goal.model # goal.model
                   THEN goal ELSE Nothing]
            /\ UNCHANGED publishing
       ELSE /\ publishing' = [publishing EXCEPT ![q] =
                   [goal |-> goal, todo |-> Plan(goal),
                    alone |-> \A r \in Request :
                                 publishing[r].goal.model # goal.model]]
            /\ UNCHANGED published
    /\ UNCHANGED directory

\* Others that publish into the same directory are no longer alone.
Disturb(q) ==
    [r \in Request |->
        IF r # q /\ publishing[r].goal.model = publishing[q].goal.model
        THEN [publishing[r] EXCEPT !.alone = FALSE]
        ELSE publishing[r]]

WriteFile(q) ==
    LET mine == publishing[q]
        m == mine.goal.model
        w == Head(mine.todo) IN
    /\ mine.todo # <<>>
    /\ directory' = [directory EXCEPT ![m][w[1]] = w[2]]
    /\ publishing' = [Disturb(q) EXCEPT ![q].todo = Tail(@)]
    /\ published' = [published EXCEPT ![m] = Nothing]

EndPublish(q) ==
    LET mine == publishing[q] IN
    /\ mine # NotPublishing
    /\ mine.todo = <<>>
    /\ published' = [published EXCEPT ![mine.goal.model] =
                        IF mine.alone THEN mine.goal ELSE Nothing]
    /\ publishing' = [publishing EXCEPT ![q] = NotPublishing]
    /\ UNCHANGED directory

\* An OSError, or the end of the process: the file being written is torn or
\* as it was, and the others are not written.  The metadata is ASCII.
WriteStops(q) ==
    LET mine == publishing[q]
        m == mine.goal.model
        f == Head(mine.todo)[1] IN
    /\ mine.todo # <<>>
    /\ \/ directory' = [directory EXCEPT ![m][f] = Torn]
       \/ /\ f # "process_model.json"
          /\ directory' = [directory EXCEPT ![m][f] = Garbled]
       \/ UNCHANGED directory
    /\ publishing' = [Disturb(q) EXCEPT ![q] = NotPublishing]
    /\ published' = [published EXCEPT ![m] = Nothing]

-----------------------------------------------------------------------------
(***************************************************************************)
(* load_process_model_from_m8flow_backend.                                 *)
(***************************************************************************)

DmnFiles(m) == {f \in DmnFile : directory[m][f] # NoFile}

\* The DMN file with the stem of the BPMN file, or else the only one.
DecisionFile(m, f) == IF DmnOf[f] \in DmnFiles(m) THEN {DmnOf[f]} ELSE DmnFiles(m)

\* The metadata parses, names a BPMN file that is there, and leaves no choice
\* of DMN file; both can be decoded.
Readable(m) ==
    LET f == directory[m]["process_model.json"] IN
    /\ f \in BpmnFile
    /\ directory[m][f] \notin {NoFile, Garbled}
    /\ \A c, d \in DecisionFile(m, f) : c = d
    /\ \A d \in DecisionFile(m, f) : directory[m][d] # Garbled

Loaded(m) ==
    LET f == directory[m]["process_model.json"]
        dmn == DecisionFile(m, f) IN
    [source |-> ReadText(directory[m][f]),
     dmn |-> IF dmn = {} THEN NoDecision
             ELSE ReadText(directory[m][CHOOSE d \in dmn : TRUE])]

-----------------------------------------------------------------------------
\* A publication that ran undisturbed to its end, or that found the files as
\* it would write them, can be read back up to its line ends: the source, and
\* the decision table if it has one, whatever failed publications had left in
\* the directory.  Only where it has none can tables that others have left make
\* load_process_model_from_m8flow_backend refuse, as there are several or one
\* cannot be decoded.
CatalogIsWhole ==
    \A m \in Model :
        published[m] # Nothing =>
            /\ \/ Readable(m)
               \/ /\ published[m].dmn = NoDecision
                  /\ \/ \E c, d \in DmnFiles(m) : c # d
                     \/ \E d \in DmnFiles(m) : directory[m][d] = Garbled
            /\ Loaded(m).source = AsRead[published[m].source]
            /\ published[m].dmn # NoDecision =>
                  Loaded(m).dmn = AsRead[published[m].dmn]
=============================================================================
