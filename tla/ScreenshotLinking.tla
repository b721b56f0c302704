-------------------------- MODULE ScreenshotLinking --------------------------
(***************************************************************************)
(* The screenshots of one job and the test cases they are linked to.       *)
(* link_screenshots_to_test_cases runs in two places: in upload_screenshots *)
(* after the rows are marked, and in extract_job after the test cases are  *)
(* inserted.  It reads the unlinked screenshots, then the test cases, and  *)
(* writes one test_case_id after the other.  The runs interleave with each *)
(* other, with the inserts of test cases and with further uploads.         *)
(*                                                                         *)
(* FileUpload gives the requests; this module says what happens between    *)
(* MarkUploaded and CountTotal, and adds the extraction tasks.             *)
(***************************************************************************)
EXTENDS FileUpload

CONSTANTS
    Tasks,     \* extraction tasks of the job
    Case,      \* ids test_cases rows may get
    CasesOf,   \* the rows each task inserts
    Matches,   \* <<f, c>>: the title of c matches the folder of f
    Sequence,  \* test_cases.sequence
    NoCase,    \* NULL
    MaxLinkFaults \* bound on the failures of linking and extraction

Linker == Uploads \cup Tasks

ASSUME Screenshots == ~Html
ASSUME TasksApart == Tasks \cap Request = {}
ASSUME CasesOfType == CasesOf \in [Tasks -> SUBSET Case]
ASSUME MatchesType == Matches \subseteq File \X Case
ASSUME SequenceType == Sequence \in [Case -> Nat]
ASSUME NoCaseAbsent == NoCase \notin Case
ASSUME MaxLinkFaultsNat == MaxLinkFaults \in Nat

VARIABLES
    cases,     \* test_cases: the rows of the job
    caseOf,    \* screenshots.test_case_id
    step,      \* a linker's position
    toInsert,  \* the test cases a task has still to insert
    unlinked,  \* the screenshots a linker has read
    mapping,   \* the links a linker has still to write
    linkFaults \* failures of linking and extraction so far

links == <<cases, caseOf, step, toInsert, unlinked, mapping, linkFaults>>
linkVars == <<vars, links>>

\* Types; a link leads to a test case that exists and matches.
LinkTypeOK ==
    /\ cases \subseteq Case
    /\ caseOf \in [File -> cases \cup {NoCase}]
    /\ \A f \in File : caseOf[f] # NoCase => <<f, caseOf[f]>> \in Matches
    /\ step \in [Linker -> {"idle", "insert", "readCases", "write", "end"}]
    /\ toInsert \in [Tasks -> SUBSET Case]
    /\ unlinked \in [Linker -> SUBSET Registered]
    /\ mapping \in [Linker -> SUBSET (Matches \cap (File \X cases))]
    /\ linkFaults \in Nat

LinkInit ==
    /\ Init
    /\ cases = {}
    /\ caseOf = [f \in File |-> NoCase]
    /\ step = [l \in Linker |-> "idle"]
    /\ toInsert = [t \in Tasks |-> {}]
    /\ unlinked = [l \in Linker |-> {}]
    /\ mapping = [l \in Linker |-> {}]
    /\ linkFaults = 0

LinkFault == /\ linkFaults < MaxLinkFaults
             /\ linkFaults' = linkFaults + 1

StepTo(l, s) == step' = [step EXCEPT ![l] = s]

-----------------------------------------------------------------------------
(* extract_job *)

\* The files have been read and parsed.
BeginExtraction(t) ==
    /\ step[t] = "idle"
    /\ toInsert' = [toInsert EXCEPT ![t] = CasesOf[t]]
    /\ StepTo(t, "insert")
    /\ UNCHANGED <<vars, cases, caseOf, unlinked, mapping, linkFaults>>

\* One INSERT per test case, in an order that need not be that of sequence
\* (extract_detox groups by a HashMap); a failed one is logged and the task
\* goes on.
InsertCase(t) ==
    /\ step[t] = "insert"
    /\ \E c \in toInsert[t] :
         /\ \/ cases' = cases \cup {c} /\ UNCHANGED linkFaults
            \/ LinkFault /\ UNCHANGED cases
         /\ toInsert' = [toInsert EXCEPT ![t] = @ \ {c}]
    /\ UNCHANGED <<vars, caseOf, step, unlinked, mapping>>

-----------------------------------------------------------------------------
(* link_screenshots_to_test_cases *)

\* An upload that has received and marked something has not counted yet.
AtLinking(r) == pc[r] = "countTotal" /\ got[r] # {}

\* The linker is called: by an upload that has marked its files, by a task
\* that has inserted its test cases.
Called(l) == \/ l \in Uploads /\ AtLinking(l) /\ step[l] = "idle"
             \/ l \in Tasks /\ step[l] = "insert" /\ toInsert[l] = {}

\* It has more to do, unless its upload has been aborted.
Running(l) == /\ step[l] \in {"readCases", "write"}
              /\ l \in Uploads => AtLinking(l)

\* The rows of any status without a link.
UnlinkedRows == {f \in Registered : caseOf[f] = NoCase}

ReadScreenshots(l) ==
    /\ Called(l)
    /\ unlinked' = [unlinked EXCEPT ![l] = UnlinkedRows]
    /\ StepTo(l, IF UnlinkedRows = {} THEN "end" ELSE "readCases")
    /\ UNCHANGED <<vars, cases, caseOf, toInsert, mapping, linkFaults>>

FirstMatchesAny(f) ==
    {c \in cases : \A d \in cases : Sequence[c] <= Sequence[d]}

\* The test cases by sequence; the order of equal ones is the database's.
FirstMatches(f) ==
    {c \in cases : /\ <<f, c>> \in Matches
                   /\ \A d \in cases : <<f, d>> \in Matches =>
                                         Sequence[c] <= Sequence[d]}

Mappable(l) == {f \in unlinked[l] : \E c \in cases : <<f, c>> \in Matches}

ReadCases(l) ==
    /\ Running(l)
    /\ step[l] = "readCases"
    /\ \E m \in [Mappable(l) -> cases] :
         /\ \A f \in Mappable(l) : m[f] \in FirstMatches(f)
         /\ mapping' = [mapping EXCEPT ![l] = {<<f, m[f]>> : f \in Mappable(l)}]
    /\ StepTo(l, IF Mappable(l) = {} THEN "end" ELSE "write")
    /\ UNCHANGED <<vars, cases, caseOf, toInsert, unlinked, linkFaults>>

\* One UPDATE per pair, by the id of the screenshot alone.
LinkOne(l) ==
    /\ Running(l)
    /\ step[l] = "write"
    /\ \E p \in mapping[l] :
         /\ caseOf' = [caseOf EXCEPT ![p[1]] = p[2]]
         /\ mapping' = [mapping EXCEPT ![l] = @ \ {p}]
         /\ StepTo(l, IF mapping[l] = {p} THEN "end" ELSE "write")
    /\ UNCHANGED <<vars, cases, toInsert, unlinked, linkFaults>>

\* A query fails: the error is logged by the caller, which goes on.
LinkFails(l) ==
    /\ Called(l) \/ Running(l)
    /\ LinkFault
    /\ StepTo(l, "end")
    /\ UNCHANGED <<vars, cases, caseOf, toInsert, unlinked, mapping>>

-----------------------------------------------------------------------------
(* Requests *)

\* init_screenshots
InitScreenshots(r) == InitStep(r) /\ UNCHANGED links

LinkedUnawaited(r) == TRUE
Linked(r) == AtLinking(r) => step[r] = "end"

\* upload_screenshots, which goes on when the linking has ended
UploadScreenshots(r) ==
    /\ Linked(r)
    /\ UploadStep(r) \/ CountStep(r)
    /\ UNCHANGED links

AbortRequest(r) == Abort(r) /\ UNCHANGED links

\* A task panics.
AbortTask(t) ==
    /\ step[t] \in {"insert", "readCases", "write"}
    /\ LinkFault
    /\ StepTo(t, "end")
    /\ UNCHANGED <<vars, cases, caseOf, toInsert, unlinked, mapping>>

\* The server restarts: requests and tasks end.
Restart ==
    /\ Crash
    /\ step' = [l \in Linker |-> IF l \in Tasks /\ step[l] # "idle"
                                 THEN "end" ELSE step[l]]
    /\ UNCHANGED <<cases, caseOf, toInsert, unlinked, mapping, linkFaults>>

LinkRest == /\ Rest
            /\ \A t \in Tasks : step[t] \in {"idle", "end"}
            /\ UNCHANGED links

LinkNext ==
    \/ \E r \in Inits : InitScreenshots(r)
    \/ \E r \in Uploads : UploadScreenshots(r)
    \/ \E t \in Tasks : BeginExtraction(t) \/ InsertCase(t) \/ AbortTask(t)
    \/ \E l \in Linker : \/ ReadScreenshots(l)
                         \/ ReadCases(l)
                         \/ LinkOne(l)
                         \/ LinkFails(l)
    \/ \E r \in Request : AbortRequest(r)
    \/ Restart
    \/ LinkRest

LinkSpec == LinkInit /\ [][LinkNext]_linkVars

-----------------------------------------------------------------------------
(* Properties *)

\* When no upload and no extraction is under way and nothing has failed, every
\* uploaded screenshot that some test case of the job matches is linked:
\* whichever of the upload and the extraction comes later sees what the other
\* one wrote, because each writes its own rows before it reads the other's
\* (mark, then link; insert test cases, then link).
LinkingNotLost ==
    /\ \A r \in Uploads : pc[r] \notin Active
    /\ \A t \in Tasks : step[t] \in {"idle", "end"}
    /\ faults = 0 /\ linkFaults = 0
    => \A f \in Uploaded :
         (\E c \in cases : <<f, c>> \in Matches) => caseOf[f] # NoCase
=============================================================================
