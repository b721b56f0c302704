---------------------- MODULE ScreenshotLinking_proofs ----------------------
(***************************************************************************)
(* Proofs about ScreenshotLinking: of an upload and an extraction the      *)
(* later one links.                                                        *)
(***************************************************************************)
EXTENDS ScreenshotLinking, FileUpload_proofs

\* Every step of LinkNext is a step of FileUpload or leaves its state alone.
LEMMA StepRefines ==
    ASSUME [LinkNext]_linkVars
    PROVE  [Next]_vars
<1>1. ASSUME NEW r \in Inits, InitScreenshots(r) PROVE Next
  BY <1>1 DEF InitScreenshots, Next
<1>2. ASSUME NEW r \in Uploads, UploadScreenshots(r) PROVE Next
  BY <1>2 DEF UploadScreenshots, Next
<1>3. ASSUME NEW t \in Tasks, BeginExtraction(t) \/ InsertCase(t) \/ AbortTask(t)
      PROVE  UNCHANGED vars
  BY <1>3 DEF BeginExtraction, InsertCase, AbortTask
<1>4. ASSUME NEW l \in Linker,
             ReadScreenshots(l) \/ ReadCases(l) \/ LinkOne(l) \/ LinkFails(l)
      PROVE  UNCHANGED vars
  BY <1>4 DEF ReadScreenshots, ReadCases, LinkOne, LinkFails
<1>5. ASSUME NEW r \in Request, AbortRequest(r) PROVE Next
  BY <1>5 DEF AbortRequest, Next
<1>6. CASE Restart \/ LinkRest
  BY <1>6 DEF Restart, LinkRest, Next
<1>7. CASE UNCHANGED linkVars
  BY <1>7 DEF linkVars
<1> QED BY <1>1, <1>2, <1>3, <1>4, <1>5, <1>6, <1>7 DEF LinkNext

\* Screenshots are uploaded by the protocol of FileUpload, whatever linking and
\* extraction do meanwhile: its theorems hold of them.
LEMMA LinkingKeepsUpload == LinkSpec => Spec
<1>1. LinkInit => Init
  BY DEF LinkInit
<1>2. [LinkNext]_linkVars => [Next]_vars
  BY StepRefines
<1> QED BY <1>1, <1>2, PTL DEF LinkSpec, Spec

-----------------------------------------------------------------------------
(* Types *)

\* A linker is an upload or a task, never both.
LEMMA LinkersApart ==
    \A t \in Tasks, u \in Uploads : t # u /\ t \in Linker /\ u \in Linker /\ u \in Request
BY TasksApart DEF Request, Linker

\* Rows are never deleted.
LEMMA RegisteredGrows ==
    ASSUME TypeOK, [Next]_vars
    PROVE  Registered \subseteq Registered'
<1>1. CASE ~ \E r \in Inits : InitStep(r)
  BY <1>1, OtherSteps DEF Registered
<1>2. ASSUME NEW r \in Inits, InitStep(r) PROVE Registered \subseteq Registered'
  BY <1>2 DEF InitStep, BeginInit, InsertFile, SetStarted, tables, Registered,
              TypeOK
<1> QED BY <1>1, <1>2

\* Every step keeps the types and the links right.
LEMMA LinkTypeStep ==
    ASSUME TypeOK, LinkTypeOK, [LinkNext]_linkVars
    PROVE  LinkTypeOK'
<1> USE DEF LinkTypeOK, StepTo
<1>0. Registered \subseteq Registered'
  BY StepRefines, RegisteredGrows
<1>1. CASE UNCHANGED links
  BY <1>0, <1>1 DEF links
<1>2. ASSUME NEW t \in Tasks, BeginExtraction(t) PROVE LinkTypeOK'
  BY <1>0, <1>2, CasesOfType DEF BeginExtraction, Linker
<1>3. ASSUME NEW t \in Tasks, InsertCase(t) PROVE LinkTypeOK'
  <2>1. cases \subseteq cases' /\ cases' \subseteq Case
    BY <1>3 DEF InsertCase
  <2>2. toInsert' \in [Tasks -> SUBSET Case] /\ linkFaults' \in Nat
    BY <1>3 DEF InsertCase, LinkFault
  <2>3. UNCHANGED <<caseOf, step, unlinked, mapping>>
    BY <1>3 DEF InsertCase
  <2>4. caseOf' \in [File -> cases' \cup {NoCase}]
    BY <2>1, <2>3
  <2>5. mapping' \in [Linker -> SUBSET (Matches \cap (File \X cases'))]
    BY <2>1, <2>3
  <2>6. unlinked' \in [Linker -> SUBSET Registered']
    BY <1>0, <2>3
  <2> QED BY <2>1, <2>2, <2>3, <2>4, <2>5, <2>6
<1>4. ASSUME NEW l \in Linker, ReadScreenshots(l) PROVE LinkTypeOK'
  BY <1>0, <1>4 DEF ReadScreenshots, UnlinkedRows
<1>5. ASSUME NEW l \in Linker, ReadCases(l) PROVE LinkTypeOK'
  <2>1. PICK m \in [Mappable(l) -> cases] :
          /\ \A f \in Mappable(l) : m[f] \in FirstMatches(f)
          /\ mapping' = [mapping EXCEPT ![l] = {<<f, m[f]>> : f \in Mappable(l)}]
    BY <1>5 DEF ReadCases
  <2>2. Mappable(l) \subseteq File
    BY DEF Mappable, Registered
  <2>3. {<<f, m[f]>> : f \in Mappable(l)} \subseteq Matches \cap (File \X cases)
    BY <2>1, <2>2 DEF FirstMatches
  <2>4. UNCHANGED <<vars, cases, caseOf, toInsert, unlinked, linkFaults>>
    BY <1>5 DEF ReadCases
  <2>5. step' \in [Linker -> {"idle", "insert", "readCases", "write", "end"}]
    BY <1>5 DEF ReadCases
  <2> QED BY <1>0, <2>1, <2>3, <2>4, <2>5
<1>6. ASSUME NEW l \in Linker, LinkOne(l) PROVE LinkTypeOK'
  <2>1. PICK p \in mapping[l] :
          /\ caseOf' = [caseOf EXCEPT ![p[1]] = p[2]]
          /\ mapping' = [mapping EXCEPT ![l] = @ \ {p}]
          /\ StepTo(l, IF mapping[l] = {p} THEN "end" ELSE "write")
    BY <1>6 DEF LinkOne
  <2>2. p \in Matches /\ p[1] \in File /\ p[2] \in cases /\ p = <<p[1], p[2]>>
    <3>1. mapping[l] \in SUBSET (Matches \cap (File \X cases))
      OBVIOUS
    <3> QED BY <3>1
  <2>3. UNCHANGED <<vars, cases, toInsert, unlinked, linkFaults>>
    BY <1>6 DEF LinkOne
  <2>4. \A f \in File : caseOf'[f] = IF f = p[1] THEN p[2] ELSE caseOf[f]
    BY <2>1, <2>2
  <2> QED BY <1>0, <2>1, <2>2, <2>3, <2>4
<1>7. ASSUME NEW l \in Linker, LinkFails(l) PROVE LinkTypeOK'
  BY <1>0, <1>7 DEF LinkFails, LinkFault
<1>8. ASSUME NEW t \in Tasks, AbortTask(t) PROVE LinkTypeOK'
  BY <1>0, <1>8 DEF AbortTask, LinkFault, Linker
<1>9. CASE Restart
  BY <1>0, <1>9 DEF Restart
<1>10. \/ UNCHANGED links
       \/ Restart
       \/ \E t \in Tasks : BeginExtraction(t) \/ InsertCase(t) \/ AbortTask(t)
       \/ \E l \in Linker : \/ ReadScreenshots(l) \/ ReadCases(l)
                            \/ LinkOne(l) \/ LinkFails(l)
  BY DEF LinkNext, linkVars, InitScreenshots, UploadScreenshots,
         AbortRequest, LinkRest
<1> QED BY <1>1, <1>2, <1>3, <1>4, <1>5, <1>6, <1>7, <1>8, <1>9, <1>10

\* The types of the upload protocol hold here too.
LEMMA UploadTypes == LinkSpec => []TypeOK
BY LinkingKeepsUpload, TypeCorrect, PTL

\* A link always leads to a row of test_cases whose title matches.
THEOREM LinksAlwaysMatch == LinkSpec => []LinkTypeOK
<1>1. LinkInit => LinkTypeOK
  BY DEF LinkInit, LinkTypeOK
<1>2. TypeOK /\ LinkTypeOK /\ [LinkNext]_linkVars => LinkTypeOK'
  BY LinkTypeStep
<1> QED BY <1>1, <1>2, UploadTypes, PTL DEF LinkSpec

-----------------------------------------------------------------------------
(* The later of upload and extraction links *)

\* The linker l is going to link f: it has not read the screenshots yet, or has
\* read f unlinked and not yet the test cases, or has a link for f to write.
WillLink(l, f) ==
    \/ l \in Tasks /\ step[l] = "insert"
    \/ l \in Uploads /\ AtLinking(l) /\ step[l] = "idle"
    \/ /\ l \in Uploads => AtLinking(l)
       /\ step[l] = "readCases"
       /\ f \in unlinked[l]
    \/ /\ l \in Uploads => AtLinking(l)
       /\ step[l] = "write"
       /\ \E c \in Case : <<f, c>> \in mapping[l]

\* Uploaded, matched and not linked.
Due(f) == f \in Uploaded /\ caseOf[f] = NoCase /\ \E c \in cases : <<f, c>> \in Matches

NoFailure == faults = 0 /\ linkFaults = 0

\* Every screenshot that is due has somebody who will link it, and an upload
\* that has not marked its files has not linked either.
LinkInv ==
    /\ \A r \in Uploads : pc[r] \in {"idle", "receive"} => step[r] = "idle"
    /\ NoFailure => \A f \in File : Due(f) => \E l \in Linker : WillLink(l, f)

\* Steps that write no link and take no linker from its work.
LEMMA NobodyLeaves ==
    ASSUME LinkInv, NoFailure' => NoFailure,
           UNCHANGED <<cases, caseOf>>,
           Uploaded' \subseteq Uploaded,
           \A l \in Linker, f \in File : WillLink(l, f) => WillLink(l, f)',
           \A r \in Uploads : pc'[r] \in {"idle", "receive"} => step'[r] = "idle"
    PROVE  LinkInv'
BY DEF LinkInv, Due

\* The steps of requests.  Only MarkUploaded makes a screenshot due, and it
\* leaves its upload before the linking.
LEMMA RequestKeepsLinkInv ==
    ASSUME TypeOK, LinkTypeOK, LinkInv,
           \/ \E r \in Inits : InitScreenshots(r)
           \/ \E r \in Uploads : UploadScreenshots(r)
           \/ \E r \in Request : AbortRequest(r)
           \/ Restart
           \/ LinkRest
    PROVE  LinkInv'
<1> USE DEF TypeOK, Goto
<1>1. ASSUME NEW r \in Inits, InitScreenshots(r) PROVE LinkInv'
  <2>1. r \in Request /\ \A u \in Uploads : u # r /\ u \in Request
    BY RequestKinds DEF Request
  <2>2. /\ UNCHANGED links /\ UNCHANGED faults
        /\ Uploaded' \subseteq Uploaded
        /\ \A u \in Uploads : pc'[u] = pc[u]
        /\ got' = got
    BY <1>1, <2>1 DEF InitScreenshots, InitStep, BeginInit, InsertFile,
                      SetStarted, tables, Uploaded
  <2> QED BY <2>2, NobodyLeaves DEF links, LinkInv, WillLink, AtLinking, NoFailure
<1>2. ASSUME NEW r \in Uploads, MarkUploaded(r), UNCHANGED links PROVE LinkInv'
  <2> r \in Request /\ r \in Linker BY DEF Request, Linker
  <2>1. /\ pc[r] = "receive" /\ step[r] = "idle" /\ UNCHANGED <<faults, links>>
        /\ pc' = [pc EXCEPT ![r] = "countTotal"] /\ got' = got
    BY <1>2 DEF MarkUploaded, LinkInv
  <2>2. \A l \in Linker, f \in File : WillLink(l, f) => WillLink(l, f)'
    <3>1. ASSUME NEW l \in Linker, l # r PROVE l \in Uploads => (AtLinking(l) <=> AtLinking(l)')
      BY <2>1, <3>1 DEF Request, AtLinking
    <3>2. ASSUME NEW f \in File PROVE ~WillLink(r, f)
      BY <2>1, LinkersApart DEF WillLink, AtLinking
    <3> QED BY <2>1, <3>1, <3>2 DEF WillLink, links
  <2>3. \A f \in File : f \in Uploaded' => f \in Uploaded \/ f \in got[r]
    BY <1>2 DEF MarkUploaded, Uploaded
  <2>4. \A f \in got[r] : WillLink(r, f)'
    BY <2>1 DEF WillLink, AtLinking, links
  <2>5. \A u \in Uploads : pc'[u] \in {"idle", "receive"} => step'[u] = "idle"
    BY <2>1 DEF LinkInv, links, Request
  <2>6. (NoFailure <=> NoFailure') /\ \A f \in File : f \in Uploaded => (Due(f)' => Due(f))
    BY <2>1 DEF NoFailure, Due, links
  <2> QED BY <2>2, <2>3, <2>4, <2>5, <2>6 DEF LinkInv, Due
<1>3. ASSUME NEW r \in Uploads, UploadScreenshots(r), ~MarkUploaded(r)
      PROVE  LinkInv'
  <2>1. r \in Request /\ \A u \in Uploads : u \in Request
    BY DEF Request
  <2>2. /\ UNCHANGED links /\ UNCHANGED faults /\ Uploaded' = Uploaded
        /\ \A u \in Uploads : u # r => pc'[u] = pc[u] /\ got'[u] = got[u]
        /\ ~AtLinking(r) \/ step[r] = "end"
        /\ pc'[r] \in {"idle", "receive"} => pc[r] \in {"idle", "receive"}
    BY <1>3, <2>1 DEF UploadScreenshots, Linked, UploadStep, CountStep, BeginUpload,
                      ReceiveFile, CountTotal, CountPending, CheckAll, SetPath,
                      SetCompleted, tables, Uploaded
  <2>3. \A l \in Linker, f \in File : WillLink(l, f) => WillLink(l, f)'
    <3>1. ASSUME NEW l \in Linker, l # r PROVE l \in Uploads => (AtLinking(l) <=> AtLinking(l)')
      BY <2>2, <3>1 DEF AtLinking
    <3>2. \A f \in File : ~WillLink(r, f)
      BY <2>2, LinkersApart DEF WillLink
    <3> QED BY <2>2, <3>1, <3>2 DEF WillLink, links
  <2>4. \A u \in Uploads : pc'[u] \in {"idle", "receive"} => step'[u] = "idle"
    BY <2>2 DEF LinkInv, links
  <2> QED BY <2>2, <2>3, <2>4, NobodyLeaves DEF links, NoFailure
<1>4. CASE Restart \/ \E r \in Request : AbortRequest(r)
  <2>1. ~NoFailure'
    BY <1>4 DEF Restart, Crash, AbortRequest, Abort, Fault, NoFailure
  <2>2. \A u \in Uploads : /\ pc'[u] \in {pc[u], "error"}
                          /\ step'[u] = step[u]
    <3>1. \A u \in Uploads : u \in Request /\ u \in Linker /\ u \notin Tasks
      BY LinkersApart, TasksApart DEF Request, Linker
    <3>2. CASE Restart
      BY <3>1, <3>2 DEF Restart, Crash
    <3>3. ASSUME NEW r \in Request, AbortRequest(r)
          PROVE  \A u \in Uploads : /\ pc'[u] \in {pc[u], "error"}
                                   /\ step'[u] = step[u]
      BY <3>1, <3>3 DEF AbortRequest, Abort, links
    <3> QED BY <1>4, <3>2, <3>3
  <2> QED BY <2>1, <2>2 DEF LinkInv
<1>5. CASE LinkRest
  <2>1. UNCHANGED <<vars, links>>
    BY <1>5 DEF LinkRest, Rest
  <2> QED BY <2>1 DEF LinkInv, NoFailure, Due, WillLink, AtLinking, vars, tables, links, Uploaded
<1> QED BY <1>1, <1>2, <1>3, <1>4, <1>5 DEF UploadScreenshots, UploadStep

\* The steps of tasks and linkers.  A linker hands a due screenshot from one
\* position to the next until it writes the link.
LEMMA LinkerKeepsLinkInv ==
    ASSUME TypeOK, LinkTypeOK, LinkInv,
           \/ \E t \in Tasks : BeginExtraction(t) \/ InsertCase(t) \/ AbortTask(t)
           \/ \E l \in Linker : \/ ReadScreenshots(l)
                                \/ ReadCases(l)
                                \/ LinkOne(l)
                                \/ LinkFails(l)
    PROVE  LinkInv'
<1> USE DEF LinkTypeOK, StepTo
<1>1. ASSUME NEW t \in Tasks, BeginExtraction(t) PROVE LinkInv'
  <2>1. t \in Linker /\ \A u \in Uploads : u # t /\ u \in Linker
    BY LinkersApart DEF Linker
  <2>2. UNCHANGED <<vars, cases, caseOf, unlinked, mapping, linkFaults>>
    BY <1>1 DEF BeginExtraction
  <2>3. step[t] = "idle" /\ step' = [step EXCEPT ![t] = "insert"]
    BY <1>1 DEF BeginExtraction
  <2>4. \A l \in Linker, f \in File : WillLink(l, f) => WillLink(l, f)'
    BY <2>1, <2>2, <2>3 DEF WillLink, AtLinking, vars
  <2>5. \A u \in Uploads : pc'[u] \in {"idle", "receive"} => step'[u] = "idle"
    BY <2>1, <2>2, <2>3 DEF LinkInv, vars
  <2> QED BY <2>2, <2>4, <2>5, NobodyLeaves DEF vars, tables, NoFailure, Uploaded
<1>2. ASSUME NEW t \in Tasks, InsertCase(t) PROVE LinkInv'
  <2>1. t \in Linker
    BY DEF Linker
  <2>2. UNCHANGED <<vars, step>> /\ step[t] = "insert"
    BY <1>2 DEF InsertCase
  <2>3. \A f \in File : WillLink(t, f)'
    BY <2>2 DEF WillLink, AtLinking, vars
  <2> QED BY <2>1, <2>2, <2>3 DEF LinkInv, vars
<1>3. ASSUME NEW l \in Linker, LinkFails(l) \/ \E t \in Tasks : l = t /\ AbortTask(t)
      PROVE  LinkInv'
  <2>1. ~NoFailure'
    BY <1>3 DEF LinkFails, AbortTask, LinkFault, NoFailure
  <2>2. UNCHANGED vars /\ step' = [step EXCEPT ![l] = "end"]
    BY <1>3 DEF LinkFails, AbortTask
  <2>3. l \in Uploads => AtLinking(l)
    BY <1>3, LinkersApart, TasksApart DEF LinkFails, AbortTask, Called, Running, AtLinking, Request
  <2> QED BY <2>1, <2>2, <2>3, LinkersApart DEF LinkInv, vars, Linker, AtLinking
<1>4. ASSUME NEW l \in Linker, ReadScreenshots(l) PROVE LinkInv'
  <2>1. /\ UNCHANGED <<vars, cases, caseOf, mapping, linkFaults>>
        /\ unlinked' = [unlinked EXCEPT ![l] = UnlinkedRows]
        /\ step' = [step EXCEPT ![l] = IF UnlinkedRows = {} THEN "end" ELSE "readCases"]
        /\ l \in Uploads => AtLinking(l)
    BY <1>4, LinkersApart DEF ReadScreenshots, Called
  <2>2. ASSUME NEW k \in Linker, NEW f \in File, k # l, WillLink(k, f)
        PROVE  WillLink(k, f)'
    BY <2>1, <2>2 DEF WillLink, AtLinking, vars
  <2>3. ASSUME NEW f \in File, Due(f) PROVE WillLink(l, f)'
    <3>1. f \in UnlinkedRows
      BY <2>3 DEF Due, Uploaded, Registered, UnlinkedRows
    <3> QED BY <2>1, <3>1 DEF WillLink, AtLinking, vars
  <2>4. \A u \in Uploads : pc'[u] \in {"idle", "receive"} => step'[u] = "idle"
    BY <2>1 DEF LinkInv, vars, Linker, AtLinking
  <2>5. \A f \in File : Due(f)' => Due(f)
    BY <2>1 DEF Due, vars, tables, Uploaded
  <2> QED BY <2>3, <2>4, <2>5 DEF LinkInv
<1>5. ASSUME NEW l \in Linker, ReadCases(l) PROVE LinkInv'
  <2>1. PICK m \in [Mappable(l) -> cases] :
          mapping' = [mapping EXCEPT ![l] = {<<f, m[f]>> : f \in Mappable(l)}]
    BY <1>5 DEF ReadCases
  <2>2. /\ UNCHANGED <<vars, cases, caseOf, unlinked, linkFaults>>
        /\ step[l] = "readCases"
        /\ step' = [step EXCEPT ![l] = IF Mappable(l) = {} THEN "end" ELSE "write"]
        /\ l \in Uploads => AtLinking(l)
    BY <1>5 DEF ReadCases, Running
  <2>3. ASSUME NEW k \in Linker, NEW f \in File, k # l, WillLink(k, f)
        PROVE  WillLink(k, f)'
    BY <2>1, <2>2, <2>3 DEF WillLink, AtLinking, vars
  <2>4. ASSUME NEW f \in File, Due(f), WillLink(l, f) PROVE WillLink(l, f)'
    <3>1. f \in Mappable(l)
      BY <2>2, <2>4 DEF WillLink, Mappable, Due
    <3>2. m[f] \in Case /\ <<f, m[f]>> \in mapping'[l]
      BY <2>1, <3>1
    <3>3. step'[l] = "write" /\ (l \in Uploads => AtLinking(l)')
      BY <2>2, <3>1 DEF AtLinking, vars
    <3> QED BY <3>2, <3>3 DEF WillLink
  <2>5. \A u \in Uploads : pc'[u] \in {"idle", "receive"} => step'[u] = "idle"
    BY <2>2 DEF LinkInv, vars, Linker
  <2>6. \A f \in File : Due(f)' => Due(f)
    BY <2>2 DEF Due, vars, tables, Uploaded
  <2>7. NoFailure' => NoFailure
    BY <2>2 DEF NoFailure, vars
  <2> QED BY <2>3, <2>4, <2>5, <2>6, <2>7 DEF LinkInv
<1>6. ASSUME NEW l \in Linker, LinkOne(l) PROVE LinkInv'
  <2>1. PICK p \in mapping[l] :
          /\ caseOf' = [caseOf EXCEPT ![p[1]] = p[2]]
          /\ mapping' = [mapping EXCEPT ![l] = @ \ {p}]
          /\ step' = [step EXCEPT ![l] = IF mapping[l] = {p} THEN "end" ELSE "write"]
    BY <1>6 DEF LinkOne
  <2>2. /\ UNCHANGED <<vars, cases, unlinked, linkFaults>>
        /\ step[l] = "write"
        /\ l \in Uploads => AtLinking(l)
    BY <1>6 DEF LinkOne, Running
  <2>3. p[1] \in File /\ p[2] \in cases /\ p[2] # NoCase /\ p = <<p[1], p[2]>>
    <3>1. mapping[l] \in SUBSET (Matches \cap (File \X cases))
      OBVIOUS
    <3> QED BY <3>1, NoCaseAbsent
  <2>4. ASSUME NEW f \in File, Due(f)' PROVE Due(f) /\ f # p[1]
    <3>1. f # p[1]
      BY <2>1, <2>3, <2>4 DEF Due
    <3>2. caseOf[f] = NoCase
      BY <2>1, <2>4, <3>1 DEF Due
    <3> QED BY <2>2, <2>4, <3>1, <3>2 DEF Due, vars, tables, Uploaded
  <2>5. ASSUME NEW k \in Linker, NEW f \in File, k # l, WillLink(k, f)
        PROVE  WillLink(k, f)'
    BY <2>1, <2>2, <2>5 DEF WillLink, AtLinking, vars
  <2>6. ASSUME NEW f \in File, f # p[1], WillLink(l, f) PROVE WillLink(l, f)'
    <3>1. PICK c \in Case : <<f, c>> \in mapping[l]
      BY <2>2, <2>6 DEF WillLink
    <3>2. <<f, c>> # p
      BY <2>3, <2>6
    <3>3. <<f, c>> \in mapping'[l]
      BY <2>1, <3>1, <3>2
    <3>4. step'[l] = "write" /\ (l \in Uploads => AtLinking(l)')
      BY <2>1, <2>2, <3>1, <3>2 DEF AtLinking, vars
    <3> QED BY <3>3, <3>4 DEF WillLink
  <2>7. \A u \in Uploads : pc'[u] \in {"idle", "receive"} => step'[u] = "idle"
    BY <2>1, <2>2 DEF LinkInv, vars, Linker
  <2>8. NoFailure' => NoFailure
    BY <2>2 DEF NoFailure, vars
  <2> QED BY <2>4, <2>5, <2>6, <2>7, <2>8 DEF LinkInv
<1>7. \A t \in Tasks : t \in Linker
  BY DEF Linker
<1> QED BY <1>1, <1>2, <1>3, <1>4, <1>5, <1>6, <1>7

\* With no failure, every uploaded screenshot that has a matching test case is
\* linked once uploads and extractions are through, in whatever order they came.
THEOREM LinkingNeverLost == LinkSpec => []LinkingNotLost
<1>1. LinkInit => LinkInv
  BY DEF LinkInit, Init, LinkInv, Due, Uploaded, Linker
<1>2. TypeOK /\ LinkTypeOK /\ LinkInv /\ [LinkNext]_linkVars => LinkInv'
  <2> SUFFICES ASSUME TypeOK, LinkTypeOK, LinkInv, [LinkNext]_linkVars
               PROVE  LinkInv'
    OBVIOUS
  <2>1. CASE UNCHANGED linkVars
    BY <2>1 DEF linkVars, vars, tables, links, LinkInv, NoFailure, Due, WillLink, AtLinking,
                Uploaded
  <2> QED BY <2>1, RequestKeepsLinkInv, LinkerKeepsLinkInv DEF LinkNext
<1>3. LinkTypeOK /\ LinkInv => LinkingNotLost
  <2> SUFFICES ASSUME LinkTypeOK, LinkInv, NoFailure,
                      \A r \in Uploads : pc[r] \notin Active,
                      \A t \in Tasks : step[t] \in {"idle", "end"},
                      NEW f \in Uploaded, Due(f)
               PROVE  FALSE
    BY DEF LinkingNotLost, NoFailure, Due
  <2>1. PICK l \in Linker : WillLink(l, f)
    BY DEF LinkInv, Uploaded
  <2> QED BY <2>1 DEF WillLink, AtLinking, Active, Linker
<1> QED BY <1>1, <1>2, <1>3, UploadTypes, LinksAlwaysMatch, PTL DEF LinkSpec
=============================================================================
