-------------------------- MODULE FileUpload_proofs --------------------------
(***************************************************************************)
(* Proofs about FileUpload, for HTML files and for screenshots alike.      *)
(***************************************************************************)
EXTENDS FileUpload, FiniteSetTheorems, TLAPS

-----------------------------------------------------------------------------
(* Types *)

\* Counting: a set of files is finite and no larger than File.
LEMMA FileCount ==
    ASSUME NEW S \in SUBSET File
    PROVE  Cardinality(S) \in 0..Cardinality(File)
<1>1. IsFiniteSet(S) /\ Cardinality(S) <= Cardinality(File)
  BY FilesFinite, FS_Subset
<1>2. Cardinality(S) \in Nat /\ Cardinality(File) \in Nat
  BY <1>1, FilesFinite, FS_CardinalityType
<1> QED BY <1>1, <1>2

\* The wrapped difference of two counts is in range.
LEMMA WrapInRange ==
    ASSUME NEW a \in Int
    PROVE  a % Modulus \in 0..(Modulus - 1)
<1>1. Cardinality(File) \in Nat
  BY FilesFinite, FS_CardinalityType
<1>2. Modulus \in Nat /\ Modulus > 0
  BY <1>1, ModulusFits
<1> QED BY <1>2

\* Every step keeps the types.
LEMMA TypeStep ==
    ASSUME TypeOK, [Next]_vars
    PROVE  TypeOK'
<1> USE DEF TypeOK, Active, Goto, tables, counts
<1>1. ASSUME NEW r \in Inits, InitStep(r) PROVE TypeOK'
  <2> r \in Request BY DEF Request
  <2>1. CASE BeginInit(r) BY <2>1 DEF BeginInit
  <2>2. CASE InsertFile(r) BY <2>2 DEF InsertFile
  <2>3. CASE SetStarted(r) BY <2>3 DEF SetStarted
  <2> QED BY <1>1, <2>1, <2>2, <2>3 DEF InitStep
<1>2. ASSUME NEW r \in Uploads, UploadStep(r) PROVE TypeOK'
  <2> r \in Request BY DEF Request
  <2>1. CASE BeginUpload(r)
    BY <2>1 DEF BeginUpload, Pending
  <2>2. CASE ReceiveFile(r) BY <2>2 DEF ReceiveFile
  <2>3. CASE MarkUploaded(r) BY <2>3 DEF MarkUploaded
  <2> QED BY <1>2, <2>1, <2>2, <2>3 DEF UploadStep
<1>3. ASSUME NEW r \in Polls, BeginPoll(r) PROVE TypeOK'
  BY <1>3 DEF BeginPoll, Request
<1>4. ASSUME NEW r \in Uploads \cup Polls, CountStep(r) PROVE TypeOK'
  <2> r \in Request BY DEF Request
  <2>1. CASE CountTotal(r)
    <3>1. Cardinality(Registered) \in 0..Cardinality(File)
      BY FileCount DEF Registered
    <3> QED BY <2>1, <3>1 DEF CountTotal
  <2>2. CASE CountPending(r)
    <3>1. Cardinality(Pending) \in 0..Cardinality(File)
      BY FileCount DEF Pending
    <3>2. total[r] - Cardinality(Pending) \in Int
      BY <3>1, FilesFinite, FS_CardinalityType
    <3>3. (total[r] - Cardinality(Pending)) % Modulus \in 0..(Modulus - 1)
      BY <3>2, WrapInRange
    <3> QED BY <2>2, <3>3 DEF CountPending
  <2>3. CASE CheckAll(r) BY <2>3 DEF CheckAll
  <2>4. CASE SetPath(r) BY <2>4 DEF SetPath
  <2>5. CASE SetCompleted(r) BY <2>5 DEF SetCompleted
  <2> QED BY <1>4, <2>1, <2>2, <2>3, <2>4, <2>5 DEF CountStep
<1>5. ASSUME NEW r \in Request, Abort(r) PROVE TypeOK'
  BY <1>5 DEF Abort, Fault
<1>6. CASE Crash
  BY <1>6 DEF Crash, Fault
<1>7. CASE Rest \/ UNCHANGED vars
  BY <1>7 DEF Rest, vars
<1> QED BY <1>1, <1>2, <1>3, <1>4, <1>5, <1>6, <1>7 DEF Next

\* Every reachable state is well typed; in particular the progress count is a
\* u64 whatever the two queries saw.
THEOREM TypeCorrect == Spec => []TypeOK
<1>1. Init => TypeOK
  <2>1. 0 \in 0..Cardinality(File)
    BY FileCount, FS_EmptySet
  <2>2. 0 \in 0..(Modulus - 1)
    BY ModulusFits, FilesFinite, FS_CardinalityType
  <2> SUFFICES ASSUME Init PROVE TypeOK
    OBVIOUS
  <2>3. total \in [Request -> 0..Cardinality(File)]
    BY <2>1 DEF Init
  <2>4. progress \in [Request -> 0..(Modulus - 1)]
    BY <2>2 DEF Init
  <2>5. pc \in [Request -> Active \cup {"idle", "done", "error"}]
    BY DEF Init
  <2> QED BY <2>3, <2>4, <2>5 DEF Init, TypeOK
<1>2. TypeOK /\ [Next]_vars => TypeOK'
  BY TypeStep
<1> QED BY <1>1, <1>2, PTL DEF Spec

-----------------------------------------------------------------------------
(* Rows follow objects, and the path precedes the status *)

\* What a request has taken from its body is in S3, and it has written the
\* path when it comes to the status.
StoredFirst == /\ UploadedIsStored
               /\ \A r \in Request : got[r] \subseteq stored

PathFirst == /\ CompletedHasPath
             /\ \A r \in Request : Html /\ pc[r] = "setCompleted" => htmlPath

\* The first is inductive: only ReceiveFile extends got, and it puts first;
\* only MarkUploaded marks, and it marks what is in got.
LEMMA StoredFirstStep ==
    ASSUME TypeOK, StoredFirst, [Next]_vars
    PROVE  StoredFirst'
<1> USE DEF TypeOK, StoredFirst, UploadedIsStored, Uploaded
<1>1. ASSUME NEW r \in Request, ReceiveFile(r) PROVE StoredFirst'
  BY <1>1 DEF ReceiveFile, tables
<1>2. ASSUME NEW r \in Request, MarkUploaded(r) PROVE StoredFirst'
  BY <1>2 DEF MarkUploaded
<1>3. ASSUME NEW r \in Request, InsertFile(r) PROVE StoredFirst'
  BY <1>3 DEF InsertFile
<1>4. CASE UNCHANGED <<fileStatus, stored, got>>
  BY <1>4
<1>5. \/ UNCHANGED <<fileStatus, stored, got>>
      \/ \E r \in Request : ReceiveFile(r) \/ MarkUploaded(r) \/ InsertFile(r)
  BY DEF Next, vars, tables, Request, InitStep, BeginInit, SetStarted,
         UploadStep, BeginUpload, BeginPoll, CountStep,
         CountTotal, CountPending, CheckAll, SetPath, SetCompleted, Abort,
         Crash, Rest
<1> QED BY <1>1, <1>2, <1>3, <1>4, <1>5

\* A row says uploaded only when the object is in S3: upload_html and
\* upload_screenshots put before they mark.
THEOREM UploadedAlwaysStored == Spec => []UploadedIsStored
<1>1. Init => StoredFirst
  BY DEF Init, StoredFirst, UploadedIsStored, Uploaded
<1>2. TypeOK /\ StoredFirst /\ [Next]_vars => StoredFirst'
  BY StoredFirstStep
<1>3. StoredFirst => UploadedIsStored
  BY DEF StoredFirst
<1> QED BY <1>1, <1>2, <1>3, TypeCorrect, PTL DEF Spec

\* The second is inductive: only SetPath and CheckAll lead to setCompleted,
\* and CheckAll only for screenshots.
LEMMA PathFirstStep ==
    ASSUME TypeOK, PathFirst, [Next]_vars
    PROVE  PathFirst'
<1> USE DEF TypeOK, PathFirst, CompletedHasPath, Goto
<1>1. ASSUME NEW r \in Request, SetPath(r) PROVE PathFirst'
  BY <1>1 DEF SetPath
<1>2. ASSUME NEW r \in Request, SetCompleted(r) PROVE PathFirst'
  BY <1>2 DEF SetCompleted
<1>3. ASSUME NEW r \in Request, CheckAll(r) PROVE PathFirst'
  BY <1>3 DEF CheckAll, tables
<1>4. ASSUME NEW r \in Request, SetStarted(r) PROVE PathFirst'
  BY <1>4 DEF SetStarted
<1>5. CASE /\ UNCHANGED <<uploadStatus, htmlPath>>
           /\ \A r \in Request : pc'[r] = "setCompleted" => pc[r] = "setCompleted"
  BY <1>5
<1>6. ASSUME NEW r \in Request, NEW step, Goto(r, step),
             step # "setCompleted", UNCHANGED <<uploadStatus, htmlPath>>
      PROVE  PathFirst'
  BY <1>6
<1>7. ASSUME NEW r \in Inits, InitStep(r) PROVE PathFirst'
  <2> r \in Request BY DEF Request
  <2>1. CASE BeginInit(r) BY <1>6, <2>1 DEF BeginInit, tables
  <2>2. CASE InsertFile(r)
    <3>1. UNCHANGED <<uploadStatus, htmlPath>> BY <2>2 DEF InsertFile
    <3>2. CASE UNCHANGED pc BY <1>5, <3>1, <3>2
    <3>3. CASE Goto(r, "error") BY <1>6, <3>1, <3>3
    <3> QED BY <2>2, <3>2, <3>3 DEF InsertFile
  <2> QED BY <1>7, <1>4, <2>1, <2>2 DEF InitStep
<1>8. ASSUME NEW r \in Uploads, UploadStep(r)
      PROVE  PathFirst'
  <2> r \in Request BY DEF Request
  <2>1. CASE BeginUpload(r) BY <1>6, <2>1 DEF BeginUpload, tables
  <2>2. CASE ReceiveFile(r)
    BY <1>5, <2>2 DEF ReceiveFile, tables
  <2>3. CASE MarkUploaded(r) BY <1>6, <2>3 DEF MarkUploaded
  <2> QED BY <1>8, <2>1, <2>2, <2>3 DEF UploadStep
<1>9. ASSUME NEW r \in Uploads \cup Polls, CountStep(r) PROVE PathFirst'
  <2> r \in Request BY DEF Request
  <2>1. CASE CountTotal(r) BY <1>6, <2>1 DEF CountTotal, tables
  <2>2. CASE CountPending(r) BY <1>6, <2>2 DEF CountPending, tables
  <2> QED BY <1>9, <1>1, <1>2, <1>3, <2>1, <2>2 DEF CountStep
<1>10. ASSUME NEW r \in Request, BeginPoll(r) \/ Abort(r) PROVE PathFirst'
  BY <1>6, <1>10 DEF BeginPoll, Abort, tables
<1>11. CASE Crash \/ Rest \/ UNCHANGED vars
  BY <1>5, <1>11 DEF Crash, Rest, vars, tables
<1> QED BY <1>7, <1>8, <1>9, <1>10, <1>11 DEF Next, Request

\* Whoever sees the HTML upload completed finds html_path set: upload_html
\* writes it first, and nothing clears it.
THEOREM CompletedAlwaysHasPath == Spec => []CompletedHasPath
<1>1. Init => PathFirst
  BY DEF Init, PathFirst, CompletedHasPath
<1>2. TypeOK /\ PathFirst /\ [Next]_vars => PathFirst'
  BY PathFirstStep
<1>3. PathFirst => CompletedHasPath
  BY DEF PathFirst
<1> QED BY <1>1, <1>2, <1>3, TypeCorrect, PTL DEF Spec

-----------------------------------------------------------------------------
(* The last upload completes the status *)

\* The rows an init request has inserted so far.
Inserted(i) == asked[i] \ todo[i]

\* The unique index gives every row to one init request, and a request that
\* was answered has inserted all its files.
Ownership ==
    /\ \A i \in Inits : Inserted(i) \subseteq Registered
    /\ \A i, k \in Inits : i # k => Inserted(i) \cap Inserted(k) = {}
    /\ \A i \in Inits : pc[i] = "done" => todo[i] = {}
    /\ \A i \in Inits : pc[i] = "insertFiles" => \E f \in File : f \in asked[i]

\* Uploads touch only files an init request was answered for.
Confirmed ==
    /\ Uploaded \subseteq Accepted
    /\ \A r \in Uploads : got[r] \cup todo[r] \subseteq Accepted

AfterMark == {"countTotal", "countPending", "checkAll", "setPath", "setCompleted"}

\* When nothing is pending, the status says so or an upload is about to.
Noticed ==
    (/\ \E f \in File : f \in Registered
     /\ \A f \in File : f \notin Pending
     /\ faults = 0)
    => \/ uploadStatus = "completed"
       \/ \E r \in Uploads : pc[r] \in AfterMark

CompletionInv == Ownership /\ Confirmed /\ Noticed

\* A step of an init request; all others leave asked, and the position and the
\* todo list of every init request, as they are, unless they end it in error.
LEMMA OtherSteps ==
    ASSUME TypeOK, [Next]_vars, ~ \E r \in Inits : InitStep(r)
    PROVE  /\ asked' = asked
           /\ \A i \in Inits : todo'[i] = todo[i] /\ pc'[i] \in {pc[i], "error"}
           /\ \A i \in Inits : pc[i] = "done" => pc'[i] = "done"
           /\ \A f \in File : f \in Registered => f \in Registered'
<1> USE DEF TypeOK, Goto, tables, counts, Registered, Active
<1>1. ASSUME NEW r \in Uploads, UploadStep(r)
      PROVE  /\ asked' = asked
             /\ \A i \in Inits : todo'[i] = todo[i] /\ pc'[i] = pc[i]
             /\ \A f \in File : f \in Registered => f \in Registered'
  <2> r \in Request /\ \A i \in Inits : i # r /\ i \in Request
    BY RequestKinds DEF Request
  <2>1. CASE BeginUpload(r) BY <2>1 DEF BeginUpload
  <2>2. CASE ReceiveFile(r) BY <2>2 DEF ReceiveFile
  <2>3. CASE MarkUploaded(r) BY <2>3 DEF MarkUploaded
  <2> QED BY <1>1, <2>1, <2>2, <2>3 DEF UploadStep
<1>2. ASSUME NEW r \in Uploads \cup Polls, CountStep(r) \/ BeginPoll(r)
      PROVE  /\ UNCHANGED <<asked, todo, fileStatus>>
             /\ \A i \in Inits : pc'[i] = pc[i]
  <2> r \in Request /\ \A i \in Inits : i # r /\ i \in Request
    BY RequestKinds DEF Request
  <2> QED BY <1>2 DEF CountStep, BeginPoll, CountTotal, CountPending, CheckAll,
                      SetPath, SetCompleted
<1>3. ASSUME NEW r \in Request, Abort(r)
      PROVE  /\ UNCHANGED <<asked, todo, fileStatus>>
             /\ \A i \in Inits : pc'[i] \in {pc[i], "error"}
             /\ \A i \in Inits : pc[i] = "done" => pc'[i] = "done"
  BY <1>3 DEF Abort, Request
<1>4. CASE Crash \/ Rest \/ UNCHANGED vars
  BY <1>4 DEF Crash, Rest, vars, Request
<1> QED BY <1>1, <1>2, <1>3, <1>4 DEF Next

\* The index keeps the rows of init requests apart.
LEMMA OwnershipStep ==
    ASSUME TypeOK, Ownership, [Next]_vars
    PROVE  Ownership'
<1> USE DEF Ownership, Inserted
<1>1. CASE ~ \E r \in Inits : InitStep(r)
  BY <1>1, OtherSteps DEF TypeOK, Request
<1>2. ASSUME NEW r \in Inits, BeginInit(r) PROVE Ownership'
  <2> r \in Request BY DEF Request
  <2>1. PICK F \in (SUBSET File) \ {{}} :
          /\ todo' = [todo EXCEPT ![r] = F]
          /\ asked' = [asked EXCEPT ![r] = F]
    BY <1>2 DEF BeginInit
  <2>2. \E f \in File : f \in F
    OBVIOUS
  <2>3. /\ Registered' = Registered
        /\ pc' = [pc EXCEPT ![r] = "insertFiles"]
    BY <1>2 DEF BeginInit, tables, Registered, Goto
  <2> QED BY <2>1, <2>2, <2>3 DEF TypeOK, Request
<1>3. ASSUME NEW r \in Inits, InsertFile(r) PROVE Ownership'
  <2> r \in Request BY DEF Request
  <2>1. CASE UNCHANGED <<fileStatus, todo>> /\ Goto(r, "error")
    BY <1>3, <2>1 DEF InsertFile, Registered, Goto, TypeOK, Request
  <2>2. ASSUME NEW f \in todo[r],
               fileStatus[f] = "absent",
               fileStatus' = [fileStatus EXCEPT ![f] = "pending"],
               todo' = [todo EXCEPT ![r] = @ \ {f}],
               UNCHANGED pc
        PROVE  Ownership'
    <3>0. asked' = asked /\ f \in File
      BY <1>3 DEF InsertFile, TypeOK
    <3>1. Registered' = Registered \cup {f} /\ f \notin Registered
      BY <2>2, <3>0 DEF TypeOK, Registered
    <3>2. \A i \in Inits : f \notin Inserted(i)
      BY <3>1
    <3>3. \A i \in Inits : i # r => Inserted(i)' = Inserted(i)
      BY <2>2, <3>0 DEF TypeOK, Request
    <3>4. Inserted(r)' \subseteq Inserted(r) \cup {f}
      BY <2>2, <3>0 DEF TypeOK
    <3>5. \A i \in Inits : todo[i] = {} => todo'[i] = {}
      BY <2>2 DEF TypeOK, Request
    <3> HIDE DEF Inserted
    <3> QED BY <2>2, <3>0, <3>1, <3>2, <3>3, <3>4, <3>5
  <2> QED BY <1>3, <2>1, <2>2 DEF InsertFile
<1>4. ASSUME NEW r \in Inits, SetStarted(r) PROVE Ownership'
  <2> r \in Request BY DEF Request
  <2> QED BY <1>4 DEF SetStarted, Registered, Goto, TypeOK, Request
<1> QED BY <1>1, <1>2, <1>3, <1>4 DEF InitStep

\* What was accepted stays accepted.
LEMMA AcceptedGrows ==
    ASSUME TypeOK, [Next]_vars
    PROVE  Accepted \subseteq Accepted'
<1> SUFFICES ASSUME NEW i \in Inits, pc[i] = "done"
             PROVE  pc'[i] = "done" /\ asked'[i] = asked[i]
  BY DEF Accepted
<1>1. CASE ~ \E r \in Inits : InitStep(r)
  BY <1>1, OtherSteps
<1>2. ASSUME NEW r \in Inits, InitStep(r) PROVE pc'[i] = "done" /\ asked'[i] = asked[i]
  <2>1. r # i
    BY <1>2 DEF InitStep, BeginInit, InsertFile, SetStarted
  <2> QED BY <1>2, <2>1 DEF InitStep, BeginInit, InsertFile, SetStarted, Goto,
                            TypeOK, Request
<1> QED BY <1>1, <1>2

\* An upload takes only accepted files, and marks only what it took.
LEMMA ConfirmedStep ==
    ASSUME TypeOK, Confirmed, [Next]_vars
    PROVE  Confirmed'
<1> USE DEF TypeOK, Confirmed, Uploaded
<1>0. Accepted \subseteq Accepted'
  BY AcceptedGrows
<1>1. CASE /\ Uploaded' \subseteq Uploaded
           /\ \A r \in Uploads : got'[r] \cup todo'[r] \subseteq got[r] \cup todo[r]
  BY <1>0, <1>1
<1>2. ASSUME NEW r \in Inits, InitStep(r) PROVE Confirmed'
  <2>1. r \in Request /\ \A u \in Uploads : u # r /\ u \in Request
    BY RequestKinds DEF Request
  <2>2. Uploaded' \subseteq Uploaded
    BY <1>2 DEF InitStep, BeginInit, InsertFile, SetStarted, tables
  <2>3. \A u \in Uploads : got'[u] = got[u] /\ todo'[u] = todo[u]
    BY <1>2, <2>1 DEF InitStep, BeginInit, InsertFile, SetStarted
  <2> QED BY <1>1, <2>2, <2>3
<1>3. ASSUME NEW r \in Uploads, BeginUpload(r) PROVE Confirmed'
  <2> r \in Request BY DEF Request
  <2>1. PICK F \in SUBSET Accepted : todo' = [todo EXCEPT ![r] = F \cap Pending]
    BY <1>3 DEF BeginUpload
  <2>2. Uploaded' = Uploaded /\ got' = got
    BY <1>3 DEF BeginUpload, tables
  <2> QED BY <1>0, <2>1, <2>2 DEF Request
<1>4. ASSUME NEW r \in Uploads, ReceiveFile(r) PROVE Confirmed'
  <2> r \in Request BY DEF Request
  <2>1. Uploaded' = Uploaded
    BY <1>4 DEF ReceiveFile, tables
  <2>2. \A u \in Uploads : got'[u] \cup todo'[u] \subseteq got[u] \cup todo[u]
    BY <1>4 DEF ReceiveFile, Request
  <2> QED BY <1>1, <2>1, <2>2
<1>5. ASSUME NEW r \in Uploads, MarkUploaded(r) PROVE Confirmed'
  <2> r \in Request BY DEF Request
  <2>1. Uploaded' \subseteq Uploaded \cup got[r]
    BY <1>5 DEF MarkUploaded
  <2>2. got' = got /\ todo' = todo
    BY <1>5 DEF MarkUploaded
  <2> QED BY <1>0, <2>1, <2>2
<1>6. \/ UNCHANGED <<fileStatus, got, todo>>
      \/ \E r \in Inits : InitStep(r)
      \/ \E r \in Uploads : BeginUpload(r) \/ ReceiveFile(r) \/ MarkUploaded(r)
  BY DEF Next, vars, tables, UploadStep, BeginPoll, CountStep,
         CountTotal, CountPending, CheckAll, SetPath, SetCompleted, Abort,
         Crash, Rest
<1> QED BY <1>1, <1>2, <1>3, <1>4, <1>5, <1>6

\* An init request that writes "started" has registered a file nobody was told
\* of yet, so that file is pending.
LEMMA StartedLeavesPending ==
    ASSUME TypeOK, Ownership, Confirmed, NEW i \in Inits, SetStarted(i)
    PROVE  \E f \in File : f \in Pending
<1> i \in Request BY DEF Request
<1>1. PICK f \in File : f \in asked[i]
  BY DEF SetStarted, Ownership
<1>2. f \in Inserted(i)
  BY <1>1 DEF SetStarted, Inserted
<1>3. f \notin Accepted
  <2>1. ASSUME NEW k \in Inits, pc[k] = "done", f \in asked[k] PROVE FALSE
    <3>1. f \in Inserted(k)
      BY <2>1 DEF Ownership, Inserted
    <3>2. k # i
      BY <2>1 DEF SetStarted
    <3> QED BY <1>2, <3>1, <3>2 DEF Ownership
  <2> QED BY <2>1 DEF Accepted
<1>4. f \notin Uploaded
  BY <1>3 DEF Confirmed
<1>5. f \in Registered
  BY <1>2 DEF Ownership
<1> QED BY <1>4, <1>5 DEF TypeOK, Registered, Uploaded, Pending

\* Whoever marks the last file looks at the pending rows afterwards, and leaves
\* that position only by writing "completed" or by seeing a pending row.
LEMMA NoticedStep ==
    ASSUME TypeOK, CompletionInv, [Next]_vars
    PROVE  Noticed'
<1> USE DEF TypeOK, CompletionInv, Noticed, AfterMark, Goto, Pending, Registered
<1>1. CASE /\ UNCHANGED <<fileStatus, uploadStatus, faults>>
           /\ \A u \in Uploads : pc[u] \in AfterMark => pc'[u] \in AfterMark
  BY <1>1
<1>2. ASSUME NEW r \in Inits, InitStep(r) PROVE Noticed'
  <2>1. r \in Request /\ \A u \in Uploads : u # r /\ u \in Request
    BY RequestKinds DEF Request
  <2>2. CASE BeginInit(r) BY <1>1, <2>1, <2>2 DEF BeginInit, tables
  <2>3. CASE InsertFile(r)
    <3>1. CASE Goto(r, "error") /\ UNCHANGED <<fileStatus, todo>>
      BY <1>1, <2>1, <2>3, <3>1 DEF InsertFile
    <3>2. ASSUME NEW f \in todo[r], fileStatus' = [fileStatus EXCEPT ![f] = "pending"]
          PROVE  Noticed'
      <4>1. f \in File /\ fileStatus'[f] = "pending"
        BY <2>1, <3>2
      <4> QED BY <4>1
    <3> QED BY <2>3, <3>1, <3>2 DEF InsertFile
  <2>4. CASE SetStarted(r)
    <3>1. \E f \in File : f \in Pending
      BY <2>4, StartedLeavesPending
    <3> QED BY <2>4, <3>1 DEF SetStarted
  <2> QED BY <1>2, <2>2, <2>3, <2>4 DEF InitStep
<1>3. ASSUME NEW r \in Uploads, BeginUpload(r) \/ ReceiveFile(r) PROVE Noticed'
  BY <1>1, <1>3 DEF BeginUpload, ReceiveFile, tables, Request
<1>4. ASSUME NEW r \in Uploads, MarkUploaded(r) PROVE Noticed'
  <2>1. pc'[r] \in AfterMark
    BY <1>4 DEF MarkUploaded, Request
  <2> QED BY <2>1
<1>5. ASSUME NEW r \in Polls, BeginPoll(r) PROVE Noticed'
  BY <1>1, <1>5 DEF BeginPoll, tables, Request
<1>6. ASSUME NEW r \in Uploads \cup Polls, CountStep(r) PROVE Noticed'
  <2>1. r \in Request /\ \A u \in Uploads : u \in Request
    BY DEF Request
  <2>2. CASE CountTotal(r) \/ CountPending(r)
    BY <1>1, <2>1, <2>2 DEF CountTotal, CountPending, tables
  <2>3. CASE CheckAll(r)
    <3>1. CASE r \in Uploads /\ AllUploaded(r)
      BY <1>1, <2>1, <2>3, <3>1 DEF CheckAll, tables
    <3>2. CASE r \in Polls
      <4>1. \A u \in Uploads : u # r
        BY <3>2, RequestKinds
      <4> QED BY <1>1, <2>1, <2>3, <4>1 DEF CheckAll, tables
    <3>3. CASE ~AllUploaded(r)
      <4>1. \E f \in File : f \in Pending'
        BY <2>3, <3>3 DEF CheckAll, AllUploaded, tables
      <4> QED BY <4>1
    <3> QED BY <1>6, <3>1, <3>2, <3>3
  <2>4. CASE SetPath(r)
    BY <1>1, <2>1, <2>4 DEF SetPath
  <2>5. CASE SetCompleted(r)
    BY <2>5 DEF SetCompleted
  <2> QED BY <1>6, <2>2, <2>3, <2>4, <2>5 DEF CountStep
<1>7. CASE Crash \/ \E r \in Request : Abort(r)
  <2>1. faults' = faults + 1
    BY <1>7 DEF Crash, Abort, Fault
  <2> QED BY <2>1
<1>8. CASE Rest \/ UNCHANGED vars
  BY <1>1, <1>8 DEF Rest, vars, tables
<1> QED BY <1>2, <1>3, <1>4, <1>5, <1>6, <1>7, <1>8 DEF Next, UploadStep

\* The three parts hold together from the beginning.
LEMMA CompletionInvCorrect == Spec => []CompletionInv
<1>1. Init => CompletionInv
  BY DEF Init, CompletionInv, Ownership, Inserted, Confirmed, Noticed, Uploaded,
         Registered, Request
<1>2. TypeOK /\ CompletionInv /\ [Next]_vars => CompletionInv'
  BY OwnershipStep, ConfirmedStep, NoticedStep DEF CompletionInv
<1> QED BY <1>1, <1>2, TypeCorrect, PTL DEF Spec

\* However many uploads share the files, and whatever init requests run beside
\* them: once everything registered has arrived and no upload is under way, the
\* status is completed, unless a request failed.
THEOREM LastUploadCompletes == Spec => []AllUploadedIsCompleted
<1>1. CompletionInv => AllUploadedIsCompleted
  <2> SUFFICES ASSUME CompletionInv,
                      Registered # {}, Pending = {}, faults = 0,
                      \A r \in Uploads : pc[r] \notin Active
               PROVE  uploadStatus = "completed"
    BY DEF AllUploadedIsCompleted
  <2>1. \E f \in File : f \in Registered
    BY DEF Registered
  <2>2. AfterMark \subseteq Active
    BY DEF AfterMark, Active
  <2> QED BY <2>1, <2>2 DEF CompletionInv, Noticed
<1> QED BY <1>1, CompletionInvCorrect, PTL
=============================================================================
