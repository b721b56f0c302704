-------------------------- MODULE ResultExtraction --------------------------
(* What an extraction task makes of a job's JSON files: the three formats and *)
(* their detection, the attempts of a test and the counts of a suite, the     *)
(* attachments and the screenshots they name, and the rows of test_suites and *)
(* test_cases (services/extraction.rs).  ReportPipeline says when tasks run   *)
(* and ScreenshotLinking what they do with screenshots afterwards.            *)
(*                                                                            *)
(* A document is what serde makes of a file.  A full title is <<project,      *)
(* title>>, the title of a suite a sequence (Detox joins its parts with " > " *)
(* and no part is empty or has one), a path [dirs, name] with a name that is  *)
(* a sequence of letters; messages, types of content, durations and start     *)
(* times are left out.  The cases of a suite are a function from their        *)
(* sequence numbers, which order the vector they stand in.                    *)
EXTENDS Integers, SequencesExt

CONSTANTS
    Documents,         \* contents files may have
    Depth,             \* how deep suites nest: serde_json reads no deeper than 128
    Frameworks,        \* test_reports.framework, in lower case
    FileCount,         \* files of the job
    Extractor,         \* extraction tasks
    Shot,              \* names of screenshots
    AttachmentPrefix,  \* TSIO_ATTACHMENT_PATH_PREFIX, a sequence of directories
    MaxExtractionFaults

VARIABLES
    framework, contents,  \* of the job: [1..FileCount -> Documents]
    shots,                \* screenshots: the names registered so far
    extractor,            \* [Extractor -> its state]
    marked,               \* json_files with an extracted_at
    suiteRows, caseRows,  \* test_suites, test_cases
    extractionFaults

extractionVars == <<framework, contents, shots, extractor, marked, suiteRows, caseRows,
                    extractionFaults>>

------------------------------------------------------------------------------
(* Documents: the keys at the top, and what is below those the code reads *)

\* Suites nest: each has items of its own, tests of Cypress or specs of Playwright,
\* and suites, Suites(Item)[n] at most n - 1 deep.  A result of Cypress is a suite, too.
Suites(Item) ==
    LET suites[n \in 0..Depth] ==
            IF n = 0 THEN {}
            ELSE [title : STRING, file : STRING, items : Seq(Item), suites : Seq(suites[n - 1])]
    IN suites
Suite(Item) == Suites(Item)[Depth]

Path == [dirs : Seq(STRING), name : Seq(STRING)]

CypressTest == [title : STRING, fullTitle : STRING, state : STRING, context : Seq(Path),
                flags : SUBSET {"pending", "skipped", "fail", "pass"}]

DetoxTest == [ancestors : Seq(STRING), fullName : STRING, status : STRING]
DetoxFile == [path : STRING, tests : Seq(DetoxTest)]

PlaywrightResult == [status : STRING, retry : Nat, attachments : Seq(Path)]
PlaywrightTest == [project : STRING, status : STRING, results : Seq(PlaywrightResult)]
PlaywrightSpec == [title : STRING, tests : Seq(PlaywrightTest)]

Document == [keys : SUBSET STRING, results : Seq(Suite(CypressTest)),
             testResults : Seq(DetoxFile), suites : Seq(Suite(PlaywrightSpec))]

ASSUME ExtractionConstants ==
    /\ Depth \in Nat \ {0} /\ FileCount \in Nat /\ MaxExtractionFaults \in Nat
    /\ Documents \subseteq Document
    /\ Shot \subseteq Path /\ AttachmentPrefix \in Seq(STRING)

Unreadable == [keys |-> {}, results |-> <<>>, testResults |-> <<>>, suites |-> <<>>]

CypressDocument(keys, results) == [Unreadable EXCEPT !.keys = keys \cup {"results"},
                                                     !.results = results]
DetoxDocument(keys, files) == [Unreadable EXCEPT !.keys = keys \cup {"testResults"},
                                                 !.testResults = files]
PlaywrightDocument(keys, suites) == [Unreadable EXCEPT !.keys = keys \cup {"suites"},
                                                       !.suites = suites]

------------------------------------------------------------------------------
(* Attachments *)

\* Drops the longest run of d at the front.
WithoutLeading(dirs, d) ==
    LET n == CHOOSE n \in 0..Len(dirs) :
                 /\ \A i \in 1..n : dirs[i] = d
                 /\ n < Len(dirs) => dirs[n + 1] # d
    IN SubSeq(dirs, n + 1, Len(dirs))

WithoutPrefix(dirs, prefix) ==
    IF IsPrefix(prefix, dirs) THEN SubSeq(dirs, Len(prefix) + 1, Len(dirs)) ELSE dirs

\* normalize_attachment_path: one common prefix at most, then "../", then "./".
Prefixed == {<<"..", "results", "output">>, <<"..", "output">>,
             <<".", "results", "output">>, <<".", "output">>}
Normalized(path) ==
    LET dirs == WithoutPrefix(path.dirs, AttachmentPrefix)
        common == {p \in Prefixed : IsPrefix(p, dirs)}
        rest == IF common = {} THEN dirs ELSE WithoutPrefix(dirs, CHOOSE p \in common : TRUE)
    IN [path EXCEPT !.dirs = WithoutLeading(WithoutLeading(rest, ".."), ".")]

\* lookup_screenshot: the name itself, or the first one in the order of the map
\* that ends with the last component, be it in the middle of a name; {} if none does.
EndsWith(shot, path) == IsSuffix(path.name, shot.name)
LookupByName(path, map) ==
    LET ending == {i \in DOMAIN map : EndsWith(map[i], path)} IN
    {map[i] : i \in {i \in ending : \A j \in ending : i <= j}}
Lookup(path, map) ==
    IF Contains(map, path) THEN {path} ELSE LookupByName(path, map)

Attachment(path, found) == [path |-> path, missing |-> found = {}, found |-> found]

------------------------------------------------------------------------------
(* global_sequence: a document's cases are numbered as they are extracted *)

\* Sums(s)[n] adds up the first n numbers of s.
Sums(s) == LET sums[n \in 0..Len(s)] == IF n = 0 THEN 0 ELSE sums[n - 1] + s[n] IN sums
Total(s) == Sums(s)[Len(s)]

\* Numbers the cases, from first on, as they stand in the suites.
NumberedFrom(suites, first) ==
    LET sums == Sums([i \in DOMAIN suites |-> Len(suites[i].cases)])
        From(i) == first + sums[i - 1]
        Upto(i) == first + sums[i] - 1
    IN [i \in DOMAIN suites |->
           [title |-> suites[i].title,
            cases |-> [n \in From(i)..Upto(i) |-> suites[i].cases[n - From(i) + 1]]]]
NumberedAnew(suites, first) == NumberedFrom(suites, 0)
InOrder(suites, first) == NumberedFrom(suites, first)

\* How far a file moves global_sequence.
CaseCount(suites) == Cardinality(UNION {DOMAIN suites[i].cases : i \in DOMAIN suites})

\* What own makes of a suite, then what it makes of those inside, one after the other.
Preorder(Item, own) ==
    LET all[n \in 0..Depth] ==
            [suite \in Suites(Item)[n] |->
                own[suite] \o FlattenSeq([i \in DOMAIN suite.suites |->
                                              all[n - 1][suite.suites[i]]])]
    IN all

------------------------------------------------------------------------------
(* Cypress *)

CypressStatus(test) ==
    IF test.flags \cap {"pending", "skipped"} # {} THEN "skipped"
    ELSE IF "fail" \in test.flags THEN "failed"
    ELSE IF "pass" \in test.flags THEN "passed"
    ELSE test.state

CypressCase(test, map) ==
    [full |-> <<"", IF test.fullTitle = "" THEN test.title ELSE test.fullTitle>>,
     status |-> CypressStatus(test), retry |-> 0,
     attachments |-> [i \in DOMAIN test.context |->
                         Attachment(test.context[i], Lookup(test.context[i], map))]]

\* A suite's tests and those of the suites inside it, which get no row.
CypressTests == Preorder(CypressTest, [suite \in Suite(CypressTest) |-> suite.items])

\* The suites of a result, then its own tests under its own title.
CypressSuitesOwn(result) ==
    [i \in DOMAIN result.suites |-> [title |-> <<result.suites[i].title>>,
                                     tests |-> result.suites[i].items]]
CypressSuites(result) ==
    [i \in DOMAIN result.suites |->
        [title |-> <<result.suites[i].title>>,
         tests |-> CypressTests[Depth - 1][result.suites[i]]]]
      \o IF result.items = <<>> THEN <<>>
         ELSE <<[title |-> <<result.title>>, tests |-> result.items]>>

CypressExtracted(document, map) ==
    LET suites == FlattenSeq([i \in DOMAIN document.results |->
                                 CypressSuites(document.results[i])])
    IN [i \in DOMAIN suites |->
           [title |-> suites[i].title,
            cases |-> [j \in DOMAIN suites[i].tests |-> CypressCase(suites[i].tests[j], map)]]]

------------------------------------------------------------------------------
(* Detox *)

DetoxStatus(status) == IF status \in {"pending", "skipped", "todo"} THEN "skipped" ELSE status

DetoxCase(test) == [full |-> <<"", test.fullName>>, status |-> DetoxStatus(test.status),
                    retry |-> 0, attachments |-> <<>>]

OrRoot(title) == IF title = "" THEN "Root" ELSE title

\* The tests are numbered file by file; those of a file that have the same
\* ancestors make a suite.
DetoxGroups(files) ==
    UNION {{<<i, files[i].tests[j].ancestors>> : j \in DOMAIN files[i].tests}
           : i \in DOMAIN files}

DetoxSuite(files, group, first) ==
    LET file == files[group[1]]
        from == first + Sums([i \in DOMAIN files |-> Len(files[i].tests)])[group[1] - 1]
        Numbers == {n \in from..(from + Len(file.tests) - 1) :
                        file.tests[n - from + 1].ancestors = group[2]}
    IN [title |-> IF group[2] = <<>> THEN <<OrRoot(file.path)>> ELSE group[2],
        cases |-> [n \in Numbers |-> DetoxCase(file.tests[n - from + 1])]]

\* The suites of a file come in the order of a HashMap.
ExtractDetox(document, first) ==
    LET groups == DetoxGroups(document.testResults) IN
    {[i \in DOMAIN order |-> DetoxSuite(document.testResults, order[i], first)]
     : order \in {o \in SetToSeqs(groups) :
                      \A i, j \in DOMAIN o : i < j => o[i][1] <= o[j][1]}}

------------------------------------------------------------------------------
(* Playwright *)

PlaywrightStatus(result) ==
    IF result.retry > 0 /\ result.status = "passed" THEN "flaky"
    ELSE IF result.status \in {"timedOut", "interrupted"} THEN "failed"
    ELSE result.status

\* One case per attempt; without attempts, one with the status of the test.
PlaywrightCases(title, test, map) ==
    IF test.results = <<>>
    THEN <<[full |-> <<"", title>>, status |-> test.status, retry |-> 0,
            attachments |-> <<>>]>>
    ELSE [i \in DOMAIN test.results |->
             LET result == test.results[i] IN
             [full |-> <<test.project, title>>, status |-> PlaywrightStatus(result),
              retry |-> result.retry,
              attachments |-> [j \in DOMAIN result.attachments |->
                  Attachment(result.attachments[j],
                             Lookup(Normalized(result.attachments[j]), map))]]]

SpecCases(spec, map) ==
    FlattenSeq([i \in DOMAIN spec.tests |-> PlaywrightCases(spec.title, spec.tests[i], map)])

\* A suite without title and tests is left out, not the suites inside it.
PlaywrightOwn(suite, map) ==
    LET cases == FlattenSeq([i \in DOMAIN suite.items |-> SpecCases(suite.items[i], map)]) IN
    IF cases = <<>> /\ suite.title = "" THEN <<>>
    ELSE <<[title |-> <<IF suite.title = "" THEN OrRoot(suite.file) ELSE suite.title>>,
            cases |-> cases]>>
PlaywrightSuites(map) ==
    Preorder(PlaywrightSpec,
             [suite \in Suite(PlaywrightSpec) |-> PlaywrightOwn(suite, map)])

PlaywrightExtracted(document, map) ==
    FlattenSeq([i \in DOMAIN document.suites |->
                   PlaywrightSuites(map)[Depth][document.suites[i]]])

------------------------------------------------------------------------------
(* The framework, and what is extracted *)

\* try_auto_detect
Detected(document) ==
    IF {"config", "suites"} \subseteq document.keys THEN "playwright"
    ELSE IF {"numTotalTests", "testResults"} \subseteq document.keys THEN "detox"
    ELSE IF {"stats", "results"} \subseteq document.keys THEN "cypress"
    ELSE "unknown"

FormatOf(document) ==
    IF framework \in {"cypress", "detox", "playwright"} THEN framework
    ELSE Detected(document)

\* The possible results.  A file in another format, or that is no JSON, has no
\* suites; one whose format is unknown is passed over.
Extractions(document, map, first) ==
    CASE FormatOf(document) = "cypress"    -> {InOrder(CypressExtracted(document, map), first)}
      [] FormatOf(document) = "detox"      -> ExtractDetox(document, first)
      [] FormatOf(document) = "playwright" -> {InOrder(PlaywrightExtracted(document, map), first)}
      [] OTHER -> {}

\* count_statuses: per full title the attempt with the highest retry, the first of
\* equals.
Retry(last, full) == IF full \in DOMAIN last THEN last[full].retry ELSE -1
LaterAttemptOrEqual(last, case) == case.retry >= Retry(last, case.full)
LaterAttempt(last, case) == case.retry > Retry(last, case.full)

\* What has been kept when the cases below end have been gone through.
LastAttempts(cases, end) ==
    LET kept[n \in 0..end] ==
            IF n = 0 THEN <<>>
            ELSE LET last == kept[n - 1] IN
                 IF n - 1 \in DOMAIN cases /\ LaterAttempt(last, cases[n - 1])
                 THEN [full \in DOMAIN last \cup {cases[n - 1].full} |->
                          IF full = cases[n - 1].full THEN cases[n - 1] ELSE last[full]]
                 ELSE last
    IN kept[end]

StatusCounts(cases, end) ==
    LET last == LastAttempts(cases, end)
        Number(statuses) == Cardinality({t \in DOMAIN last : last[t].status \in statuses})
    IN [total |-> Cardinality(DOMAIN last), passed |-> Number({"passed"}),
        failed |-> Number({"failed", "timedOut"}), skipped |-> Number({"skipped"}),
        flaky |-> Number({"flaky"})]

------------------------------------------------------------------------------
(* extract_job *)

Reserved == [step |-> "idle"]

ExtractionInit ==
    /\ framework \in Frameworks
    /\ contents \in [1..FileCount -> Documents]
    /\ shots = {}
    /\ extractor = [e \in Extractor |-> Reserved]
    /\ marked = {} /\ suiteRows = {} /\ caseRows = {}
    /\ extractionFaults = 0

At(e, s) == extractor[e].step = s
Set(e, record) == extractor' = [extractor EXCEPT ![e] = record]
ExtractionFault == /\ extractionFaults < MaxExtractionFaults
                   /\ extractionFaults' = extractionFaults + 1

\* init_screenshots
RegisterShot ==
    /\ \E shot \in Shot \ shots : shots' = shots \cup {shot}
    /\ UNCHANGED <<framework, contents, extractor, marked, suiteRows, caseRows,
                   extractionFaults>>

\* get_uploaded_json_files returns the files in any order.
ReadFiles(e) ==
    /\ extractor[e] = Reserved
    /\ \E order \in SetToSeqs(1..FileCount) :
         Set(e, [step |-> "shots", files |-> order, read |-> 0, next |-> 0,
                 suites |-> <<>>, written |-> 0, map |-> <<>>])
    /\ UNCHANGED <<framework, contents, shots, marked, suiteRows, caseRows,
                   extractionFaults>>

\* screenshot_map, in an order of its own: pending and uploaded ones; none when the
\* query fails.
ReadShots(e) ==
    /\ At(e, "shots")
    /\ \/ /\ \E order \in SetToSeqs(shots) :
              Set(e, [extractor[e] EXCEPT !.step = "files", !.map = order])
          /\ UNCHANGED extractionFaults
       \/ ExtractionFault /\ Set(e, [extractor[e] EXCEPT !.step = "files"])
    /\ UNCHANGED <<framework, contents, shots, marked, suiteRows, caseRows>>

\* The file that is next, and the suites found in it behind those found before.
NextFile(e) == extractor[e].files[extractor[e].read + 1]
WithSuites(e, suites) ==
    extractor[e].suites
      \o [i \in DOMAIN suites |-> [file |-> NextFile(e), title |-> suites[i].title,
                                   cases |-> suites[i].cases]]

\* The next file is fetched, parsed and marked; a mark that fails is ignored.
ExtractFile(e) ==
    /\ At(e, "files") /\ extractor[e].read < FileCount
    /\ \E suites \in Extractions(contents[NextFile(e)], extractor[e].map, extractor[e].next) :
         Set(e, [extractor[e] EXCEPT !.read = @ + 1, !.suites = WithSuites(e, suites),
                                     !.next = @ + CaseCount(suites)])
    /\ \/ marked' = marked \cup {NextFile(e)} /\ UNCHANGED extractionFaults
       \/ ExtractionFault /\ UNCHANGED marked
    /\ UNCHANGED <<framework, contents, shots, suiteRows, caseRows>>

\* Neither the framework nor the keys tell the format; or the fetch fails.
PassOverFile(e) ==
    /\ At(e, "files") /\ extractor[e].read < FileCount
    /\ \/ FormatOf(contents[NextFile(e)]) = "unknown" /\ UNCHANGED extractionFaults
       \/ ExtractionFault
    /\ Set(e, [extractor[e] EXCEPT !.read = @ + 1])
    /\ UNCHANGED <<framework, contents, shots, marked, suiteRows, caseRows>>

EndFiles(e) ==
    /\ At(e, "files") /\ extractor[e].read = FileCount
    /\ Set(e, [extractor[e] EXCEPT !.step = "suite"])
    /\ UNCHANGED <<framework, contents, shots, marked, suiteRows, caseRows,
                   extractionFaults>>

\* The suite that is next, and the key of its row.
NextSuite(e) == extractor[e].suites[extractor[e].written + 1]
Id(e) == <<e, extractor[e].written + 1>>

\* A suite whose row cannot be written loses its cases.
InsertSuite(e) ==
    /\ At(e, "suite") /\ extractor[e].written < Len(extractor[e].suites)
    /\ \/ /\ suiteRows' = suiteRows \cup
               {[id |-> Id(e), title |-> NextSuite(e).title,
                 counts |-> StatusCounts(NextSuite(e).cases, extractor[e].next)]}
          /\ Set(e, [extractor[e] EXCEPT !.step = "cases"])
          /\ UNCHANGED extractionFaults
       \/ /\ ExtractionFault
          /\ Set(e, [extractor[e] EXCEPT !.written = @ + 1])
          /\ UNCHANGED suiteRows
    /\ UNCHANGED <<framework, contents, shots, marked, caseRows>>

\* The file of a case is kept for the properties.
CaseRow(id, suite, n) ==
    [suite |-> id, file |-> suite.file, sequence |-> n, result |-> suite.cases[n]]
Rows(id, suite) == {CaseRow(id, suite, n) : n \in DOMAIN suite.cases}

\* The rows of its cases one after the other; the ones that fail are left out.
InsertResults(e) ==
    /\ At(e, "cases")
    /\ LET rows == Rows(Id(e), NextSuite(e)) IN
       \/ caseRows' = caseRows \cup rows /\ UNCHANGED extractionFaults
       \/ /\ ExtractionFault
          /\ \E row \in rows : caseRows' = caseRows \cup (rows \ {row})
    /\ Set(e, [extractor[e] EXCEPT !.step = "suite", !.written = @ + 1])
    /\ UNCHANGED <<framework, contents, shots, marked, suiteRows>>

\* update_job_duration and what follows belong to ReportPipeline.
EndExtraction(e) ==
    /\ At(e, "suite") /\ extractor[e].written = Len(extractor[e].suites)
    /\ Set(e, [extractor[e] EXCEPT !.step = "end"])
    /\ UNCHANGED <<framework, contents, shots, marked, suiteRows, caseRows,
                   extractionFaults>>

\* Every task has ended and there is nothing left to register.
ExtractionRest ==
    /\ \A e \in Extractor : At(e, "end")
    /\ shots = Shot
    /\ UNCHANGED extractionVars

ExtractionNext ==
    \/ RegisterShot \/ ExtractionRest
    \/ \E e \in Extractor : \/ ReadFiles(e) \/ ReadShots(e) \/ ExtractFile(e)
                            \/ PassOverFile(e) \/ EndFiles(e) \/ InsertSuite(e)
                            \/ InsertResults(e) \/ EndExtraction(e)

ExtractionSpec == ExtractionInit /\ [][ExtractionNext]_extractionVars

------------------------------------------------------------------------------
(* Properties *)

\* How many results a file reports: leaves counted level by level, without
\* regard to suites.
Leaves(Item, own) ==
    LET leaves[n \in 0..Depth] ==
            [suite \in Suites(Item)[n] |->
                own[suite] + Total([i \in DOMAIN suite.suites |->
                                       leaves[n - 1][suite.suites[i]]])]
    IN leaves
CypressLeaves == Leaves(CypressTest, [suite \in Suite(CypressTest) |-> Len(suite.items)])

Larger(a, b) == IF a > b THEN a ELSE b
SpecLeaves(spec) ==
    Total([i \in DOMAIN spec.tests |-> Larger(1, Len(spec.tests[i].results))])
PlaywrightLeaves ==
    Leaves(PlaywrightSpec,
           [suite \in Suite(PlaywrightSpec) |->
               Total([i \in DOMAIN suite.items |-> SpecLeaves(suite.items[i])])])

Reported(document) ==
    CASE FormatOf(document) = "cypress" ->
            Total([i \in DOMAIN document.results |-> CypressLeaves[Depth][document.results[i]]])
      [] FormatOf(document) = "detox" ->
            Total([i \in DOMAIN document.testResults |-> Len(document.testResults[i].tests)])
      [] FormatOf(document) = "playwright" ->
            Total([i \in DOMAIN document.suites |-> PlaywrightLeaves[Depth][document.suites[i]]])
      [] OTHER -> 0

RowsOf(e) == {row \in caseRows : row.suite[1] = e}

\* Nothing is lost or made up between a file and the table: when a task has ended
\* and nothing has failed, every file has as many test cases of that task as it
\* reports results, in whichever format and however deep.
ResultsConserved ==
    \A e \in Extractor : At(e, "end") /\ extractionFaults = 0 =>
        \A file \in 1..FileCount :
            Cardinality({row \in RowsOf(e) : row.file = file}) = Reported(contents[file])

\* The sequence by which screenshots are linked and cases listed orders a task's
\* cases: no two share a number, and the cases of a file stand together, also when
\* files in between are passed over or rows fail.
SequenceOrders ==
    \A e \in Extractor : \A x, y \in RowsOf(e) :
        /\ x.sequence = y.sequence => x = y
        /\ x.file = y.file =>
             \A z \in RowsOf(e) :
                 x.sequence < z.sequence /\ z.sequence < y.sequence => z.file = x.file

\* The counts in test_suites agree with the rows in test_cases: a title counts
\* once, with the status of its last attempt (the earlier of two with the same
\* retry_count), once the cases of the suite are written and nothing has failed.
CountsMatchCases ==
    extractionFaults = 0 =>
        \A row \in suiteRows :
            LET attempts == {c \in caseRows : c.suite = row.id}
                lasts == {c \in attempts :
                            \A d \in attempts : d.result.full = c.result.full =>
                                \/ d.result.retry < c.result.retry
                                \/ /\ d.result.retry = c.result.retry
                                   /\ d.sequence >= c.sequence}
                Number(statuses) == Cardinality({c \in lasts : c.result.status \in statuses})
            IN attempts # {} =>
                 row.counts = [total |-> Cardinality(lasts), passed |-> Number({"passed"}),
                               failed |-> Number({"failed", "timedOut"}),
                               skipped |-> Number({"skipped"}), flaky |-> Number({"flaky"})]

\* An attachment leads to a screenshot if the task has seen one: it is missing only
\* if no screenshot the task has read has its name; the screenshot it names, in a file
\* of Playwright behind prefixes that normalize_attachment_path drops, is preferred to
\* one that merely ends alike; and what it leads to is registered.
Known(e) == {extractor[e].map[i] : i \in DOMAIN extractor[e].map}
Plain(dirs) == dirs = <<>> \/ dirs[1] \notin {"..", "."}
Names(path, shot, document) ==
    /\ path.name = shot.name
    /\ IF FormatOf(document) # "playwright" THEN path.dirs = shot.dirs
       ELSE /\ Plain(shot.dirs)
            /\ \E p \in {<<>>} \cup Prefixed :
                 \/ path.dirs = AttachmentPrefix \o p \o shot.dirs
                 \/ path.dirs = p \o shot.dirs /\ ~ IsPrefix(AttachmentPrefix, path.dirs)
AttachmentsFound ==
    \A e \in Extractor : \A row \in RowsOf(e) : \A i \in DOMAIN row.result.attachments :
        LET a == row.result.attachments[i] IN
        /\ a.missing => \A s \in Known(e) : s.name # a.path.name
        /\ \A s \in Known(e) : Names(a.path, s, contents[row.file]) => a.found = {s}
        /\ a.found \subseteq shots
==============================================================================
