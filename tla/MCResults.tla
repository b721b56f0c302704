----------------------------- MODULE MCResults -----------------------------
(* Instances of ScreenshotLinking and ResultExtraction for TLC.  The two      *)
(* describe the same tasks and share no variable: in a run one of them moves. *)
EXTENDS ScreenshotLinking, ResultExtraction, TLC, Sequences

CONSTANTS c1, c2, f1, f2

\* The task inserts both test cases.
AllCases == [t \in Tasks |-> Case]

\* c1 comes first and matches f1 alone, c2 matches both screenshots.
SomeMatch == {<<f1, c1>>, <<f1, c2>>, <<f2, c2>>}
OneThenTwo == c1 :> 1 @@ c2 :> 2

------------------------------------------------------------------------------
(* Files: one in each format, one whose keys tell no format, and one that is  *)
(* no JSON; the names of two screenshots end alike.                           *)

CiPrefix == <<"ci">>
InFolder == [dirs |-> <<"login">>, name |-> <<"1", ".png">>]
AtTop == [dirs |-> <<>>, name |-> <<"1", "1", ".png">>]
Shots == {InFolder, AtTop}
Below(dirs, path) == [path EXCEPT !.dirs = dirs \o @]

OfCypress(title, flags, state, context) ==
    [title |-> title, fullTitle |-> "", flags |-> flags, state |-> state, context |-> context]
InnerSuite == [title |-> "inner", file |-> "", items |-> <<OfCypress("b", {"skipped"}, "", <<>>)>>,
               suites |-> <<>>]
OuterSuite == [title |-> "outer", file |-> "",
               items |-> <<OfCypress("a", {"pass"}, "", <<InFolder>>)>>,
               suites |-> <<InnerSuite>>]
CypressFile ==
    CypressDocument({"stats"}, <<[title |-> "root", file |-> "", suites |-> <<OuterSuite>>,
                                  items |-> <<OfCypress("c", {}, "passed", <<>>)>>]>>)

OfDetox(ancestors, name, status) ==
    [ancestors |-> ancestors, fullName |-> name, status |-> status]
JestFile ==
    DetoxDocument({"numTotalTests"},
        <<[path |-> "", tests |-> <<OfDetox(<<"s">>, "x", "passed"), OfDetox(<<>>, "y", "todo"),
                                    OfDetox(<<"s">>, "z", "failed")>>],
          [path |-> "f", tests |-> <<OfDetox(<<>>, "y", "passed")>>]>>)

Attempt(status, retry, attachments) ==
    [status |-> status, retry |-> retry, attachments |-> attachments]
OfPlaywright(project, status, results) ==
    [project |-> project, status |-> status, results |-> results]
\* A test that is flaky; one without attempts; and two with the same title.
FlakyTest ==
    OfPlaywright("web", "flaky",
        <<Attempt("timedOut", 0, <<Below(<<"ci", "..", "output">>, InFolder),
                                   Below(<<"..", "..", "x">>, AtTop)>>),
          Attempt("passed", 1, <<>>)>>)
Describe ==
    [title |-> "describe", file |-> "g", suites |-> <<>>, items |->
        <<[title |-> "t", tests |-> <<OfPlaywright("web", "skipped", <<>>)>>],
          [title |-> "u", tests |->
              <<OfPlaywright("", "unexpected", <<Attempt("interrupted", 0, <<>>)>>),
                OfPlaywright("", "expected", <<Attempt("passed", 0, <<>>)>>)>>]>>]
PlaywrightFile ==
    PlaywrightDocument({"config"}, <<[title |-> "", file |-> "f", suites |-> <<Describe>>,
                                      items |-> <<[title |-> "t", tests |-> <<FlakyTest>>]>>]>>)

Files == {CypressFile, JestFile, PlaywrightFile,
          [PlaywrightFile EXCEPT !.keys = {"suites"}], Unreadable}

------------------------------------------------------------------------------
VARIABLE kind   \* what moves in this run

ResultsInit ==
    /\ kind \in {"linking", "extraction"}
    /\ LinkInit /\ ExtractionInit
    /\ kind = "linking" => /\ framework = "jest"
                           /\ contents = [i \in 1..FileCount |-> Unreadable]
ResultsNext ==
    \/ kind = "linking" /\ LinkNext /\ UNCHANGED <<kind, extractionVars>>
    \/ kind = "extraction" /\ ExtractionNext /\ UNCHANGED <<kind, linkVars>>
ResultsSpec == ResultsInit /\ [][ResultsNext]_<<kind, linkVars, extractionVars>>

Symmetry == Permutations(Inits) \cup Permutations(Uploads)
=============================================================================
