----------------------- MODULE ResultExtraction_proofs -----------------------
(* Proofs about the tasks of ResultExtraction, for any files, tasks,          *)
(* screenshots and failures: their inductive invariant, and the four          *)
(* properties of the rows they write.  What they extract from a file is the   *)
(* subject of ExtractedSuites_proofs.                                         *)
EXTENDS ExtractedSuites_proofs

------------------------------------------------------------------------------
(* The inductive invariant, and a file extracted *)

\* The state of a task that has read the files of its job.
FoundSuite == [file : 1..FileCount, title : Seq(Text), cases : CaseMap(Case)]
Steps == {"shots", "files", "suite", "cases", "end"}
Task == [step : Steps, files : Seq(1..FileCount), read : 0..FileCount, next : Nat,
         suites : Seq(FoundSuite), written : Nat, map : Seq(Path)]

\* It has every file of the job once.
EveryFileOnce(t) ==
    /\ DOMAIN t.files = 1..FileCount
    /\ \A p, q \in 1..FileCount : t.files[p] = t.files[q] => p = q
    /\ \A file \in 1..FileCount : \E p \in 1..FileCount : t.files[p] = file

\* It writes suites only after all files have been read, and all of them.
InStep(t) ==
    /\ t.step = "shots" => t.read = 0
    /\ t.step \in {"shots", "files"} => t.written = 0
    /\ t.step \notin {"shots", "files"} => t.read = FileCount
    /\ t.written <= Len(t.suites)
    /\ t.step = "cases" => t.written < Len(t.suites)
    /\ t.step = "end" => t.written = Len(t.suites)

\* The suites are of files read, no number is given twice or is one to be given,
\* and numbers grow from file to file.
NumbersInOrder(t) ==
    /\ \A i \in DOMAIN t.suites : \E p \in 1..t.read : t.suites[i].file = t.files[p]
    /\ \A i \in DOMAIN t.suites : GivenBefore(t.suites[i].cases, t.next)
    /\ \A i, j \in DOMAIN t.suites :
          i # j => DOMAIN t.suites[i].cases \cap DOMAIN t.suites[j].cases = {}
    /\ \A i, j \in DOMAIN t.suites : \A p, q \in 1..t.read :
          p < q /\ t.suites[i].file = t.files[p] /\ t.suites[j].file = t.files[q] =>
             \A m \in DOMAIN t.suites[i].cases, n \in DOMAIN t.suites[j].cases : m < n

\* The numbers given to the cases of a file.
NumbersOf(t, file) ==
    UNION {DOMAIN t.suites[i].cases : i \in {i \in DOMAIN t.suites : t.suites[i].file = file}}

\* Every case of a file has been made of that file and of the screenshots seen.
CasesMade(t) ==
    \A i \in DOMAIN t.suites : \A n \in DOMAIN t.suites[i].cases :
        t.suites[i].cases[n] \in MadeOf(contents[t.suites[i].file], t.map)
NothingLost(t) ==
    \A p \in 1..t.read :
        Cardinality(NumbersOf(t, t.files[p])) = Reported(contents[t.files[p]])

TaskInv(t) ==
    /\ t \in Task /\ EveryFileOnce(t) /\ InStep(t) /\ NumbersInOrder(t)
    /\ t.map \in Seq(shots) /\ CasesMade(t)
    /\ extractionFaults = 0 => NothingLost(t)

\* The rows of a task are cases of the suites it has written.
RowsInv(e) ==
    /\ \A row \in RowsOf(e) : /\ extractor[e] # Reserved
                              /\ \E k \in 1..extractor[e].written :
                                    row \in Rows(<<e, k>>, extractor[e].suites[k])
    /\ extractionFaults = 0 /\ extractor[e] # Reserved =>
          \A k \in 1..extractor[e].written :
              Rows(<<e, k>>, extractor[e].suites[k]) \subseteq caseRows

\* Where a task is when the row of its suite k has been written.
HasRow(t, k) ==
    /\ t.step \in {"suite", "cases", "end"}
    /\ k \in 1..Len(t.suites)
    /\ k <= t.written \/ (t.step = "cases" /\ k = t.written + 1)
SuiteRowInv(row) ==
    \E e \in Extractor : \E k \in Nat :
        /\ extractor[e] # Reserved /\ HasRow(extractor[e], k)
        /\ row.id = <<e, k>>
        /\ row.counts = StatusCounts(extractor[e].suites[k].cases, extractor[e].next)

ExtractionInv ==
    /\ contents \in [1..FileCount -> Document]
    /\ shots \in SUBSET Shot /\ IsFiniteSet(shots)
    /\ extractionFaults \in Nat
    /\ DOMAIN extractor = Extractor
    /\ \A e \in Extractor : extractor[e] = Reserved \/ TaskInv(extractor[e])
    /\ \A e \in Extractor : RowsInv(e)
    /\ \A row \in suiteRows : SuiteRowInv(row)

\* What cases are made of does not change: neither the framework nor the files do.
LEMMA MadeStays ==
  ASSUME NEW t, UNCHANGED <<framework, contents>>
  PROVE  CasesMade(t)' <=> CasesMade(t)
BY DEF CasesMade, MadeOf, FormatOf

\* Nor does what they report.
LEMMA LostStays ==
  ASSUME NEW t, UNCHANGED <<framework, contents>>
  PROVE  NothingLost(t)' <=> NothingLost(t)
BY DEF NothingLost, Reported, FormatOf

\* The fields of a task and of the suites it has found.
LEMMA FoundFields ==
  ASSUME NEW t \in Task
  PROVE  /\ t.step \in Steps /\ t.files \in Seq(1..FileCount) /\ t.read \in 0..FileCount
         /\ t.next \in Nat /\ t.suites \in Seq(FoundSuite) /\ t.written \in Nat
            /\ t.map \in Seq(Path)
         /\ DOMAIN t.suites = 1..Len(t.suites) /\ Len(t.suites) \in Nat
         /\ \A i \in DOMAIN t.suites :
               /\ t.suites[i].file \in 1..FileCount
               /\ DOMAIN t.suites[i].cases \subseteq Nat
               /\ \A n \in DOMAIN t.suites[i].cases : t.suites[i].cases[n] \in Case
<1>1. /\ t.step \in Steps /\ t.files \in Seq(1..FileCount) /\ t.read \in 0..FileCount
      /\ t.next \in Nat /\ t.suites \in Seq(FoundSuite) /\ t.written \in Nat
         /\ t.map \in Seq(Path)
  BY DEF Task
<1>2. /\ DOMAIN t.suites = 1..Len(t.suites) /\ Len(t.suites) \in Nat
      /\ \A i \in DOMAIN t.suites : t.suites[i] \in FoundSuite
  BY <1>1
<1>3. ASSUME NEW s \in FoundSuite
      PROVE  /\ s.file \in 1..FileCount
             /\ DOMAIN s.cases \subseteq Nat /\ \A n \in DOMAIN s.cases : s.cases[n] \in Case
  <2>1. s.file \in 1..FileCount /\ s.cases \in CaseMap(Case)
    BY DEF FoundSuite
  <2> QED BY <2>1, CaseMapOut
<1> QED BY <1>1, <1>2, <1>3

\* The suites of a file, as they are put behind those found before.
FoundIn(file, suites) ==
    [i \in DOMAIN suites |-> [file |-> file, title |-> suites[i].title,
                             cases |-> suites[i].cases]]

\* The suites of a file, one by one.
LEMMA FoundInFacts ==
  ASSUME NEW C, C \subseteq Case, NEW suites \in Seq(Numbered(C)), NEW file \in 1..FileCount
  PROVE  /\ FoundIn(file, suites) \in Seq(FoundSuite)
         /\ Len(FoundIn(file, suites)) = Len(suites)
         /\ \A j \in 1..Len(suites) : /\ FoundIn(file, suites)[j].file = file
                                      /\ FoundIn(file, suites)[j].cases = suites[j].cases
                                      /\ \A n \in DOMAIN suites[j].cases : suites[j].cases[n] \in C
<1>1. /\ DOMAIN suites = 1..Len(suites) /\ Len(suites) \in Nat
      /\ \A j \in 1..Len(suites) : suites[j] \in Numbered(C)
  OBVIOUS
<1>2. ASSUME NEW s \in Numbered(C)
      PROVE  /\ s.title \in Seq(Text) /\ s.cases \in CaseMap(Case)
             /\ \A n \in DOMAIN s.cases : s.cases[n] \in C
  <2>1. s.title \in Seq(Text) /\ s.cases \in CaseMap(C)
    BY DEF Numbered
  <2>2. s.cases \in CaseMap(Case)
    BY <2>1 DEF CaseMap
  <2> QED BY <2>1, <2>2, CaseMapOut
<1>3. \A j \in 1..Len(suites) :
         [file |-> file, title |-> suites[j].title, cases |-> suites[j].cases] \in FoundSuite
  BY <1>1, <1>2 DEF FoundSuite
<1>4. FoundIn(file, suites) \in Seq(FoundSuite) /\ Len(FoundIn(file, suites)) = Len(suites)
  BY <1>1, <1>3 DEF FoundIn
<1>5. \A j \in 1..Len(suites) : /\ FoundIn(file, suites)[j].file = file
                                /\ FoundIn(file, suites)[j].cases = suites[j].cases
  BY <1>1 DEF FoundIn
<1> QED BY <1>1, <1>2, <1>4, <1>5

\* What a task looks like that has extracted the next of its files.
Extracted(t, suites, count) ==
    [t EXCEPT !.read = @ + 1, !.suites = @ \o FoundIn(t.files[t.read + 1], suites),
              !.next = @ + count]

\* A suite is one found before or one of the new ones.
Found(t, u, suites) ==
    /\ \A i \in DOMAIN u.suites :
          \/ i \in DOMAIN t.suites /\ u.suites[i] = t.suites[i]
          \/ \E j \in DOMAIN suites : /\ i = Len(t.suites) + j
                                      /\ u.suites[i].file = t.files[t.read + 1]
                                      /\ u.suites[i].cases = suites[j].cases
    /\ \A i \in DOMAIN t.suites : i \in DOMAIN u.suites /\ u.suites[i] = t.suites[i]
    /\ \A j \in DOMAIN suites : /\ Len(t.suites) + j \in DOMAIN u.suites
                                /\ u.suites[Len(t.suites) + j].file = t.files[t.read + 1]
                                /\ u.suites[Len(t.suites) + j].cases = suites[j].cases

\* ExtractFile reads one file more, and appends its suites.
LEMMA ExtractedFields ==
  ASSUME NEW t \in Task, EveryFileOnce(t), t.read < FileCount, FileCount \in Nat,
         NEW C, C \subseteq Case, NEW suites \in Seq(Numbered(C)), NEW count \in Nat
  PROVE  /\ Extracted(t, suites, count) \in Task
         /\ Extracted(t, suites, count).files = t.files
         /\ Extracted(t, suites, count).map = t.map
         /\ Extracted(t, suites, count).step = t.step
         /\ Extracted(t, suites, count).written = t.written
         /\ Extracted(t, suites, count).read = t.read + 1
         /\ Extracted(t, suites, count).next = t.next + count
         /\ Found(t, Extracted(t, suites, count), suites)
         /\ \A j \in DOMAIN suites : \A n \in DOMAIN suites[j].cases : suites[j].cases[n] \in C
<1> DEFINE file == t.files[t.read + 1]
           new == FoundIn(file, suites)
           old == t.suites
           u == Extracted(t, suites, count)
<1>1. t.read + 1 \in 1..FileCount /\ t.read \in 0..FileCount /\ t.next \in Nat
  BY FoundFields
<1>2. file \in 1..FileCount
  <2>1. DOMAIN t.files = 1..FileCount /\ t.files \in Seq(1..FileCount)
    BY FoundFields DEF EveryFileOnce
  <2>2. \A k \in DOMAIN t.files : t.files[k] \in 1..FileCount
    BY <2>1
  <2> QED BY <1>1, <2>1, <2>2
<1> HIDE DEF file
<1>3. /\ new \in Seq(FoundSuite) /\ Len(new) = Len(suites)
      /\ \A j \in 1..Len(suites) : /\ new[j].file = file
                                   /\ new[j].cases = suites[j].cases
                                   /\ \A n \in DOMAIN suites[j].cases : suites[j].cases[n] \in C
  BY <1>2, FoundInFacts
<1>4. old \in Seq(FoundSuite)
  BY FoundFields
<1> HIDE DEF new, old
<1>5. /\ old \o new \in Seq(FoundSuite)
      /\ DOMAIN (old \o new) = 1..(Len(old) + Len(new))
      /\ \A i \in 1..Len(old) : (old \o new)[i] = old[i]
      /\ \A j \in 1..Len(new) : (old \o new)[Len(old) + j] = new[j]
  <2>1. old \o new \in Seq(FoundSuite) /\ Len(old \o new) = Len(old) + Len(new)
    BY <1>3, <1>4
  <2>2. \A i \in 1..Len(old) : (old \o new)[i] = old[i]
    BY <1>3, <1>4
  <2>3. \A j \in 1..Len(new) : (old \o new)[Len(old) + j] = new[j]
    BY <1>3, <1>4
  <2> QED BY <2>1, <2>2, <2>3
<1>6. u = [t EXCEPT !.read = t.read + 1, !.suites = old \o new, !.next = t.next + count]
  BY DEF Extracted, old, new, file
<1>7. /\ u \in Task /\ u.files = t.files /\ u.map = t.map /\ u.step = t.step
      /\ u.written = t.written /\ u.read = t.read + 1 /\ u.next = t.next + count
      /\ u.suites = old \o new
  <2>1. t.read + 1 \in 0..FileCount /\ t.next + count \in Nat
    BY <1>1
  <2> HIDE DEF u
  <2> QED BY <1>5, <1>6, <2>1 DEF Task
<1> HIDE DEF u
<1>8. Found(t, u, suites)
  <2>1. /\ DOMAIN old = 1..Len(old) /\ Len(old) \in Nat /\ DOMAIN suites = 1..Len(suites)
        /\ Len(suites) \in Nat /\ Len(new) = Len(suites)
    BY <1>3, <1>4
  <2>2. ASSUME NEW i \in DOMAIN u.suites
        PROVE  \/ i \in DOMAIN old /\ u.suites[i] = old[i]
               \/ \E j \in DOMAIN suites : /\ i = Len(old) + j
                                           /\ u.suites[i].file = file
                                           /\ u.suites[i].cases = suites[j].cases
    <3>1. CASE i \in 1..Len(old)
      BY <1>5, <1>7, <2>1, <3>1
    <3>2. CASE i \notin 1..Len(old)
      <4>1. PICK j \in 1..Len(suites) : i = Len(old) + j
        <5>1. i \in 1..(Len(old) + Len(suites))
          BY <1>5, <1>7, <2>1
        <5>2. i - Len(old) \in 1..Len(suites) /\ i = Len(old) + (i - Len(old))
          BY <2>1, <3>2, <5>1
        <5> QED BY <5>2
      <4> QED BY SMTT(30), <1>3, <1>5, <1>7, <2>1, <4>1
    <3> QED BY <3>1, <3>2
  <2>3. \A i \in DOMAIN old : i \in DOMAIN u.suites /\ u.suites[i] = old[i]
    BY <1>5, <1>7, <2>1
  <2>4. \A j \in DOMAIN suites : /\ Len(old) + j \in DOMAIN u.suites
                                 /\ u.suites[Len(old) + j].file = file
                                 /\ u.suites[Len(old) + j].cases = suites[j].cases
    BY <1>3, <1>5, <1>7, <2>1
  <2> QED BY <2>2, <2>3, <2>4 DEF Found, old, file
<1>9. \A j \in DOMAIN suites : \A n \in DOMAIN suites[j].cases : suites[j].cases[n] \in C
  BY <1>3
<1> QED BY <1>7, <1>8, <1>9 DEF u

\* The numbers of the new suites are those from global_sequence on.
LEMMA NewNumbers ==
  ASSUME NEW suites, NEW first \in Nat, NEW count \in Nat, Spread(suites, first, count)
  PROVE  /\ \A j \in DOMAIN suites : \A n \in DOMAIN suites[j].cases :
               n \in Nat /\ n >= first /\ n < first + count
         /\ \A n \in first..(first + count - 1) :
               \E j \in DOMAIN suites : n \in DOMAIN suites[j].cases
         /\ \A i, j \in DOMAIN suites : i # j =>
               DOMAIN suites[i].cases \cap DOMAIN suites[j].cases = {}
<1>1. UNION {DOMAIN suites[i].cases : i \in DOMAIN suites} = first..(first + count - 1)
  BY DEF Spread
<1>2. \A j \in DOMAIN suites : \A n \in DOMAIN suites[j].cases : n \in first..(first + count - 1)
  BY <1>1
<1>3. \A n \in first..(first + count - 1) : \E j \in DOMAIN suites : n \in DOMAIN suites[j].cases
  BY <1>1
<1>4. \A i, j \in DOMAIN suites : i # j =>
        DOMAIN suites[i].cases \cap DOMAIN suites[j].cases = {}
  BY DEF Spread
<1> QED BY <1>2, <1>3, <1>4

\* The next file has not been read before.
LEMMA ReadBefore ==
  ASSUME NEW t \in Task, EveryFileOnce(t), NumbersInOrder(t), t.read < FileCount,
         FileCount \in Nat
  PROVE  /\ t.read + 1 \in 1..FileCount /\ t.read \in Nat
         /\ \A p \in 1..t.read : p \in 1..FileCount /\ t.files[p] # t.files[t.read + 1]
         /\ \A i \in DOMAIN t.suites : t.suites[i].file # t.files[t.read + 1]
<1>1. t.read \in 0..FileCount
  BY FoundFields
<1>2. t.read + 1 \in 1..FileCount /\ \A p \in 1..t.read : p \in 1..FileCount /\ p # t.read + 1
  BY <1>1
<1>3. \A p \in 1..t.read : t.files[p] # t.files[t.read + 1]
  BY <1>2 DEF EveryFileOnce
<1>4. \A i \in DOMAIN t.suites : \E p \in 1..t.read : t.suites[i].file = t.files[p]
  BY DEF NumbersInOrder
<1> QED BY <1>1, <1>2, <1>3, <1>4

\* Appending the suites of the next file keeps the numbers in order.
LEMMA ExtractedOrder ==
  ASSUME NEW t \in Task, NEW u \in Task, EveryFileOnce(t), NumbersInOrder(t),
         t.read < FileCount,
         FileCount \in Nat, NEW count \in Nat, NEW suites,
         u.files = t.files, u.read = t.read + 1, u.next = t.next + count,
         Found(t, u, suites), Spread(suites, t.next, count)
  PROVE  NumbersInOrder(u)
<1> DEFINE r == t.read + 1
           Old(i) == i \in DOMAIN t.suites /\ u.suites[i] = t.suites[i]
           New(i, j) == /\ j \in DOMAIN suites /\ i = Len(t.suites) + j
                        /\ u.suites[i].file = t.files[r]
                        /\ u.suites[i].cases = suites[j].cases
<1>1. ASSUME NEW i \in DOMAIN u.suites PROVE Old(i) \/ \E j : New(i, j)
  BY DEF Found
<1>2. /\ t.next \in Nat
      /\ \A j \in DOMAIN suites : \A n \in DOMAIN suites[j].cases :
            n \in Nat /\ n >= t.next /\ n < t.next + count
      /\ \A i, j \in DOMAIN suites : i # j =>
            DOMAIN suites[i].cases \cap DOMAIN suites[j].cases = {}
  <2>1. t.next \in Nat
    BY FoundFields
  <2> QED BY <2>1, NewNumbers
<1>3. /\ r \in 1..FileCount /\ t.read \in Nat
      /\ \A p \in 1..t.read : p \in 1..FileCount /\ t.files[p] # t.files[r]
      /\ \A i \in DOMAIN t.suites : t.suites[i].file # t.files[r]
  BY ReadBefore
<1>4. \A i \in DOMAIN t.suites : \A n \in DOMAIN t.suites[i].cases : n \in Nat /\ n < t.next
  BY DEF NumbersInOrder, GivenBefore
<1>5. ASSUME NEW i \in DOMAIN u.suites PROVE \E p \in 1..u.read : u.suites[i].file = u.files[p]
  <2>1. CASE Old(i)
    <3>1. PICK p \in 1..t.read : t.suites[i].file = t.files[p]
      BY <2>1 DEF NumbersInOrder
    <3> QED BY <1>3, <2>1, <3>1
  <2>2. CASE \E j : New(i, j)
    BY <1>3, <2>2
  <2> QED BY <1>1, <2>1, <2>2
<1>6. ASSUME NEW i \in DOMAIN u.suites PROVE GivenBefore(u.suites[i].cases, u.next)
  <2>1. CASE Old(i)
    BY <1>2, <1>4, <2>1 DEF GivenBefore
  <2>2. CASE \E j : New(i, j)
    BY <1>2, <2>2 DEF GivenBefore
  <2> QED BY <1>1, <2>1, <2>2
<1>7. ASSUME NEW i \in DOMAIN u.suites, NEW j \in DOMAIN u.suites, i # j
      PROVE  DOMAIN u.suites[i].cases \cap DOMAIN u.suites[j].cases = {}
  <2> SUFFICES ASSUME NEW n \in DOMAIN u.suites[i].cases, n \in DOMAIN u.suites[j].cases
               PROVE  FALSE
    OBVIOUS
  <2>1. CASE Old(i) /\ Old(j)
    <3>1. DOMAIN t.suites[i].cases \cap DOMAIN t.suites[j].cases = {}
      BY <1>7, <2>1 DEF NumbersInOrder
    <3> QED BY <2>1, <3>1
  <2>2. ASSUME Old(i), NEW l, New(j, l) PROVE FALSE
    BY <1>2, <1>4, <2>2
  <2>3. ASSUME NEW k, New(i, k), Old(j) PROVE FALSE
    BY <1>2, <1>4, <2>3
  <2>4. ASSUME NEW k, New(i, k), NEW l, New(j, l) PROVE FALSE
    BY <1>2, <1>7, <2>4
  <2> QED BY <1>1, <2>1, <2>2, <2>3, <2>4
<1>8. ASSUME NEW i \in DOMAIN u.suites, NEW j \in DOMAIN u.suites, NEW p \in 1..u.read,
             NEW q \in 1..u.read,
             p < q, u.suites[i].file = u.files[p], u.suites[j].file = u.files[q],
             NEW m \in DOMAIN u.suites[i].cases, NEW n \in DOMAIN u.suites[j].cases
      PROVE  m < n
  <2>1. p \in 1..t.read /\ (q \in 1..t.read \/ q = r)
    BY <1>3, <1>8
  <2>2. Old(i)
    <3>1. u.suites[i].file # t.files[r]
      BY <1>3, <1>8, <2>1
    <3> QED BY <1>1, <3>1
  <2>3. CASE Old(j)
    <3>1. t.suites[j].file # t.files[r]
      BY <1>3, <2>3
    <3>2. q \in 1..t.read
      BY <1>8, <2>1, <2>3, <3>1
    <3>3. /\ t.suites[i].file = t.files[p] /\ t.suites[j].file = t.files[q]
          /\ m \in DOMAIN t.suites[i].cases /\ n \in DOMAIN t.suites[j].cases
      BY <1>8, <2>2, <2>3
    <3> QED BY <1>8, <2>1, <2>2, <2>3, <3>2, <3>3 DEF NumbersInOrder
  <2>4. CASE \E l : New(j, l)
    BY <1>2, <1>4, <2>2, <2>4
  <2> QED BY <1>1, <2>3, <2>4
<1> HIDE DEF Old, New
<1> QED BY <1>5, <1>6, <1>7, <1>8 DEF NumbersInOrder

\* It gives numbers to the next file alone.
LEMMA ExtractedNumbers ==
  ASSUME NEW t \in Task, NEW u, EveryFileOnce(t), NumbersInOrder(t), t.read < FileCount,
         FileCount \in Nat, NEW count \in Nat, NEW suites,
         Found(t, u, suites), Spread(suites, t.next, count)
  PROVE  /\ NumbersOf(u, t.files[t.read + 1]) = t.next..(t.next + count - 1)
         /\ \A p \in 1..t.read : NumbersOf(u, t.files[p]) = NumbersOf(t, t.files[p])
<1> DEFINE f == t.files[t.read + 1]
<1>1. /\ \A p \in 1..t.read : t.files[p] # f
      /\ \A i \in DOMAIN t.suites : t.suites[i].file # f
  BY ReadBefore
<1>2. /\ \A j \in DOMAIN suites : \A n \in DOMAIN suites[j].cases :
            n \in t.next..(t.next + count - 1)
      /\ \A n \in t.next..(t.next + count - 1) :
            \E j \in DOMAIN suites : n \in DOMAIN suites[j].cases
  <2>1. t.next \in Nat
    BY FoundFields
  <2> QED BY <2>1, NewNumbers
<1>3. /\ \A i \in DOMAIN u.suites :
            \/ i \in DOMAIN t.suites /\ u.suites[i] = t.suites[i]
            \/ \E j \in DOMAIN suites : u.suites[i].file = f
                                        /\ u.suites[i].cases = suites[j].cases
      /\ \A i \in DOMAIN t.suites : i \in DOMAIN u.suites /\ u.suites[i] = t.suites[i]
      /\ \A j \in DOMAIN suites : \E i \in DOMAIN u.suites :
            u.suites[i].file = f /\ u.suites[i].cases = suites[j].cases
  BY DEF Found
<1> HIDE DEF f
<1>4. \A n : n \in NumbersOf(u, f) <=> n \in t.next..(t.next + count - 1)
  <2>1. ASSUME NEW n \in NumbersOf(u, f) PROVE n \in t.next..(t.next + count - 1)
    <3>1. PICK i \in DOMAIN u.suites : u.suites[i].file = f /\ n \in DOMAIN u.suites[i].cases
      BY DEF NumbersOf
    <3> QED BY <1>1, <1>2, <1>3, <3>1
  <2>2. ASSUME NEW n \in t.next..(t.next + count - 1) PROVE n \in NumbersOf(u, f)
    <3>1. PICK i \in DOMAIN u.suites : u.suites[i].file = f /\ n \in DOMAIN u.suites[i].cases
      BY <1>2, <1>3
    <3> QED BY <3>1 DEF NumbersOf
  <2> QED BY <2>1, <2>2
<1>5. ASSUME NEW p \in 1..t.read PROVE NumbersOf(u, t.files[p]) = NumbersOf(t, t.files[p])
  <2> DEFINE g == t.files[p]
  <2>0. g # f
    BY <1>1
  <2> HIDE DEF g
  <2>1. ASSUME NEW n \in NumbersOf(u, g) PROVE n \in NumbersOf(t, g)
    <3>1. PICK i \in DOMAIN u.suites : u.suites[i].file = g /\ n \in DOMAIN u.suites[i].cases
      BY DEF NumbersOf
    <3>2. i \in DOMAIN t.suites /\ u.suites[i] = t.suites[i]
      BY <1>3, <2>0, <3>1
    <3> QED BY <3>1, <3>2 DEF NumbersOf
  <2>2. ASSUME NEW n \in NumbersOf(t, g) PROVE n \in NumbersOf(u, g)
    <3>1. PICK i \in DOMAIN t.suites : t.suites[i].file = g /\ n \in DOMAIN t.suites[i].cases
      BY DEF NumbersOf
    <3>2. i \in DOMAIN u.suites /\ u.suites[i] = t.suites[i]
      BY <1>3
    <3> QED BY <3>1, <3>2 DEF NumbersOf
  <2>3. NumbersOf(u, g) = NumbersOf(t, g)
    BY <2>1, <2>2
  <2> QED BY <2>3 DEF g
<1>6. NumbersOf(u, f) = t.next..(t.next + count - 1)
  BY <1>4
<1> QED BY <1>5, <1>6 DEF f

------------------------------------------------------------------------------
(* Tasks *)

\* What every step leaves alone, or makes larger.
Grows == /\ UNCHANGED <<framework, contents>>
         /\ shots \subseteq shots'
         /\ extractionFaults' = 0 => extractionFaults = 0

\* A step of a task that extracts nothing keeps what it has extracted.
LEMMA TaskMoves ==
  ASSUME NEW t, TaskInv(t), Grows, NEW u \in Task, InStep(u),
         u.files = t.files, u.read = t.read, u.next = t.next, u.suites = t.suites, u.map = t.map
  PROVE  TaskInv(u)'
<1>1. /\ t \in Task /\ EveryFileOnce(t) /\ NumbersInOrder(t) /\ t.map \in Seq(shots)
         /\ CasesMade(t)
      /\ extractionFaults = 0 => NothingLost(t)
  BY DEF TaskInv
<1>2. EveryFileOnce(u)
  BY <1>1 DEF EveryFileOnce
<1>3. NumbersInOrder(u)
  BY <1>1 DEF NumbersInOrder
<1>4. u.map \in Seq(shots')
  BY <1>1, SeqMonotone DEF Grows
<1>5. CasesMade(u)
  BY <1>1 DEF CasesMade
<1>6. extractionFaults = 0 => NothingLost(u)
  BY <1>1 DEF NothingLost, NumbersOf
<1>7. CasesMade(u)' /\ (NothingLost(u) => NothingLost(u)')
  BY <1>5, MadeStays, LostStays DEF Grows
<1>8. extractionFaults' = 0 => NothingLost(u)'
  BY <1>6, <1>7 DEF Grows
<1> QED BY <1>2, <1>3, <1>4, <1>7, <1>8 DEF TaskInv

\* A step of another task, or a new screenshot, keeps it, too.
LEMMA TaskStays ==
  ASSUME NEW t, TaskInv(t), Grows
  PROVE  TaskInv(t)'
BY TaskMoves DEF TaskInv

\* The invariant of a task that has read the files of its job,
LEMMA FilesRead ==
  ASSUME NEW order \in SetToSeqs(1..FileCount), NEW t,
         t = [step |-> "shots", files |-> order, read |-> 0, next |-> 0,
              suites |-> <<>>, written |-> 0, map |-> <<>>],
         FileCount \in Nat
  PROVE  TaskInv(t)'
<1>1. IsFiniteSet(1..FileCount) /\ Cardinality(1..FileCount) = FileCount
  <2>1. 1 \in Int /\ FileCount \in Int
    OBVIOUS
  <2> QED BY <2>1, FS_Interval
<1> DEFINE S == 1..FileCount
<1>2. /\ order \in Seq(S) /\ DOMAIN order = 1..Cardinality(S)
      /\ \A i, j \in DOMAIN order : order[i] = order[j] => i = j
      /\ \A x \in S : \E i \in DOMAIN order : order[i] = x
  <2>1. IsFiniteSet(S) /\ order \in SetToSeqs(S)
    BY <1>1
  <2> HIDE DEF S
  <2> QED BY <2>1, OrderFacts
<1>3. /\ order \in Seq(1..FileCount) /\ DOMAIN order = 1..FileCount
      /\ \A i, j \in 1..FileCount : order[i] = order[j] => i = j
      /\ \A x \in 1..FileCount : \E i \in 1..FileCount : order[i] = x
  BY <1>1, <1>2
<1>4. /\ t.step = "shots" /\ t.files = order /\ t.read = 0 /\ t.next = 0
      /\ t.suites = <<>> /\ t.written = 0 /\ t.map = <<>>
  OBVIOUS
<1>5. t \in Task
  <2>1. 0 \in 0..FileCount /\ <<>> \in Seq(FoundSuite) /\ <<>> \in Seq(Path)
        /\ "shots" \in Steps
    BY DEF Steps
  <2> QED BY <1>3, <2>1 DEF Task
<1>6. EveryFileOnce(t)
  BY <1>3, <1>4 DEF EveryFileOnce
<1>7. InStep(t)
  BY <1>4 DEF InStep
<1>8. DOMAIN t.suites = {} /\ t.map \in Seq(shots')
  BY <1>4
<1>9. NumbersInOrder(t)
  BY <1>8 DEF NumbersInOrder
<1>10. CasesMade(t)'
  BY <1>8 DEF CasesMade
<1>11. NothingLost(t)'
  BY <1>4 DEF NothingLost
<1> QED BY <1>5, <1>6, <1>7, <1>8, <1>9, <1>10, <1>11 DEF TaskInv

\* of one that has read the screenshots,
LEMMA ShotsRead ==
  ASSUME NEW t, TaskInv(t), t.step = "shots", Grows, NEW map, map \in Seq(shots),
         shots \subseteq Path,
         NEW u, u = [t EXCEPT !.step = "files", !.map = map], FileCount \in Nat
  PROVE  TaskInv(u)'
<1>1. /\ t \in Task /\ EveryFileOnce(t) /\ NumbersInOrder(t) /\ InStep(t)
  BY DEF TaskInv
<1>2. t.read = 0 /\ t.written = 0
  BY <1>1 DEF InStep
<1>3. /\ u.step = "files" /\ u.files = t.files /\ u.read = 0 /\ u.next = t.next
      /\ u.suites = t.suites /\ u.written = 0 /\ u.map = map
  BY <1>1, <1>2 DEF Task
<1>4. map \in Seq(Path) /\ map \in Seq(shots')
  BY SeqMonotone DEF Grows
<1>5. u \in Task
  <2>1. "files" \in Steps
    BY DEF Steps
  <2> QED BY <1>1, <1>4, <2>1 DEF Task
<1>6. EveryFileOnce(u) /\ NumbersInOrder(u)
  BY <1>1, <1>2, <1>3 DEF EveryFileOnce, NumbersInOrder
<1>7. InStep(u)
  <2>1. Len(u.suites) \in Nat
    BY <1>5, FoundFields
  <2> QED BY <1>3, <2>1 DEF InStep
<1>8. DOMAIN u.suites = {}
  BY <1>3, <1>6 DEF NumbersInOrder
<1>9. CasesMade(u)' /\ NothingLost(u)'
  BY <1>3, <1>8 DEF CasesMade, NothingLost
<1> QED BY <1>3, <1>4, <1>5, <1>6, <1>7, <1>9 DEF TaskInv

\* of one that has extracted a file,
LEMMA FileExtracted ==
  ASSUME NEW t, TaskInv(t), t.step = "files", t.read < FileCount, Grows, FileCount \in Nat,
         contents \in [1..FileCount -> Document],
         NEW suites \in Extractions(contents[t.files[t.read + 1]], t.map, t.next),
         NEW u, u = Extracted(t, suites, CaseCount(suites))
  PROVE  TaskInv(u)'
<1> DEFINE f == t.files[t.read + 1]
           document == contents[f]
           count == Reported(document)
           M == MadeOf(document, t.map)
<1>1. /\ t \in Task /\ EveryFileOnce(t) /\ NumbersInOrder(t) /\ InStep(t)
         /\ t.map \in Seq(shots)
      /\ CasesMade(t)
      /\ extractionFaults = 0 => NothingLost(t)
  BY DEF TaskInv
<1>2. t.read + 1 \in 1..FileCount /\ t.read \in Nat
  BY <1>1, ReadBefore
<1>3. f \in 1..FileCount /\ t.map \in Seq(Path) /\ t.next \in Nat
  <2>1. t.files \in Seq(1..FileCount) /\ DOMAIN t.files = 1..FileCount
    BY <1>1, FoundFields DEF EveryFileOnce
  <2>2. \A k \in DOMAIN t.files : t.files[k] \in 1..FileCount
    BY <2>1
  <2> QED BY <1>1, <1>2, <2>1, <2>2, FoundFields
<1>4. document \in Document
  BY <1>3
<1>5. /\ suites \in Seq(Numbered(M)) /\ Spread(suites, t.next, count) /\ count \in Nat
  BY <1>3, <1>4, EveryResultNumberedOnce
<1>6. M \subseteq Case
  BY DEF MadeOf, Made
<1> HIDE DEF count, M
<1>7. u = Extracted(t, suites, count)
  BY <1>3, <1>5, SpreadCount
<1>8. /\ u \in Task /\ u.files = t.files /\ u.map = t.map /\ u.step = t.step
      /\ u.written = t.written /\ u.read = t.read + 1 /\ u.next = t.next + count
      /\ Found(t, u, suites)
      /\ \A j \in DOMAIN suites : \A n \in DOMAIN suites[j].cases : suites[j].cases[n] \in M
  BY <1>1, <1>5, <1>6, <1>7, ExtractedFields
<1>9. EveryFileOnce(u)
  BY <1>1, <1>8 DEF EveryFileOnce
<1>10. NumbersInOrder(u)
  BY <1>1, <1>5, <1>8, ExtractedOrder
<1>11. InStep(u)
  <2>1. Len(u.suites) \in Nat
    BY <1>8, FoundFields
  <2>2. u.step = "files" /\ u.written = 0
    BY <1>1, <1>8 DEF InStep
  <2> QED BY <2>1, <2>2 DEF InStep
<1>12. u.map \in Seq(shots')
  BY <1>1, <1>8, SeqMonotone DEF Grows
<1>13. CasesMade(u)
  <2> SUFFICES ASSUME NEW i \in DOMAIN u.suites, NEW n \in DOMAIN u.suites[i].cases
               PROVE  u.suites[i].cases[n] \in MadeOf(contents[u.suites[i].file], u.map)
    BY DEF CasesMade
  <2>1. CASE i \in DOMAIN t.suites /\ u.suites[i] = t.suites[i]
    BY <1>1, <1>8, <2>1 DEF CasesMade
  <2>2. ASSUME NEW j \in DOMAIN suites, u.suites[i].file = f,
               u.suites[i].cases = suites[j].cases
        PROVE  u.suites[i].cases[n] \in MadeOf(contents[u.suites[i].file], u.map)
    <3>1. u.suites[i].cases[n] \in M
      BY <1>8, <2>2
    <3>2. M = MadeOf(contents[u.suites[i].file], u.map)
      BY <1>8, <2>2 DEF M
    <3> QED BY <3>1, <3>2
  <2> QED BY <1>8, <2>1, <2>2 DEF Found
<1>14. CASE extractionFaults = 0
  <2>1. ASSUME NEW p \in 1..u.read
        PROVE  Cardinality(NumbersOf(u, u.files[p])) = Reported(contents[u.files[p]])
    <3>1. /\ NumbersOf(u, f) = t.next..(t.next + count - 1)
          /\ \A k \in 1..t.read : NumbersOf(u, t.files[k]) = NumbersOf(t, t.files[k])
      BY <1>1, <1>5, <1>8, ExtractedNumbers
    <3>2. CASE p \in 1..t.read
      BY <1>1, <1>8, <1>14, <3>1, <3>2 DEF NothingLost
    <3>3. CASE p = t.read + 1
      <4>1. t.next \in Int /\ t.next + count - 1 \in Int
        BY <1>3, <1>5
      <4>2. Cardinality(t.next..(t.next + count - 1))
              = IF t.next > t.next + count - 1 THEN 0 ELSE (t.next + count - 1) - t.next + 1
        BY <4>1, FS_Interval
      <4>3. Cardinality(NumbersOf(u, f)) = count
        BY <1>3, <1>5, <3>1, <4>2
      <4> QED BY <1>8, <3>3, <4>3 DEF count
    <3> QED BY <1>2, <1>8, <3>2, <3>3
  <2>2. NothingLost(u)
    BY <2>1 DEF NothingLost
  <2> QED BY <1>8, <1>9, <1>10, <1>11, <1>12, <1>13, <2>2, MadeStays, LostStays DEF TaskInv,
             Grows
<1>15. CASE extractionFaults # 0
  BY <1>8, <1>9, <1>10, <1>11, <1>12, <1>13, <1>15, MadeStays DEF TaskInv, Grows
<1> QED BY <1>14, <1>15

\* and of one that has passed over a file.
LEMMA FilePassedOver ==
  ASSUME NEW t, TaskInv(t), t.step = "files", t.read < FileCount, Grows, FileCount \in Nat,
         extractionFaults' = 0 => FormatOf(contents[t.files[t.read + 1]]) = "unknown",
         NEW u, u = [t EXCEPT !.read = @ + 1]
  PROVE  TaskInv(u)'
<1> DEFINE f == t.files[t.read + 1]
<1>1. /\ t \in Task /\ EveryFileOnce(t) /\ NumbersInOrder(t) /\ InStep(t)
         /\ t.map \in Seq(shots)
      /\ CasesMade(t)
      /\ extractionFaults = 0 => NothingLost(t)
  BY DEF TaskInv
<1>2. t.read + 1 \in 1..FileCount /\ t.read \in Nat /\ t.next \in Nat
  BY <1>1, ReadBefore, FoundFields
<1>3. /\ u.files = t.files /\ u.map = t.map /\ u.step = t.step /\ u.suites = t.suites
      /\ u.written = t.written /\ u.read = t.read + 1 /\ u.next = t.next + 0
  BY <1>1, <1>2 DEF Task
<1>4. u \in Task
  <2>1. t.read + 1 \in 0..FileCount
    BY <1>2
  <2> QED BY <1>1, <2>1 DEF Task
<1>5. Found(t, u, <<>>) /\ Spread(<<>>, t.next, 0)
  <2>1. DOMAIN << >> = {}
    OBVIOUS
  <2>2. t.next..(t.next + 0 - 1) = {}
    BY <1>2
  <2> QED BY <1>3, <2>1, <2>2 DEF Found, Spread
<1>6. EveryFileOnce(u)
  BY <1>1, <1>3 DEF EveryFileOnce
<1>7. NumbersInOrder(u)
  BY <1>1, <1>3, <1>4, <1>5, ExtractedOrder
<1>8. InStep(u)
  <2>1. Len(u.suites) \in Nat
    BY <1>4, FoundFields
  <2>2. u.step = "files" /\ u.written = 0
    BY <1>1, <1>3 DEF InStep
  <2> QED BY <2>1, <2>2 DEF InStep
<1>9. u.map \in Seq(shots')
  BY <1>1, <1>3, SeqMonotone DEF Grows
<1>10. CasesMade(u)
  BY <1>1, <1>3 DEF CasesMade
<1>11. CASE extractionFaults' = 0
  <2>1. ASSUME NEW p \in 1..u.read
        PROVE  Cardinality(NumbersOf(u, u.files[p])) = Reported(contents[u.files[p]])
    <3>1. /\ NumbersOf(u, f) = t.next..(t.next + 0 - 1)
          /\ \A k \in 1..t.read : NumbersOf(u, t.files[k]) = NumbersOf(t, t.files[k])
      BY <1>1, <1>5, ExtractedNumbers
    <3>2. CASE p \in 1..t.read
      BY <1>1, <1>3, <1>11, <3>1, <3>2 DEF NothingLost, Grows
    <3>3. CASE p = t.read + 1
      <4>1. t.next..(t.next + 0 - 1) = {}
        BY <1>2
      <4>2. Cardinality({}) = 0
        BY FS_EmptySet
      <4>3. Reported(contents[f]) = 0
        BY <1>11, ReportedCases
      <4> QED BY <1>3, <3>1, <3>3, <4>1, <4>2, <4>3
    <3> QED BY <1>2, <1>3, <3>2, <3>3
  <2>2. NothingLost(u)
    BY <2>1 DEF NothingLost
  <2> QED BY <1>4, <1>6, <1>7, <1>8, <1>9, <1>10, <2>2, MadeStays, LostStays DEF TaskInv, Grows
<1>12. CASE extractionFaults' # 0
  BY <1>4, <1>6, <1>7, <1>8, <1>9, <1>10, <1>12, MadeStays DEF TaskInv, Grows
<1> QED BY <1>11, <1>12

------------------------------------------------------------------------------
(* Rows, and the step of one task *)

\* The rows of a task stay when another task writes rows,
LEMMA RowsStay ==
  ASSUME NEW e, RowsInv(e), Grows, extractor'[e] = extractor[e], caseRows \subseteq caseRows',
         \A row \in caseRows' : row \in caseRows \/ row.suite[1] # e
  PROVE  RowsInv(e)'
<1>1. RowsOf(e)' = RowsOf(e)
  BY DEF RowsOf
<1>2. /\ \A row \in RowsOf(e) : /\ extractor[e] # Reserved
                                /\ \E k \in 1..extractor[e].written :
                                      row \in Rows(<<e, k>>, extractor[e].suites[k])
      /\ extractionFaults = 0 /\ extractor[e] # Reserved =>
            \A k \in 1..extractor[e].written :
                Rows(<<e, k>>, extractor[e].suites[k]) \subseteq caseRows
  BY DEF RowsInv
<1> QED BY <1>1, <1>2 DEF RowsInv, Grows

\* are those of the suites it has written when it writes more,
LEMMA RowsMove ==
  ASSUME NEW e, RowsInv(e), Grows, NEW t, t = extractor[e], t # Reserved,
         NEW u, u = extractor'[e], u # Reserved,
         t.written \in Nat, u.written \in Nat, t.written <= u.written,
         \A k \in 1..t.written : u.suites[k] = t.suites[k],
         caseRows \subseteq caseRows',
         \A row \in caseRows' : \/ row \in caseRows
                                \/ \E k \in 1..u.written : row \in Rows(<<e, k>>, u.suites[k]),
         extractionFaults' = 0 =>
             \A k \in 1..u.written :
                k \in 1..t.written \/ Rows(<<e, k>>, u.suites[k]) \subseteq caseRows'
  PROVE  RowsInv(e)'
<1>1. \A k \in 1..t.written : k \in 1..u.written
  OBVIOUS
<1>2. /\ \A row \in RowsOf(e) : \E k \in 1..t.written : row \in Rows(<<e, k>>, t.suites[k])
      /\ extractionFaults = 0 =>
           \A k \in 1..t.written : Rows(<<e, k>>, t.suites[k]) \subseteq caseRows
  BY DEF RowsInv
<1>3. \A row \in RowsOf(e)' : \E k \in 1..u.written : row \in Rows(<<e, k>>, u.suites[k])
  <2> SUFFICES ASSUME NEW row \in RowsOf(e)', row \in caseRows
               PROVE  \E k \in 1..u.written : row \in Rows(<<e, k>>, u.suites[k])
    BY DEF RowsOf
  <2>1. row \in RowsOf(e)
    BY DEF RowsOf
  <2>2. PICK k \in 1..t.written : row \in Rows(<<e, k>>, t.suites[k])
    BY <1>2, <2>1
  <2> QED BY <1>1, <2>2
<1>4. ASSUME extractionFaults' = 0, NEW k \in 1..u.written
      PROVE  Rows(<<e, k>>, u.suites[k]) \subseteq caseRows'
  <2>1. CASE k \in 1..t.written
    <3>1. Rows(<<e, k>>, t.suites[k]) \subseteq caseRows
      BY <1>2, <1>4, <2>1 DEF Grows
    <3> QED BY <2>1, <3>1
  <2>2. CASE k \notin 1..t.written
    BY <1>4, <2>2
  <2> QED BY <2>1, <2>2
<1> QED BY <1>3, <1>4 DEF RowsInv

\* and there are none when it begins.
LEMMA RowsBegin ==
  ASSUME NEW e, RowsInv(e), UNCHANGED caseRows, extractor[e] = Reserved,
         extractor'[e].written = 0
  PROVE  RowsInv(e)'
<1>1. RowsOf(e)' = {}
  BY DEF RowsInv, RowsOf
<1>2. 1..0 = {}
  OBVIOUS
<1> QED BY <1>1, <1>2 DEF RowsInv

\* A row of test_suites stays true when the task moves on.
LEMMA SuiteRowMoves ==
  ASSUME NEW row, SuiteRowInv(row), NEW e,
         \A d \in Extractor : d # e => extractor'[d] = extractor[d],
         NEW t, t = extractor[e], NEW u, u = extractor'[e],
         t # Reserved => /\ u # Reserved
                         /\ \A k \in Nat : HasRow(t, k) =>
                               HasRow(u, k) /\ u.suites[k] = t.suites[k] /\ u.next = t.next
  PROVE  SuiteRowInv(row)'
<1>1. PICK d \in Extractor, k \in Nat :
         /\ extractor[d] # Reserved /\ HasRow(extractor[d], k)
         /\ row.id = <<d, k>>
         /\ row.counts = StatusCounts(extractor[d].suites[k].cases, extractor[d].next)
  BY DEF SuiteRowInv
<1>2. CASE d = e
  <2>1. u # Reserved /\ HasRow(u, k) /\ u.suites[k] = t.suites[k] /\ u.next = t.next
    BY <1>1, <1>2
  <2> QED BY <1>1, <1>2, <2>1 DEF SuiteRowInv
<1>3. CASE d # e
  <2>1. extractor'[d] = extractor[d]
    BY <1>3
  <2> QED BY <1>1, <2>1 DEF SuiteRowInv
<1> QED BY <1>2, <1>3

\* The conjuncts of the invariant that are about all tasks.
LEMMA InvParts ==
  ASSUME ExtractionInv
  PROVE  /\ contents \in [1..FileCount -> Document]
         /\ shots \in SUBSET Shot /\ IsFiniteSet(shots) /\ shots \subseteq Path
         /\ extractionFaults \in Nat /\ DOMAIN extractor = Extractor
         /\ \A e \in Extractor : RowsInv(e) /\ (extractor[e] = Reserved \/ TaskInv(extractor[e]))
         /\ \A row \in suiteRows : SuiteRowInv(row)
         /\ FileCount \in Nat
BY ExtractionConstants DEF ExtractionInv

\* It holds when the job has no rows.
LEMMA InitInv == ASSUME ExtractionInit PROVE ExtractionInv
<1>1. contents \in [1..FileCount -> Document]
  BY ExtractionConstants DEF ExtractionInit
<1>2. IsFiniteSet({})
  BY FS_EmptySet
<1>3. ASSUME NEW e \in Extractor PROVE extractor[e] = Reserved /\ RowsInv(e)
  BY DEF ExtractionInit, RowsInv, RowsOf
<1> QED BY <1>1, <1>2, <1>3 DEF ExtractionInit, ExtractionInv

\* A step of one task: the others' parts stay.
LEMMA OneMoves ==
  ASSUME ExtractionInv, NEW e \in Extractor, NEW t, t = extractor[e], NEW u,
         extractor' = [extractor EXCEPT ![e] = u],
         UNCHANGED <<framework, contents, shots>>, extractionFaults' \in Nat,
         extractionFaults' = 0 => extractionFaults = 0,
         TaskInv(u)', RowsInv(e)', caseRows \subseteq caseRows',
         \A row \in caseRows' : row \in caseRows \/ row.suite[1] = e,
         t # Reserved => /\ u # Reserved
                         /\ \A k \in Nat : HasRow(t, k) =>
                               HasRow(u, k) /\ u.suites[k] = t.suites[k] /\ u.next = t.next,
         \A row \in suiteRows' : row \in suiteRows \/ SuiteRowInv(row)'
  PROVE  ExtractionInv'
<1>1. /\ contents \in [1..FileCount -> Document]
      /\ shots \in SUBSET Shot /\ IsFiniteSet(shots)
      /\ DOMAIN extractor = Extractor
      /\ \A d \in Extractor : RowsInv(d) /\ (extractor[d] = Reserved \/ TaskInv(extractor[d]))
      /\ \A row \in suiteRows : SuiteRowInv(row)
  BY InvParts
<1>2. /\ DOMAIN extractor' = Extractor /\ extractor'[e] = u
      /\ \A d \in Extractor : d # e => extractor'[d] = extractor[d]
  BY <1>1
<1>3. Grows
  BY DEF Grows
<1>4. ASSUME NEW d \in Extractor
      PROVE  RowsInv(d)' /\ (extractor'[d] = Reserved \/ TaskInv(extractor[d])')
  <2>1. CASE d = e
    BY <1>2, <2>1
  <2>2. CASE d # e
    <3>1. PICK s : s = extractor[d]
      OBVIOUS
    <3>2. extractor'[d] = s
      BY <1>2, <2>2, <3>1
    <3>3. s = Reserved \/ TaskInv(s)'
      BY <1>1, <1>3, <3>1, TaskStays
    <3>4. \A row \in caseRows' : row \in caseRows \/ row.suite[1] # d
      BY <2>2
    <3>5. RowsInv(d)'
      BY <1>1, <1>3, <3>1, <3>2, <3>4, RowsStay
    <3> QED BY <3>2, <3>3, <3>5
  <2> QED BY <2>1, <2>2
<1>5. ASSUME NEW row \in suiteRows' PROVE SuiteRowInv(row)'
  <2>1. CASE row \in suiteRows
    BY <1>1, <1>2, <2>1, SuiteRowMoves
  <2> QED BY <2>1
<1> QED BY <1>1, <1>2, <1>4, <1>5 DEF ExtractionInv

------------------------------------------------------------------------------
(* The actions *)

\* What the invariant says of a task that is at work.
LEMMA Working ==
  ASSUME ExtractionInv, NEW e \in Extractor, NEW t, t = extractor[e],
         t.step \in {"shots", "files", "suite", "cases", "end"}
  PROVE  /\ t # Reserved /\ TaskInv(t) /\ t \in Task /\ InStep(t)
         /\ t.read \in 0..FileCount /\ t.next \in Nat /\ t.written \in Nat
         /\ t.suites \in Seq(FoundSuite) /\ Len(t.suites) \in Nat
<1>1. t # Reserved
  BY DEF Reserved
<1>2. TaskInv(t) /\ t \in Task /\ InStep(t)
  BY <1>1, InvParts DEF TaskInv
<1> QED BY <1>1, <1>2, FoundFields

\* A task that reads has no rows, and only its record changes.
LEMMA Reads ==
  ASSUME ExtractionInv, NEW e \in Extractor, NEW t, t = extractor[e],
         t.step \in {"shots", "files"},
         NEW u, extractor' = [extractor EXCEPT ![e] = u], u.written = 0,
         u.step \in {"files", "suite"}, TaskInv(u)',
         UNCHANGED <<framework, contents, shots, suiteRows, caseRows>>,
         extractionFaults' \in Nat, extractionFaults' = 0 => extractionFaults = 0
  PROVE  ExtractionInv'
<1>1. t # Reserved /\ t.written = 0
  BY Working DEF InStep
<1>2. u # Reserved
  BY DEF Reserved
<1>3. RowsInv(e) /\ extractor'[e] = u
  BY InvParts
<1>4. RowsInv(e)'
  <2>1. \A k : k \notin 1..0
    OBVIOUS
  <2>2. Grows
    BY DEF Grows
  <2> QED BY <1>1, <1>2, <1>3, <2>1, <2>2, RowsMove
<1>5. \A k \in Nat : ~ HasRow(t, k)
  BY DEF HasRow
<1> QED BY <1>1, <1>2, <1>4, <1>5, OneMoves

\* ReadFiles keeps the invariant.
LEMMA ReadFilesInv ==
  ASSUME ExtractionInv, NEW e \in Extractor, ReadFiles(e)
  PROVE  ExtractionInv'
<1>1. /\ extractor[e] = Reserved
         /\ UNCHANGED <<framework, contents, shots, marked, suiteRows, caseRows,
            extractionFaults>>
      /\ \E order \in SetToSeqs(1..FileCount) :
           extractor' = [extractor EXCEPT ![e] =
                [step |-> "shots", files |-> order, read |-> 0, next |-> 0,
                 suites |-> <<>>, written |-> 0, map |-> <<>>]]
  BY DEF ReadFiles, Set
<1>2. PICK order \in SetToSeqs(1..FileCount) :
           extractor' = [extractor EXCEPT ![e] =
                [step |-> "shots", files |-> order, read |-> 0, next |-> 0,
                 suites |-> <<>>, written |-> 0, map |-> <<>>]]
  BY <1>1
<1>3. PICK u : u = [step |-> "shots", files |-> order, read |-> 0, next |-> 0,
                    suites |-> <<>>, written |-> 0, map |-> <<>>]
  OBVIOUS
<1>4. TaskInv(u)'
  BY <1>3, FilesRead, InvParts
<1>5. extractor'[e] = u /\ u.written = 0
  BY <1>2, <1>3, InvParts
<1>6. RowsInv(e)'
  BY <1>1, <1>5, RowsBegin, InvParts
<1> QED BY <1>1, <1>2, <1>3, <1>4, <1>6, OneMoves, InvParts

\* ReadShots keeps it.
LEMMA ReadShotsInv ==
  ASSUME ExtractionInv, NEW e \in Extractor, ReadShots(e)
  PROVE  ExtractionInv'
<1>1. PICK t : t = extractor[e]
  OBVIOUS
<1>2. /\ t.step = "shots"
      /\ UNCHANGED <<framework, contents, shots, marked, suiteRows, caseRows>>
      /\ \/ /\ \E order \in SetToSeqs(shots) :
                 extractor' = [extractor EXCEPT ![e] =
                     [t EXCEPT !.step = "files", !.map = order]]
            /\ UNCHANGED extractionFaults
         \/ /\ ExtractionFault
            /\ extractor' = [extractor EXCEPT ![e] = [t EXCEPT !.step = "files"]]
  BY <1>1 DEF ReadShots, At, Set
<1>3. TaskInv(t) /\ t \in Task /\ InStep(t) /\ t.map \in Seq(shots)
  BY <1>1, <1>2, Working DEF TaskInv
<1>4. PICK map, u :
         /\ map \in Seq(shots) /\ u = [t EXCEPT !.step = "files", !.map = map]
         /\ extractor' = [extractor EXCEPT ![e] = u]
         /\ extractionFaults' \in Nat
         /\ extractionFaults' = 0 => extractionFaults = 0
  <2>1. ASSUME NEW order \in SetToSeqs(shots), UNCHANGED extractionFaults,
               extractor' = [extractor EXCEPT ![e] = [t EXCEPT !.step = "files", !.map = order]]
        PROVE  \E map, u :
                  /\ map \in Seq(shots) /\ u = [t EXCEPT !.step = "files", !.map = map]
                  /\ extractor' = [extractor EXCEPT ![e] = u]
                  /\ extractionFaults' \in Nat
                  /\ extractionFaults' = 0 => extractionFaults = 0
    <3>1. order \in Seq(shots)
      BY OrderFacts, InvParts
    <3> QED BY <2>1, <3>1, InvParts
  <2>2. ASSUME ExtractionFault,
               extractor' = [extractor EXCEPT ![e] = [t EXCEPT !.step = "files"]]
        PROVE  \E map, u :
                  /\ map \in Seq(shots) /\ u = [t EXCEPT !.step = "files", !.map = map]
                  /\ extractor' = [extractor EXCEPT ![e] = u]
                  /\ extractionFaults' \in Nat
                  /\ extractionFaults' = 0 => extractionFaults = 0
    <3>1. [t EXCEPT !.step = "files"] = [t EXCEPT !.step = "files", !.map = t.map]
      BY <1>3 DEF Task
    <3>2. extractionFaults' \in Nat /\ (extractionFaults' = 0 => extractionFaults = 0)
      BY <2>2, InvParts DEF ExtractionFault
    <3>3. PICK u : u = [t EXCEPT !.step = "files", !.map = t.map]
      OBVIOUS
    <3>4. extractor' = [extractor EXCEPT ![e] = u]
      BY <2>2, <3>1, <3>3
    <3> QED BY <1>3, <3>2, <3>3, <3>4
  <2> QED BY <1>2, <2>1, <2>2
<1>5. TaskInv(u)'
  <2>1. Grows
    BY <1>2, <1>4 DEF Grows
  <2> QED BY <1>2, <1>3, <1>4, <2>1, ShotsRead, InvParts
<1>6. u.written = 0 /\ u.step = "files"
  BY <1>2, <1>3, <1>4 DEF Task, InStep
<1> QED BY <1>1, <1>2, <1>4, <1>5, <1>6, Reads

\* ExtractFile keeps it.
LEMMA ExtractFileInv ==
  ASSUME ExtractionInv, NEW e \in Extractor, ExtractFile(e)
  PROVE  ExtractionInv'
<1>1. PICK t : t = extractor[e]
  OBVIOUS
<1>2. /\ t.step = "files" /\ t.read < FileCount
      /\ UNCHANGED <<framework, contents, shots, suiteRows, caseRows>>
      /\ \E suites \in Extractions(contents[t.files[t.read + 1]], t.map, t.next) :
           extractor' = [extractor EXCEPT ![e] = Extracted(t, suites, CaseCount(suites))]
      /\ UNCHANGED extractionFaults \/ ExtractionFault
  BY ZenonT(30), <1>1 DEF ExtractFile, At, Set, NextFile, WithSuites, Extracted, FoundIn
<1>3. extractionFaults' \in Nat /\ (extractionFaults' = 0 => extractionFaults = 0)
  BY <1>2, InvParts DEF ExtractionFault
<1>4. PICK suites \in Extractions(contents[t.files[t.read + 1]], t.map, t.next) :
           extractor' = [extractor EXCEPT ![e] = Extracted(t, suites, CaseCount(suites))]
  BY <1>2
<1>5. PICK u : u = Extracted(t, suites, CaseCount(suites))
  OBVIOUS
<1>6. TaskInv(t) /\ t \in Task /\ InStep(t)
  BY <1>1, <1>2, Working
<1>7. TaskInv(u)'
  <2>1. Grows
    BY <1>2, <1>3 DEF Grows
  <2> QED BY <1>2, <1>4, <1>5, <1>6, <2>1, FileExtracted, InvParts
<1>8. u.written = 0 /\ u.step = "files"
  BY <1>2, <1>5, <1>6 DEF Extracted, Task, InStep
<1> QED BY <1>1, <1>2, <1>3, <1>4, <1>5, <1>7, <1>8, Reads

\* PassOverFile keeps it.
LEMMA PassOverFileInv ==
  ASSUME ExtractionInv, NEW e \in Extractor, PassOverFile(e)
  PROVE  ExtractionInv'
<1>1. PICK t : t = extractor[e]
  OBVIOUS
<1>2. /\ t.step = "files" /\ t.read < FileCount
      /\ UNCHANGED <<framework, contents, shots, suiteRows, caseRows>>
      /\ extractor' = [extractor EXCEPT ![e] = [t EXCEPT !.read = @ + 1]]
      /\ \/ FormatOf(contents[t.files[t.read + 1]]) = "unknown" /\ UNCHANGED extractionFaults
         \/ ExtractionFault
  BY <1>1 DEF PassOverFile, At, Set, NextFile
<1>3. /\ extractionFaults' \in Nat
      /\ extractionFaults' = 0 => /\ extractionFaults = 0
                                  /\ FormatOf(contents[t.files[t.read + 1]]) = "unknown"
  BY <1>2, InvParts DEF ExtractionFault
<1>4. PICK u : u = [t EXCEPT !.read = @ + 1]
  OBVIOUS
<1>5. TaskInv(t) /\ t \in Task /\ InStep(t)
  BY <1>1, <1>2, Working
<1>6. TaskInv(u)'
  <2>1. Grows
    BY <1>2, <1>3 DEF Grows
  <2> QED BY <1>2, <1>3, <1>4, <1>5, <2>1, FilePassedOver, InvParts
<1>7. u.written = 0 /\ u.step = "files"
  BY <1>2, <1>4, <1>5 DEF Task, InStep
<1> QED BY <1>1, <1>2, <1>3, <1>4, <1>6, <1>7, Reads

\* EndFiles keeps it.
LEMMA EndFilesInv ==
  ASSUME ExtractionInv, NEW e \in Extractor, EndFiles(e)
  PROVE  ExtractionInv'
<1>1. PICK t : t = extractor[e]
  OBVIOUS
<1>2. /\ t.step = "files" /\ t.read = FileCount
      /\ UNCHANGED <<framework, contents, shots, suiteRows, caseRows, extractionFaults>>
      /\ extractor' = [extractor EXCEPT ![e] = [t EXCEPT !.step = "suite"]]
  BY <1>1 DEF EndFiles, At, Set
<1>3. /\ TaskInv(t) /\ t \in Task /\ t.written = 0 /\ Len(t.suites) \in Nat
  BY <1>1, <1>2, Working DEF InStep
<1>4. PICK u : u = [t EXCEPT !.step = "suite", !.written = 0]
  OBVIOUS
<1>5. u = [t EXCEPT !.step = "suite"]
  BY <1>3, <1>4 DEF Task
<1>6. /\ u \in Task /\ u.files = t.files /\ u.read = t.read /\ u.next = t.next
      /\ u.suites = t.suites /\ u.map = t.map /\ u.step = "suite" /\ u.written = 0
  BY <1>3, <1>4 DEF Task, Steps
<1>7. InStep(u)
  BY <1>2, <1>3, <1>6 DEF InStep
<1>8. TaskInv(u)'
  <2>1. Grows
    BY <1>2 DEF Grows
  <2> QED BY <1>3, <1>6, <1>7, <2>1, TaskMoves
<1> QED BY <1>1, <1>2, <1>5, <1>6, <1>8, Reads, InvParts

\* A row tells its suite, its file and its number.
LEMMA RowsId ==
  ASSUME NEW id, NEW suite, NEW row \in Rows(id, suite)
  PROVE  row.suite = id /\ row.file = suite.file /\ row.sequence \in DOMAIN suite.cases
         /\ row.result = suite.cases[row.sequence]
BY DEF Rows, CaseRow

\* RegisterShot keeps it.
LEMMA RegisterShotInv == ASSUME ExtractionInv, RegisterShot PROVE ExtractionInv'
<1>1. PICK shot \in Shot \ shots : shots' = shots \cup {shot}
  BY DEF RegisterShot
<1>2. UNCHANGED <<framework, contents, extractor, marked, suiteRows, caseRows,
      extractionFaults>>
  BY DEF RegisterShot
<1>3. /\ contents \in [1..FileCount -> Document]
      /\ shots \in SUBSET Shot /\ IsFiniteSet(shots)
      /\ extractionFaults \in Nat /\ DOMAIN extractor = Extractor
      /\ \A d \in Extractor : RowsInv(d) /\ (extractor[d] = Reserved \/ TaskInv(extractor[d]))
      /\ \A row \in suiteRows : SuiteRowInv(row)
  BY InvParts
<1>4. shots' \in SUBSET Shot /\ IsFiniteSet(shots')
  BY <1>1, <1>3, FS_AddElement
<1>5. Grows
  BY <1>1, <1>2 DEF Grows
<1>6. ASSUME NEW d \in Extractor
      PROVE  RowsInv(d)' /\ (extractor'[d] = Reserved \/ TaskInv(extractor[d])')
  <2>1. PICK s : s = extractor[d]
    OBVIOUS
  <2>2. s = Reserved \/ TaskInv(s)'
    BY <1>3, <1>5, <2>1, TaskStays
  <2>3. RowsInv(d)'
    BY <1>2, <1>3, <1>5, RowsStay
  <2> QED BY <1>2, <2>1, <2>2, <2>3
<1>7. ASSUME NEW row \in suiteRows PROVE SuiteRowInv(row)'
  BY <1>2, <1>3 DEF SuiteRowInv
<1> QED BY <1>2, <1>3, <1>4, <1>6, <1>7 DEF ExtractionInv

\* InsertSuite keeps it: one row for the suite that is next, or none.
LEMMA InsertSuiteInv ==
  ASSUME ExtractionInv, NEW e \in Extractor, InsertSuite(e)
  PROVE  ExtractionInv'
<1>1. PICK t : t = extractor[e]
  OBVIOUS
<1>2. PICK k : k = t.written + 1
  OBVIOUS
<1>3. /\ t.step = "suite" /\ t.written < Len(t.suites)
      /\ UNCHANGED <<framework, contents, shots, caseRows>>
      /\ \/ /\ suiteRows' = suiteRows \cup
                 {[id |-> <<e, k>>, title |-> t.suites[k].title,
                   counts |-> StatusCounts(t.suites[k].cases, t.next)]}
            /\ extractor' = [extractor EXCEPT ![e] = [t EXCEPT !.step = "cases"]]
            /\ UNCHANGED extractionFaults
         \/ /\ ExtractionFault
            /\ extractor' = [extractor EXCEPT ![e] = [t EXCEPT !.written = t.written + 1]]
            /\ UNCHANGED suiteRows
  BY <1>1, <1>2 DEF InsertSuite, At, Set, Id, NextSuite
<1>4. /\ TaskInv(t) /\ t \in Task /\ InStep(t) /\ t # Reserved /\ t.written \in Nat
      /\ Len(t.suites) \in Nat /\ t.read = FileCount
  BY <1>1, <1>3, Working DEF InStep
<1>5. k \in Nat /\ k \in 1..Len(t.suites) /\ \A j \in 1..k : j \in 1..t.written \/ j = k
  BY <1>2, <1>3, <1>4
<1>6. RowsInv(e)
  BY InvParts
<1>7. ASSUME suiteRows' = suiteRows \cup
                 {[id |-> <<e, k>>, title |-> t.suites[k].title,
                   counts |-> StatusCounts(t.suites[k].cases, t.next)]},
             extractor' = [extractor EXCEPT ![e] = [t EXCEPT !.step = "cases"]],
             UNCHANGED extractionFaults
      PROVE  ExtractionInv'
  <2>1. PICK u : u = [t EXCEPT !.step = "cases"]
    OBVIOUS
  <2>2. /\ u \in Task /\ u.files = t.files /\ u.read = t.read /\ u.next = t.next
        /\ u.suites = t.suites /\ u.map = t.map /\ u.step = "cases" /\ u.written = t.written
    BY <1>4, <2>1 DEF Task, Steps
  <2>3. InStep(u) /\ u # Reserved
    BY <1>3, <1>4, <2>2 DEF InStep, Reserved
  <2>4. Grows
    BY <1>3, <1>7 DEF Grows
  <2>5. TaskInv(u)'
    BY <1>4, <2>2, <2>3, <2>4, TaskMoves
  <2>6. extractor'[e] = u
    BY <1>7, <2>1, InvParts
  <2>7. RowsInv(e)'
    BY <1>1, <1>3, <1>4, <1>6, <2>2, <2>3, <2>4, <2>6, RowsMove
  <2>8. \A j \in Nat : HasRow(t, j) =>
                          HasRow(u, j) /\ u.suites[j] = t.suites[j] /\ u.next = t.next
    BY <1>3, <1>4, <2>2 DEF HasRow
  <2>9. ASSUME NEW row \in suiteRows', row \notin suiteRows PROVE SuiteRowInv(row)'
    <3>1. row.id = <<e, k>> /\ row.counts = StatusCounts(u.suites[k].cases, u.next)
      BY <1>7, <2>2, <2>9
    <3>2. HasRow(u, k)
      BY <1>2, <1>5, <2>2 DEF HasRow
    <3> QED BY <1>5, <2>3, <2>6, <3>1, <3>2 DEF SuiteRowInv
  <2>10. extractor' = [extractor EXCEPT ![e] = u] /\ extractionFaults' \in Nat
    BY <1>7, <2>1, InvParts
  <2> QED BY <1>1, <1>3, <1>7, <2>3, <2>5, <2>7, <2>8, <2>9, <2>10, OneMoves
<1>8. ASSUME ExtractionFault, UNCHANGED suiteRows,
             extractor' = [extractor EXCEPT ![e] = [t EXCEPT !.written = t.written + 1]]
      PROVE  ExtractionInv'
  <2>1. PICK u : u = [t EXCEPT !.written = k]
    OBVIOUS
  <2>2. /\ u \in Task /\ u.files = t.files /\ u.read = t.read /\ u.next = t.next
        /\ u.suites = t.suites /\ u.map = t.map /\ u.step = "suite" /\ u.written = k
    BY <1>3, <1>4, <1>5, <2>1 DEF Task, Steps
  <2>3. InStep(u) /\ u # Reserved
    BY <1>2, <1>3, <1>4, <2>2 DEF InStep, Reserved
  <2>4. extractionFaults' \in Nat /\ extractionFaults' # 0
    BY <1>8, InvParts DEF ExtractionFault
  <2>5. Grows
    BY <1>3, <2>4 DEF Grows
  <2>6. TaskInv(u)'
    BY <1>4, <2>2, <2>3, <2>5, TaskMoves
  <2>7. extractor'[e] = u
    BY <1>2, <1>8, <2>1, InvParts
  <2>8. RowsInv(e)'
    BY <1>1, <1>2, <1>3, <1>4, <1>5, <1>6, <2>2, <2>3, <2>4, <2>5, <2>7, RowsMove
  <2>9. \A j \in Nat : HasRow(t, j) => HasRow(u, j)
    BY <1>2, <1>3, <1>4, <2>2 DEF HasRow
  <2> QED BY <1>1, <1>2, <1>3, <1>4, <1>8, <2>1, <2>2, <2>3, <2>4, <2>6, <2>8, <2>9, OneMoves
<1> QED BY <1>2, <1>3, <1>7, <1>8

\* InsertResults keeps it: all rows of the suite, or a failure.
LEMMA InsertResultsInv ==
  ASSUME ExtractionInv, NEW e \in Extractor, InsertResults(e)
  PROVE  ExtractionInv'
<1>1. PICK t : t = extractor[e]
  OBVIOUS
<1>2. PICK k : k = t.written + 1
  OBVIOUS
<1>3. PICK rows : rows = Rows(<<e, k>>, t.suites[k])
  OBVIOUS
<1>4. /\ t.step = "cases" /\ UNCHANGED <<framework, contents, shots, suiteRows>>
      /\ extractor' = [extractor EXCEPT ![e] =
            [t EXCEPT !.step = "suite", !.written = t.written + 1]]
      /\ \/ caseRows' = caseRows \cup rows /\ UNCHANGED extractionFaults
         \/ /\ ExtractionFault
            /\ \E row \in rows : caseRows' = caseRows \cup (rows \ {row})
  BY <1>1, <1>2, <1>3 DEF InsertResults, At, Set, Id, NextSuite
<1>5. /\ TaskInv(t) /\ t \in Task /\ InStep(t) /\ t # Reserved /\ t.written \in Nat
      /\ Len(t.suites) \in Nat /\ t.read = FileCount /\ t.written < Len(t.suites)
  BY <1>1, <1>4, Working DEF InStep
<1>6. k \in Nat /\ k \in 1..Len(t.suites) /\ \A j \in 1..k : j \in 1..t.written \/ j = k
  BY <1>2, <1>5
<1>7. RowsInv(e)
  BY InvParts
<1>8. /\ extractionFaults' \in Nat
      /\ extractionFaults' = 0 => extractionFaults = 0 /\ rows \subseteq caseRows'
      /\ caseRows \subseteq caseRows' /\ caseRows' \subseteq caseRows \cup rows
  BY <1>4, InvParts DEF ExtractionFault
<1>9. PICK u : u = [t EXCEPT !.step = "suite", !.written = k]
  OBVIOUS
<1>10. /\ u \in Task /\ u.files = t.files /\ u.read = t.read /\ u.next = t.next
       /\ u.suites = t.suites /\ u.map = t.map /\ u.step = "suite" /\ u.written = k
  BY <1>5, <1>6, <1>9 DEF Task, Steps
<1>11. InStep(u) /\ u # Reserved
  BY <1>2, <1>5, <1>10 DEF InStep, Reserved
<1>12. Grows
  BY <1>4, <1>8 DEF Grows
<1>13. TaskInv(u)'
  BY <1>5, <1>10, <1>11, <1>12, TaskMoves
<1>14. extractor'[e] = u
  BY <1>2, <1>4, <1>9, InvParts
<1>15. RowsInv(e)'
  <2>1. k \in 1..k
    BY <1>2, <1>5
  <2>2. \A row \in caseRows' : \/ row \in caseRows
                               \/ \E j \in 1..u.written : row \in Rows(<<e, j>>, u.suites[j])
    BY <1>3, <1>8, <1>10, <2>1
  <2>3. extractionFaults' = 0 =>
           \A j \in 1..u.written :
              j \in 1..t.written \/ Rows(<<e, j>>, u.suites[j]) \subseteq caseRows'
    BY <1>3, <1>6, <1>8, <1>10
  <2>4. t.written <= u.written
    BY <1>2, <1>5, <1>10
  <2> QED BY <1>1, <1>5, <1>6, <1>7, <1>8, <1>10, <1>11, <1>12, <1>14, <2>2, <2>3, <2>4,
             RowsMove
<1>16. \A row \in caseRows' : row \in caseRows \/ row.suite[1] = e
  <2>1. \A row \in rows : row.suite[1] = e
    BY <1>3, RowsId
  <2> QED BY <1>8, <2>1
<1>17. \A j \in Nat : HasRow(t, j) => HasRow(u, j)
  BY <1>2, <1>4, <1>5, <1>10 DEF HasRow
<1> QED BY ZenonT(30), <1>1, <1>2, <1>4, <1>5, <1>8, <1>9, <1>10, <1>11, <1>13, <1>15, <1>16, <1>17,
           OneMoves

\* EndExtraction keeps it.
LEMMA EndExtractionInv ==
  ASSUME ExtractionInv, NEW e \in Extractor, EndExtraction(e)
  PROVE  ExtractionInv'
<1>1. PICK t : t = extractor[e]
  OBVIOUS
<1>2. /\ t.step = "suite" /\ t.written = Len(t.suites)
      /\ UNCHANGED <<framework, contents, shots, suiteRows, caseRows, extractionFaults>>
      /\ extractor' = [extractor EXCEPT ![e] = [t EXCEPT !.step = "end"]]
  BY <1>1 DEF EndExtraction, At, Set
<1>3. /\ TaskInv(t) /\ t \in Task /\ InStep(t) /\ t # Reserved /\ t.written \in Nat
      /\ Len(t.suites) \in Nat /\ t.read = FileCount
  BY <1>1, <1>2, Working DEF InStep
<1>4. RowsInv(e)
  BY InvParts
<1>5. PICK u : u = [t EXCEPT !.step = "end"]
  OBVIOUS
<1>6. /\ u \in Task /\ u.files = t.files /\ u.read = t.read /\ u.next = t.next
      /\ u.suites = t.suites /\ u.map = t.map /\ u.step = "end" /\ u.written = t.written
  BY <1>3, <1>5 DEF Task, Steps
<1>7. InStep(u) /\ u # Reserved
  BY <1>2, <1>3, <1>6 DEF InStep, Reserved
<1>8. Grows
  BY <1>2 DEF Grows
<1>9. TaskInv(u)'
  BY <1>3, <1>6, <1>7, <1>8, TaskMoves
<1>10. extractor'[e] = u
  BY <1>2, <1>5, InvParts
<1>11. RowsInv(e)'
  BY <1>1, <1>2, <1>3, <1>4, <1>6, <1>7, <1>8, <1>10, RowsMove
<1>12. \A j \in Nat : HasRow(t, j) => HasRow(u, j)
  BY <1>2, <1>3, <1>6 DEF HasRow
<1> QED BY <1>1, <1>2, <1>3, <1>5, <1>6, <1>7, <1>9, <1>11, <1>12, OneMoves, InvParts

\* Every task numbers its cases in order, file by file, has made each of the file it is
\* in and of the screenshots it knows, and has written a prefix of its suites: this
\* invariant of extract_job is inductive, and the four theorems below follow from it.
THEOREM ExtractionInvariant == ExtractionSpec => []ExtractionInv
<1>1. ExtractionInit => ExtractionInv
  BY InitInv
<1>2. ASSUME ExtractionInv, [ExtractionNext]_extractionVars PROVE ExtractionInv'
  <2>1. CASE RegisterShot
    BY <1>2, <2>1, RegisterShotInv
  <2>2. CASE \E e \in Extractor : \/ ReadFiles(e) \/ ReadShots(e) \/ ExtractFile(e)
                                  \/ PassOverFile(e) \/ EndFiles(e) \/ InsertSuite(e)
                                  \/ InsertResults(e) \/ EndExtraction(e)
    BY <1>2, <2>2, ReadFilesInv, ReadShotsInv, ExtractFileInv, PassOverFileInv, EndFilesInv,
       InsertSuiteInv, InsertResultsInv, EndExtractionInv
  <2>3. CASE UNCHANGED extractionVars
    <3>1. UNCHANGED <<framework, contents, shots, extractor, marked, suiteRows, caseRows,
          extractionFaults>>
      BY <2>3 DEF extractionVars
    <3>2. Grows
      BY <3>1 DEF Grows
    <3>3. ASSUME NEW d \in Extractor
          PROVE  RowsInv(d)' /\ (extractor'[d] = Reserved \/ TaskInv(extractor[d])')
      <4>1. PICK s : s = extractor[d]
        OBVIOUS
      <4>2. s = Reserved \/ TaskInv(s)'
        BY <1>2, <3>2, <4>1, TaskStays, InvParts
      <4>3. RowsInv(d)'
        BY <1>2, <3>1, <3>2, RowsStay, InvParts
      <4> QED BY <3>1, <4>1, <4>2, <4>3
    <3>4. ASSUME NEW row \in suiteRows PROVE SuiteRowInv(row)'
      BY <1>2, <3>1, InvParts DEF SuiteRowInv
    <3> QED BY <1>2, <3>1, <3>3, <3>4, InvParts DEF ExtractionInv
  <2>4. CASE ExtractionRest
    <3>1. UNCHANGED extractionVars
      BY <2>4 DEF ExtractionRest
    <3> QED BY <2>3, <3>1
  <2> QED BY <1>2, <2>1, <2>2, <2>3, <2>4 DEF ExtractionNext
<1> QED BY <1>1, <1>2, PTL DEF ExtractionSpec

------------------------------------------------------------------------------
(* The properties *)

\* Which suite and number a row of a task is.
Origin(row, id, suite) ==
    /\ row \in Rows(id, suite)
    /\ row.file = suite.file
    /\ row.sequence \in DOMAIN suite.cases
    /\ row.result = suite.cases[row.sequence]

\* Every row of a task is a case of a suite it has written.
LEMMA RowOrigin ==
  ASSUME ExtractionInv, NEW e \in Extractor, NEW row \in RowsOf(e), NEW t, t = extractor[e]
  PROVE  /\ t # Reserved /\ TaskInv(t) /\ t \in Task /\ NumbersInOrder(t) /\ EveryFileOnce(t)
         /\ t.written \in Nat /\ t.written <= Len(t.suites)
         /\ DOMAIN t.suites = 1..Len(t.suites) /\ Len(t.suites) \in Nat
         /\ \E k \in 1..t.written :
               k \in DOMAIN t.suites /\ Origin(row, <<e, k>>, t.suites[k])
<1>1. t # Reserved /\ \E k \in 1..t.written : row \in Rows(<<e, k>>, t.suites[k])
  BY InvParts DEF RowsInv
<1>2. TaskInv(t) /\ t \in Task /\ InStep(t) /\ NumbersInOrder(t) /\ EveryFileOnce(t)
  BY <1>1, InvParts DEF TaskInv
<1>3. /\ t.written \in Nat /\ DOMAIN t.suites = 1..Len(t.suites) /\ Len(t.suites) \in Nat
  BY <1>2, FoundFields
<1>4. t.written <= Len(t.suites)
  BY <1>2 DEF InStep
<1>5. PICK k \in 1..t.written : row \in Rows(<<e, k>>, t.suites[k])
  BY <1>1
<1>6. k \in DOMAIN t.suites
  BY <1>3, <1>4
<1>7. Origin(row, <<e, k>>, t.suites[k])
  BY <1>5, RowsId DEF Origin
<1> QED BY <1>1, <1>2, <1>3, <1>4, <1>5, <1>6, <1>7

\* The invariant implies SequenceOrders: suites share no number, and the numbers of a
\* file lie between those of the files before and after.
LEMMA OrderedRows == ASSUME ExtractionInv PROVE SequenceOrders
<1> SUFFICES ASSUME NEW e \in Extractor, NEW x \in RowsOf(e), NEW y \in RowsOf(e)
             PROVE  /\ x.sequence = y.sequence => x = y
                    /\ x.file = y.file =>
                         \A z \in RowsOf(e) :
                             x.sequence < z.sequence /\ z.sequence < y.sequence =>
                               z.file = x.file
  BY DEF SequenceOrders
<1>1. PICK t : t = extractor[e]
  OBVIOUS
<1>2. NumbersInOrder(t) /\ EveryFileOnce(t) /\ t \in Task
  BY <1>1, RowOrigin
<1>3. \A row \in RowsOf(e) : \E k \in DOMAIN t.suites :
         /\ row \in Rows(<<e, k>>, t.suites[k])
         /\ row.file = t.suites[k].file
         /\ row.sequence \in DOMAIN t.suites[k].cases
  BY <1>1, RowOrigin DEF Origin
<1>4. PICK i \in DOMAIN t.suites :
         /\ x \in Rows(<<e, i>>, t.suites[i])
         /\ x.file = t.suites[i].file /\ x.sequence \in DOMAIN t.suites[i].cases
  BY <1>3
<1>5. PICK j \in DOMAIN t.suites :
         /\ y \in Rows(<<e, j>>, t.suites[j])
         /\ y.file = t.suites[j].file /\ y.sequence \in DOMAIN t.suites[j].cases
  BY <1>3
<1>6. ASSUME x.sequence = y.sequence PROVE x = y
  <2>1. i = j
    <3>1. i # j => DOMAIN t.suites[i].cases \cap DOMAIN t.suites[j].cases = {}
      BY <1>2 DEF NumbersInOrder
    <3> QED BY <1>4, <1>5, <1>6, <3>1
  <2> QED BY <1>4, <1>5, <1>6, <2>1 DEF Rows, CaseRow
<1>7. ASSUME x.file = y.file, NEW z \in RowsOf(e), x.sequence < z.sequence,
             z.sequence < y.sequence,
             z.file # x.file
      PROVE  FALSE
  <2>1. PICK k \in DOMAIN t.suites :
           z.file = t.suites[k].file /\ z.sequence \in DOMAIN t.suites[k].cases
    BY <1>3
  <2>2. PICK p \in 1..t.read : t.suites[i].file = t.files[p]
    BY <1>2 DEF NumbersInOrder
  <2>3. PICK q \in 1..t.read : t.suites[k].file = t.files[q]
    BY <1>2 DEF NumbersInOrder
  <2>4. /\ x.sequence \in Nat /\ y.sequence \in Nat /\ z.sequence \in Nat
        /\ t.read \in Nat
    BY SMTT(30), <1>2, <1>4, <1>5, <2>1, FoundFields
  <2>5. p < q \/ q < p
    <3>1. p # q
      BY <1>4, <1>7, <2>1, <2>2, <2>3
    <3> QED BY <2>4, <3>1
  <2>6. CASE p < q
    <3>1. y.sequence < z.sequence
      BY <1>2, <1>4, <1>5, <1>7, <2>1, <2>2, <2>3, <2>6 DEF NumbersInOrder
    <3> QED BY <1>7, <2>4, <3>1
  <2>7. CASE q < p
    <3>1. z.sequence < x.sequence
      BY <1>2, <1>4, <2>1, <2>2, <2>3, <2>7 DEF NumbersInOrder
    <3> QED BY <1>7, <2>4, <3>1
  <2> QED BY <2>5, <2>6, <2>7
<1> QED BY <1>6, <1>7

\* It implies AttachmentsFound: every case has been made with the task's map.
LEMMA FoundAttachments == ASSUME ExtractionInv PROVE AttachmentsFound
<1> SUFFICES ASSUME NEW e \in Extractor, NEW row \in RowsOf(e),
                    NEW i \in DOMAIN row.result.attachments,
                    NEW a, a = row.result.attachments[i]
             PROVE  /\ a.missing => \A s \in Known(e) : s.name # a.path.name
                    /\ \A s \in Known(e) : Names(a.path, s, contents[row.file]) => a.found = {s}
                    /\ a.found \subseteq shots
  BY Zenon DEF AttachmentsFound
<1>1. PICK t : t = extractor[e]
  OBVIOUS
<1>2. PICK k \in DOMAIN t.suites : /\ row.file = t.suites[k].file
                                   /\ row.sequence \in DOMAIN t.suites[k].cases
                                   /\ row.result = t.suites[k].cases[row.sequence]
  <2>1. PICK k \in 1..t.written : k \in DOMAIN t.suites /\ Origin(row, <<e, k>>, t.suites[k])
    BY <1>1, RowOrigin
  <2> QED BY <2>1 DEF Origin
<1>3. CasesMade(t) /\ t.map \in Seq(shots)
  BY <1>1, RowOrigin DEF TaskInv
<1>4. PICK document : document = contents[row.file]
  OBVIOUS
<1>5. row.result \in MadeOf(document, t.map)
  BY <1>2, <1>3, <1>4 DEF CasesMade
<1>6. /\ row.result \in Case
      /\ a = LookedUp(a.path, FormatOf(document) = "playwright", t.map)
  BY <1>5 DEF MadeOf, Made
<1>7. a.path \in Path
  <2>1. row.result.attachments \in Seq(CaseAttachment)
    BY <1>6 DEF Case
  <2>2. a \in CaseAttachment
    BY <2>1
  <2> QED BY <2>2 DEF CaseAttachment
<1>8. shots \subseteq Path
  BY InvParts
<1>9. /\ a.missing => \A j \in DOMAIN t.map : t.map[j].name # a.path.name
      /\ \A j \in DOMAIN t.map : Names(a.path, t.map[j], document) => a.found = {t.map[j]}
      /\ a.found \subseteq {t.map[j] : j \in DOMAIN t.map}
  <2>1. PICK S, map, path : S = shots /\ map = t.map /\ path = a.path
    OBVIOUS
  <2>2. map \in Seq(S) /\ S \subseteq Path /\ path \in Path
    BY <1>3, <1>7, <1>8, <2>1
  <2>3. a = LookedUp(path, FormatOf(document) = "playwright", map)
    BY <1>6, <2>1
  <2>4. LeadsToShot(a, path, document, map)
    BY <2>2, <2>3, AttachmentFacts
  <2> QED BY <2>1, <2>4 DEF LeadsToShot
<1>10. /\ Known(e) = {t.map[j] : j \in DOMAIN t.map}
       /\ \A j \in DOMAIN t.map : t.map[j] \in shots
  BY <1>1, <1>3 DEF Known
<1>11. ASSUME NEW s \in Known(e) PROVE \E j \in DOMAIN t.map : s = t.map[j]
  BY <1>10
<1> QED BY <1>4, <1>9, <1>10, <1>11

\* It implies CountsMatchCases: a suite with one row has all of them.
LEMMA CountedCases == ASSUME ExtractionInv PROVE CountsMatchCases
<1> SUFFICES ASSUME extractionFaults = 0, NEW row \in suiteRows, NEW attempts,
                    attempts = {c \in caseRows : c.suite = row.id}, attempts # {}
             PROVE  row.counts = CountsOf(attempts)
  BY DEF CountsMatchCases, CountsOf, Lasts
<1>1. PICK e \in Extractor, k \in Nat :
         /\ extractor[e] # Reserved /\ HasRow(extractor[e], k)
         /\ row.id = <<e, k>>
         /\ row.counts = StatusCounts(extractor[e].suites[k].cases, extractor[e].next)
  BY InvParts DEF SuiteRowInv
<1>2. PICK t : t = extractor[e]
  OBVIOUS
<1>3. ASSUME NEW c \in attempts PROVE k \in 1..t.written /\ c \in Rows(<<e, k>>, t.suites[k])
  <2>1. c \in RowsOf(e)
    BY <1>1 DEF RowsOf
  <2>2. PICK j \in 1..t.written : c \in Rows(<<e, j>>, t.suites[j])
    BY <1>2, <2>1, RowOrigin DEF Origin
  <2>3. c.suite = <<e, j>> /\ c.suite = <<e, k>>
    BY <1>1, <2>2, RowsId
  <2>4. j = k
    BY <2>3
  <2> QED BY <2>2, <2>4
<1>4. k \in 1..t.written
  BY <1>3
<1>5. Rows(<<e, k>>, t.suites[k]) \subseteq caseRows
  BY <1>1, <1>2, <1>4, InvParts DEF RowsInv
<1>6. attempts = Rows(<<e, k>>, t.suites[k])
  <2>1. \A c \in Rows(<<e, k>>, t.suites[k]) : c.suite = <<e, k>>
    BY RowsId
  <2> QED BY <1>1, <1>3, <1>5, <2>1
<1>7. TaskInv(t) /\ t \in Task /\ NumbersInOrder(t)
  BY <1>1, <1>2, InvParts DEF TaskInv
<1>8. k \in DOMAIN t.suites /\ t.next \in Nat
  BY <1>1, <1>2, <1>7, FoundFields DEF HasRow
<1>9. \A n \in DOMAIN t.suites[k].cases : t.suites[k].cases[n].retry \in Nat
  <2>1. \A n \in DOMAIN t.suites[k].cases : t.suites[k].cases[n] \in Case
    BY <1>7, <1>8, FoundFields
  <2>2. \A case \in Case : case.retry \in Nat
    BY DEF Case
  <2> QED BY <2>1, <2>2
<1>10. GivenBefore(t.suites[k].cases, t.next)
  BY <1>7, <1>8 DEF NumbersInOrder
<1>11. StatusCounts(t.suites[k].cases, t.next) = CountsOf(Rows(<<e, k>>, t.suites[k]))
  BY <1>8, <1>9, <1>10, CountsFacts
<1> QED BY <1>1, <1>2, <1>6, <1>11

\* It implies ResultsConserved: rows and numbers of a file pair off.
LEMMA ConservedResults == ASSUME ExtractionInv PROVE ResultsConserved
<1> SUFFICES ASSUME NEW e \in Extractor, At(e, "end"), extractionFaults = 0,
                    NEW file \in 1..FileCount
             PROVE  Cardinality({row \in RowsOf(e) : row.file = file})
                      = Reported(contents[file])
  BY Zenon DEF ResultsConserved
<1>1. PICK t : t = extractor[e]
  OBVIOUS
<1>2. /\ t # Reserved /\ TaskInv(t) /\ t \in Task /\ InStep(t) /\ t.step = "end"
      /\ DOMAIN t.suites = 1..Len(t.suites) /\ Len(t.suites) \in Nat /\ t.next \in Nat
  BY <1>1, Working, FoundFields DEF At
<1>3. t.written = Len(t.suites) /\ t.read = FileCount
  BY <1>2 DEF InStep
<1>4. EveryFileOnce(t) /\ NumbersInOrder(t) /\ NothingLost(t)
  BY <1>2 DEF TaskInv
<1> DEFINE N == NumbersOf(t, file)
           R == {row \in RowsOf(e) : row.file = file}
<1>5. Cardinality(N) = Reported(contents[file])
  <2>1. PICK p \in 1..FileCount : t.files[p] = file
    BY <1>4 DEF EveryFileOnce
  <2> QED BY <1>3, <1>4, <2>1 DEF NothingLost
<1>6. IsFiniteSet(N)
  <2>1. N \subseteq 0..t.next
    <3> SUFFICES ASSUME NEW n \in N PROVE n \in 0..t.next
      OBVIOUS
    <3>1. PICK i \in DOMAIN t.suites : n \in DOMAIN t.suites[i].cases
      BY DEF NumbersOf
    <3> QED BY <1>2, <1>4, <3>1 DEF NumbersInOrder, GivenBefore
  <2>2. IsFiniteSet(0..t.next)
    <3>1. 0 \in Int /\ t.next \in Int
      BY <1>2
    <3> QED BY <3>1, FS_Interval
  <2> QED BY <2>1, <2>2, FS_Subset
<1>7. ASSUME NEW row \in R PROVE row.sequence \in N
  <2>1. PICK k \in DOMAIN t.suites :
           row.file = t.suites[k].file /\ row.sequence \in DOMAIN t.suites[k].cases
    BY <1>1, RowOrigin DEF Origin
  <2> QED BY <2>1 DEF NumbersOf
<1>8. ASSUME NEW n \in N PROVE \E row \in R : row.sequence = n
  <2>1. PICK k \in DOMAIN t.suites : t.suites[k].file = file /\ n \in DOMAIN t.suites[k].cases
    BY DEF NumbersOf
  <2>2. PICK row : row = CaseRow(<<e, k>>, t.suites[k], n)
    OBVIOUS
  <2>3. row \in Rows(<<e, k>>, t.suites[k])
    BY <2>1, <2>2 DEF Rows
  <2>4. row \in caseRows
    BY <1>1, <1>2, <1>3, <2>1, <2>3, InvParts DEF RowsInv
  <2>5. row.suite[1] = e /\ row.file = file /\ row.sequence = n
    BY <2>1, <2>2 DEF CaseRow
  <2> QED BY <2>4, <2>5 DEF RowsOf
<1>9. ASSUME NEW x \in R, NEW y \in R, x.sequence = y.sequence PROVE x = y
  BY <1>9, OrderedRows DEF SequenceOrders
<1> HIDE DEF N, R
<1> DEFINE f == [n \in N |-> CHOOSE row \in R : row.sequence = n]
<1>10. \A n \in N : f[n] \in R /\ f[n].sequence = n
  BY <1>8
<1> HIDE DEF f
<1>11. \A m, n \in N : f[m] = f[n] => m = n
  BY <1>10
<1>12. \A row \in R : \E n \in N : f[n] = row
  <2> SUFFICES ASSUME NEW row \in R PROVE f[row.sequence] = row /\ row.sequence \in N
    OBVIOUS
  <2>1. row.sequence \in N
    BY <1>7
  <2> QED BY <1>9, <1>10, <2>1
<1>13. Cardinality(N) = Cardinality(R)
  BY <1>6, <1>10, <1>11, <1>12, SameSize
<1> QED BY <1>5, <1>13 DEF R

\* For any files, of any depth, and any number of tasks, screenshots and failures: the
\* sequence numbers of a task are unique and keep the cases of a file together.
THEOREM SequenceAlwaysOrders == ExtractionSpec => []SequenceOrders
BY ExtractionInvariant, OrderedRows, PTL

\* Likewise, no attachment misses or mistakes a screenshot the task has seen, and what
\* it leads to is registered.
THEOREM AttachmentsAlwaysFound == ExtractionSpec => []AttachmentsFound
BY ExtractionInvariant, FoundAttachments, PTL

\* Likewise, without failures the counts in test_suites are those of the last attempts
\* in test_cases.
THEOREM CountsAlwaysMatchCases == ExtractionSpec => []CountsMatchCases
BY ExtractionInvariant, CountedCases, PTL

\* Likewise, without failures a task that has ended has written as many test cases as
\* each file reports results.
THEOREM ResultsAlwaysConserved == ExtractionSpec => []ResultsConserved
BY ExtractionInvariant, ConservedResults, PTL
==============================================================================
