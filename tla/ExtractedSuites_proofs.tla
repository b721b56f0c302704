----------------------- MODULE ExtractedSuites_proofs ------------------------
(* What extraction makes of a document, proved of the operators of            *)
(* ResultExtraction for documents of any size and depth: that each result a   *)
(* file reports becomes one case with a number of its own, what an attachment *)
(* leads to, and what the counts of a suite count.  ResultExtraction_proofs   *)
(* builds on it.                                                              *)
EXTENDS ResultExtraction, TLAPS, WellFoundedInduction, FiniteSetTheorems, FunctionTheorems,
        SequenceTheorems

------------------------------------------------------------------------------
(* Sums and concatenations *)

\* A set of numbers has a least one.
LEMMA Least == ASSUME NEW S, S \subseteq Nat, S # {} PROVE \E m \in S : \A n \in S : m <= n
<1>1. OpToRel(<, Nat) = {ss \in Nat \X Nat : ss[1] < ss[2]}
  BY Zenon DEF OpToRel
<1>2. IsWellFoundedOn({ss \in Nat \X Nat : ss[1] < ss[2]}, Nat)
  BY <1>1, NatLessThanWellFounded
<1>3. PICK m \in S : \A n \in S : ~ (<<n, m>> \in {ss \in Nat \X Nat : ss[1] < ss[2]})
  BY <1>2, WFMin
<1>4. \A n \in S : ~ (n < m)
  <2> TAKE n \in S
  <2>1. <<n, m>> \in Nat \X Nat /\ <<n, m>>[1] = n /\ <<n, m>>[2] = m
    OBVIOUS
  <2> QED BY <1>3, <2>1, Zenon
<1> QED
  BY <1>4

\* Induction over the numbers, for a set of them.
LEMMA NatSet == ASSUME NEW T, 0 \in T, \A n \in Nat : n \in T => n + 1 \in T
                PROVE  Nat \subseteq T
<1>1. ASSUME ~(Nat \subseteq T) PROVE FALSE
  <2>1. Nat \ T \subseteq Nat /\ Nat \ T # {}
    BY <1>1
  <2>2. PICK m \in Nat \ T : \A n \in Nat \ T : m <= n
    BY <2>1, Least
  <2>3. m # 0 /\ m - 1 \in Nat
    BY <2>2
  <2>4. m - 1 \in T
    BY <2>2, <2>3
  <2> QED BY <2>2, <2>3, <2>4
<1> QED BY <1>1

\* Sums has the values its recursive definition says.
LEMMA SumsFacts ==
  ASSUME NEW s \in Seq(Nat)
  PROVE  /\ Sums(s) \in [0..Len(s) -> Nat] /\ \A n \in 0..Len(s) : Sums(s)[n] \in Nat
         /\ Sums(s)[0] = 0
         /\ \A n \in 1..Len(s) : Sums(s)[n] = Sums(s)[n - 1] + s[n]
<1> DEFINE Def(f, m) == f = [n \in 0..m |-> IF n = 0 THEN 0 ELSE f[n - 1] + s[n]]
           T == {m \in Nat : \E f : Def(f, m)}
<1>1. 0 \in T
  <2>1. Def([n \in 0..0 |-> 0], 0)
    OBVIOUS
  <2> HIDE DEF Def
  <2> QED BY <2>1
<1>2. ASSUME NEW m \in Nat, m \in T PROVE m + 1 \in T
  <2>1. PICK f : Def(f, m)
    BY <1>2
  <2> DEFINE g == [n \in 0..(m + 1) |-> IF n = m + 1 THEN f[m] + s[m + 1] ELSE f[n]]
  <2>2. \A n \in 0..m : f[n] = IF n = 0 THEN 0 ELSE f[n - 1] + s[n]
    BY <2>1, Zenon
  <2>3. ASSUME NEW n \in 0..(m + 1) PROVE g[n] = IF n = 0 THEN 0 ELSE g[n - 1] + s[n]
    BY <2>2
  <2>4. g = [n \in 0..(m + 1) |-> g[n]]
    OBVIOUS
  <2> HIDE DEF g
  <2>5. Def(g, m + 1)
    BY <2>3, <2>4
  <2> HIDE DEF Def
  <2> QED BY <2>5
<1>3. Nat \subseteq T
  <2> HIDE DEF T
  <2> QED BY <1>1, <1>2, NatSet
<1>4. Len(s) \in Nat
  OBVIOUS
<1>5. Def(Sums(s), Len(s))
  <2>1. \E f : Def(f, Len(s))
    BY <1>3, <1>4
  <2> QED BY <2>1 DEF Sums
<1>6. \A n \in 0..Len(s) : Sums(s)[n] = IF n = 0 THEN 0 ELSE Sums(s)[n - 1] + s[n]
  BY <1>5, Zenon
<1>7. Sums(s) = [n \in 0..Len(s) |-> Sums(s)[n]]
  BY <1>5, Zenon
<1> HIDE DEF Def, T
<1> DEFINE U == {n \in Nat : n <= Len(s) => Sums(s)[n] \in Nat}
<1>8. 0 \in U
  BY <1>6
<1>9. ASSUME NEW n \in Nat, n \in U PROVE n + 1 \in U
  <2>1. n + 1 <= Len(s) => n + 1 \in 0..Len(s) /\ s[n + 1] \in Nat /\ (n + 1) - 1 = n
    OBVIOUS
  <2> QED BY <1>6, <1>9, <2>1
<1>10. Nat \subseteq U
  <2> HIDE DEF U
  <2> QED BY <1>8, <1>9, NatSet
<1>11. \A n \in 0..Len(s) : Sums(s)[n] \in Nat
  BY <1>10
<1> QED BY <1>6, <1>7, <1>11

\* Sums never decreases.
LEMMA SumsMonotone ==
  ASSUME NEW s \in Seq(Nat), NEW m \in 0..Len(s), NEW n \in 0..Len(s), m <= n
  PROVE  Sums(s)[m] <= Sums(s)[n]
<1> DEFINE T == {k \in Nat : m <= k /\ k <= Len(s) => Sums(s)[m] <= Sums(s)[k]}
<1>1. 0 \in T
  BY SumsFacts
<1>2. ASSUME NEW k \in Nat, k \in T PROVE k + 1 \in T
  <2> SUFFICES ASSUME m <= k + 1, k + 1 <= Len(s) PROVE Sums(s)[m] <= Sums(s)[k + 1]
    OBVIOUS
  <2>1. CASE m = k + 1
    <3>1. Sums(s)[m] \in Nat
      BY SumsFacts
    <3> QED BY <2>1, <3>1
  <2>2. CASE m <= k
    <3>1. Sums(s)[m] <= Sums(s)[k]
      BY <1>2, <2>2
    <3>2. k + 1 \in 1..Len(s) /\ (k + 1) - 1 = k /\ s[k + 1] \in Nat
      OBVIOUS
    <3>3. Sums(s)[k + 1] = Sums(s)[k] + s[k + 1]
      BY <3>2, SumsFacts
    <3>5. k \in 0..Len(s)
      OBVIOUS
    <3>4. Sums(s)[k] \in Nat /\ Sums(s)[m] \in Nat
      BY <3>5, SumsFacts
    <3> QED BY <3>1, <3>2, <3>3, <3>4
  <2> QED BY <2>1, <2>2
<1>3. Nat \subseteq T
  <2> HIDE DEF T
  <2> QED BY <1>1, <1>2, NatSet
<1> QED BY <1>3

\* Every number below the total lies between two successive sums.
LEMMA SumsCover ==
  ASSUME NEW s \in Seq(Nat), NEW k \in Nat, k < Total(s)
  PROVE  \E i \in 1..Len(s) : Sums(s)[i - 1] <= k /\ k < Sums(s)[i]
<1> DEFINE S == {i \in 0..Len(s) : k < Sums(s)[i]}
<1>1. PICK i \in S : \A j \in S : i <= j
  <2>1. S \subseteq Nat /\ Len(s) \in S
    BY DEF Total
  <2> HIDE DEF S
  <2> QED BY <2>1, Least
<1>2. i # 0
  BY SumsFacts
<1>3. i - 1 \in 0..Len(s) /\ i - 1 \notin S
  BY <1>1, <1>2
<1>4. Sums(s)[i - 1] <= k
  <2>1. Sums(s)[i - 1] \in Nat
    BY <1>3, SumsFacts
  <2> QED BY <1>3, <2>1
<1> QED BY <1>2, <1>4

\* Concatenation, index by index.
LEMMA ConcatFacts ==
  ASSUME NEW A, NEW s \in Seq(A), NEW u \in Seq(A)
  PROVE  /\ s \o u \in Seq(A) /\ Len(s \o u) = Len(s) + Len(u)
         /\ DOMAIN (s \o u) = 1..(Len(s) + Len(u))
         /\ \A k \in 1..(Len(s) + Len(u)) :
              (s \o u)[k] = IF k <= Len(s) THEN s[k] ELSE u[k - Len(s)]
OBVIOUS

\* Sums of a sequence behind another one.
LEMMA SumsConcat ==
  ASSUME NEW s \in Seq(Nat), NEW t \in Seq(Nat)
  PROVE  /\ \A n \in 0..Len(s) : Sums(s \o t)[n] = Sums(s)[n]
         /\ Total(s \o t) = Total(s) + Total(t)
<1>1. /\ s \o t \in Seq(Nat) /\ Len(s \o t) = Len(s) + Len(t)
      /\ \A i \in 1..Len(s) : (s \o t)[i] = s[i]
      /\ \A i \in 1..Len(t) : (s \o t)[Len(s) + i] = t[i]
  OBVIOUS
<1> DEFINE u == s \o t
<1> HIDE DEF u
<1>2. u \in Seq(Nat) /\ Len(u) = Len(s) + Len(t)
  BY <1>1 DEF u
<1> DEFINE T == {n \in Nat : n <= Len(s) => Sums(u)[n] = Sums(s)[n]}
<1>3. 0 \in T
  BY <1>2, SumsFacts
<1>4. ASSUME NEW n \in Nat, n \in T PROVE n + 1 \in T
  <2> SUFFICES ASSUME n + 1 <= Len(s) PROVE Sums(u)[n + 1] = Sums(s)[n + 1]
    OBVIOUS
  <2>1. n + 1 \in 1..Len(s) /\ n + 1 \in 1..Len(u) /\ (n + 1) - 1 = n
    BY <1>2
  <2>2. u[n + 1] = s[n + 1]
    BY <1>1, <2>1 DEF u
  <2>3. Sums(u)[n + 1] = Sums(u)[n] + u[n + 1] /\ Sums(s)[n + 1] = Sums(s)[n] + s[n + 1]
    BY <1>2, <2>1, SumsFacts
  <2> QED BY <1>4, <2>2, <2>3
<1>5. Nat \subseteq T
  <2> HIDE DEF T
  <2> QED BY <1>3, <1>4, NatSet
<1>6. \A n \in 0..Len(s) : Sums(u)[n] = Sums(s)[n]
  BY <1>5
<1> DEFINE V == {n \in Nat : n <= Len(t) => Sums(u)[Len(s) + n] = Total(s) + Sums(t)[n]}
<1>7. 0 \in V
  <2>1. Sums(t)[0] = 0 /\ Total(s) \in Nat /\ Len(s) + 0 = Len(s) /\ Sums(u)[Len(s)] = Total(s)
    BY <1>6, SumsFacts DEF Total
  <2> QED BY <2>1
<1>8. ASSUME NEW n \in Nat, n \in V PROVE n + 1 \in V
  <2> SUFFICES ASSUME n + 1 <= Len(t)
               PROVE  Sums(u)[Len(s) + (n + 1)] = Total(s) + Sums(t)[n + 1]
    OBVIOUS
  <2>1. /\ n + 1 \in 1..Len(t) /\ (n + 1) - 1 = n /\ Len(s) + (n + 1) \in 1..Len(u)
        /\ (Len(s) + (n + 1)) - 1 = Len(s) + n /\ n \in 0..Len(t)
    BY <1>2
  <2>2. u[Len(s) + (n + 1)] = t[n + 1] /\ t[n + 1] \in Nat
    <3>1. t[n + 1] \in Nat
      BY <2>1
    <3> QED BY <2>1, <3>1, ConcatFacts DEF u
  <2>3. Sums(u)[Len(s) + (n + 1)] = Sums(u)[Len(s) + n] + t[n + 1]
    BY <1>2, <2>1, <2>2, SumsFacts
  <2>4. Sums(t)[n + 1] = Sums(t)[n] + t[n + 1]
    BY <2>1, SumsFacts
  <2>6. Sums(t)[n] \in Nat
    BY <2>1, SumsFacts
  <2>7. Len(s) \in 0..Len(s) /\ Total(s) \in Nat
    BY SumsFacts DEF Total
  <2>5. Sums(u)[Len(s) + n] = Total(s) + Sums(t)[n]
    BY <1>8, <2>1
  <2> QED BY <2>2, <2>3, <2>4, <2>5, <2>6, <2>7
<1>9. Nat \subseteq V
  <2> HIDE DEF V
  <2> QED BY <1>7, <1>8, NatSet
<1>10. Total(u) = Total(s) + Total(t)
  BY <1>2, <1>9 DEF Total
<1> QED BY <1>6, <1>10 DEF u

\* FlattenSeq appends one sequence after the other.
LEMMA FlattenFacts ==
  ASSUME NEW A, NEW ss \in Seq(Seq(A))
  PROVE  \E g \in [0..Len(ss) -> Seq(A)] :
            /\ g[0] = <<>>
            /\ \A n \in 1..Len(ss) : g[n] = g[n - 1] \o ss[n]
            /\ FlattenSeq(ss) = g[Len(ss)]
<1> DEFINE Def(f, m) == f = [n \in 1..m |-> IF n = 1 THEN ss[n] ELSE f[n - 1] \o ss[n]]
           T == {m \in Nat : \E f : Def(f, m)}
<1>1. 0 \in T
  <2>1. Def([n \in 1..0 |-> <<>>], 0)
    OBVIOUS
  <2> HIDE DEF Def
  <2> QED BY <2>1
<1>2. ASSUME NEW m \in Nat, m \in T PROVE m + 1 \in T
  <2>1. PICK f : Def(f, m)
    BY <1>2
  <2> DEFINE last == IF m + 1 = 1 THEN ss[m + 1] ELSE f[m] \o ss[m + 1]
             g == [n \in 1..(m + 1) |-> IF n = m + 1 THEN last ELSE f[n]]
  <2>2. \A n \in 1..m : f[n] = IF n = 1 THEN ss[n] ELSE f[n - 1] \o ss[n]
    BY <2>1, Zenon
  <2>3. ASSUME NEW n \in 1..(m + 1) PROVE g[n] = IF n = 1 THEN ss[n] ELSE g[n - 1] \o ss[n]
    BY <2>2
  <2>4. g = [n \in 1..(m + 1) |-> g[n]]
    OBVIOUS
  <2> HIDE DEF g
  <2>5. Def(g, m + 1)
    BY <2>3, <2>4
  <2> HIDE DEF Def
  <2> QED BY <2>5
<1>3. Nat \subseteq T
  <2> HIDE DEF T
  <2> QED BY <1>1, <1>2, NatSet
<1> DEFINE f == CHOOSE f : Def(f, Len(ss))
<1>4. Def(f, Len(ss))
  <2>1. Len(ss) \in Nat
    OBVIOUS
  <2>2. \E r : Def(r, Len(ss))
    BY <1>3, <2>1
  <2> HIDE DEF Def
  <2> QED BY <2>2
<1>5. Len(ss) # 0 => FlattenSeq(ss) = f[Len(ss)]
  BY Zenon DEF FlattenSeq
<1>6. Len(ss) = 0 => FlattenSeq(ss) = <<>>
  BY EmptySeq, Zenon DEF FlattenSeq
<1> HIDE DEF f, T
<1>7. \A n \in 1..Len(ss) : f[n] = IF n = 1 THEN ss[n] ELSE f[n - 1] \o ss[n]
  BY <1>4, Zenon
<1> HIDE DEF Def
<1>8. \A n \in 1..Len(ss) : ss[n] \in Seq(A)
  BY ElementOfSeq
<1> DEFINE U == {n \in Nat : 1 <= n /\ n <= Len(ss) => f[n] \in Seq(A)}
<1>9. 0 \in U
  OBVIOUS
<1>10. ASSUME NEW n \in Nat, n \in U PROVE n + 1 \in U
  <2> SUFFICES ASSUME n + 1 <= Len(ss) PROVE f[n + 1] \in Seq(A)
    OBVIOUS
  <2>1. n + 1 \in 1..Len(ss) /\ (n + 1) - 1 = n /\ ss[n + 1] \in Seq(A)
    BY <1>8
  <2>2. f[n + 1] = IF n + 1 = 1 THEN ss[n + 1] ELSE f[n] \o ss[n + 1]
    BY <1>7, <2>1
  <2>3. n # 0 => f[n] \in Seq(A)
    BY <1>10
  <2> QED BY <2>1, <2>2, <2>3, ConcatProperties
<1>11. Nat \subseteq U
  <2> HIDE DEF U
  <2> QED BY <1>9, <1>10, NatSet
<1>12. \A n \in 1..Len(ss) : f[n] \in Seq(A)
  BY <1>11
<1> DEFINE g == [n \in 0..Len(ss) |-> IF n = 0 THEN <<>> ELSE f[n]]
<1>13. g \in [0..Len(ss) -> Seq(A)]
  BY <1>12, EmptySeq
<1>14. g[0] = <<>>
  OBVIOUS
<1>15. ASSUME NEW n \in 1..Len(ss) PROVE g[n] = g[n - 1] \o ss[n]
  <2>1. n \in 0..Len(ss) /\ n - 1 \in 0..Len(ss) /\ g[n] = f[n]
    OBVIOUS
  <2>2. CASE n = 1
    <3>1. g[n - 1] = <<>>
      BY <1>14, <2>2
    <3>3. f[n] = ss[n]
      BY <1>7, <2>2
    <3>2. <<>> \o ss[n] = ss[n]
      BY <1>8, ConcatEmptySeq
    <3> QED BY <2>1, <3>1, <3>2, <3>3
  <2>3. CASE n # 1
    <3>1. g[n - 1] = f[n - 1]
      BY <2>1, <2>3
    <3> QED BY <1>7, <2>1, <2>3, <3>1
  <2> QED BY <2>2, <2>3
<1>16. FlattenSeq(ss) = g[Len(ss)]
  BY <1>5, <1>6
<1> HIDE DEF g
<1> QED BY <1>13, <1>14, <1>15, <1>16

\* FlattenSeq keeps to the elements.
LEMMA FlattenType ==
  ASSUME NEW A, NEW ss \in Seq(Seq(A))
  PROVE  FlattenSeq(ss) \in Seq(A)
<1>1. PICK g \in [0..Len(ss) -> Seq(A)] : FlattenSeq(ss) = g[Len(ss)]
  BY FlattenFacts
<1>2. Len(ss) \in 0..Len(ss)
  OBVIOUS
<1> QED BY <1>1, <1>2

\* The weight of each element of a sequence.
Weights(w, s) == [k \in DOMAIN s |-> w[s[k]]]

\* Weights are numbers, and so is their total.
LEMMA WeightsType ==
  ASSUME NEW A, NEW w \in [A -> Nat], NEW s \in Seq(A)
  PROVE  /\ Weights(w, s) \in Seq(Nat) /\ Len(Weights(w, s)) = Len(s)
         /\ Total(Weights(w, s)) \in Nat
<1>1. Weights(w, s) \in Seq(Nat) /\ Len(Weights(w, s)) = Len(s)
  BY DEF Weights
<1>2. Len(Weights(w, s)) \in 0..Len(Weights(w, s))
  BY <1>1
<1> QED BY <1>1, <1>2, SumsFacts DEF Total

\* Weights of a concatenation add up.
LEMMA WeightsConcat ==
  ASSUME NEW A, NEW w \in [A -> Nat], NEW s \in Seq(A), NEW u \in Seq(A)
  PROVE  Total(Weights(w, s \o u)) = Total(Weights(w, s)) + Total(Weights(w, u))
<1>1. /\ s \o u \in Seq(A) /\ DOMAIN (s \o u) = 1..(Len(s) + Len(u))
      /\ \A k \in 1..(Len(s) + Len(u)) :
            (s \o u)[k] = IF k <= Len(s) THEN s[k] ELSE u[k - Len(s)]
  OBVIOUS
<1>2. /\ Weights(w, s) \in Seq(Nat) /\ Weights(w, u) \in Seq(Nat)
      /\ Len(Weights(w, s)) = Len(s) /\ Len(Weights(w, u)) = Len(u)
  BY WeightsType
<1>3. \A k \in 1..(Len(s) + Len(u)) :
         (Weights(w, s) \o Weights(w, u))[k]
           = IF k <= Len(s) THEN Weights(w, s)[k] ELSE Weights(w, u)[k - Len(s)]
  <2>1. \A k \in 1..(Len(Weights(w, s)) + Len(Weights(w, u))) :
         (Weights(w, s) \o Weights(w, u))[k]
           = IF k <= Len(Weights(w, s)) THEN Weights(w, s)[k]
             ELSE Weights(w, u)[k - Len(Weights(w, s))]
    BY <1>2, ConcatFacts
  <2> QED BY <1>2, <2>1
<1>4. \A k \in 1..(Len(s) + Len(u)) :
         Weights(w, s \o u)[k] = (Weights(w, s) \o Weights(w, u))[k]
  <2> TAKE k \in 1..(Len(s) + Len(u))
  <2>1. Weights(w, s \o u)[k] = w[(s \o u)[k]]
    BY <1>1 DEF Weights
  <2>2. CASE k <= Len(s)
    <3>1. k \in DOMAIN s /\ Weights(w, s)[k] = w[s[k]]
      BY <2>2 DEF Weights
    <3> QED BY <1>1, <1>3, <2>1, <2>2, <3>1
  <2>3. CASE ~(k <= Len(s))
    <3>1. k - Len(s) \in DOMAIN u /\ Weights(w, u)[k - Len(s)] = w[u[k - Len(s)]]
      BY <2>3 DEF Weights
    <3> QED BY <1>1, <1>3, <2>1, <2>3, <3>1
  <2> QED BY <2>2, <2>3
<1>5. /\ Weights(w, s \o u) \in Seq(Nat) /\ Len(Weights(w, s \o u)) = Len(s) + Len(u)
  <2>1. Len(s \o u) = Len(s) + Len(u)
    OBVIOUS
  <2> QED BY <1>1, <2>1, WeightsType
<1>6. /\ Weights(w, s) \o Weights(w, u) \in Seq(Nat)
      /\ Len(Weights(w, s) \o Weights(w, u)) = Len(s) + Len(u)
  <2>1. Len(Weights(w, s) \o Weights(w, u)) = Len(Weights(w, s)) + Len(Weights(w, u))
    BY <1>2, ConcatFacts
  <2> QED BY <1>2, <2>1, ConcatProperties
<1>7. Weights(w, s \o u) = Weights(w, s) \o Weights(w, u)
  BY <1>4, <1>5, <1>6, SeqEqual
<1> QED BY <1>2, <1>7, SumsConcat

\* Nothing adds up to nothing.
LEMMA TotalEmpty == Total(<<>>) = 0
<1>1. <<>> \in Seq(Nat) /\ Len(<<>>) = 0
  OBVIOUS
<1> QED BY <1>1, SumsFacts DEF Total

\* The weight of a flattened sequence is the weight of its parts.
LEMMA FlattenTotal ==
  ASSUME NEW A, NEW ss \in Seq(Seq(A)), NEW w \in [A -> Nat]
  PROVE  Total(Weights(w, FlattenSeq(ss)))
           = Total([i \in DOMAIN ss |-> Total(Weights(w, ss[i]))])
<1> DEFINE t == [i \in DOMAIN ss |-> Total(Weights(w, ss[i]))]
<1>1. PICK g \in [0..Len(ss) -> Seq(A)] :
            /\ g[0] = <<>>
            /\ \A n \in 1..Len(ss) : g[n] = g[n - 1] \o ss[n]
            /\ FlattenSeq(ss) = g[Len(ss)]
  BY FlattenFacts
<1>2. \A n \in 1..Len(ss) : ss[n] \in Seq(A)
  BY ElementOfSeq
<1>3. t \in Seq(Nat) /\ Len(t) = Len(ss)
      /\ \A n \in 1..Len(ss) : t[n] = Total(Weights(w, ss[n]))
  <2>1. \A n \in 1..Len(ss) : Total(Weights(w, ss[n])) \in Nat
    BY <1>2, WeightsType
  <2>2. DOMAIN ss = 1..Len(ss) /\ Len(ss) \in Nat
    OBVIOUS
  <2>3. t = [n \in 1..Len(ss) |-> Total(Weights(w, ss[n]))]
    BY <2>2
  <2> QED BY <2>1, <2>2, <2>3
<1> HIDE DEF t
<1> DEFINE T == {n \in Nat : n <= Len(ss) => Total(Weights(w, g[n])) = Sums(t)[n]}
<1>4. 0 \in T
  <2>1. Weights(w, <<>>) = <<>>
    BY DEF Weights
  <2>2. Sums(t)[0] = 0
    BY <1>3, SumsFacts
  <2> QED BY <1>1, <2>1, <2>2, TotalEmpty
<1>5. ASSUME NEW n \in Nat, n \in T PROVE n + 1 \in T
  <2> SUFFICES ASSUME n + 1 <= Len(ss) PROVE Total(Weights(w, g[n + 1])) = Sums(t)[n + 1]
    OBVIOUS
  <2>1. n + 1 \in 1..Len(ss) /\ (n + 1) - 1 = n /\ n \in 0..Len(ss)
    OBVIOUS
  <2>2. g[n + 1] = g[n] \o ss[n + 1] /\ g[n] \in Seq(A) /\ ss[n + 1] \in Seq(A)
    BY <1>1, <1>2, <2>1
  <2>3. Total(Weights(w, g[n + 1])) = Total(Weights(w, g[n])) + Total(Weights(w, ss[n + 1]))
    BY <2>2, WeightsConcat
  <2>4. Sums(t)[n + 1] = Sums(t)[n] + t[n + 1]
    BY <1>3, <2>1, SumsFacts
  <2> QED BY <1>3, <1>5, <2>1, <2>3, <2>4
<1>6. Nat \subseteq T
  <2> HIDE DEF T
  <2> QED BY <1>4, <1>5, NatSet
<1>7. Total(Weights(w, FlattenSeq(ss))) = Total(t)
  BY <1>1, <1>3, <1>6 DEF Total
<1> QED BY <1>7 DEF t

\* Each element counted once: the length.
Once(A) == [x \in A |-> 1]

\* Once is a weight.
LEMMA OnceType == ASSUME NEW A PROVE Once(A) \in [A -> Nat]
BY DEF Once

\* With each element counted once, the total is the length.
LEMMA OnceTotal ==
  ASSUME NEW A, NEW s \in Seq(A)
  PROVE  Total(Weights(Once(A), s)) = Len(s)
<1> DEFINE t == Weights(Once(A), s)
<1>1. t \in Seq(Nat) /\ Len(t) = Len(s)
  BY OnceType, WeightsType
<1>2. \A n \in 1..Len(s) : t[n] = 1
  <2> TAKE n \in 1..Len(s)
  <2>1. s[n] \in A /\ n \in DOMAIN s
    OBVIOUS
  <2> QED BY <2>1 DEF Weights, Once
<1> HIDE DEF t
<1> DEFINE T == {n \in Nat : n <= Len(s) => Sums(t)[n] = n}
<1>3. 0 \in T
  BY <1>1, SumsFacts
<1>4. ASSUME NEW n \in Nat, n \in T PROVE n + 1 \in T
  <2> SUFFICES ASSUME n + 1 <= Len(s) PROVE Sums(t)[n + 1] = n + 1
    OBVIOUS
  <2>1. n + 1 \in 1..Len(s) /\ (n + 1) - 1 = n
    OBVIOUS
  <2>2. Sums(t)[n + 1] = Sums(t)[n] + t[n + 1]
    BY <1>1, <2>1, SumsFacts
  <2> QED BY <1>2, <1>4, <2>1, <2>2
<1>5. Nat \subseteq T
  <2> HIDE DEF T
  <2> QED BY <1>3, <1>4, NatSet
<1>6. Total(t) = Len(s)
  BY <1>1, <1>5 DEF Total
<1> QED BY <1>6 DEF t

\* A flattened sequence is as long as its parts together.
LEMMA FlattenLength ==
  ASSUME NEW A, NEW ss \in Seq(Seq(A))
  PROVE  Len(FlattenSeq(ss)) = Total([i \in DOMAIN ss |-> Len(ss[i])])
<1>1. Total(Weights(Once(A), FlattenSeq(ss))) = Len(FlattenSeq(ss))
  BY FlattenType, OnceTotal
<1>2. \A i \in DOMAIN ss : Total(Weights(Once(A), ss[i])) = Len(ss[i])
  <2>1. \A i \in DOMAIN ss : ss[i] \in Seq(A)
    OBVIOUS
  <2> QED BY <2>1, OnceTotal
<1>3. [i \in DOMAIN ss |-> Total(Weights(Once(A), ss[i]))] = [i \in DOMAIN ss |-> Len(ss[i])]
  BY <1>2
<1> QED BY <1>1, <1>3, FlattenTotal, OnceType

------------------------------------------------------------------------------
(* Suites inside suites *)

\* Suites nest one level more than those inside them.
LEMMA SuitesFacts ==
  ASSUME NEW Item
  PROVE  /\ Suites(Item)[0] = {}
         /\ \A n \in 1..Depth : Suites(Item)[n] =
              [title : STRING, file : STRING, items : Seq(Item),
               suites : Seq(Suites(Item)[n - 1])]
<1> DEFINE Level(S) == [title : STRING, file : STRING, items : Seq(Item), suites : Seq(S)]
           Def(f, m) == f = [n \in 0..m |-> IF n = 0 THEN {} ELSE Level(f[n - 1])]
           T == {m \in Nat : \E f : Def(f, m)}
<1>0. Depth \in Nat
  BY ExtractionConstants
<1> HIDE DEF Level
<1>1. 0 \in T
  <2>1. Def([n \in 0..0 |-> {}], 0)
    OBVIOUS
  <2> HIDE DEF Def
  <2> QED BY <2>1
<1>2. ASSUME NEW m \in Nat, m \in T PROVE m + 1 \in T
  <2>1. PICK f : Def(f, m)
    BY <1>2
  <2> DEFINE g == [n \in 0..(m + 1) |-> IF n = m + 1 THEN Level(f[m]) ELSE f[n]]
  <2>2. \A n \in 0..m : f[n] = IF n = 0 THEN {} ELSE Level(f[n - 1])
    BY <2>1, Zenon
  <2>3. ASSUME NEW n \in 0..(m + 1)
        PROVE  g[n] = IF n = 0 THEN {} ELSE Level(g[n - 1])
    BY <2>2
  <2>4. g = [n \in 0..(m + 1) |-> g[n]]
    OBVIOUS
  <2> HIDE DEF g
  <2>5. Def(g, m + 1)
    BY <2>3, <2>4
  <2> HIDE DEF Def
  <2> QED BY <2>5
<1>3. \E f : Def(f, Depth)
  <2>1. Nat \subseteq T
    <3> HIDE DEF T
    <3> QED BY <1>1, <1>2, NatSet
  <2> QED BY <1>0, <2>1
<1>4. Def(Suites(Item), Depth)
  BY <1>3 DEF Suites, Level
<1>5. \A n \in 0..Depth : Suites(Item)[n] = IF n = 0 THEN {} ELSE Level(Suites(Item)[n - 1])
  BY <1>4, Zenon
<1> HIDE DEF Def
<1>6. Suites(Item)[0] = {}
  BY <1>0, <1>5
<1>7. \A n \in 1..Depth : Suites(Item)[n] = Level(Suites(Item)[n - 1])
  BY <1>0, <1>5
<1> QED BY <1>6, <1>7, Zenon DEF Level

\* More suites to nest make more suites.
LEMMA LevelMonotone ==
  ASSUME NEW Item, NEW P, NEW Q, P \subseteq Q
  PROVE  [title : STRING, file : STRING, items : Seq(Item), suites : Seq(P)]
           \subseteq [title : STRING, file : STRING, items : Seq(Item), suites : Seq(Q)]
<1> SUFFICES ASSUME NEW x \in [title : STRING, file : STRING, items : Seq(Item),
                                suites : Seq(P)]
             PROVE  x \in [title : STRING, file : STRING, items : Seq(Item), suites : Seq(Q)]
  OBVIOUS
<1>1. /\ x = [title |-> x.title, file |-> x.file, items |-> x.items, suites |-> x.suites]
      /\ x.title \in STRING /\ x.file \in STRING /\ x.items \in Seq(Item)
      /\ x.suites \in Seq(P)
  OBVIOUS
<1>2. x.suites \in Seq(Q)
  BY <1>1
<1> QED BY <1>1, <1>2

\* Suites of any depth are suites of the greatest.
LEMMA SuitesMonotone ==
  ASSUME NEW Item, NEW n \in 0..Depth
  PROVE  Suites(Item)[n] \subseteq Suite(Item)
<1>0. Depth \in Nat
  BY ExtractionConstants
<1> DEFINE S(k) == Suites(Item)[k]
           T == {k \in Nat : k + 1 <= Depth => S(k) \subseteq S(k + 1)}
<1>1. 0 \in T
  BY SuitesFacts
<1>2. ASSUME NEW k \in Nat, k \in T PROVE k + 1 \in T
  <2> SUFFICES ASSUME (k + 1) + 1 <= Depth PROVE S(k + 1) \subseteq S((k + 1) + 1)
    OBVIOUS
  <2>1. /\ k + 1 \in 1..Depth /\ (k + 1) - 1 = k
        /\ (k + 1) + 1 \in 1..Depth /\ ((k + 1) + 1) - 1 = k + 1
    BY <1>0
  <2>2. S(k) \subseteq S(k + 1)
    BY <1>0, <1>2
  <2>4. /\ S(k + 1) = [title : STRING, file : STRING, items : Seq(Item), suites : Seq(S(k))]
        /\ S((k + 1) + 1)
             = [title : STRING, file : STRING, items : Seq(Item), suites : Seq(S(k + 1))]
    BY ZenonT(30), <2>1, SuitesFacts
  <2> QED BY <2>2, <2>4, LevelMonotone
<1>3. Nat \subseteq T
  <2> HIDE DEF T
  <2> QED BY <1>1, <1>2, NatSet
<1>4. \A k \in Nat : k + 1 <= Depth => S(k) \subseteq S(k + 1)
  BY <1>3
<1> HIDE DEF S, T
<1> DEFINE U == {k \in Nat : k <= Depth => S(Depth - k) \subseteq S(Depth)}
<1>5. 0 \in U
  BY <1>0
<1>6. ASSUME NEW k \in Nat, k \in U PROVE k + 1 \in U
  <2> SUFFICES ASSUME k + 1 <= Depth PROVE S(Depth - (k + 1)) \subseteq S(Depth)
    OBVIOUS
  <2>1. Depth - (k + 1) \in Nat /\ (Depth - (k + 1)) + 1 = Depth - k
    BY <1>0
  <2>2. S(Depth - (k + 1)) \subseteq S(Depth - k)
    BY <1>0, <1>4, <2>1
  <2>3. S(Depth - k) \subseteq S(Depth)
    BY <1>0, <1>6
  <2> QED BY <2>2, <2>3
<1>7. Nat \subseteq U
  <2> HIDE DEF U
  <2> QED BY <1>5, <1>6, NatSet
<1>8. Depth - n \in Nat /\ Depth - (Depth - n) = n
  BY <1>0
<1>9. S(n) \subseteq S(Depth)
  BY <1>0, <1>7, <1>8
<1> QED BY <1>9 DEF S, Suite

\* The fields of a suite, whose suites are one level less deep.
LEMMA SuiteFields ==
  ASSUME NEW Item, NEW n \in 1..Depth, NEW suite \in Suites(Item)[n]
  PROVE  /\ suite.title \in STRING /\ suite.file \in STRING /\ suite.items \in Seq(Item)
         /\ suite.suites \in Seq(Suites(Item)[n - 1])
         /\ \A i \in DOMAIN suite.suites : suite.suites[i] \in Suites(Item)[n - 1]
<1>1. suite \in [title : STRING, file : STRING, items : Seq(Item),
                 suites : Seq(Suites(Item)[n - 1])]
  BY SuitesFacts
<1> QED BY <1>1

\* The suites inside a suite, and what f makes of them.
Inside(suite, f) == [i \in DOMAIN suite.suites |-> f[suite.suites[i]]]

\* What f makes of the suites inside, as a sequence.
LEMMA InsideType ==
  ASSUME NEW S, NEW suite, suite.suites \in Seq(S), NEW R, NEW f \in [S -> R]
  PROVE  Inside(suite, f) \in Seq(R)
<1>1. \A i \in DOMAIN suite.suites : suite.suites[i] \in S
  OBVIOUS
<1> DEFINE u == suite.suites
<1> HIDE DEF u
<1>2. DOMAIN u = 1..Len(u) /\ Len(u) \in Nat
  BY <1>1 DEF u
<1>3. \A i \in DOMAIN u : f[u[i]] \in R
  BY <1>1 DEF u
<1>4. [i \in 1..Len(u) |-> f[u[i]]] \in Seq(R)
  BY <1>2, <1>3
<1> QED BY <1>2, <1>4 DEF Inside, u

\* The same, suite by suite.
LEMMA InsideFacts ==
  ASSUME NEW suite, NEW f
  PROVE  /\ DOMAIN Inside(suite, f) = DOMAIN suite.suites
         /\ \A i \in DOMAIN suite.suites : Inside(suite, f)[i] = f[suite.suites[i]]
BY DEF Inside

\* all[n] is what own makes of a suite and all[n - 1] of those inside.
Unfolds(Item, own, all) ==
    \A n \in 1..Depth : \A suite \in Suites(Item)[n] :
        all[n][suite] = own[suite] \o FlattenSeq(Inside(suite, all[n - 1]))

\* Preorder has the values its recursive definition says, level by level.
LEMMA PreorderFacts ==
  ASSUME NEW Item, NEW A, NEW own \in [Suite(Item) -> Seq(A)]
  PROVE  /\ \A n \in 0..Depth : Preorder(Item, own)[n] \in [Suites(Item)[n] -> Seq(A)]
         /\ Unfolds(Item, own, Preorder(Item, own))
<1> DEFINE Body(x, n) ==
             [suite \in Suites(Item)[n] |-> own[suite] \o FlattenSeq(Inside(suite, x))]
           Def(f, m) == f = [n \in 0..m |-> Body(f[n - 1], n)]
           T == {m \in Nat : \E f : Def(f, m)}
<1>0. Depth \in Nat
  BY ExtractionConstants
<1>a. \A x, y : Body(x, 0) = Body(y, 0)
  BY SuitesFacts
<1> HIDE DEF Body
<1>1. 0 \in T
  <2> DEFINE g == [n \in 0..0 |-> Body(<<>>, 0)]
  <2>1. \A n \in 0..0 : g[n] = Body(g[n - 1], n)
    BY <1>a
  <2>2. g = [n \in 0..0 |-> g[n]]
    OBVIOUS
  <2> HIDE DEF g
  <2>3. Def(g, 0)
    BY <2>1, <2>2
  <2> HIDE DEF Def
  <2> QED BY <2>3
<1>2. ASSUME NEW m \in Nat, m \in T PROVE m + 1 \in T
  <2>1. PICK f : Def(f, m)
    BY <1>2
  <2> DEFINE g == [n \in 0..(m + 1) |-> IF n = m + 1 THEN Body(f[m], m + 1) ELSE f[n]]
  <2>2. \A n \in 0..m : f[n] = Body(f[n - 1], n)
    BY <2>1, Zenon
  <2>3. ASSUME NEW n \in 0..(m + 1) PROVE g[n] = Body(g[n - 1], n)
    <3>1. CASE n = 0
      <4>1. g[0] = Body(f[0 - 1], 0)
        BY <2>2
      <4> QED BY <1>a, <3>1, <4>1
    <3>2. CASE n = m + 1
      BY <3>2
    <3>3. CASE n \in 1..m
      <4>1. g[n] = f[n] /\ g[n - 1] = f[n - 1] /\ n \in 0..m
        BY <3>3
      <4> QED BY <2>2, <4>1
    <3>4. n = 0 \/ n = m + 1 \/ n \in 1..m
      OBVIOUS
    <3> QED BY <3>1, <3>2, <3>3, <3>4
  <2>4. g = [n \in 0..(m + 1) |-> g[n]]
    OBVIOUS
  <2> HIDE DEF g
  <2>5. Def(g, m + 1)
    BY <2>3, <2>4
  <2> HIDE DEF Def
  <2> QED BY <2>5
<1>3. Nat \subseteq T
  <2> HIDE DEF T
  <2> QED BY <1>1, <1>2, NatSet
<1> DEFINE all == Preorder(Item, own)
<1>4. Def(all, Depth)
  <2>1. \E f : Def(f, Depth)
    BY <1>0, <1>3
  <2> QED BY <2>1 DEF Preorder, Body, Inside
<1>5. \A n \in 0..Depth : all[n] = Body(all[n - 1], n)
  BY <1>4, Zenon
<1> HIDE DEF Def, T, all
<1>6. ASSUME NEW n \in 1..Depth, NEW x \in [Suites(Item)[n - 1] -> Seq(A)]
      PROVE  Body(x, n) \in [Suites(Item)[n] -> Seq(A)]
  <2>1. ASSUME NEW suite \in Suites(Item)[n]
        PROVE  own[suite] \o FlattenSeq(Inside(suite, x)) \in Seq(A)
    <3>1. own[suite] \in Seq(A)
      BY SuitesMonotone
    <3>2. suite.suites \in Seq(Suites(Item)[n - 1])
      BY SuiteFields
    <3>4. Inside(suite, x) \in Seq(Seq(A))
      BY <3>2, InsideType
    <3>5. FlattenSeq(Inside(suite, x)) \in Seq(A)
      BY <3>4, FlattenType
    <3> QED BY <3>1, <3>5, ConcatProperties
  <2> QED BY <2>1 DEF Body
<1> DEFINE U == {n \in Nat : n <= Depth => all[n] \in [Suites(Item)[n] -> Seq(A)]}
<1>7. 0 \in U
  <2>1. Body(all[0 - 1], 0) \in [Suites(Item)[0] -> Seq(A)]
    BY SuitesFacts DEF Body
  <2> QED BY <1>0, <1>5, <2>1
<1>8. ASSUME NEW n \in Nat, n \in U PROVE n + 1 \in U
  <2> SUFFICES ASSUME n + 1 <= Depth PROVE all[n + 1] \in [Suites(Item)[n + 1] -> Seq(A)]
    OBVIOUS
  <2>1. n + 1 \in 1..Depth /\ (n + 1) - 1 = n /\ n \in 0..Depth /\ n + 1 \in 0..Depth
    BY <1>0
  <2>2. all[n] \in [Suites(Item)[n] -> Seq(A)]
    BY <1>0, <1>8
  <2>3. Body(all[n], n + 1) \in [Suites(Item)[n + 1] -> Seq(A)]
    BY <1>6, <2>1, <2>2
  <2>4. all[n + 1] = Body(all[n], n + 1)
    BY <1>5, <2>1
  <2> QED BY <2>3, <2>4
<1>9. Nat \subseteq U
  <2> HIDE DEF U
  <2> QED BY <1>7, <1>8, NatSet
<1>10. \A n \in 0..Depth : all[n] \in [Suites(Item)[n] -> Seq(A)]
  BY <1>0, <1>9
<1>11. ASSUME NEW n \in 1..Depth, NEW suite \in Suites(Item)[n]
       PROVE  all[n][suite] = own[suite] \o FlattenSeq(Inside(suite, all[n - 1]))
  <2>1. n \in 0..Depth
    BY <1>0
  <2>2. all[n] = Body(all[n - 1], n)
    BY <1>5, <2>1, Zenon
  <2>3. Body(all[n - 1], n)[suite] = own[suite] \o FlattenSeq(Inside(suite, all[n - 1]))
    BY Zenon DEF Body
  <2> QED BY <2>2, <2>3
<1> QED BY <1>10, <1>11 DEF all, Unfolds

\* A total is a number.
LEMMA TotalType == ASSUME NEW s \in Seq(Nat) PROVE Total(s) \in Nat
<1>1. Len(s) \in 0..Len(s)
  OBVIOUS
<1> QED BY <1>1, SumsFacts DEF Total

\* leaves[n] is what own counts in a suite and leaves[n - 1] in those inside.
AddsUp(Item, own, leaves) ==
    \A n \in 1..Depth : \A suite \in Suites(Item)[n] :
        leaves[n][suite] = own[suite] + Total(Inside(suite, leaves[n - 1]))

\* Leaves has the values its recursive definition says, level by level.
LEMMA LeavesFacts ==
  ASSUME NEW Item, NEW own \in [Suite(Item) -> Nat]
  PROVE  /\ \A n \in 0..Depth : Leaves(Item, own)[n] \in [Suites(Item)[n] -> Nat]
         /\ AddsUp(Item, own, Leaves(Item, own))
<1> DEFINE Body(x, n) == [suite \in Suites(Item)[n] |-> own[suite] + Total(Inside(suite, x))]
           Def(f, m) == f = [n \in 0..m |-> Body(f[n - 1], n)]
           T == {m \in Nat : \E f : Def(f, m)}
<1>0. Depth \in Nat
  BY ExtractionConstants
<1>a. \A x, y : Body(x, 0) = Body(y, 0)
  BY SuitesFacts
<1> HIDE DEF Body
<1>1. 0 \in T
  <2> DEFINE g == [n \in 0..0 |-> Body(<<>>, 0)]
  <2>1. \A n \in 0..0 : g[n] = Body(g[n - 1], n)
    BY <1>a
  <2>2. g = [n \in 0..0 |-> g[n]]
    OBVIOUS
  <2> HIDE DEF g
  <2>3. Def(g, 0)
    BY <2>1, <2>2
  <2> HIDE DEF Def
  <2> QED BY <2>3
<1>2. ASSUME NEW m \in Nat, m \in T PROVE m + 1 \in T
  <2>1. PICK f : Def(f, m)
    BY <1>2
  <2> DEFINE g == [n \in 0..(m + 1) |-> IF n = m + 1 THEN Body(f[m], m + 1) ELSE f[n]]
  <2>2. \A n \in 0..m : f[n] = Body(f[n - 1], n)
    BY <2>1, Zenon
  <2>3. ASSUME NEW n \in 0..(m + 1) PROVE g[n] = Body(g[n - 1], n)
    <3>1. CASE n = 0
      <4>1. g[0] = Body(f[0 - 1], 0)
        BY <2>2
      <4> QED BY <1>a, <3>1, <4>1
    <3>2. CASE n = m + 1
      BY <3>2
    <3>3. CASE n \in 1..m
      <4>1. g[n] = f[n] /\ g[n - 1] = f[n - 1] /\ n \in 0..m
        BY <3>3
      <4> QED BY <2>2, <4>1
    <3>4. n = 0 \/ n = m + 1 \/ n \in 1..m
      OBVIOUS
    <3> QED BY <3>1, <3>2, <3>3, <3>4
  <2>4. g = [n \in 0..(m + 1) |-> g[n]]
    OBVIOUS
  <2> HIDE DEF g
  <2>5. Def(g, m + 1)
    BY <2>3, <2>4
  <2> HIDE DEF Def
  <2> QED BY <2>5
<1>3. Nat \subseteq T
  <2> HIDE DEF T
  <2> QED BY <1>1, <1>2, NatSet
<1> DEFINE all == Leaves(Item, own)
<1>4. Def(all, Depth)
  <2>1. \E f : Def(f, Depth)
    BY <1>0, <1>3
  <2> QED BY <2>1 DEF Leaves, Body, Inside
<1>5. \A n \in 0..Depth : all[n] = Body(all[n - 1], n)
  BY <1>4, Zenon
<1> HIDE DEF Def, T, all
<1>6. ASSUME NEW n \in 1..Depth, NEW x \in [Suites(Item)[n - 1] -> Nat]
      PROVE  Body(x, n) \in [Suites(Item)[n] -> Nat]
  <2>1. ASSUME NEW suite \in Suites(Item)[n]
        PROVE  own[suite] + Total(Inside(suite, x)) \in Nat
    <3>1. own[suite] \in Nat
      BY SuitesMonotone
    <3>2. suite.suites \in Seq(Suites(Item)[n - 1])
      BY SuiteFields
    <3>3. Inside(suite, x) \in Seq(Nat)
      BY <3>2, InsideType
    <3> QED BY <3>1, <3>3, TotalType
  <2> QED BY <2>1 DEF Body
<1> DEFINE U == {n \in Nat : n <= Depth => all[n] \in [Suites(Item)[n] -> Nat]}
<1>7. 0 \in U
  <2>1. Body(all[0 - 1], 0) \in [Suites(Item)[0] -> Nat]
    BY SuitesFacts DEF Body
  <2> QED BY <1>0, <1>5, <2>1
<1>8. ASSUME NEW n \in Nat, n \in U PROVE n + 1 \in U
  <2> SUFFICES ASSUME n + 1 <= Depth PROVE all[n + 1] \in [Suites(Item)[n + 1] -> Nat]
    OBVIOUS
  <2>1. n + 1 \in 1..Depth /\ (n + 1) - 1 = n /\ n \in 0..Depth /\ n + 1 \in 0..Depth
    BY <1>0
  <2>2. all[n] \in [Suites(Item)[n] -> Nat]
    BY <1>0, <1>8
  <2>3. Body(all[n], n + 1) \in [Suites(Item)[n + 1] -> Nat]
    BY <1>6, <2>1, <2>2
  <2>4. all[n + 1] = Body(all[n], n + 1)
    BY <1>5, <2>1
  <2> QED BY <2>3, <2>4
<1>9. Nat \subseteq U
  <2> HIDE DEF U
  <2> QED BY <1>7, <1>8, NatSet
<1>10. \A n \in 0..Depth : all[n] \in [Suites(Item)[n] -> Nat]
  BY <1>0, <1>9
<1>11. ASSUME NEW n \in 1..Depth, NEW suite \in Suites(Item)[n]
       PROVE  all[n][suite] = own[suite] + Total(Inside(suite, all[n - 1]))
  <2>1. n \in 0..Depth
    BY <1>0
  <2>2. all[n] = Body(all[n - 1], n)
    BY <1>5, <2>1, Zenon
  <2>3. Body(all[n - 1], n)[suite] = own[suite] + Total(Inside(suite, all[n - 1]))
    BY Zenon DEF Body
  <2> QED BY <2>2, <2>3
<1> QED BY <1>10, <1>11 DEF all, AddsUp

\* weight is the weight of what own makes of a suite.
Weighs(Item, own, w, weight) ==
    /\ w \in [DOMAIN w -> Nat]
    /\ own \in [Suite(Item) -> Seq(DOMAIN w)]
    /\ weight \in [Suite(Item) -> Nat]
    /\ \A suite \in Suite(Item) : weight[suite] = Total(Weights(w, own[suite]))

\* Nothing nested is lost: what Preorder makes of a suite weighs what Leaves counts
\* in it, level by level.
LEMMA PreorderTotal ==
  ASSUME NEW Item, NEW own, NEW w, NEW weight, Weighs(Item, own, w, weight),
         NEW n \in 0..Depth, NEW suite \in Suites(Item)[n]
  PROVE  Total(Weights(w, Preorder(Item, own)[n][suite])) = Leaves(Item, weight)[n][suite]
<1> DEFINE A == DOMAIN w
<1>a. w \in [A -> Nat] /\ own \in [Suite(Item) -> Seq(A)]
  BY DEF Weighs
<1>b. /\ weight \in [Suite(Item) -> Nat]
      /\ \A x \in Suite(Item) : weight[x] = Total(Weights(w, own[x]))
  BY DEF Weighs
<1> HIDE DEF A
<1> DEFINE all == Preorder(Item, own)
           leaves == Leaves(Item, weight)
           T == {k \in Nat : k <= Depth => \A x \in Suites(Item)[k] :
                                Total(Weights(w, all[k][x])) = leaves[k][x]}
<1>0. Depth \in Nat
  BY ExtractionConstants
<1>1. /\ \A k \in 0..Depth : all[k] \in [Suites(Item)[k] -> Seq(A)]
      /\ \A k \in 1..Depth : \A x \in Suites(Item)[k] :
           all[k][x] = own[x] \o FlattenSeq(Inside(x, all[k - 1]))
  <2>1. /\ \A k \in 0..Depth : all[k] \in [Suites(Item)[k] -> Seq(A)]
        /\ Unfolds(Item, own, all)
    BY <1>a, PreorderFacts
  <2> HIDE DEF all
  <2> QED BY <2>1 DEF Unfolds
<1>2. /\ \A k \in 0..Depth : leaves[k] \in [Suites(Item)[k] -> Nat]
      /\ \A k \in 1..Depth : \A x \in Suites(Item)[k] :
           leaves[k][x] = weight[x] + Total(Inside(x, leaves[k - 1]))
  <2>1. /\ \A k \in 0..Depth : leaves[k] \in [Suites(Item)[k] -> Nat]
        /\ AddsUp(Item, weight, leaves)
    BY <1>b, LeavesFacts
  <2> HIDE DEF leaves
  <2> QED BY <2>1 DEF AddsUp
<1> HIDE DEF all, leaves
<1>3. 0 \in T
  BY SuitesFacts
<1>4. ASSUME NEW k \in Nat, k \in T PROVE k + 1 \in T
  <2> SUFFICES ASSUME k + 1 <= Depth, NEW x \in Suites(Item)[k + 1]
               PROVE  Total(Weights(w, all[k + 1][x])) = leaves[k + 1][x]
    OBVIOUS
  <2>1. k + 1 \in 1..Depth /\ (k + 1) - 1 = k /\ k \in 0..Depth
    BY <1>0
  <2>2. all[k] \in [Suites(Item)[k] -> Seq(A)] /\ leaves[k] \in [Suites(Item)[k] -> Nat]
    BY <1>1, <1>2, <2>1
  <2> DEFINE ss == Inside(x, all[k])
  <2>3. /\ ss \in Seq(Seq(A)) /\ DOMAIN ss = DOMAIN x.suites
        /\ \A i \in DOMAIN x.suites : ss[i] = all[k][x.suites[i]]
    <3>1. x.suites \in Seq(Suites(Item)[k])
      BY <2>1, SuiteFields
    <3> DEFINE f == all[k]
               R == Seq(A)
    <3>2. f \in [Suites(Item)[k] -> R]
      BY <2>2
    <3> HIDE DEF f, R
    <3>3. /\ Inside(x, f) \in Seq(R) /\ DOMAIN Inside(x, f) = DOMAIN x.suites
          /\ \A i \in DOMAIN x.suites : Inside(x, f)[i] = f[x.suites[i]]
      BY <3>1, <3>2, InsideType, InsideFacts
    <3> QED BY <3>3 DEF f, R
  <2>4. all[k + 1][x] = own[x] \o FlattenSeq(ss)
    BY <1>1, <2>1
  <2>5. leaves[k + 1][x] = weight[x] + Total(Inside(x, leaves[k]))
    BY <1>2, <2>1
  <2> HIDE DEF ss
  <2>6. x \in Suite(Item) /\ own[x] \in Seq(A) /\ FlattenSeq(ss) \in Seq(A)
    <3>1. k + 1 \in 0..Depth
      BY <2>1
    <3>2. x \in Suite(Item)
      BY <3>1, SuitesMonotone
    <3> QED BY <1>a, <2>3, <3>2, FlattenType
  <2>7. Total(Weights(w, all[k + 1][x]))
          = Total(Weights(w, own[x])) + Total(Weights(w, FlattenSeq(ss)))
    <3> DEFINE p == own[x]
               q == FlattenSeq(ss)
    <3>1. p \in Seq(A) /\ q \in Seq(A) /\ all[k + 1][x] = p \o q
      BY <2>4, <2>6
    <3> HIDE DEF p, q
    <3>2. Total(Weights(w, p \o q)) = Total(Weights(w, p)) + Total(Weights(w, q))
      BY <1>a, <3>1, WeightsConcat
    <3>3. Total(Weights(w, all[k + 1][x])) = Total(Weights(w, p)) + Total(Weights(w, q))
      BY <3>1, <3>2
    <3> QED BY <3>3 DEF p, q
  <2>8. Total(Weights(w, FlattenSeq(ss)))
          = Total([i \in DOMAIN ss |-> Total(Weights(w, ss[i]))])
    BY <1>a, <2>3, FlattenTotal
  <2>9. \A i \in DOMAIN x.suites : Total(Weights(w, ss[i])) = leaves[k][x.suites[i]]
    <3>1. \A i \in DOMAIN x.suites : x.suites[i] \in Suites(Item)[k]
      BY <2>1, SuiteFields
    <3>2. \A y \in Suites(Item)[k] : Total(Weights(w, all[k][y])) = leaves[k][y]
      BY <1>0, <1>4
    <3> QED BY <2>3, <3>1, <3>2, Zenon
  <2>10. [i \in DOMAIN ss |-> Total(Weights(w, ss[i]))] = Inside(x, leaves[k])
    BY <2>3, <2>9 DEF Inside
  <2> QED BY <1>b, <2>5, <2>6, <2>7, <2>8, <2>10
<1>5. Nat \subseteq T
  <2> HIDE DEF T
  <2> QED BY <1>3, <1>4, NatSet
<1> QED BY <1>0, <1>5 DEF all, leaves

------------------------------------------------------------------------------
(* The numbers of cases *)

\* The numbers NumberedFrom gives to the cases of suite i.
Interval(lens, first, i) == (first + Sums(lens)[i - 1])..(first + Sums(lens)[i] - 1)

\* A number belongs to suite i exactly if its offset is an index of its cases.
LEMMA IntervalIn ==
  ASSUME NEW lens \in Seq(Nat), NEW first \in Nat, NEW i \in 1..Len(lens)
  PROVE  /\ first + Sums(lens)[i - 1] \in Nat
         /\ Interval(lens, first, i) \subseteq first..(first + Total(lens) - 1)
         /\ \A n : n \in Interval(lens, first, i) <=>
                     /\ n \in Int
                     /\ n - (first + Sums(lens)[i - 1]) + 1 \in 1..lens[i]
<1>1. /\ i - 1 \in 0..Len(lens) /\ i \in 0..Len(lens) /\ Len(lens) \in 0..Len(lens)
      /\ i <= Len(lens) /\ lens[i] \in Nat
  OBVIOUS
<1>2. /\ Sums(lens)[i - 1] \in Nat /\ Sums(lens)[i] \in Nat /\ Total(lens) \in Nat
      /\ Sums(lens)[i] = Sums(lens)[i - 1] + lens[i]
  BY <1>1, SumsFacts DEF Total
<1>3. Sums(lens)[i] <= Total(lens)
  BY <1>1, SumsMonotone DEF Total
<1> DEFINE a == Sums(lens)[i - 1]
           b == Sums(lens)[i]
<1>4. Interval(lens, first, i) = (first + a)..(first + b - 1)
  BY DEF Interval
<1> DEFINE l == lens[i]
           t == Total(lens)
           S == Interval(lens, first, i)
<1>5. a \in Nat /\ b \in Nat /\ l \in Nat /\ b = a + l /\ b <= t /\ t \in Nat
  BY <1>1, <1>2, <1>3
<1>6. S = (first + a)..(first + b - 1)
  BY <1>4
<1> HIDE DEF a, b, l, t, S
<1>7. first + a \in Nat
  BY <1>5
<1>8. S \subseteq first..(first + t - 1)
  BY <1>5, <1>6
<1>9. \A n : n \in S => n \in Int /\ n - (first + a) + 1 \in 1..l
  BY <1>5, <1>6
<1>10. \A n \in Int : n - (first + a) + 1 \in 1..l => n \in S
  BY <1>5, <1>6
<1> QED BY <1>7, <1>8, <1>9, <1>10 DEF a, l, t, S

\* No number is given to two suites.
LEMMA IntervalsApart ==
  ASSUME NEW lens \in Seq(Nat), NEW first \in Nat,
         NEW i \in 1..Len(lens), NEW j \in 1..Len(lens), i # j
  PROVE  Interval(lens, first, i) \cap Interval(lens, first, j) = {}
<1>1. ASSUME NEW k \in 1..Len(lens), NEW l \in 1..Len(lens), k < l
      PROVE  Interval(lens, first, k) \cap Interval(lens, first, l) = {}
  <2>1. k \in 0..Len(lens) /\ l - 1 \in 0..Len(lens) /\ k <= l - 1 /\ k - 1 \in 0..Len(lens)
        /\ l \in 0..Len(lens)
    BY <1>1
  <2>2. Sums(lens)[k] <= Sums(lens)[l - 1]
    BY <2>1, SumsMonotone
  <2>3. Sums(lens)[k] \in Nat /\ Sums(lens)[l - 1] \in Nat /\ Sums(lens)[k - 1] \in Nat
        /\ Sums(lens)[l] \in Nat
    BY <2>1, SumsFacts
  <2> DEFINE a == Sums(lens)[k - 1]
             b == Sums(lens)[k]
             c == Sums(lens)[l - 1]
             d == Sums(lens)[l]
  <2>4. Interval(lens, first, k) = (first + a)..(first + b - 1)
        /\ Interval(lens, first, l) = (first + c)..(first + d - 1)
    BY DEF Interval
  <2>5. a \in Nat /\ b \in Nat /\ c \in Nat /\ d \in Nat /\ b <= c
    BY <2>2, <2>3
  <2> HIDE DEF a, b, c, d
  <2> QED BY <2>4, <2>5
<1>2. i < j \/ j < i
  OBVIOUS
<1> QED BY <1>1, <1>2

\* Every number up to the total is given to some suite.
LEMMA IntervalsCover ==
  ASSUME NEW lens \in Seq(Nat), NEW first \in Nat,
         NEW n \in first..(first + Total(lens) - 1)
  PROVE  \E i \in 1..Len(lens) : n \in Interval(lens, first, i)
<1>1. Total(lens) \in Nat
  BY TotalType
<1>2. n - first \in Nat /\ n - first < Total(lens)
  BY <1>1
<1>3. PICK i \in 1..Len(lens) : Sums(lens)[i - 1] <= n - first /\ n - first < Sums(lens)[i]
  BY <1>2, SumsCover
<1>4. i - 1 \in 0..Len(lens) /\ i \in 0..Len(lens)
  OBVIOUS
<1>5. Sums(lens)[i - 1] \in Nat /\ Sums(lens)[i] \in Nat
  BY <1>4, SumsFacts
<1> DEFINE a == Sums(lens)[i - 1]
           b == Sums(lens)[i]
<1>6. Interval(lens, first, i) = (first + a)..(first + b - 1)
  BY DEF Interval
<1>7. a \in Nat /\ b \in Nat /\ a <= n - first /\ n - first < b
  BY <1>3, <1>5
<1> HIDE DEF a, b
<1>8. n \in Interval(lens, first, i)
  BY <1>6, <1>7
<1> QED BY <1>8

\* Cases by their sequence numbers.
CaseMap(C) == UNION {[D -> C] : D \in SUBSET Nat}

\* A function on numbers is such a map,
LEMMA CaseMapIn ==
  ASSUME NEW C, NEW D \in SUBSET Nat, NEW f \in [D -> C]
  PROVE  f \in CaseMap(C)
BY DEF CaseMap

\* and such a map is a function on numbers.
LEMMA CaseMapOut ==
  ASSUME NEW C, NEW f \in CaseMap(C)
  PROVE  DOMAIN f \subseteq Nat /\ \A n \in DOMAIN f : f[n] \in C
BY DEF CaseMap

\* The strings; the provers do not know the literals to be among them.
Text == STRING \cup {"", "Root", "passed", "failed", "skipped", "flaky"}

\* Suites before and after their cases are numbered.
Raw(C) == [title : Seq(Text), cases : Seq(C)]
Numbered(C) == [title : Seq(Text), cases : CaseMap(C)]

\* The suites' cases have the numbers from first on, each one of them once.
Spread(suites, first, count) ==
    /\ UNION {DOMAIN suites[i].cases : i \in DOMAIN suites} = first..(first + count - 1)
    /\ \A i, j \in DOMAIN suites : i # j => DOMAIN suites[i].cases
                                              \cap DOMAIN suites[j].cases = {}

\* Numbers spread from first on move global_sequence by as many.
LEMMA SpreadCount ==
  ASSUME NEW suites, NEW first \in Nat, NEW count \in Nat, Spread(suites, first, count)
  PROVE  CaseCount(suites) = count
<1>1. UNION {DOMAIN suites[i].cases : i \in DOMAIN suites} = first..(first + count - 1)
  BY DEF Spread
<1>2. first \in Int /\ first + count - 1 \in Int
  OBVIOUS
<1>3. Cardinality(first..(first + count - 1))
        = IF first > first + count - 1 THEN 0 ELSE (first + count - 1) - first + 1
  BY <1>2, FS_Interval
<1>4. Cardinality(first..(first + count - 1)) = count
  BY <1>3
<1> QED BY <1>1, <1>4 DEF CaseCount

\* InOrder gives every case of a document one number, from first on.
LEMMA NumberedFacts ==
  ASSUME NEW C, NEW raw \in Seq(Raw(C)), NEW first \in Nat
  PROVE  /\ InOrder(raw, first) \in Seq(Numbered(C))
         /\ Spread(InOrder(raw, first), first, Total([i \in DOMAIN raw |-> Len(raw[i].cases)]))
<1> DEFINE lens == [i \in DOMAIN raw |-> Len(raw[i].cases)]
           suites == InOrder(raw, first)
           from(i) == first + Sums(lens)[i - 1]
<1>1. /\ DOMAIN raw = 1..Len(raw) /\ Len(raw) \in Nat
      /\ \A i \in DOMAIN raw : raw[i].title \in Seq(Text) /\ raw[i].cases \in Seq(C)
  <2>1. DOMAIN raw = 1..Len(raw) /\ Len(raw) \in Nat /\ \A i \in DOMAIN raw : raw[i] \in Raw(C)
    OBVIOUS
  <2>2. \A r \in Raw(C) : r.title \in Seq(Text) /\ r.cases \in Seq(C)
    BY DEF Raw
  <2> QED BY <2>1, <2>2
<1>2. lens \in Seq(Nat) /\ Len(lens) = Len(raw)
      /\ \A i \in DOMAIN raw : lens[i] = Len(raw[i].cases)
  BY <1>1
<1>3. suites = [i \in DOMAIN raw |->
                  [title |-> raw[i].title,
                   cases |-> [n \in Interval(lens, first, i) |->
                                raw[i].cases[n - from(i) + 1]]]]
  BY Zenon DEF InOrder, NumberedFrom, Interval
<1> HIDE DEF lens, suites
<1>4. ASSUME NEW i \in DOMAIN raw
      PROVE  /\ suites[i].title \in Seq(Text) /\ suites[i].cases \in CaseMap(C)
             /\ DOMAIN suites[i].cases = Interval(lens, first, i)
             /\ suites[i] \in Numbered(C)
  <2>1. i \in 1..Len(lens)
    BY <1>1, <1>2
  <2>2. /\ first + Sums(lens)[i - 1] \in Nat
        /\ \A n : n \in Interval(lens, first, i) <=>
                     n \in Int /\ n - from(i) + 1 \in 1..lens[i]
    BY <1>2, <2>1, IntervalIn
  <2>3. Interval(lens, first, i) \in SUBSET Nat
    BY <2>2
  <2>4. \A n \in Interval(lens, first, i) : raw[i].cases[n - from(i) + 1] \in C
    <3>1. \A m \in 1..lens[i] : raw[i].cases[m] \in C
      BY <1>1, <1>2
    <3> QED BY <2>2, <3>1
  <2> DEFINE f == [n \in Interval(lens, first, i) |-> raw[i].cases[n - from(i) + 1]]
  <2>5. f \in [Interval(lens, first, i) -> C]
    BY <2>4
  <2>6. DOMAIN f = Interval(lens, first, i)
    OBVIOUS
  <2>7. suites[i] = [title |-> raw[i].title, cases |-> f]
    BY <1>3, Zenon
  <2> HIDE DEF f
  <2>8. f \in CaseMap(C)
    BY <2>3, <2>5, CaseMapIn
  <2>9. suites[i].title = raw[i].title /\ suites[i].cases = f
    BY <2>7
  <2>10. raw[i].title \in Seq(Text)
    BY <1>1
  <2> HIDE DEF from
  <2>11. suites[i] \in Numbered(C)
    BY <2>7, <2>8, <2>10 DEF Numbered
  <2> QED BY <2>6, <2>8, <2>9, <2>10, <2>11
<1>5. DOMAIN suites = 1..Len(raw) /\ suites \in Seq(Numbered(C))
  <2>1. DOMAIN suites = 1..Len(raw)
    BY <1>1, <1>3
  <2>2. suites = [i \in 1..Len(raw) |-> suites[i]]
    BY <1>1, <1>3
  <2>3. \A i \in 1..Len(raw) : suites[i] \in Numbered(C)
    BY <1>1, <1>4
  <2> HIDE DEF from
  <2> QED BY <1>1, <2>1, <2>2, <2>3
<1>6. UNION {DOMAIN suites[i].cases : i \in DOMAIN suites} = first..(first + Total(lens) - 1)
  <2>1. \A i \in DOMAIN suites : /\ i \in 1..Len(lens)
                                    /\ DOMAIN suites[i].cases = Interval(lens, first, i)
    BY <1>1, <1>2, <1>4, <1>5
  <2>2. \A i \in DOMAIN suites : DOMAIN suites[i].cases \subseteq first..(first + Total(lens) - 1)
    BY <1>2, <2>1, IntervalIn
  <2>3. ASSUME NEW n \in first..(first + Total(lens) - 1)
        PROVE  \E i \in DOMAIN suites : n \in DOMAIN suites[i].cases
    <3>1. PICK i \in 1..Len(lens) : n \in Interval(lens, first, i)
      BY <1>2, IntervalsCover
    <3> QED BY <1>2, <1>5, <2>1, <3>1
  <2> QED BY <2>2, <2>3, Zenon
<1>7. \A i, j \in DOMAIN suites : i # j =>
        DOMAIN suites[i].cases \cap DOMAIN suites[j].cases = {}
  <2>1. \A i \in DOMAIN suites : /\ i \in 1..Len(lens)
                                    /\ DOMAIN suites[i].cases = Interval(lens, first, i)
    BY <1>1, <1>2, <1>4, <1>5
  <2> QED BY <1>2, <2>1, IntervalsApart
<1>8. Spread(suites, first, Total(lens))
  BY <1>6, <1>7, Zenon DEF Spread
<1> QED BY <1>5, <1>8 DEF suites, lens

------------------------------------------------------------------------------
(* Detox *)

\* An order of a finite set has each element at one place.
LEMMA OrderFacts ==
  ASSUME NEW S, IsFiniteSet(S), NEW o \in SetToSeqs(S)
  PROVE  /\ o \in Seq(S) /\ Len(o) = Cardinality(S) /\ Cardinality(S) \in Nat
         /\ DOMAIN o = 1..Cardinality(S)
         /\ \A i, j \in DOMAIN o : o[i] = o[j] => i = j
         /\ \A x \in S : \E i \in DOMAIN o : o[i] = x
<1>1. Cardinality(S) \in Nat
  BY FS_CardinalityType
<1> DEFINE D == 1..Cardinality(S)
<1>2. o \in [D -> S] /\ \A i, j \in D : i # j => o[i] # o[j]
  BY DEF SetToSeqs
<1>3. IsFiniteSet(D) /\ Cardinality(D) = Cardinality(S)
  <2>1. 1 \in Int /\ Cardinality(S) \in Int
    BY <1>1
  <2>2. IsFiniteSet(D) /\ Cardinality(D)
          = IF 1 > Cardinality(S) THEN 0 ELSE Cardinality(S) - 1 + 1
    BY <2>1, FS_Interval
  <2> QED BY <1>1, <2>2
<1>4. o \in Injection(D, S)
  <2>1. \A a, b \in D : o[a] = o[b] => a = b
    BY <1>2
  <2> QED BY <1>2, <2>1, Fun_IsInj, Zenon
<1>5. o \in Surjection(D, S)
  BY <1>3, <1>4, FS_Injection, Zenon
<1>6. \A x \in S : \E i \in D : o[i] = x
  BY <1>5 DEF Surjection
<1>7. o \in Seq(S) /\ Len(o) = Cardinality(S) /\ DOMAIN o = D
  BY <1>1, <1>2
<1> QED BY <1>1, <1>2, <1>6, <1>7

\* How many tests each file of Detox has.
Lens(files) == [i \in DOMAIN files |-> Len(files[i].tests)]

\* The fields of the files of Detox.
LEMMA LensFacts ==
  ASSUME NEW files \in Seq(DetoxFile)
  PROVE  /\ Lens(files) \in Seq(Nat) /\ Len(Lens(files)) = Len(files)
         /\ DOMAIN files = 1..Len(files)
         /\ \A i \in DOMAIN files : /\ files[i].path \in STRING
                                       /\ files[i].tests \in Seq(DetoxTest)
                                    /\ Lens(files)[i] = Len(files[i].tests)
                                    /\ DOMAIN files[i].tests = 1..Lens(files)[i]
<1>1. DOMAIN files = 1..Len(files) /\ Len(files) \in Nat
      /\ \A i \in DOMAIN files : files[i] \in DetoxFile
  OBVIOUS
<1>2. \A file \in DetoxFile : file.path \in STRING /\ file.tests \in Seq(DetoxTest)
  BY DEF DetoxFile
<1>3. \A i \in DOMAIN files : files[i].path \in STRING /\ files[i].tests \in Seq(DetoxTest)
  BY <1>1, <1>2
<1>4. \A i \in DOMAIN files : Len(files[i].tests) \in Nat
                              /\ DOMAIN files[i].tests = 1..Len(files[i].tests)
  BY <1>3
<1>5. Lens(files) = [i \in 1..Len(files) |-> Len(files[i].tests)]
  BY <1>1 DEF Lens
<1> QED BY <1>1, <1>3, <1>4, <1>5

\* A group of tests is some test's ancestors in a file.
LEMMA GroupFacts ==
  ASSUME NEW files \in Seq(DetoxFile), NEW group \in DetoxGroups(files)
  PROVE  /\ group[1] \in 1..Len(files)
         /\ \E j \in DOMAIN files[group[1]].tests :
           /\ group[2] = files[group[1]].tests[j].ancestors
                                                    /\ group = <<group[1], group[2]>>
<1>1. PICK i \in DOMAIN files : group \in
        {<<i, files[i].tests[j].ancestors>> : j \in DOMAIN files[i].tests}
  BY DEF DetoxGroups
<1>2. PICK j \in DOMAIN files[i].tests : group = <<i, files[i].tests[j].ancestors>>
  BY <1>1
<1>3. group[1] = i /\ group[2] = files[i].tests[j].ancestors
  BY <1>2
<1>4. i \in 1..Len(files)
  OBVIOUS
<1> QED BY <1>2, <1>3, <1>4

\* There are finitely many groups: no more than tests.
LEMMA GroupsFinite ==
  ASSUME NEW files \in Seq(DetoxFile)
  PROVE  IsFiniteSet(DetoxGroups(files))
<1> DEFINE lens == Lens(files)
           D == 0..(0 + Total(lens) - 1)
           Of(n) == CHOOSE i \in 1..Len(lens) : n \in Interval(lens, 0, i)
           G == DetoxGroups(files)
           f == [n \in D |->
                   <<Of(n), files[Of(n)].tests[n - (0 + Sums(lens)[Of(n) - 1]) + 1].ancestors>>]
<1>1. /\ lens \in Seq(Nat) /\ Len(lens) = Len(files) /\ DOMAIN files = 1..Len(files)
      /\ \A i \in DOMAIN files : DOMAIN files[i].tests = 1..lens[i]
  BY LensFacts
<1> HIDE DEF lens
<1>2. ASSUME NEW n \in D, NEW i \in 1..Len(lens), n \in Interval(lens, 0, i) PROVE Of(n) = i
  <2>1. Of(n) \in 1..Len(lens) /\ n \in Interval(lens, 0, Of(n))
    BY <1>2
  <2> HIDE DEF Of
  <2> QED BY <1>1, <1>2, <2>1, IntervalsApart
<1>3. \A g \in G : \E n \in D : f[n] = g
  <2> SUFFICES ASSUME NEW g \in G PROVE \E n \in D : f[n] = g
    OBVIOUS
  <2>1. /\ g[1] \in 1..Len(files)
        /\ \E j \in DOMAIN files[g[1]].tests : g[2] = files[g[1]].tests[j].ancestors
                                               /\ g = <<g[1], g[2]>>
    BY GroupFacts
  <2>2. PICK j \in DOMAIN files[g[1]].tests : g[2] = files[g[1]].tests[j].ancestors
                                              /\ g = <<g[1], g[2]>>
    BY <2>1
  <2> DEFINE i == g[1]
             a == Sums(lens)[i - 1]
             n == a + j - 1
  <2>3. i \in 1..Len(lens) /\ j \in 1..lens[i]
    BY <1>1, <2>1, <2>2
  <2>4. /\ 0 + a \in Nat
        /\ Interval(lens, 0, i) \subseteq D
        /\ \A m : m \in Interval(lens, 0, i) <=> m \in Int /\ m - (0 + a) + 1 \in 1..lens[i]
    BY <1>1, <2>3, IntervalIn
  <2>5. i - 1 \in 0..Len(lens) /\ i \in 0..Len(lens) /\ lens[i] \in Nat
    BY <1>1, <2>3
  <2>6. a \in Nat
    BY <1>1, <2>5, SumsFacts
  <2> HIDE DEF a, D
  <2>7. n \in Int /\ n - (0 + a) + 1 = j
    BY <2>3, <2>5, <2>6
  <2> HIDE DEF n
  <2>8. n \in Interval(lens, 0, i)
    BY <2>3, <2>4, <2>7
  <2>9. n \in D /\ Of(n) = i
    BY <1>2, <2>3, <2>4, <2>8
  <2> HIDE DEF Of
  <2>10. f[n] = <<i, files[i].tests[n - (0 + a) + 1].ancestors>>
    BY <2>9 DEF a
  <2>11. f[n] = g
    BY <2>2, <2>7, <2>10
  <2> HIDE DEF f
  <2> QED BY <2>9, <2>11
<1>4. IsFiniteSet(D)
  <2>1. Total(lens) \in Nat
    BY <1>1, TotalType
  <2>2. 0 \in Int /\ 0 + Total(lens) - 1 \in Int
    BY <2>1
  <2> QED BY <2>2, FS_Interval
<1>5. f \in [D -> {f[n] : n \in D}]
  OBVIOUS
<1> DEFINE R == {f[n] : n \in D}
<1>6. \A t \in R : \E n \in D : f[n] = t
  OBVIOUS
<1> HIDE DEF f, D, G
<1>7. f \in Surjection(D, R)
  BY <1>5, <1>6, Fun_IsSurj, Zenon
<1> HIDE DEF R
<1>8. IsFiniteSet(R)
  BY <1>4, <1>7, FS_Surjection, Zenon
<1>9. G \in SUBSET R
  BY <1>3 DEF R
<1> QED BY <1>8, <1>9, FS_Subset DEF G

\* A title is never missing.
LEMMA OrRootType == ASSUME NEW title \in STRING PROVE OrRoot(title) \in Text
BY DEF OrRoot, Text

\* A sequence over a set is one over any larger set.
LEMMA SeqMonotone == ASSUME NEW A, NEW B, A \subseteq B, NEW s \in Seq(A) PROVE s \in Seq(B)
OBVIOUS

\* Strings are texts.
LEMMA TextIn == STRING \subseteq Text /\ Seq(STRING) \subseteq Seq(Text)
<1>1. STRING \subseteq Text
  BY DEF Text
<1>2. ASSUME NEW s \in Seq(STRING) PROVE s \in Seq(Text)
  BY <1>1, SeqMonotone
<1> QED BY <1>1, <1>2

\* The numbers of the tests of a group.
DetoxNumbers(files, group, first) ==
    {n \in Interval(Lens(files), first, group[1]) :
        files[group[1]].tests[n - (first + Sums(Lens(files))[group[1] - 1]) + 1].ancestors
          = group[2]}

\* A suite of Detox, with the numbers written as an interval's.
LEMMA DetoxSuiteIs ==
  ASSUME NEW files \in Seq(DetoxFile), NEW group \in DetoxGroups(files), NEW first \in Nat
  PROVE  DetoxSuite(files, group, first) =
           [title |-> IF group[2] = <<>> THEN <<OrRoot(files[group[1]].path)>> ELSE group[2],
            cases |-> [n \in DetoxNumbers(files, group, first) |->
                          DetoxCase(files[group[1]].tests
                                      [n - (first + Sums(Lens(files))[group[1] - 1]) + 1])]]
<1> DEFINE lens == Lens(files)
           i == group[1]
           tests == files[i].tests
           a == Sums(lens)[i - 1]
           Numbers == {n \in Interval(lens, first, i) :
                           tests[n - (first + a) + 1].ancestors = group[2]}
           f == [n \in Numbers |-> DetoxCase(tests[n - (first + a) + 1])]
           title == IF group[2] = <<>> THEN <<OrRoot(files[i].path)>> ELSE group[2]
<1>1. /\ lens \in Seq(Nat) /\ Len(lens) = Len(files) /\ i \in 1..Len(lens)
      /\ files[i].path \in STRING /\ tests \in Seq(DetoxTest)
      /\ lens[i] = Len(tests) /\ DOMAIN tests = 1..lens[i]
  BY LensFacts, GroupFacts
<1>2. Interval(lens, first, i) = (first + a)..(first + a + Len(tests) - 1)
  <2> HIDE DEF lens, i
  <2>1. i \in 1..Len(lens) /\ i - 1 \in 0..Len(lens)
    BY <1>1
  <2>2. Sums(lens)[i] = a + lens[i] /\ a \in Nat /\ lens[i] \in Nat
    BY <1>1, <2>1, SumsFacts
  <2> DEFINE b == Sums(lens)[i]
             l == Len(tests)
  <2>3. Interval(lens, first, i) = (first + a)..(first + b - 1)
    BY DEF Interval
  <2>4. b = a + l /\ l \in Nat
    BY <1>1, <2>2
  <2> HIDE DEF a, b, l
  <2>5. first + b - 1 = first + a + l - 1
    BY <2>2, <2>4
  <2> QED BY <2>3, <2>5 DEF l
<1>3. DetoxSuite(files, group, first) = [title |-> title, cases |-> f]
  <2> DEFINE M == {n \in (first + a)..(first + a + Len(tests) - 1) :
                      tests[n - (first + a) + 1].ancestors = group[2]}
  <2>1. DetoxSuite(files, group, first)
          = [title |-> title, cases |-> [n \in M |-> DetoxCase(tests[n - (first + a) + 1])]]
    BY DEF DetoxSuite, Lens
  <2>2. M = Numbers
    BY <1>2
  <2> HIDE DEF M, Numbers
  <2> QED BY <2>1, <2>2
<1> QED BY <1>3, Zenon DEF DetoxNumbers

\* They are the numbers of its cases.
LEMMA DetoxNumbersFacts ==
  ASSUME NEW files \in Seq(DetoxFile), NEW group \in DetoxGroups(files), NEW first \in Nat
  PROVE  DOMAIN DetoxSuite(files, group, first).cases = DetoxNumbers(files, group, first)
BY DetoxSuiteIs

\* A suite of Detox is a suite with numbered cases.
LEMMA DetoxSuiteFacts ==
  ASSUME NEW files \in Seq(DetoxFile), NEW C, \A test \in DetoxTest : DetoxCase(test) \in C,
         NEW group \in DetoxGroups(files), NEW first \in Nat
  PROVE  DetoxSuite(files, group, first) \in Numbered(C)
<1> DEFINE lens == Lens(files)
           i == group[1]
           tests == files[i].tests
           a == Sums(lens)[i - 1]
           Numbers == {n \in Interval(lens, first, i) :
                           tests[n - (first + a) + 1].ancestors = group[2]}
           f == [n \in Numbers |-> DetoxCase(tests[n - (first + a) + 1])]
           title == IF group[2] = <<>> THEN <<OrRoot(files[i].path)>> ELSE group[2]
<1>1. /\ lens \in Seq(Nat) /\ Len(lens) = Len(files) /\ i \in 1..Len(lens)
      /\ files[i].path \in STRING /\ tests \in Seq(DetoxTest)
      /\ lens[i] = Len(tests) /\ DOMAIN tests = 1..lens[i]
  BY LensFacts, GroupFacts
<1>3. DetoxSuite(files, group, first) = [title |-> title, cases |-> f]
  BY DetoxSuiteIs, Zenon DEF DetoxNumbers
<1>4. \A n : n \in Interval(lens, first, i) => n \in Nat /\ n - (first + a) + 1 \in 1..lens[i]
  <2>1. /\ first + Sums(lens)[i - 1] \in Nat
        /\ \A n : n \in Interval(lens, first, i) <=>
                     n \in Int /\ n - (first + Sums(lens)[i - 1]) + 1 \in 1..lens[i]
    BY <1>1, IntervalIn
  <2> DEFINE b == first + Sums(lens)[i - 1]
             l == lens[i]
  <2>2. b \in Nat /\ \A n : n \in Interval(lens, first, i) <=> n \in Int /\ n - b + 1 \in 1..l
    BY <2>1
  <2> HIDE DEF b, l
  <2>3. \A n : n \in Interval(lens, first, i) => n \in Nat /\ n - b + 1 \in 1..l
    BY <2>2
  <2> QED BY <2>3 DEF b, l
<1>5. Numbers \in SUBSET Nat
  BY <1>4
<1>6. f \in [Numbers -> C]
  <2>1. \A n \in Numbers : tests[n - (first + a) + 1] \in DetoxTest
    BY SMTT(30), <1>1, <1>4
  <2> HIDE DEF tests
  <2> QED BY <2>1
<1>7. DOMAIN f = Numbers
  OBVIOUS
<1>8. title \in Seq(Text)
  <2>1. group[2] \in Seq(STRING)
    <3>1. PICK j \in DOMAIN tests : group[2] = tests[j].ancestors
      BY GroupFacts
    <3>2. tests[j] \in DetoxTest
      BY <1>1, <3>1
    <3> QED BY <3>1, <3>2 DEF DetoxTest
  <2>2. OrRoot(files[i].path) \in Text
    BY <1>1, OrRootType
  <2> QED BY <2>1, <2>2, TextIn
<1> HIDE DEF f, title, Numbers
<1>9. f \in CaseMap(C)
  BY <1>5, <1>6, CaseMapIn
<1>10. DetoxSuite(files, group, first) \in Numbered(C)
  BY <1>3, <1>8, <1>9 DEF Numbered
<1> QED BY <1>10

\* Detox: in whatever order the groups come, every test gets one number.
LEMMA DetoxFacts ==
  ASSUME NEW document, document.testResults \in Seq(DetoxFile), NEW first \in Nat,
         NEW C, \A test \in DetoxTest : DetoxCase(test) \in C,
         NEW suites \in ExtractDetox(document, first)
  PROVE  /\ suites \in Seq(Numbered(C))
         /\ Spread(suites, first,
                   Total([i \in DOMAIN document.testResults |->
                             Len(document.testResults[i].tests)]))
<1> DEFINE files == document.testResults
           lens == Lens(files)
           G == DetoxGroups(files)
<1>1. PICK order \in SetToSeqs(G) :
        suites = [i \in DOMAIN order |-> DetoxSuite(files, order[i], first)]
  BY DEF ExtractDetox
<1>2. /\ order \in Seq(G) /\ Len(order) = Cardinality(G) /\ Cardinality(G) \in Nat
      /\ DOMAIN order = 1..Cardinality(G)
      /\ \A i, j \in DOMAIN order : order[i] = order[j] => i = j
      /\ \A x \in G : \E i \in DOMAIN order : order[i] = x
  BY GroupsFinite, OrderFacts
<1>3. /\ lens \in Seq(Nat) /\ Len(lens) = Len(files)
      /\ \A i \in DOMAIN files : DOMAIN files[i].tests = 1..lens[i]
      /\ DOMAIN files = 1..Len(files)
  BY LensFacts
<1> DEFINE In(g, n) == /\ n \in Interval(lens, first, g[1])
                       /\ files[g[1]].tests[n - (first + Sums(lens)[g[1] - 1]) + 1].ancestors
                            = g[2]
<1>4. ASSUME NEW i \in DOMAIN order
      PROVE  /\ suites[i] \in Numbered(C)
             /\ \A n : n \in DOMAIN suites[i].cases <=> In(order[i], n)
             /\ order[i] \in G
  <2>1. order[i] \in G /\ suites[i] = DetoxSuite(files, order[i], first)
    BY <1>1, <1>2
  <2> DEFINE g == order[i]
  <2>2. g \in DetoxGroups(files)
    BY <2>1
  <2> HIDE DEF g
  <2>3. /\ DetoxSuite(files, g, first) \in Numbered(C)
        /\ DOMAIN DetoxSuite(files, g, first).cases
              = DetoxNumbers(files, g, first)
    BY <2>2, DetoxSuiteFacts, DetoxNumbersFacts
  <2>4. \A n : n \in DetoxNumbers(files, g, first) <=> In(g, n)
    BY DEF DetoxNumbers
  <2> HIDE DEF In
  <2> QED BY <2>1, <2>3, <2>4 DEF g
<1>5. ASSUME NEW g \in G PROVE g[1] \in 1..Len(lens) /\ g = <<g[1], g[2]>>
  BY <1>3, GroupFacts
<1> HIDE DEF G, lens
<1>6. DOMAIN suites = DOMAIN order /\ suites \in Seq(Numbered(C))
  <2>1. DOMAIN suites = 1..Cardinality(G) /\ suites = [i \in 1..Cardinality(G) |-> suites[i]]
    BY <1>1, <1>2
  <2>2. \A i \in 1..Cardinality(G) : suites[i] \in Numbered(C)
    BY <1>2, <1>4
  <2> HIDE DEF In
  <2> QED BY <1>2, <2>1, <2>2
<1>7. ASSUME NEW i \in DOMAIN suites, NEW j \in DOMAIN suites, i # j, NEW n,
             n \in DOMAIN suites[i].cases, n \in DOMAIN suites[j].cases
      PROVE  FALSE
  <2>1. /\ order[i] \in G /\ order[j] \in G /\ order[i] # order[j]
        /\ In(order[i], n) /\ In(order[j], n)
    BY <1>2, <1>4, <1>6, <1>7
  <2>2. order[i][1] = order[j][1]
    BY <1>3, <1>5, <2>1, IntervalsApart
  <2>3. order[i][2] = order[j][2]
    BY <2>1, <2>2
  <2> QED BY <1>5, <2>1, <2>2, <2>3
<1>8. \A i \in DOMAIN suites : DOMAIN suites[i].cases \subseteq first..(first + Total(lens) - 1)
  <2> TAKE i \in DOMAIN suites
  <2>1. order[i] \in G /\ \A n : n \in DOMAIN suites[i].cases =>
          n \in Interval(lens, first, order[i][1])
    BY <1>4, <1>6
  <2>2. Interval(lens, first, order[i][1]) \subseteq first..(first + Total(lens) - 1)
    BY <1>3, <1>5, <2>1, IntervalIn
  <2> QED BY <2>1, <2>2
<1>9. ASSUME NEW n \in first..(first + Total(lens) - 1)
      PROVE  \E i \in DOMAIN suites : n \in DOMAIN suites[i].cases
  <2>1. PICK f \in 1..Len(lens) : n \in Interval(lens, first, f)
    BY <1>3, IntervalsCover
  <2> DEFINE j == n - (first + Sums(lens)[f - 1]) + 1
             g == <<f, files[f].tests[j].ancestors>>
  <2>2. j \in 1..lens[f]
    BY <1>3, <2>1, IntervalIn
  <2>3. j \in DOMAIN files[f].tests /\ f \in DOMAIN files
    BY <1>3, <2>2
  <2>4. g \in G
    BY <2>3 DEF DetoxGroups, G
  <2>5. In(g, n)
    BY <2>1
  <2> HIDE DEF g, In
  <2>6. PICK i \in DOMAIN order : order[i] = g
    BY <1>2, <2>4
  <2> QED BY <1>4, <1>6, <2>5, <2>6
<1>10. Spread(suites, first, Total(lens))
  <2>1. UNION {DOMAIN suites[i].cases : i \in DOMAIN suites} = first..(first + Total(lens) - 1)
    BY <1>8, <1>9, Zenon
  <2>2. \A i, j \in DOMAIN suites : i # j =>
        DOMAIN suites[i].cases \cap DOMAIN suites[j].cases = {}
    BY <1>7
  <2> QED BY <2>1, <2>2, Zenon DEF Spread
<1> QED BY <1>6, <1>10 DEF lens, Lens

------------------------------------------------------------------------------
(* Cases *)

\* The cases an extraction makes: each attachment has been looked up in the map,
\* in a file of Playwright after its path has been normalized.
Wanted(path, normalized) == IF normalized THEN Normalized(path) ELSE path
LookedUp(path, normalized, map) == Attachment(path, Lookup(Wanted(path, normalized), map))
CaseAttachment == [path : Path, missing : BOOLEAN, found : SUBSET Path]
Case == [full : Text \X Text, status : Text, retry : Nat, attachments : Seq(CaseAttachment)]
Made(map, normalized) ==
    {case \in Case : \A i \in DOMAIN case.attachments :
         case.attachments[i] = LookedUp(case.attachments[i].path, normalized, map)}

\* What lookup_screenshot finds is in the map.
LEMMA LookupIn ==
  ASSUME NEW S, NEW map \in Seq(S), NEW path
  PROVE  Lookup(path, map) \in SUBSET S
<1>1. \A i \in DOMAIN map : map[i] \in S
  OBVIOUS
<1>2. CASE Contains(map, path)
  <2>1. PICK i \in 1..Len(map) : map[i] = path
    BY <1>2 DEF Contains
  <2>2. path \in S
    BY <1>1, <2>1
  <2> QED BY <1>2, <2>2 DEF Lookup
<1>3. CASE ~ Contains(map, path)
  <2>1. Lookup(path, map) = LookupByName(path, map)
    BY <1>3 DEF Lookup
  <2>2. LookupByName(path, map) \subseteq {map[i] : i \in DOMAIN map}
    BY DEF LookupByName
  <2> QED BY <1>1, <2>1, <2>2
<1> QED BY <1>2, <1>3

\* An attachment that has been looked up keeps its path.
LEMMA LookedUpType ==
  ASSUME NEW map \in Seq(Path), NEW path \in Path, NEW normalized
  PROVE  /\ LookedUp(path, normalized, map) \in CaseAttachment
         /\ LookedUp(path, normalized, map).path = path
<1> DEFINE found == Lookup(Wanted(path, normalized), map)
<1>1. found \in SUBSET Path
  BY LookupIn
<1> HIDE DEF found
<1>2. /\ [path |-> path, missing |-> found = {}, found |-> found] \in CaseAttachment
      /\ [path |-> path, missing |-> found = {}, found |-> found].path = path
  BY <1>1 DEF CaseAttachment
<1> QED BY <1>2 DEF LookedUp, Attachment, found

\* A case whose attachments have been looked up is one an extraction makes,
LEMMA CaseMade ==
  ASSUME NEW map \in Seq(Path), NEW normalized, NEW paths \in Seq(Path),
         NEW full \in Text \X Text, NEW status \in Text, NEW retry \in Nat
  PROVE  [full |-> full, status |-> status, retry |-> retry,
          attachments |-> [i \in DOMAIN paths |-> LookedUp(paths[i], normalized, map)]]
           \in Made(map, normalized)
<1> DEFINE a == [i \in DOMAIN paths |-> LookedUp(paths[i], normalized, map)]
<1>1. \A i \in DOMAIN paths : /\ LookedUp(paths[i], normalized, map) \in CaseAttachment
                              /\ LookedUp(paths[i], normalized, map).path = paths[i]
  BY LookedUpType
<1>2. a \in Seq(CaseAttachment) /\ DOMAIN a = DOMAIN paths
  BY <1>1
<1>3. \A i \in DOMAIN a : a[i] = LookedUp(a[i].path, normalized, map)
  BY <1>1
<1> HIDE DEF a
<1> DEFINE c == [full |-> full, status |-> status, retry |-> retry, attachments |-> a]
<1>4. c \in Case /\ c.attachments = a
  BY <1>2 DEF Case
<1> HIDE DEF c
<1>5. c \in Made(map, normalized)
  BY <1>3, <1>4 DEF Made
<1> QED BY <1>5 DEF c, a

\* and so is one without attachments.
LEMMA PlainCaseMade ==
  ASSUME NEW map \in Seq(Path), NEW normalized,
         NEW full \in Text \X Text, NEW status \in Text
  PROVE  [full |-> full, status |-> status, retry |-> 0, attachments |-> <<>>]
           \in Made(map, normalized)
<1>1. <<>> \in Seq(Path) /\ [i \in DOMAIN <<>> |-> LookedUp(<<>>[i], normalized, map)] = <<>>
  OBVIOUS
<1> DEFINE none == <<>>
<1>2. none \in Seq(Path) /\ [i \in DOMAIN none |-> LookedUp(none[i], normalized, map)] = none
  OBVIOUS
<1> HIDE DEF none
<1>3. [full |-> full, status |-> status, retry |-> 0,
       attachments |-> [i \in DOMAIN none |-> LookedUp(none[i], normalized, map)]]
        \in Made(map, normalized)
  BY <1>2, CaseMade
<1> QED BY <1>2, <1>3 DEF none

\* The cases of Cypress are made that way.
LEMMA CypressCaseMade ==
  ASSUME NEW map \in Seq(Path), NEW test \in CypressTest
  PROVE  CypressCase(test, map) \in Made(map, FALSE)
<1>1. /\ test.title \in STRING /\ test.fullTitle \in STRING /\ test.state \in STRING
      /\ test.context \in Seq(Path)
  BY DEF CypressTest
<1> DEFINE full == <<"", IF test.fullTitle = "" THEN test.title ELSE test.fullTitle>>
<1>2. full \in Text \X Text
  BY <1>1 DEF Text
<1>3. CypressStatus(test) \in Text
  BY <1>1 DEF CypressStatus, Text
<1>4. [full |-> full, status |-> CypressStatus(test), retry |-> 0,
       attachments |-> [i \in DOMAIN test.context |-> LookedUp(test.context[i], FALSE, map)]]
        \in Made(map, FALSE)
  <2> HIDE DEF full
  <2>1. 0 \in Nat
    OBVIOUS
  <2> QED BY <1>1, <1>2, <1>3, <2>1, CaseMade
<1>5. CypressCase(test, map)
        = [full |-> full, status |-> CypressStatus(test), retry |-> 0,
           attachments |-> [i \in DOMAIN test.context |->
                               LookedUp(test.context[i], FALSE, map)]]
  BY DEF CypressCase, LookedUp, Wanted
<1> QED BY <1>4, <1>5

\* The cases of Detox are made that way.
LEMMA DetoxCaseMade ==
  ASSUME NEW map \in Seq(Path), NEW test \in DetoxTest
  PROVE  DetoxCase(test) \in Made(map, FALSE)
<1>1. test.fullName \in STRING /\ test.status \in STRING
  BY DEF DetoxTest
<1> DEFINE full == <<"", test.fullName>>
<1>2. full \in Text \X Text /\ DetoxStatus(test.status) \in Text
  BY <1>1 DEF Text, DetoxStatus
<1> HIDE DEF full
<1>3. [full |-> full, status |-> DetoxStatus(test.status), retry |-> 0, attachments |-> <<>>]
        \in Made(map, FALSE)
  BY <1>2, PlainCaseMade
<1> QED BY <1>3 DEF full, DetoxCase

\* The cases of a test of Playwright are made that way: one per attempt, or one.
LEMMA PlaywrightCasesFacts ==
  ASSUME NEW map \in Seq(Path), NEW title \in STRING, NEW test \in PlaywrightTest
  PROVE  /\ PlaywrightCases(title, test, map) \in Seq(Made(map, TRUE))
         /\ Len(PlaywrightCases(title, test, map)) = Larger(1, Len(test.results))
<1>1. test.project \in STRING /\ test.status \in STRING
      /\ test.results \in Seq(PlaywrightResult)
  BY DEF PlaywrightTest
<1>2. CASE test.results = <<>>
  <2> DEFINE c == [full |-> <<"", title>>, status |-> test.status, retry |-> 0,
      attachments |-> <<>>]
  <2>1. <<"", title>> \in Text \X Text /\ test.status \in Text
    BY <1>1 DEF Text
  <2> DEFINE M == Made(map, TRUE)
  <2>2. c \in M
    BY <2>1, PlainCaseMade
  <2>3. PlaywrightCases(title, test, map) = <<c>>
    BY <1>2 DEF PlaywrightCases
  <2> HIDE DEF c, M
  <2>4. <<c>> \in Seq(M) /\ Len(<<c>>) = 1
    BY <2>2
  <2>5. Larger(1, Len(test.results)) = 1
    BY <1>2 DEF Larger
  <2> QED BY <2>3, <2>4, <2>5 DEF M
<1>3. CASE test.results # <<>>
  <2> DEFINE results == test.results
             c(i) == [full |-> <<test.project, title>>, status |-> PlaywrightStatus(results[i]),
                      retry |-> results[i].retry,
                      attachments |-> [j \in DOMAIN results[i].attachments |->
                                          LookedUp(results[i].attachments[j], TRUE, map)]]
  <2>1. ASSUME NEW i \in DOMAIN results PROVE c(i) \in Made(map, TRUE)
    <3>1. results[i] \in PlaywrightResult
      BY <1>1
    <3> DEFINE r == results[i]
    <3> HIDE DEF r
    <3>2. r.status \in STRING /\ r.retry \in Nat /\ r.attachments \in Seq(Path)
      BY <3>1 DEF PlaywrightResult, r
    <3>3. PlaywrightStatus(r) \in Text
      BY <3>2 DEF PlaywrightStatus, Text
    <3> DEFINE full == <<test.project, title>>
    <3>4. full \in Text \X Text
      BY <1>1 DEF Text
    <3> HIDE DEF full
    <3>5. [full |-> full, status |-> PlaywrightStatus(r), retry |-> r.retry,
           attachments |-> [j \in DOMAIN r.attachments |->
                               LookedUp(r.attachments[j], TRUE, map)]]
            \in Made(map, TRUE)
      BY <3>2, <3>3, <3>4, CaseMade
    <3> QED BY <3>5 DEF full, r
  <2>2. PlaywrightCases(title, test, map) = [i \in DOMAIN results |-> c(i)]
    BY <1>3, Zenon DEF PlaywrightCases, LookedUp, Wanted
  <2>3. DOMAIN results = 1..Len(results) /\ Len(results) \in Nat
    BY <1>1
  <2> DEFINE M == Made(map, TRUE)
  <2> HIDE DEF c, M
  <2>6. \A i \in 1..Len(results) : c(i) \in M
    BY <2>1, <2>3 DEF M
  <2>4. [i \in 1..Len(results) |-> c(i)] \in Seq(M)
        /\ Len([i \in 1..Len(results) |-> c(i)]) = Len(results)
    BY <2>3, <2>6
  <2>5. Larger(1, Len(results)) = Len(results)
    <3>1. Len(results) # 0
      BY <1>1, <1>3
    <3> QED BY <2>3, <3>1 DEF Larger
  <2> QED BY <2>2, <2>3, <2>4, <2>5 DEF M
<1> QED BY <1>2, <1>3

------------------------------------------------------------------------------
(* Cypress, then Playwright *)

\* The total of one number.
LEMMA TotalOne == ASSUME NEW n \in Nat PROVE Total(<<n>>) = n
<1>1. <<n>> \in Seq(Nat) /\ Len(<<n>>) = 1 /\ <<n>>[1] = n
  OBVIOUS
<1> DEFINE s == <<n>>
<1>2. s \in Seq(Nat) /\ Len(s) = 1 /\ s[1] = n
  BY <1>1
<1> HIDE DEF s
<1>3. 1 \in 1..Len(s) /\ 1 - 1 = 0
  BY <1>2
<1>4. Sums(s)[1] = Sums(s)[0] + n /\ Sums(s)[0] = 0
  BY <1>2, <1>3, SumsFacts
<1>5. Total(s) = n
  BY <1>2, <1>4 DEF Total
<1> QED BY <1>5 DEF s

\* The sequence of one element.
LEMMA OneIn == ASSUME NEW S, NEW x \in S PROVE <<x>> \in Seq(S)
OBVIOUS

\* The title of a suite that is one string.
LEMMA OneText == ASSUME NEW t \in STRING PROVE t \in Text /\ <<t>> \in Seq(Text)
<1>1. t \in Text
  BY TextIn
<1> QED BY <1>1, OneIn

\* A suite of the greatest depth.
LEMMA Deepest ==
  ASSUME NEW Item, NEW suite \in Suite(Item)
  PROVE  /\ Depth \in 1..Depth /\ Depth \in 0..Depth /\ Depth - 1 \in 0..Depth
         /\ suite \in Suites(Item)[Depth]
         /\ suite.title \in STRING /\ suite.file \in STRING /\ suite.items \in Seq(Item)
         /\ suite.suites \in Seq(Suites(Item)[Depth - 1])
<1>1. Depth \in 1..Depth /\ Depth \in 0..Depth /\ Depth - 1 \in 0..Depth
  BY ExtractionConstants
<1>2. suite \in Suites(Item)[Depth]
  BY DEF Suite
<1> QED BY <1>1, <1>2, SuiteFields

\* A suite's own tests, and how many they are.
CypressOwn == [suite \in Suite(CypressTest) |-> suite.items]
CypressWeight == [suite \in Suite(CypressTest) |-> Len(suite.items)]

\* CypressTests loses no test of the suites inside.
LEMMA CypressTestsFacts ==
  ASSUME NEW n \in 0..Depth, NEW suite \in Suites(CypressTest)[n]
  PROVE  /\ CypressTests[n][suite] \in Seq(CypressTest)
         /\ Len(CypressTests[n][suite]) = CypressLeaves[n][suite]
<1>1. \A x \in Suite(CypressTest) : x.items \in Seq(CypressTest)
  BY Deepest
<1>2. CypressOwn \in [Suite(CypressTest) -> Seq(CypressTest)]
  BY <1>1 DEF CypressOwn
<1>3. CypressWeight \in [Suite(CypressTest) -> Nat]
  BY <1>1 DEF CypressWeight
<1>4. \A x \in Suite(CypressTest) : CypressWeight[x]
                                      = Total(Weights(Once(CypressTest), CypressOwn[x]))
  BY <1>1, OnceTotal DEF CypressOwn, CypressWeight
<1>5. CypressTests = Preorder(CypressTest, CypressOwn)
      /\ CypressLeaves = Leaves(CypressTest, CypressWeight)
  BY DEF CypressTests, CypressOwn, CypressLeaves, CypressWeight
<1>6. Preorder(CypressTest, CypressOwn)[n] \in [Suites(CypressTest)[n] -> Seq(CypressTest)]
  BY <1>2, PreorderFacts
<1>7. CypressTests[n][suite] \in Seq(CypressTest)
  BY <1>5, <1>6
<1>8. Total(Weights(Once(CypressTest), Preorder(CypressTest, CypressOwn)[n][suite]))
        = Leaves(CypressTest, CypressWeight)[n][suite]
  <2>1. Once(CypressTest) \in [CypressTest -> Nat] /\ DOMAIN Once(CypressTest) = CypressTest
    BY OnceType
  <2>2. Weighs(CypressTest, CypressOwn, Once(CypressTest), CypressWeight)
    BY <1>2, <1>3, <1>4, <2>1 DEF Weighs
  <2> QED BY <2>2, PreorderTotal
<1> QED BY <1>5, <1>7, <1>8, OnceTotal

\* Suites of Cypress, and how many tests each has.
CypressRaw == [title : Seq(Text), tests : Seq(CypressTest)]
TestCount == [x \in CypressRaw |-> Len(x.tests)]

\* TestCount is a weight.
LEMMA TestCountType == TestCount \in [CypressRaw -> Nat]
                       /\ \A x \in CypressRaw : TestCount[x] = Len(x.tests)
<1>1. \A x \in CypressRaw : x.tests \in Seq(CypressTest)
  BY DEF CypressRaw
<1> QED BY <1>1 DEF TestCount

\* A result's suites have all the tests in it.
LEMMA CypressSuitesFacts ==
  ASSUME NEW result \in Suite(CypressTest)
  PROVE  /\ CypressSuites(result) \in Seq(CypressRaw)
         /\ Total(Weights(TestCount, CypressSuites(result))) = CypressLeaves[Depth][result]
<1> DEFINE tests == CypressTests[Depth - 1]
           leaves == CypressLeaves[Depth - 1]
           inner == [i \in DOMAIN result.suites |->
                       [title |-> <<result.suites[i].title>>,
                       tests |-> tests[result.suites[i]]]]
           own == IF result.items = <<>> THEN <<>>
                  ELSE <<[title |-> <<result.title>>, tests |-> result.items]>>
<1>1. /\ Depth \in 1..Depth /\ Depth \in 0..Depth /\ Depth - 1 \in 0..Depth
      /\ result \in Suites(CypressTest)[Depth]
      /\ result.title \in STRING /\ result.items \in Seq(CypressTest)
      /\ result.suites \in Seq(Suites(CypressTest)[Depth - 1])
  BY Deepest
<1>2. CypressSuites(result) = inner \o own
  BY DEF CypressSuites
<1>3. ASSUME NEW i \in DOMAIN result.suites
      PROVE  /\ inner[i] \in CypressRaw
             /\ TestCount[inner[i]] = leaves[result.suites[i]]
  <2> DEFINE s == result.suites[i]
  <2>1. s \in Suites(CypressTest)[Depth - 1]
    BY <1>1
  <2>2. s \in Suite(CypressTest)
    BY <1>1, <2>1, SuitesMonotone
  <2> HIDE DEF s
  <2>3. s.title \in STRING
    BY <2>2, Deepest
  <2>4. tests[s] \in Seq(CypressTest) /\ Len(tests[s]) = leaves[s]
    BY <1>1, <2>1, CypressTestsFacts
  <2> HIDE DEF tests, leaves
  <2>5. <<s.title>> \in Seq(Text)
    BY <2>3, OneText
  <2>6. [title |-> <<s.title>>, tests |-> tests[s]] \in CypressRaw
    BY <2>4, <2>5 DEF CypressRaw
  <2>7. TestCount[[title |-> <<s.title>>, tests |-> tests[s]]] = leaves[s]
    BY <2>4, <2>6, TestCountType
  <2>8. inner[i] = [title |-> <<s.title>>, tests |-> tests[s]]
    BY DEF s
  <2> HIDE DEF inner
  <2> QED BY <2>6, <2>7, <2>8 DEF s
<1>4. DOMAIN result.suites = 1..Len(result.suites) /\ Len(result.suites) \in Nat
  BY <1>1
<1>5. inner \in Seq(CypressRaw) /\ DOMAIN inner = DOMAIN result.suites
  <2>1. inner = [i \in 1..Len(result.suites) |-> inner[i]]
        /\ DOMAIN inner = DOMAIN result.suites
    BY <1>4
  <2> HIDE DEF inner
  <2>2. \A i \in 1..Len(result.suites) : inner[i] \in CypressRaw
    BY <1>3, <1>4
  <2> QED BY <1>4, <2>1, <2>2
<1>6. Weights(TestCount, inner) = Inside(result, leaves)
  <2> HIDE DEF inner
  <2> QED BY <1>3, <1>5 DEF Weights, Inside
<1>7. own \in Seq(CypressRaw) /\ Total(Weights(TestCount, own)) = Len(result.items)
  <2>1. CASE result.items = <<>>
    <3>1. own = <<>> /\ Weights(TestCount, <<>>) = <<>> /\ Len(result.items) = 0
      BY <2>1 DEF Weights
    <3>2. own \in Seq(CypressRaw)
      BY <3>1
    <3> QED BY <3>1, <3>2, TotalEmpty
  <2>2. CASE result.items # <<>>
    <3> DEFINE x == [title |-> <<result.title>>, tests |-> result.items]
    <3>1. <<result.title>> \in Seq(Text)
      BY <1>1, OneText
    <3>2. x \in CypressRaw /\ x.tests = result.items
      BY <1>1, <3>1 DEF CypressRaw
    <3>3. own = <<x>>
      BY <2>2
    <3> HIDE DEF x, own
    <3>4. TestCount[x] = Len(result.items) /\ Len(result.items) \in Nat
      BY <1>1, <3>2, TestCountType
    <3>5. Weights(TestCount, <<x>>) = <<Len(result.items)>>
      BY <3>4 DEF Weights
    <3>6. <<x>> \in Seq(CypressRaw)
      BY <3>2
    <3> QED BY <3>3, <3>4, <3>5, <3>6, TotalOne
  <2> QED BY <2>1, <2>2
<1>8. CypressLeaves[Depth][result] = Len(result.items) + Total(Inside(result, leaves))
  <2>1. \A x \in Suite(CypressTest) : x.items \in Seq(CypressTest)
    BY Deepest
  <2>2. CypressWeight \in [Suite(CypressTest) -> Nat]
    BY <2>1 DEF CypressWeight
  <2>3. AddsUp(CypressTest, CypressWeight, Leaves(CypressTest, CypressWeight))
    BY <2>2, LeavesFacts
  <2>4. CypressLeaves = Leaves(CypressTest, CypressWeight)
    BY DEF CypressLeaves, CypressWeight
  <2>5. CypressWeight[result] = Len(result.items)
    BY DEF CypressWeight
  <2>6. Leaves(CypressTest, CypressWeight)[Depth][result]
          = CypressWeight[result] +
              Total(Inside(result, Leaves(CypressTest, CypressWeight)[Depth - 1]))
    BY <1>1, <2>3 DEF AddsUp
  <2> QED BY <2>4, <2>5, <2>6
<1> HIDE DEF inner, own, leaves
<1>9. inner \o own \in Seq(CypressRaw)
  BY <1>5, <1>7, ConcatFacts
<1>10. Total(Weights(TestCount, inner \o own))
         = Total(Weights(TestCount, inner)) + Total(Weights(TestCount, own))
  BY <1>5, <1>7, TestCountType, WeightsConcat
<1>11. Total(Weights(TestCount, inner)) \in Nat
  BY <1>5, TestCountType, WeightsType
<1>12. Len(result.items) \in Nat
  BY <1>1
<1> QED BY <1>2, <1>6, <1>7, <1>8, <1>9, <1>10, <1>11, <1>12

\* What a file of Cypress reports.
CypressReports(document) ==
    Total([i \in DOMAIN document.results |-> CypressLeaves[Depth][document.results[i]]])

\* One case per test.
LEMMA CypressCasesFacts ==
  ASSUME NEW map \in Seq(Path), NEW tests \in Seq(CypressTest)
  PROVE  /\ [j \in DOMAIN tests |-> CypressCase(tests[j], map)] \in Seq(Made(map, FALSE))
         /\ Len([j \in DOMAIN tests |-> CypressCase(tests[j], map)]) = Len(tests)
<1> DEFINE M == Made(map, FALSE)
<1>1. DOMAIN tests = 1..Len(tests) /\ Len(tests) \in Nat
      /\ \A j \in 1..Len(tests) : tests[j] \in CypressTest
  OBVIOUS
<1>2. \A j \in 1..Len(tests) : CypressCase(tests[j], map) \in M
  BY <1>1, CypressCaseMade
<1> HIDE DEF M
<1>3. [j \in 1..Len(tests) |-> CypressCase(tests[j], map)] \in Seq(M)
  BY <1>1, <1>2
<1>4. /\ [j \in DOMAIN tests |-> CypressCase(tests[j], map)] \in Seq(M)
      /\ Len([j \in DOMAIN tests |-> CypressCase(tests[j], map)]) = Len(tests)
  BY <1>1, <1>3
<1> QED BY <1>4 DEF M

\* Cypress: there are as many cases as the file reports results.
LEMMA CypressExtractedFacts ==
  ASSUME NEW document, document.results \in Seq(Suite(CypressTest)), NEW map \in Seq(Path)
  PROVE  /\ CypressExtracted(document, map) \in Seq(Raw(Made(map, FALSE)))
         /\ Total([i \in DOMAIN CypressExtracted(document, map) |->
                     Len(CypressExtracted(document, map)[i].cases)]) = CypressReports(document)
<1> DEFINE results == document.results
           ss == [i \in DOMAIN results |-> CypressSuites(results[i])]
           suites == FlattenSeq(ss)
           M == Made(map, FALSE)
           Cases(i) == [j \in DOMAIN suites[i].tests |-> CypressCase(suites[i].tests[j], map)]
           all == [i \in DOMAIN suites |-> [title |-> suites[i].title, cases |-> Cases(i)]]
<1>1. /\ DOMAIN results = 1..Len(results) /\ Len(results) \in Nat
      /\ \A i \in DOMAIN results : results[i] \in Suite(CypressTest)
  OBVIOUS
<1>2. /\ ss \in Seq(Seq(CypressRaw)) /\ DOMAIN ss = DOMAIN results
      /\ \A i \in DOMAIN results : Total(Weights(TestCount, ss[i]))
                                     = CypressLeaves[Depth][results[i]]
  <2>1. \A i \in DOMAIN results :
          /\ CypressSuites(results[i]) \in Seq(CypressRaw)
          /\ Total(Weights(TestCount, CypressSuites(results[i])))
               = CypressLeaves[Depth][results[i]]
    BY <1>1, CypressSuitesFacts
  <2> DEFINE S == Seq(CypressRaw)
  <2>2. \A i \in DOMAIN results : CypressSuites(results[i]) \in S
    BY <2>1
  <2> HIDE DEF S
  <2>3. ss \in Seq(S)
    BY <1>1, <2>2
  <2> QED BY <2>1, <2>3 DEF S
<1>3. CypressExtracted(document, map) = all
  BY DEF CypressExtracted
<1> HIDE DEF ss
<1>4. suites \in Seq(CypressRaw)
  BY <1>2, FlattenType
<1>5. Total(Weights(TestCount, suites)) = CypressReports(document)
  <2>1. Total(Weights(TestCount, suites))
          = Total([i \in DOMAIN ss |-> Total(Weights(TestCount, ss[i]))])
    BY <1>2, TestCountType, FlattenTotal
  <2>2. [i \in DOMAIN ss |-> Total(Weights(TestCount, ss[i]))]
          = [i \in DOMAIN results |-> CypressLeaves[Depth][results[i]]]
    BY <1>2
  <2> QED BY <2>1, <2>2 DEF CypressReports
<1> HIDE DEF suites, M
<1>6. DOMAIN suites = 1..Len(suites) /\ Len(suites) \in Nat
      /\ \A i \in DOMAIN suites : suites[i] \in CypressRaw
  BY <1>4
<1>7. ASSUME NEW i \in DOMAIN suites
      PROVE  /\ [title |-> suites[i].title, cases |-> Cases(i)] \in Raw(M)
             /\ Len(Cases(i)) = TestCount[suites[i]]
  <2>1. suites[i].title \in Seq(Text) /\ suites[i].tests \in Seq(CypressTest)
    BY <1>6 DEF CypressRaw
  <2>2. TestCount[suites[i]] = Len(suites[i].tests)
    BY <1>6, TestCountType
  <2>3. Cases(i) \in Seq(M) /\ Len(Cases(i)) = Len(suites[i].tests)
    BY <2>1, CypressCasesFacts DEF M
  <2> HIDE DEF Cases
  <2> QED BY <2>1, <2>2, <2>3 DEF Raw
<1> HIDE DEF Cases
<1>8. DOMAIN all = DOMAIN suites /\ \A i \in DOMAIN all : all[i].cases = Cases(i)
  OBVIOUS
<1>9. all \in Seq(Raw(M))
  <2>1. [i \in 1..Len(suites) |-> [title |-> suites[i].title, cases |-> Cases(i)]]
          \in Seq(Raw(M))
    BY <1>6, <1>7
  <2> QED BY <1>6, <2>1
<1>10. [i \in DOMAIN all |-> Len(all[i].cases)] = Weights(TestCount, suites)
  BY <1>7, <1>8 DEF Weights
<1> HIDE DEF all
<1> QED BY <1>3, <1>5, <1>9, <1>10 DEF M

------------------------------------------------------------------------------

\* The cases of a spec of Playwright are those of its tests.
LEMMA SpecCasesFacts ==
  ASSUME NEW map \in Seq(Path), NEW spec \in PlaywrightSpec
  PROVE  /\ SpecCases(spec, map) \in Seq(Made(map, TRUE))
         /\ Len(SpecCases(spec, map)) = SpecLeaves(spec)
         /\ SpecLeaves(spec) \in Nat
<1> DEFINE M == Made(map, TRUE)
           tests == spec.tests
           ss == [i \in DOMAIN tests |-> PlaywrightCases(spec.title, tests[i], map)]
<1>1. spec.title \in STRING /\ tests \in Seq(PlaywrightTest)
  BY DEF PlaywrightSpec
<1>2. DOMAIN tests = 1..Len(tests) /\ Len(tests) \in Nat
      /\ \A i \in DOMAIN tests : tests[i] \in PlaywrightTest
  BY <1>1
<1>3. \A i \in DOMAIN tests : /\ PlaywrightCases(spec.title, tests[i], map) \in Seq(M)
                              /\ Len(PlaywrightCases(spec.title, tests[i], map))
                                   = Larger(1, Len(tests[i].results))
  BY <1>1, <1>2, PlaywrightCasesFacts
<1> DEFINE S == Seq(M)
<1>4. ss \in Seq(S) /\ DOMAIN ss = DOMAIN tests
  <2>1. \A i \in DOMAIN tests : PlaywrightCases(spec.title, tests[i], map) \in S
    BY <1>3
  <2> HIDE DEF S
  <2> QED BY <1>2, <2>1
<1> HIDE DEF M
<1>5. FlattenSeq(ss) \in Seq(M) /\ Len(FlattenSeq(ss)) = Total([i \in DOMAIN ss |-> Len(ss[i])])
  <2> HIDE DEF ss
  <2> QED BY <1>4, FlattenType, FlattenLength
<1>6. [i \in DOMAIN ss |-> Len(ss[i])]
        = [i \in DOMAIN tests |-> Larger(1, Len(tests[i].results))]
  BY <1>3, <1>4
<1>7. SpecCases(spec, map) = FlattenSeq(ss)
  BY DEF SpecCases
<1>8. SpecLeaves(spec) = Total([i \in DOMAIN ss |-> Len(ss[i])])
  BY <1>6 DEF SpecLeaves
<1>9. Len(FlattenSeq(ss)) \in Nat
  BY <1>5
<1> QED BY <1>5, <1>7, <1>8, <1>9 DEF M

\* The results the specs of a suite report.
ItemsLeaves(suite) == Total([i \in DOMAIN suite.items |-> SpecLeaves(suite.items[i])])

\* The cases of a suite's specs are those it reports.
LEMMA ItemsFacts ==
  ASSUME NEW map \in Seq(Path), NEW suite, suite.items \in Seq(PlaywrightSpec)
  PROVE  /\ FlattenSeq([i \in DOMAIN suite.items |-> SpecCases(suite.items[i], map)])
              \in Seq(Made(map, TRUE))
         /\ Len(FlattenSeq([i \in DOMAIN suite.items |-> SpecCases(suite.items[i], map)]))
              = ItemsLeaves(suite)
         /\ ItemsLeaves(suite) \in Nat
<1> DEFINE M == Made(map, TRUE)
           items == suite.items
           ss == [i \in DOMAIN items |-> SpecCases(items[i], map)]
           S == Seq(M)
<1>2. DOMAIN items = 1..Len(items) /\ Len(items) \in Nat
      /\ \A i \in DOMAIN items : items[i] \in PlaywrightSpec
  OBVIOUS
<1>3. \A i \in DOMAIN items : SpecCases(items[i], map) \in S
                              /\ Len(SpecCases(items[i], map)) = SpecLeaves(items[i])
  BY <1>2, SpecCasesFacts
<1>4. ss \in Seq(S) /\ DOMAIN ss = DOMAIN items
  <2> HIDE DEF S
  <2> QED BY <1>2, <1>3
<1> HIDE DEF M
<1>5. FlattenSeq(ss) \in Seq(M) /\ Len(FlattenSeq(ss)) = Total([i \in DOMAIN ss |-> Len(ss[i])])
  <2> HIDE DEF ss
  <2> QED BY <1>4, FlattenType, FlattenLength
<1>6. [i \in DOMAIN ss |-> Len(ss[i])] = [i \in DOMAIN items |-> SpecLeaves(items[i])]
  BY <1>3, <1>4
<1>8. ItemsLeaves(suite) = Total([i \in DOMAIN ss |-> Len(ss[i])])
  BY <1>6 DEF ItemsLeaves
<1>9. Len(FlattenSeq(ss)) \in Nat
  BY <1>5
<1> QED BY <1>5, <1>8, <1>9 DEF M

\* How many cases a suite has.
CaseCounts(C) == [x \in Raw(C) |-> Len(x.cases)]

\* CaseCounts is a weight.
LEMMA CaseCountsType ==
  ASSUME NEW C
  PROVE  /\ CaseCounts(C) \in [Raw(C) -> Nat] /\ DOMAIN CaseCounts(C) = Raw(C)
         /\ \A x \in Raw(C) : CaseCounts(C)[x] = Len(x.cases)
<1>1. \A x \in Raw(C) : x.cases \in Seq(C)
  BY DEF Raw
<1> QED BY <1>1 DEF CaseCounts

\* A suite that is left out has no cases to lose.
LEMMA PlaywrightOwnFacts ==
  ASSUME NEW map \in Seq(Path), NEW suite \in Suite(PlaywrightSpec)
  PROVE  /\ PlaywrightOwn(suite, map) \in Seq(Raw(Made(map, TRUE)))
         /\ Total(Weights(CaseCounts(Made(map, TRUE)), PlaywrightOwn(suite, map)))
              = ItemsLeaves(suite)
         /\ ItemsLeaves(suite) \in Nat
<1> DEFINE M == Made(map, TRUE)
           w == CaseCounts(M)
           own == PlaywrightOwn(suite, map)
           cases == FlattenSeq([i \in DOMAIN suite.items |-> SpecCases(suite.items[i], map)])
           title == IF suite.title = "" THEN OrRoot(suite.file) ELSE suite.title
           x == [title |-> <<title>>, cases |-> cases]
<1>1. suite.title \in STRING /\ suite.file \in STRING /\ suite.items \in Seq(PlaywrightSpec)
  BY Deepest
<1>2. cases \in Seq(M) /\ Len(cases) = ItemsLeaves(suite) /\ ItemsLeaves(suite) \in Nat
  BY <1>1, ItemsFacts
<1>3. own = IF cases = <<>> /\ suite.title = "" THEN <<>> ELSE <<x>>
  BY DEF PlaywrightOwn
<1>4. title \in Text
  <2>1. suite.title \in Text /\ OrRoot(suite.file) \in Text
    BY <1>1, OneText, OrRootType
  <2> QED BY <2>1
<1> HIDE DEF M, cases, own, title
<1>5. CASE cases = <<>> /\ suite.title = ""
  <2>4. own = <<>>
    BY <1>3, <1>5, Zenon
  <2>5. Weights(w, <<>>) = <<>>
    BY DEF Weights
  <2>1. own = <<>> /\ Weights(w, <<>>) = <<>>
    BY <2>4, <2>5
  <2>6. cases = <<>>
    BY <1>5, Zenon
  <2>2. Len(cases) = 0 /\ own \in Seq(Raw(M))
    BY <2>4, <2>6
  <2>3. Total(Weights(w, own)) = ItemsLeaves(suite)
    BY <1>2, <2>1, <2>2, TotalEmpty
  <2> QED BY <1>2, <2>2, <2>3 DEF own, M
<1>6. CASE ~ (cases = <<>> /\ suite.title = "")
  <2>1. own = <<x>>
    BY <1>3, <1>6
  <2>2. <<title>> \in Seq(Text)
    BY <1>4, OneIn
  <2>3. x \in Raw(M) /\ x.cases = cases
    BY <1>2, <2>2 DEF Raw
  <2> HIDE DEF x, w
  <2>4. w[x] = Len(cases) /\ Len(cases) \in Nat
    BY <1>2, <2>3, CaseCountsType DEF w
  <2>5. Weights(w, <<x>>) = <<Len(cases)>>
    BY <2>4 DEF Weights
  <2>6. <<x>> \in Seq(Raw(M))
    BY <2>3, OneIn
  <2>7. Total(Weights(w, own)) = ItemsLeaves(suite)
    BY <1>2, <2>1, <2>4, <2>5, TotalOne
  <2> QED BY <1>2, <2>1, <2>6, <2>7 DEF own, M, w
<1> QED BY <1>5, <1>6

\* What a file of Playwright reports, and what its suites do by themselves.
PlaywrightReports(document) ==
    Total([i \in DOMAIN document.suites |-> PlaywrightLeaves[Depth][document.suites[i]]])
PlaywrightWeight == [suite \in Suite(PlaywrightSpec) |-> ItemsLeaves(suite)]
PlaywrightOwns(map) == [suite \in Suite(PlaywrightSpec) |-> PlaywrightOwn(suite, map)]

\* The suites made of a suite and those inside have all the results in it.
LEMMA PlaywrightSuitesFacts ==
  ASSUME NEW map \in Seq(Path), NEW suite \in Suite(PlaywrightSpec)
  PROVE  /\ PlaywrightSuites(map)[Depth][suite] \in Seq(Raw(Made(map, TRUE)))
         /\ Total(Weights(CaseCounts(Made(map, TRUE)), PlaywrightSuites(map)[Depth][suite]))
              = PlaywrightLeaves[Depth][suite]
<1> DEFINE M == Made(map, TRUE)
           w == CaseCounts(M)
           R == Raw(M)
<1>1. \A x \in Suite(PlaywrightSpec) :
        /\ PlaywrightOwn(x, map) \in Seq(R)
        /\ Total(Weights(w, PlaywrightOwn(x, map))) = ItemsLeaves(x)
        /\ ItemsLeaves(x) \in Nat
  BY PlaywrightOwnFacts
<1>2. w \in [R -> Nat] /\ DOMAIN w = R
  BY CaseCountsType
<1> HIDE DEF w, R
<1>3. PlaywrightOwns(map) \in [Suite(PlaywrightSpec) -> Seq(R)]
  BY <1>1 DEF PlaywrightOwns
<1>4. PlaywrightWeight \in [Suite(PlaywrightSpec) -> Nat]
  BY <1>1 DEF PlaywrightWeight
<1>5. Weighs(PlaywrightSpec, PlaywrightOwns(map), w, PlaywrightWeight)
  <2>1. \A x \in Suite(PlaywrightSpec) :
          PlaywrightWeight[x] = Total(Weights(w, PlaywrightOwns(map)[x]))
    BY <1>1 DEF PlaywrightWeight, PlaywrightOwns
  <2> QED BY <1>2, <1>3, <1>4, <2>1 DEF Weighs
<1>6. /\ PlaywrightSuites(map) = Preorder(PlaywrightSpec, PlaywrightOwns(map))
      /\ PlaywrightLeaves = Leaves(PlaywrightSpec, PlaywrightWeight)
  BY DEF PlaywrightSuites, PlaywrightOwns, PlaywrightLeaves, PlaywrightWeight, ItemsLeaves
<1>7. Depth \in 0..Depth /\ suite \in Suites(PlaywrightSpec)[Depth]
  BY Deepest
<1>8. Preorder(PlaywrightSpec, PlaywrightOwns(map))[Depth]
        \in [Suites(PlaywrightSpec)[Depth] -> Seq(R)]
  BY <1>3, <1>7, PreorderFacts
<1>9. Preorder(PlaywrightSpec, PlaywrightOwns(map))[Depth][suite] \in Seq(R)
  BY <1>7, <1>8
<1>10. Total(Weights(w, Preorder(PlaywrightSpec, PlaywrightOwns(map))[Depth][suite]))
         = Leaves(PlaywrightSpec, PlaywrightWeight)[Depth][suite]
  BY <1>5, <1>7, PreorderTotal
<1> QED BY <1>6, <1>9, <1>10 DEF w, R

\* Playwright: there are as many cases as the file reports results.
LEMMA PlaywrightExtractedFacts ==
  ASSUME NEW document, document.suites \in Seq(Suite(PlaywrightSpec)), NEW map \in Seq(Path)
  PROVE  /\ PlaywrightExtracted(document, map) \in Seq(Raw(Made(map, TRUE)))
         /\ Total([i \in DOMAIN PlaywrightExtracted(document, map) |->
                     Len(PlaywrightExtracted(document, map)[i].cases)])
           = PlaywrightReports(document)
<1> DEFINE suites == document.suites
           ss == [i \in DOMAIN suites |-> PlaywrightSuites(map)[Depth][suites[i]]]
           R == Raw(Made(map, TRUE))
           w == CaseCounts(Made(map, TRUE))
           S == Seq(R)
           all == PlaywrightExtracted(document, map)
<1>1. /\ DOMAIN suites = 1..Len(suites) /\ Len(suites) \in Nat
      /\ \A i \in DOMAIN suites : suites[i] \in Suite(PlaywrightSpec)
  OBVIOUS
<1>2. \A i \in DOMAIN suites : /\ PlaywrightSuites(map)[Depth][suites[i]] \in S
                              /\ Total(Weights(w, PlaywrightSuites(map)[Depth][suites[i]]))
                                   = PlaywrightLeaves[Depth][suites[i]]
  BY <1>1, PlaywrightSuitesFacts
<1>3. w \in [R -> Nat] /\ \A x \in R : w[x] = Len(x.cases)
  BY CaseCountsType
<1> HIDE DEF R, w
<1>4. ss \in Seq(S) /\ DOMAIN ss = DOMAIN suites
  <2> HIDE DEF S
  <2> QED BY <1>1, <1>2
<1>5. all = FlattenSeq(ss)
  BY DEF PlaywrightExtracted
<1>6. [i \in DOMAIN ss |-> Total(Weights(w, ss[i]))]
        = [i \in DOMAIN suites |-> PlaywrightLeaves[Depth][suites[i]]]
  BY <1>2, <1>4
<1> HIDE DEF ss, all
<1>7. all \in Seq(R)
  BY <1>4, <1>5, FlattenType
<1>8. Total(Weights(w, all)) = Total([i \in DOMAIN ss |-> Total(Weights(w, ss[i]))])
  BY <1>3, <1>4, <1>5, FlattenTotal
<1>9. [i \in DOMAIN all |-> Len(all[i].cases)] = Weights(w, all)
  <2>1. \A i \in DOMAIN all : all[i] \in R
    BY <1>7
  <2> QED BY <1>3, <2>1 DEF Weights
<1> QED BY <1>6, <1>7, <1>8, <1>9 DEF all, R, PlaywrightReports

------------------------------------------------------------------------------
(* Documents *)

\* The cases made of a document.
MadeOf(document, map) == Made(map, FormatOf(document) = "playwright")

\* The fields of a document.
LEMMA DocumentFields ==
  ASSUME NEW document \in Document
  PROVE  /\ document.results \in Seq(Suite(CypressTest))
         /\ document.testResults \in Seq(DetoxFile)
         /\ document.suites \in Seq(Suite(PlaywrightSpec))
BY DEF Document

\* Reported, format by format.
LEMMA ReportedCases ==
  ASSUME NEW document
  PROVE  /\ FormatOf(document) = "cypress" => Reported(document) = CypressReports(document)
         /\ FormatOf(document) = "detox" =>
              Reported(document) = Total([i \in DOMAIN document.testResults |->
                                             Len(document.testResults[i].tests)])
         /\ FormatOf(document) = "playwright" =>
              Reported(document) = PlaywrightReports(document)
         /\ FormatOf(document) = "unknown" => Reported(document) = 0
BY DEF Reported, CypressReports, PlaywrightReports

\* Extractions, format by format.
LEMMA ExtractionsCases ==
  ASSUME NEW document, NEW map, NEW first, NEW suites \in Extractions(document, map, first)
  PROVE  \/ /\ FormatOf(document) = "cypress"
            /\ suites = InOrder(CypressExtracted(document, map), first)
         \/ /\ FormatOf(document) = "detox"
            /\ suites \in ExtractDetox(document, first)
         \/ /\ FormatOf(document) = "playwright"
            /\ suites = InOrder(PlaywrightExtracted(document, map), first)
BY DEF Extractions

\* What a file reports is what is extracted from it: in every format, however deep its
\* suites nest and in whatever order they come, each result becomes one case, the cases
\* get the numbers from global_sequence on, each one once, and their attachments have
\* been looked up in the map of screenshots.
THEOREM EveryResultNumberedOnce ==
  ASSUME NEW document \in Document, NEW map \in Seq(Path), NEW first \in Nat,
         NEW suites \in Extractions(document, map, first)
  PROVE  /\ suites \in Seq(Numbered(MadeOf(document, map)))
         /\ Spread(suites, first, Reported(document))
         /\ Reported(document) \in Nat
<1>1. CASE /\ FormatOf(document) = "cypress"
           /\ suites = InOrder(CypressExtracted(document, map), first)
  <2> DEFINE M == Made(map, FALSE)
             raw == CypressExtracted(document, map)
             lens == [i \in DOMAIN raw |-> Len(raw[i].cases)]
  <2>1. raw \in Seq(Raw(M)) /\ Total(lens) = CypressReports(document)
    BY DocumentFields, CypressExtractedFacts
  <2>2. MadeOf(document, map) = M
    <3>1. (FormatOf(document) = "playwright") = FALSE
      BY <1>1
    <3> QED BY <3>1 DEF MadeOf
  <2> HIDE DEF M, raw
  <2>3. suites \in Seq(Numbered(M)) /\ Spread(suites, first, Total(lens))
    BY <1>1, <2>1, NumberedFacts DEF raw
  <2>4. Total(lens) \in Nat
    <3>1. DOMAIN raw = 1..Len(raw) /\ Len(raw) \in Nat
          /\ \A i \in DOMAIN raw : raw[i] \in Raw(M)
      BY <2>1
    <3>2. lens \in Seq(Nat)
      BY <3>1 DEF Raw
    <3> QED BY <3>2, TotalType
  <2>5. Reported(document) = Total(lens)
    BY <1>1, <2>1, ReportedCases
  <2> QED BY <2>2, <2>3, <2>4, <2>5
<1>2. CASE FormatOf(document) = "detox" /\ suites \in ExtractDetox(document, first)
  <2> DEFINE M == Made(map, FALSE)
             lens == Lens(document.testResults)
  <2>1. document.testResults \in Seq(DetoxFile)
    BY DocumentFields
  <2>2. MadeOf(document, map) = M
    <3>1. (FormatOf(document) = "playwright") = FALSE
      BY <1>2
    <3> QED BY <3>1 DEF MadeOf
  <2>3. \A test \in DetoxTest : DetoxCase(test) \in M
    BY DetoxCaseMade
  <2> HIDE DEF M
  <2>4. /\ suites \in Seq(Numbered(M))
        /\ Spread(suites, first, Total([i \in DOMAIN document.testResults |->
                                           Len(document.testResults[i].tests)]))
    BY <1>2, <2>1, <2>3, DetoxFacts
  <2>5. Total(lens) \in Nat
    BY <2>1, LensFacts, TotalType
  <2>6. Reported(document) = Total(lens)
    BY <1>2, ReportedCases DEF Lens
  <2>7. Spread(suites, first, Reported(document))
    BY <1>2, <2>4, ReportedCases
  <2> QED BY <2>2, <2>4, <2>5, <2>6, <2>7
<1>3. CASE /\ FormatOf(document) = "playwright"
           /\ suites = InOrder(PlaywrightExtracted(document, map), first)
  <2> DEFINE M == Made(map, TRUE)
             raw == PlaywrightExtracted(document, map)
             lens == [i \in DOMAIN raw |-> Len(raw[i].cases)]
  <2>1. raw \in Seq(Raw(M)) /\ Total(lens) = PlaywrightReports(document)
    BY DocumentFields, PlaywrightExtractedFacts
  <2>2. MadeOf(document, map) = M
    <3>1. (FormatOf(document) = "playwright") = TRUE
      BY <1>3
    <3> QED BY <3>1 DEF MadeOf
  <2> HIDE DEF M, raw
  <2>3. suites \in Seq(Numbered(M)) /\ Spread(suites, first, Total(lens))
    BY <1>3, <2>1, NumberedFacts DEF raw
  <2>4. Total(lens) \in Nat
    <3>1. DOMAIN raw = 1..Len(raw) /\ Len(raw) \in Nat
          /\ \A i \in DOMAIN raw : raw[i] \in Raw(M)
      BY <2>1
    <3>2. lens \in Seq(Nat)
      BY <3>1 DEF Raw
    <3> QED BY <3>2, TotalType
  <2>5. Reported(document) = Total(lens)
    BY <1>3, <2>1, ReportedCases
  <2> QED BY <2>2, <2>3, <2>4, <2>5
<1> QED BY <1>1, <1>2, <1>3, ExtractionsCases, Zenon

------------------------------------------------------------------------------
(* Attachments *)

\* WithoutPrefix drops a prefix,
LEMMA PrefixConcat ==
  ASSUME NEW S, NEW p \in Seq(S), NEW r \in Seq(S)
  PROVE  IsPrefix(p, p \o r) /\ WithoutPrefix(p \o r, p) = r
<1>1. p \o r \in Seq(S) /\ Len(p \o r) = Len(p) + Len(r) /\ Len(p) \in Nat /\ Len(r) \in Nat
  BY ConcatFacts
<1>2. SubSeq(p, 1, Len(p)) = p /\ SubSeq(r, 1, Len(r)) = r
  BY SubSeqFull
<1>3. SubSeq(p \o r, 1, Len(p)) = SubSeq(p, 1, Len(p))
  <2>1. 1 \in Nat \ {0} /\ Len(p) \in 0..Len(p)
    BY <1>1
  <2> QED BY <1>1, <2>1, SubSeqOfConcat1
<1>4. SubSeq(p \o r, Len(p) + 1, Len(p \o r)) = r
  <2> DEFINE u == SubSeq(p \o r, Len(p) + 1, Len(p \o r))
  <2>1. /\ u \in Seq(S)
        /\ Len(u) = IF Len(p) + 1 <= Len(p \o r) THEN Len(p \o r) - (Len(p) + 1) + 1 ELSE 0
        /\ \A i \in 1..(Len(p \o r) - (Len(p) + 1) + 1) : u[i] = (p \o r)[(Len(p) + 1) + i - 1]
    <3> DEFINE pr == p \o r
               m == Len(p) + 1
               n == Len(p \o r)
    <3>1. pr \in Seq(S) /\ m \in 1..(Len(pr) + 1) /\ n \in 0..Len(pr)
      BY <1>1
    <3>2. u = SubSeq(pr, m, n)
      OBVIOUS
    <3> HIDE DEF pr, m, n
    <3>3. /\ u \in Seq(S)
          /\ Len(u) = IF m <= n THEN n - m + 1 ELSE 0
          /\ \A i \in 1..(n - m + 1) : u[i] = pr[m + i - 1]
      <4> HIDE DEF u
      <4> QED BY SMTT(30), <3>1, <3>2, SubSeqProperties
    <3> QED BY <3>3 DEF pr, m, n
  <2>2. Len(u) = Len(r)
    BY <1>1, <2>1
  <2>3. \A i \in 1..Len(r) : u[i] = r[i]
    <3> TAKE i \in 1..Len(r)
    <3>1. i \in 1..(Len(p \o r) - (Len(p) + 1) + 1) /\ (Len(p) + 1) + i - 1 = Len(p) + i
      BY <1>1
    <3>2. u[i] = (p \o r)[Len(p) + i]
      BY <2>1, <3>1
    <3>3. (p \o r)[Len(p) + i] = r[i]
      BY <1>1, ConcatFacts
    <3> QED BY <3>2, <3>3
  <2> HIDE DEF u
  <2>4. u = r
    BY <2>1, <2>2, <2>3, SeqEqual
  <2> QED BY <2>4 DEF u
<1>5. IsPrefix(p, p \o r)
  BY <1>1, <1>2, <1>3 DEF IsPrefix
<1> QED BY <1>4, <1>5 DEF WithoutPrefix

\* and a prefix agrees element by element.
LEMMA PrefixElements ==
  ASSUME NEW S, NEW q \in Seq(S), NEW d \in Seq(S), IsPrefix(q, d)
  PROVE  Len(q) <= Len(d) /\ \A i \in 1..Len(q) : q[i] = d[i]
<1>1. Len(q) <= Len(d) /\ SubSeq(q, 1, Len(q)) = SubSeq(d, 1, Len(q))
  BY DEF IsPrefix
<1>2. \A i \in 1..Len(q) : SubSeq(q, 1, Len(q))[i] = q[i]
  OBVIOUS
<1>3. \A i \in 1..Len(q) : SubSeq(d, 1, Len(q))[i] = d[i]
  BY <1>1
<1> QED BY <1>1, <1>2, <1>3

\* A name ends with itself.
LEMMA SuffixSame ==
  ASSUME NEW s
  PROVE  IsSuffix(s, s)
BY DEF IsSuffix, IsPrefix

\* WithoutLeading leaves a plain path alone.
LEMMA PlainKept ==
  ASSUME NEW S, NEW d \in Seq(S), NEW c \in {"..", "."}, Plain(d)
  PROVE  WithoutLeading(d, c) = d
<1> DEFINE P(n) == /\ \A i \in 1..n : d[i] = c
                   /\ n < Len(d) => d[n + 1] # c
           n == CHOOSE n \in 0..Len(d) : P(n)
<1>1. 0 \in 0..Len(d) /\ Len(d) \in Nat
  OBVIOUS
<1>2. d # <<>> => d[1] # c
  BY DEF Plain
<1>3. P(0)
  <2>1. 0 < Len(d) => d # <<>>
    OBVIOUS
  <2> QED BY <1>2, <2>1
<1>4. n \in 0..Len(d) /\ P(n)
  <2> HIDE DEF P
  <2> QED BY <1>1, <1>3
<1> HIDE DEF n
<1>5. n = 0
  <2>1. ASSUME n # 0 PROVE FALSE
    <3>1. 1 \in 1..n /\ d # <<>>
      BY <1>1, <1>4, <2>1
    <3> QED BY <1>2, <1>4, <3>1
  <2> QED BY <2>1
<1>6. WithoutLeading(d, c) = SubSeq(d, n + 1, Len(d))
  BY DEF WithoutLeading, n
<1>7. SubSeq(d, 1, Len(d)) = d
  BY SubSeqFull
<1> QED BY <1>5, <1>6, <1>7

\* The components of a path that the code drops from it, and those of the strings.
Component == STRING \cup {"..", ".", "results", "output"}

\* No two of the prefixes in the code agree in their first two components.
LEMMA PrefixedFacts ==
  /\ Prefixed \subseteq Seq(Component)
  /\ \A p \in Prefixed : Len(p) >= 2 /\ p[1] \in {"..", "."}
  /\ \A p, q \in Prefixed : p[1] = q[1] /\ p[2] = q[2] => p = q
<1>1. /\ <<"..", "results", "output">> \in Seq(Component)
         /\ <<"..", "output">> \in Seq(Component)
      /\ <<".", "results", "output">> \in Seq(Component) /\ <<".", "output">> \in Seq(Component)
  BY DEF Component
<1>2. Prefixed \subseteq Seq(Component)
  BY <1>1 DEF Prefixed
<1>3. \A p \in Prefixed : Len(p) >= 2 /\ p[1] \in {"..", "."}
  BY DEF Prefixed
<1>4. \A p, q \in Prefixed : p[1] = q[1] /\ p[2] = q[2] => p = q
  BY DEF Prefixed
<1> QED BY <1>2, <1>3, <1>4

\* Concatenation is associative.
LEMMA Associative ==
  ASSUME NEW S, NEW s \in Seq(S), NEW t \in Seq(S), NEW u \in Seq(S)
  PROVE  (s \o t) \o u = s \o (t \o u) /\ s \o (t \o u) \in Seq(S)
<1>1. (s \o t) \o u = s \o (t \o u)
  OBVIOUS
<1>2. s \o (t \o u) \in Seq(S)
  BY ConcatFacts
<1> QED BY <1>1, <1>2

\* normalize_attachment_path keeps the last component,
LEMMA NormalizedName ==
  ASSUME NEW path \in Path
  PROVE  Normalized(path).name = path.name
<1> DEFINE dirs == WithoutPrefix(path.dirs, AttachmentPrefix)
           common == {p \in Prefixed : IsPrefix(p, dirs)}
           rest == IF common = {} THEN dirs ELSE WithoutPrefix(dirs, CHOOSE p \in common : TRUE)
           d == WithoutLeading(WithoutLeading(rest, ".."), ".")
<1>1. Normalized(path) = [path EXCEPT !.dirs = d]
  BY DEF Normalized
<1> HIDE DEF d
<1>2. [path EXCEPT !.dirs = d].name = path.name
  BY DEF Path
<1> QED BY <1>1, <1>2

\* and drops one of the prefixes before a plain path.
LEMMA NormalizedOf ==
  ASSUME NEW path \in Path, NEW s \in Path, path.name = s.name, Plain(s.dirs),
         NEW p \in {<<>>} \cup Prefixed,
         WithoutPrefix(path.dirs, AttachmentPrefix) = p \o s.dirs
  PROVE  Normalized(path) = s
<1> DEFINE dirs == WithoutPrefix(path.dirs, AttachmentPrefix)
           common == {q \in Prefixed : IsPrefix(q, dirs)}
           rest == IF common = {} THEN dirs ELSE WithoutPrefix(dirs, CHOOSE q \in common : TRUE)
           t == s.dirs
<1>1. t \in Seq(Component)
  <2>1. t \in Seq(STRING)
    BY DEF Path
  <2>2. STRING \subseteq Component
    BY DEF Component
  <2> HIDE DEF t
  <2> QED BY <2>1, <2>2, SeqMonotone
<1>2. p \in Seq(Component)
  BY PrefixedFacts, EmptySeq
<1>3. dirs = p \o t /\ Plain(t)
  OBVIOUS
<1>4. Normalized(path) = [path EXCEPT !.dirs = WithoutLeading(WithoutLeading(rest, ".."), ".")]
  BY DEF Normalized
<1> HIDE DEF t, dirs
<1>5. rest = t
  <2>1. CASE p = <<>>
    <3>1. dirs = t
      BY <1>1, <1>3, <2>1, ConcatEmptySeq
    <3>2. common = {}
      <4>1. ASSUME NEW q \in common PROVE FALSE
        <5>1. q \in Seq(Component) /\ Len(q) >= 2 /\ q[1] \in {"..", "."} /\ IsPrefix(q, t)
          BY <3>1, PrefixedFacts
        <5>2. Len(q) <= Len(t) /\ q[1] = t[1]
          BY <1>1, <5>1, PrefixElements
        <5>3. t # <<>>
          BY <1>1, <5>1, <5>2
        <5> QED BY <1>3, <5>1, <5>2, <5>3 DEF Plain
      <4> QED BY <4>1
    <3> QED BY <3>1, <3>2
  <2>2. CASE p \in Prefixed
    <3>1. IsPrefix(p, dirs) /\ WithoutPrefix(dirs, p) = t
      BY <1>1, <1>2, <1>3, PrefixConcat
    <3>2. dirs \in Seq(Component)
      BY <1>1, <1>2, <1>3, ConcatFacts
    <3>3. ASSUME NEW q \in common PROVE q = p
      <4>1. /\ q \in Prefixed /\ q \in Seq(Component) /\ Len(q) >= 2 /\ IsPrefix(q, dirs)
            /\ Len(p) >= 2
        BY <2>2, PrefixedFacts
      <4>2. q[1] = dirs[1] /\ q[2] = dirs[2]
        BY <3>2, <4>1, PrefixElements
      <4>3. p[1] = dirs[1] /\ p[2] = dirs[2]
        BY <1>2, <3>1, <3>2, <4>1, PrefixElements
      <4> QED BY <2>2, <4>1, <4>2, <4>3, PrefixedFacts
    <3>4. common = {p}
      BY <2>2, <3>1, <3>3
    <3>5. (CHOOSE q \in common : TRUE) = p
      BY <3>4
    <3>6. rest = WithoutPrefix(dirs, CHOOSE q \in common : TRUE)
      BY <3>4
    <3> HIDE DEF rest, common
    <3> QED BY <3>1, <3>5, <3>6
  <2> QED BY <2>1, <2>2
<1> HIDE DEF rest
<1>6. WithoutLeading(WithoutLeading(rest, ".."), ".") = t
  <2>1. WithoutLeading(t, "..") = t /\ WithoutLeading(t, ".") = t
    BY <1>1, <1>3, PlainKept
  <2> QED BY <1>5, <2>1
<1>7. Normalized(path) = [path EXCEPT !.dirs = s.dirs]
  BY <1>4, <1>6 DEF t
<1> QED BY <1>7 DEF Path

\* A path that names a screenshot is looked up as that screenshot.
LEMMA NamesFound ==
  ASSUME NEW path \in Path, NEW s \in Path, NEW document, Names(path, s, document)
  PROVE  Wanted(path, FormatOf(document) = "playwright") = s
<1>0. path.name = s.name
  BY DEF Names
<1>1. CASE FormatOf(document) # "playwright"
  <2>1. path.dirs = s.dirs
    BY <1>1 DEF Names
  <2>2. path = s
    BY <1>0, <2>1 DEF Path
  <2> QED BY <1>1, <2>2 DEF Wanted
<1>2. CASE FormatOf(document) = "playwright"
  <2>1. /\ Plain(s.dirs)
        /\ \E p \in {<<>>} \cup Prefixed :
             \/ path.dirs = AttachmentPrefix \o p \o s.dirs
             \/ path.dirs = p \o s.dirs /\ ~ IsPrefix(AttachmentPrefix, path.dirs)
    BY <1>2 DEF Names
  <2>2. PICK p \in {<<>>} \cup Prefixed :
             \/ path.dirs = AttachmentPrefix \o p \o s.dirs
             \/ path.dirs = p \o s.dirs /\ ~ IsPrefix(AttachmentPrefix, path.dirs)
    BY <2>1
  <2>3. p \in Seq(Component)
    BY PrefixedFacts, EmptySeq
  <2>4. s.dirs \in Seq(Component) /\ AttachmentPrefix \in Seq(Component)
    <3>1. STRING \subseteq Component
      BY DEF Component
    <3>2. s.dirs \in Seq(STRING) /\ AttachmentPrefix \in Seq(STRING)
      BY ExtractionConstants DEF Path
    <3> QED BY <3>1, <3>2, SeqMonotone
  <2>5. WithoutPrefix(path.dirs, AttachmentPrefix) = p \o s.dirs
    <3>1. CASE path.dirs = AttachmentPrefix \o p \o s.dirs
      <4>1. path.dirs = AttachmentPrefix \o (p \o s.dirs)
        <5> DEFINE r == s.dirs
                   C == Component
        <5>1. r \in Seq(C) /\ p \in Seq(C) /\ AttachmentPrefix \in Seq(C)
          BY <2>3, <2>4
        <5>2. path.dirs = (AttachmentPrefix \o p) \o r
          BY <3>1
        <5> HIDE DEF r, C
        <5>3. (AttachmentPrefix \o p) \o r = AttachmentPrefix \o (p \o r)
          BY <5>1, Associative
        <5> QED BY <5>2, <5>3 DEF r
      <4>2. p \o s.dirs \in Seq(Component)
        BY <2>3, <2>4, ConcatFacts
      <4> QED BY <2>4, <4>1, <4>2, PrefixConcat
    <3>2. CASE path.dirs = p \o s.dirs /\ ~ IsPrefix(AttachmentPrefix, path.dirs)
      BY <3>2 DEF WithoutPrefix
    <3> QED BY <2>2, <3>1, <3>2
  <2>6. Normalized(path) = s
    BY <1>0, <2>1, <2>5, NormalizedOf
  <2> QED BY <1>2, <2>6 DEF Wanted
<1> QED BY <1>1, <1>2

\* Nothing is found only if no name in the map ends with the path's.
LEMMA LookupMisses ==
  ASSUME NEW S, NEW map \in Seq(S), NEW path, Lookup(path, map) = {}
  PROVE  \A i \in DOMAIN map : ~ EndsWith(map[i], path)
<1>1. ~ Contains(map, path) /\ LookupByName(path, map) = {}
  <2>1. CASE Contains(map, path)
    BY <2>1 DEF Lookup
  <2>2. CASE ~ Contains(map, path)
    BY <2>2 DEF Lookup
  <2> QED BY <2>1, <2>2
<1> DEFINE ending == {i \in DOMAIN map : EndsWith(map[i], path)}
<1>2. ASSUME ending # {} PROVE FALSE
  <2>1. ending \subseteq Nat
    OBVIOUS
  <2> HIDE DEF ending
  <2>2. PICK m \in ending : \A j \in ending : m <= j
    BY <1>2, <2>1, Least
  <2>3. map[m] \in LookupByName(path, map)
    BY <2>2 DEF LookupByName, ending
  <2> QED BY <1>1, <2>3
<1> QED BY <1>2

\* What AttachmentsFound says of an attachment, for the screenshots in the map.
LeadsToShot(a, path, document, map) ==
    /\ a.path = path
    /\ a.missing => \A i \in DOMAIN map : map[i].name # path.name
    /\ \A i \in DOMAIN map : Names(path, map[i], document) => a.found = {map[i]}
    /\ a.found \subseteq {map[i] : i \in DOMAIN map}

\* Looking up an attachment leads to the screenshot it names, and misses none that
\* has its name.
LEMMA AttachmentFacts ==
  ASSUME NEW S, NEW map \in Seq(S), S \subseteq Path, NEW path \in Path, NEW document, NEW a,
         a = LookedUp(path, FormatOf(document) = "playwright", map)
  PROVE  LeadsToShot(a, path, document, map)
<1> DEFINE w == Wanted(path, FormatOf(document) = "playwright")
<1>1. a = Attachment(path, Lookup(w, map))
  BY DEF LookedUp
<1>2. a.path = path /\ a.found = Lookup(w, map) /\ (a.missing <=> Lookup(w, map) = {})
  <2> DEFINE l == Lookup(w, map)
             none == l = {}
  <2>1. a = [path |-> path, missing |-> none, found |-> l]
    BY <1>1 DEF Attachment
  <2> HIDE DEF l, none
  <2>2. a.path = path /\ a.found = l /\ a.missing = none
    BY <2>1
  <2> QED BY <2>2 DEF l, none
<1>3. w.name = path.name
  <2>1. CASE FormatOf(document) # "playwright"
    BY <2>1 DEF Wanted
  <2>2. CASE FormatOf(document) = "playwright"
    BY <2>2, NormalizedName DEF Wanted
  <2> QED BY <2>1, <2>2
<1>4. \A i \in DOMAIN map : Names(path, map[i], document) => w = map[i]
  <2>1. \A i \in DOMAIN map : map[i] \in Path
    OBVIOUS
  <2> HIDE DEF w
  <2> QED BY <2>1, NamesFound DEF w
<1> HIDE DEF w
<1>5. ASSUME Lookup(w, map) = {}, NEW i \in DOMAIN map PROVE map[i].name # path.name
  <2>1. ~ IsSuffix(w.name, map[i].name)
    BY <1>5, LookupMisses DEF EndsWith
  <2> QED BY <1>3, <2>1, SuffixSame
<1>6. ASSUME NEW i \in DOMAIN map, Names(path, map[i], document) PROVE Lookup(w, map) = {map[i]}
  <2>1. w = map[i]
    BY <1>4, <1>6
  <2>2. Contains(map, w)
    BY <2>1 DEF Contains
  <2> QED BY <2>1, <2>2 DEF Lookup
<1>7. Lookup(w, map) \subseteq {map[i] : i \in DOMAIN map}
  <2> DEFINE K == {map[i] : i \in DOMAIN map}
  <2>1. map \in Seq(K)
    OBVIOUS
  <2> HIDE DEF K
  <2>2. Lookup(w, map) \in SUBSET K
    BY <2>1, LookupIn
  <2> QED BY <2>2 DEF K
<1> QED BY <1>2, <1>5, <1>6, <1>7 DEF LeadsToShot

------------------------------------------------------------------------------
(* Counts *)

\* The cases before end; the last attempt of a title among them; what count_statuses
\* has kept of them.
Seen(cases, end) == {n \in DOMAIN cases : n \in Nat /\ n < end}
IsLast(cases, end, n) ==
    \A m \in Seen(cases, end) : cases[m].full = cases[n].full =>
        \/ cases[m].retry < cases[n].retry
        \/ cases[m].retry = cases[n].retry /\ m >= n
Kept(cases, end, last) ==
    /\ DOMAIN last = {cases[n].full : n \in Seen(cases, end)}
    /\ \A full \in DOMAIN last : \E n \in Seen(cases, end) :
          last[full] = cases[n] /\ cases[n].full = full /\ IsLast(cases, end, n)

\* What going through case n makes of the attempts kept so far.
Keep(cases, last, n) ==
    IF n \in DOMAIN cases /\ LaterAttempt(last, cases[n])
    THEN [full \in DOMAIN last \cup {cases[n].full} |->
             IF full = cases[n].full THEN cases[n] ELSE last[full]]
    ELSE last

\* Going through one more case keeps the last attempt of each title.
LEMMA KeepFacts ==
  ASSUME NEW cases, \A n \in DOMAIN cases : cases[n].retry \in Nat,
         NEW end \in Nat, NEW last, Kept(cases, end, last)
  PROVE  Kept(cases, end + 1, Keep(cases, last, end))
<1> DEFINE new == Keep(cases, last, end)
<1>1. Seen(cases, end) \subseteq Seen(cases, end + 1)
  BY DEF Seen
<1>2. \A m \in Seen(cases, end + 1) :
        m \in Seen(cases, end) \/ (m = end /\ end \in DOMAIN cases)
  BY DEF Seen
<1>3. \A m \in Seen(cases, end) : m \in Nat /\ m < end /\ m \in DOMAIN cases
                                  /\ cases[m].retry \in Nat
  BY DEF Seen
<1>4. /\ DOMAIN last = {cases[n].full : n \in Seen(cases, end)}
      /\ \A full \in DOMAIN last : \E n \in Seen(cases, end) :
            last[full] = cases[n] /\ cases[n].full = full /\ IsLast(cases, end, n)
  BY DEF Kept
<1>5. CASE end \notin DOMAIN cases
  <2>1. Seen(cases, end + 1) = Seen(cases, end)
    BY <1>1, <1>2, <1>5
  <2>2. new = last
    BY <1>5 DEF Keep
  <2>3. \A n : IsLast(cases, end, n) <=> IsLast(cases, end + 1, n)
    BY <2>1 DEF IsLast
  <2> QED BY <1>4, <2>1, <2>2, <2>3 DEF Kept
<1>6. CASE end \in DOMAIN cases
  <2> DEFINE case == cases[end]
  <2>1. Seen(cases, end + 1) = Seen(cases, end) \cup {end} /\ case.retry \in Nat
    BY <1>1, <1>2, <1>6 DEF Seen
  <2>2. CASE LaterAttempt(last, case)
    <3>1. /\ DOMAIN new = DOMAIN last \cup {case.full}
          /\ \A full \in DOMAIN new : new[full] = IF full = case.full THEN case ELSE last[full]
      BY <1>6, <2>2 DEF Keep
    <3> HIDE DEF new
    <3>2. DOMAIN new = {cases[n].full : n \in Seen(cases, end + 1)}
      BY <1>4, <2>1, <3>1
    <3>3. IsLast(cases, end + 1, end)
      <4> SUFFICES ASSUME NEW m \in Seen(cases, end), cases[m].full = case.full
                   PROVE  cases[m].retry < case.retry
        BY <2>1 DEF IsLast
      <4>1. case.full \in DOMAIN last
        BY <1>4
      <4>2. PICK k \in Seen(cases, end) :
               last[case.full] = cases[k] /\ cases[k].full = case.full /\ IsLast(cases, end, k)
        BY <1>4, <4>1
      <4>3. case.retry > cases[k].retry
        BY <2>2, <4>1, <4>2 DEF LaterAttempt, Retry
      <4>4. cases[m].retry < cases[k].retry \/ cases[m].retry = cases[k].retry
        BY <4>2 DEF IsLast
      <4> QED BY <1>3, <2>1, <4>3, <4>4
    <3>4. ASSUME NEW full \in DOMAIN new
          PROVE  \E n \in Seen(cases, end + 1) :
                    new[full] = cases[n] /\ cases[n].full = full /\ IsLast(cases, end + 1, n)
      <4>1. CASE full = case.full
        BY <2>1, <3>1, <3>3, <4>1
      <4>2. CASE full # case.full
        <5>1. full \in DOMAIN last /\ new[full] = last[full]
          BY <3>1, <4>2
        <5>2. PICK n \in Seen(cases, end) :
                 last[full] = cases[n] /\ cases[n].full = full /\ IsLast(cases, end, n)
          BY <1>4, <5>1
        <5>3. IsLast(cases, end + 1, n)
          BY <2>1, <4>2, <5>2 DEF IsLast
        <5> QED BY <1>1, <5>1, <5>2, <5>3
      <4> QED BY <4>1, <4>2
    <3> QED BY <3>2, <3>4 DEF Kept, new
  <2>3. CASE ~ LaterAttempt(last, case)
    <3>1. new = last
      BY <2>3 DEF Keep
    <3>2. case.full \in DOMAIN last
      BY <2>1, <2>3 DEF LaterAttempt, Retry
    <3>3. DOMAIN last = {cases[n].full : n \in Seen(cases, end + 1)}
      BY <1>4, <2>1, <3>2
    <3>4. ASSUME NEW full \in DOMAIN last
          PROVE  \E n \in Seen(cases, end + 1) :
                    last[full] = cases[n] /\ cases[n].full = full /\ IsLast(cases, end + 1, n)
      <4>1. PICK n \in Seen(cases, end) :
               last[full] = cases[n] /\ cases[n].full = full /\ IsLast(cases, end, n)
        BY <1>4
      <4>2. IsLast(cases, end + 1, n)
        <5> SUFFICES ASSUME case.full = full
                     PROVE  \/ case.retry < cases[n].retry
                            \/ case.retry = cases[n].retry /\ end >= n
          BY <2>1, <4>1 DEF IsLast
        <5>1. Retry(last, case.full) = cases[n].retry
          BY <3>2, <4>1 DEF Retry
        <5>2. ~ (case.retry > cases[n].retry)
          BY <2>3, <5>1 DEF LaterAttempt
        <5> QED BY <1>3, <2>1, <5>2
      <4> QED BY <1>1, <4>1, <4>2
    <3> QED BY <3>1, <3>3, <3>4 DEF Kept
  <2> QED BY <2>2, <2>3
<1> QED BY <1>5, <1>6

\* LastAttempts keeps, of each title, the last attempt.
LEMMA LastAttemptsFacts ==
  ASSUME NEW cases, \A n \in DOMAIN cases : cases[n].retry \in Nat, NEW end \in Nat
  PROVE  Kept(cases, end, LastAttempts(cases, end))
<1> DEFINE Def(f, m) ==
             f = [n \in 0..m |-> IF n = 0 THEN <<>> ELSE Keep(cases, f[n - 1], n - 1)]
           T == {m \in Nat : \E f : Def(f, m)}
<1>1. 0 \in T
  <2>1. Def([n \in 0..0 |-> <<>>], 0)
    OBVIOUS
  <2> HIDE DEF Def
  <2> QED BY <2>1
<1>2. ASSUME NEW m \in Nat, m \in T PROVE m + 1 \in T
  <2>1. PICK f : Def(f, m)
    BY <1>2
  <2> DEFINE g == [n \in 0..(m + 1) |-> IF n = m + 1 THEN Keep(cases, f[m], m) ELSE f[n]]
  <2>2. \A n \in 0..m : f[n] = IF n = 0 THEN <<>> ELSE Keep(cases, f[n - 1], n - 1)
    BY <2>1, Zenon
  <2>3. ASSUME NEW n \in 0..(m + 1)
        PROVE  g[n] = IF n = 0 THEN <<>> ELSE Keep(cases, g[n - 1], n - 1)
    BY <2>2
  <2>4. g = [n \in 0..(m + 1) |-> g[n]]
    OBVIOUS
  <2> HIDE DEF g
  <2>5. Def(g, m + 1)
    BY <2>3, <2>4
  <2> HIDE DEF Def
  <2> QED BY <2>5
<1>3. \E f : Def(f, end)
  <2>1. Nat \subseteq T
    <3> HIDE DEF T
    <3> QED BY <1>1, <1>2, NatSet
  <2> QED BY <2>1
<1> DEFINE kept == CHOOSE f : Def(f, end)
<1>4. LastAttempts(cases, end) = kept[end]
  BY DEF LastAttempts, Keep
<1>5. Def(kept, end)
  <2> HIDE DEF Def
  <2> QED BY <1>3
<1> HIDE DEF kept
<1>6. \A n \in 0..end : kept[n] = IF n = 0 THEN <<>> ELSE Keep(cases, kept[n - 1], n - 1)
  BY <1>5, Zenon
<1> HIDE DEF Def, T
<1> DEFINE U == {n \in Nat : n <= end => Kept(cases, n, kept[n])}
<1>7. 0 \in U
  <2>1. kept[0] = <<>> /\ Seen(cases, 0) = {}
    BY <1>6 DEF Seen
  <2>2. DOMAIN kept[0] = {}
    BY <2>1
  <2> QED BY <2>1, <2>2 DEF Kept
<1>8. ASSUME NEW n \in Nat, n \in U PROVE n + 1 \in U
  <2> SUFFICES ASSUME n + 1 <= end PROVE Kept(cases, n + 1, kept[n + 1])
    OBVIOUS
  <2>1. kept[n + 1] = Keep(cases, kept[n], n)
    <3>1. n + 1 \in 0..end /\ n + 1 # 0 /\ (n + 1) - 1 = n
      OBVIOUS
    <3> QED BY <1>6, <3>1
  <2>2. Kept(cases, n, kept[n])
    BY <1>8
  <2> QED BY <2>1, <2>2, KeepFacts
<1>9. Nat \subseteq U
  <2> HIDE DEF U
  <2> QED BY <1>7, <1>8, NatSet
<1> QED BY <1>4, <1>9

\* Sets that f pairs off have as many elements.
LEMMA SameSize ==
  ASSUME NEW S, IsFiniteSet(S), NEW T, NEW f,
         \A s \in S : f[s] \in T,
         \A s, t \in S : f[s] = f[t] => s = t,
         \A t \in T : \E s \in S : f[s] = t
  PROVE  Cardinality(S) = Cardinality(T)
<1> DEFINE g == [s \in S |-> f[s]]
<1>1. g \in [S -> T]
  OBVIOUS
<1>2. \A a, b \in S : g[a] = g[b] => a = b
  OBVIOUS
<1>3. \A t \in T : \E s \in S : g[s] = t
  OBVIOUS
<1> HIDE DEF g
<1>4. g \in Bijection(S, T)
  BY <1>1, <1>2, <1>3, Fun_IsBij, Zenon
<1>5. ExistsBijection(S, T)
  BY <1>4, Fun_ExistsBij, Zenon
<1> QED BY <1>5, FS_Bijection, Zenon

\* What CountsMatchCases counts in the rows of a suite's cases.
Lasts(attempts) ==
    {c \in attempts :
        \A d \in attempts : d.result.full = c.result.full =>
            \/ d.result.retry < c.result.retry
            \/ d.result.retry = c.result.retry /\ d.sequence >= c.sequence}
CountsOf(attempts) ==
    LET lasts == Lasts(attempts)
        Number(statuses) == Cardinality({c \in lasts : c.result.status \in statuses})
    IN [total |-> Cardinality(lasts), passed |-> Number({"passed"}),
        failed |-> Number({"failed", "timedOut"}), skipped |-> Number({"skipped"}),
        flaky |-> Number({"flaky"})]

\* Last attempts with a status: by number, as rows, as kept.
Ending(cases, end, statuses) ==
    {n \in DOMAIN cases : IsLast(cases, end, n) /\ cases[n].status \in statuses}
RowsWith(attempts, statuses) == {c \in Lasts(attempts) : c.result.status \in statuses}
KeptWith(last, statuses) == {t \in DOMAIN last : last[t].status \in statuses}

\* Numbers already given.
GivenBefore(cases, end) == DOMAIN cases \subseteq Nat /\ \A n \in DOMAIN cases : n < end

\* There are as many last attempts among the rows of a suite as among its cases,
LEMMA LastRows ==
  ASSUME NEW suite, NEW id, NEW end \in Nat, GivenBefore(suite.cases, end), NEW statuses
  PROVE  /\ Cardinality({n \in DOMAIN suite.cases : IsLast(suite.cases, end, n)})
              = Cardinality(Lasts(Rows(id, suite)))
         /\ Cardinality(Ending(suite.cases, end, statuses))
              = Cardinality(RowsWith(Rows(id, suite), statuses))
<1> DEFINE cases == suite.cases
           D == DOMAIN cases
           row == [n \in D |-> CaseRow(id, suite, n)]
<1>1. ASSUME NEW n \in D
      PROVE  row[n].result = cases[n] /\ row[n].sequence = n /\ row[n] \in Rows(id, suite)
  BY DEF CaseRow, Rows
<1>2. \A c \in Rows(id, suite) : \E n \in D : c = row[n]
  BY DEF Rows
<1>3. IsFiniteSet(D)
  <2>1. D \subseteq 0..end
    BY DEF GivenBefore
  <2>2. IsFiniteSet(0..end)
    BY FS_Interval
  <2> QED BY <2>1, <2>2, FS_Subset
<1>4. Seen(cases, end) = D /\ D \subseteq Nat
  BY DEF Seen, GivenBefore
<1> HIDE DEF row, D, cases
<1>5. ASSUME NEW n \in D PROVE row[n] \in Lasts(Rows(id, suite)) <=> IsLast(cases, end, n)
  <2>1. IsLast(cases, end, n) <=>
           \A m \in D : cases[m].full = cases[n].full =>
              \/ cases[m].retry < cases[n].retry
              \/ cases[m].retry = cases[n].retry /\ m >= n
    BY <1>4 DEF IsLast
  <2>2. row[n] \in Lasts(Rows(id, suite)) <=>
           \A d \in Rows(id, suite) : d.result.full = cases[n].full =>
              \/ d.result.retry < cases[n].retry
              \/ d.result.retry = cases[n].retry /\ d.sequence >= n
    BY <1>1 DEF Lasts
  <2>3. IsLast(cases, end, n) => row[n] \in Lasts(Rows(id, suite))
    BY <1>1, <1>2, <2>1, <2>2
  <2>4. row[n] \in Lasts(Rows(id, suite)) => IsLast(cases, end, n)
    <3> SUFFICES ASSUME row[n] \in Lasts(Rows(id, suite)), NEW m \in D,
                        cases[m].full = cases[n].full
                 PROVE  \/ cases[m].retry < cases[n].retry
                        \/ cases[m].retry = cases[n].retry /\ m >= n
      BY <2>1
    <3>1. row[m] \in Rows(id, suite) /\ row[m].result = cases[m] /\ row[m].sequence = m
      BY <1>1
    <3> QED BY <2>2, <3>1
  <2> QED BY <2>3, <2>4
<1>6. Lasts(Rows(id, suite)) \subseteq Rows(id, suite)
  BY DEF Lasts
<1>7. \A n, m \in D : row[n] = row[m] => n = m
  <2> SUFFICES ASSUME NEW n \in D, NEW m \in D, row[n] = row[m] PROVE n = m
    OBVIOUS
  <2> QED BY <1>1
<1>8. Cardinality({n \in D : IsLast(cases, end, n)}) = Cardinality(Lasts(Rows(id, suite)))
  <2> DEFINE S == {n \in D : IsLast(cases, end, n)}
             T == Lasts(Rows(id, suite))
  <2>1. IsFiniteSet(S)
    BY <1>3, FS_Subset
  <2>2. \A s \in S : row[s] \in T
    BY <1>5
  <2>3. \A s, t \in S : row[s] = row[t] => s = t
    BY <1>7
  <2>4. \A t \in T : \E s \in S : row[s] = t
    BY <1>2, <1>5, <1>6
  <2> HIDE DEF S, T
  <2>5. Cardinality(S) = Cardinality(T)
    BY <2>1, <2>2, <2>3, <2>4, SameSize
  <2> QED BY <2>5 DEF S, T
<1>9. Cardinality({n \in D : IsLast(cases, end, n) /\ cases[n].status \in statuses})
        = Cardinality({c \in Lasts(Rows(id, suite)) : c.result.status \in statuses})
  <2> DEFINE S == {n \in D : IsLast(cases, end, n) /\ cases[n].status \in statuses}
             T == {c \in Lasts(Rows(id, suite)) : c.result.status \in statuses}
  <2>1. IsFiniteSet(S)
    BY <1>3, FS_Subset
  <2>2. \A s \in S : row[s] \in T
    BY <1>1, <1>5
  <2>3. \A s, t \in S : row[s] = row[t] => s = t
    BY <1>7
  <2>4. \A t \in T : \E s \in S : row[s] = t
    BY <1>1, <1>2, <1>5, <1>6
  <2> HIDE DEF S, T
  <2>5. Cardinality(S) = Cardinality(T)
    BY <2>1, <2>2, <2>3, <2>4, SameSize
  <2> QED BY <2>5 DEF S, T
<1> QED BY <1>8, <1>9 DEF D, cases, Ending, RowsWith

\* and as many titles are kept as there are last attempts.
LEMMA LastTitles ==
  ASSUME NEW cases, NEW end \in Nat, GivenBefore(cases, end),
         \A n \in DOMAIN cases : cases[n].retry \in Nat,
         NEW last, Kept(cases, end, last), NEW statuses
  PROVE  /\ Cardinality({n \in DOMAIN cases : IsLast(cases, end, n)}) = Cardinality(DOMAIN last)
         /\ Cardinality(Ending(cases, end, statuses)) = Cardinality(KeptWith(last, statuses))
<1> DEFINE D == DOMAIN cases
           title == [n \in D |-> cases[n].full]
<1>1. \A n \in D : title[n] = cases[n].full
  OBVIOUS
<1>2. IsFiniteSet(D)
  <2>1. D \subseteq 0..end
    BY DEF GivenBefore
  <2>2. IsFiniteSet(0..end)
    BY FS_Interval
  <2> QED BY <2>1, <2>2, FS_Subset
<1>3. Seen(cases, end) = D /\ D \subseteq Nat
  BY DEF Seen, GivenBefore
<1>4. \A n \in D : cases[n].retry \in Nat
  OBVIOUS
<1> HIDE DEF title, D
<1>5. /\ DOMAIN last = {cases[n].full : n \in D}
      /\ \A full \in DOMAIN last : \E n \in D :
            last[full] = cases[n] /\ cases[n].full = full /\ IsLast(cases, end, n)
  BY <1>3 DEF Kept
<1>6. \A n, m \in D : IsLast(cases, end, n) /\ IsLast(cases, end, m)
                      /\ cases[n].full = cases[m].full => n = m
  <2> SUFFICES ASSUME NEW n \in D, NEW m \in D, IsLast(cases, end, n), IsLast(cases, end, m),
                      cases[n].full = cases[m].full
               PROVE  n = m
    OBVIOUS
  <2>1. \/ cases[m].retry < cases[n].retry
        \/ cases[m].retry = cases[n].retry /\ m >= n
    BY <1>3 DEF IsLast
  <2>2. \/ cases[n].retry < cases[m].retry
        \/ cases[n].retry = cases[m].retry /\ n >= m
    BY <1>3 DEF IsLast
  <2>3. n \in Nat /\ m \in Nat /\ cases[n].retry \in Nat /\ cases[m].retry \in Nat
    BY <1>3, <1>4
  <2> QED BY <2>1, <2>2, <2>3
<1>7. ASSUME NEW n \in D, IsLast(cases, end, n)
      PROVE  title[n] \in DOMAIN last /\ last[title[n]] = cases[n]
  <2>1. title[n] \in DOMAIN last
    BY <1>1, <1>5
  <2>2. PICK k \in D : last[title[n]] = cases[k] /\ cases[k].full = title[n]
                       /\ IsLast(cases, end, k)
    BY <1>5, <2>1
  <2>3. k = n
    BY <1>1, <1>6, <1>7, <2>2
  <2> QED BY <2>1, <2>2, <2>3
<1>8. Cardinality({n \in D : IsLast(cases, end, n)}) = Cardinality(DOMAIN last)
  <2> DEFINE S == {n \in D : IsLast(cases, end, n)}
             T == DOMAIN last
  <2>1. IsFiniteSet(S)
    BY <1>2, FS_Subset
  <2>2. \A s \in S : title[s] \in T
    BY <1>7
  <2>3. \A s, t \in S : title[s] = title[t] => s = t
    BY <1>1, <1>6
  <2>4. \A t \in T : \E s \in S : title[s] = t
    BY <1>1, <1>5
  <2> HIDE DEF S, T
  <2>5. Cardinality(S) = Cardinality(T)
    BY <2>1, <2>2, <2>3, <2>4, SameSize
  <2> QED BY <2>5 DEF S, T
<1>9. Cardinality({n \in D : IsLast(cases, end, n) /\ cases[n].status \in statuses})
        = Cardinality({t \in DOMAIN last : last[t].status \in statuses})
  <2> DEFINE S == {n \in D : IsLast(cases, end, n) /\ cases[n].status \in statuses}
             T == {t \in DOMAIN last : last[t].status \in statuses}
  <2>1. IsFiniteSet(S)
    BY <1>2, FS_Subset
  <2>2. \A s \in S : title[s] \in T
    BY <1>7
  <2>3. \A s, t \in S : title[s] = title[t] => s = t
    BY <1>1, <1>6
  <2>4. \A t \in T : \E s \in S : title[s] = t
    <3> SUFFICES ASSUME NEW t \in DOMAIN last, last[t].status \in statuses
                 PROVE  \E s \in D : IsLast(cases, end, s) /\ cases[s].status \in statuses
                                     /\ title[s] = t
      OBVIOUS
    <3>1. PICK n \in D : last[t] = cases[n] /\ cases[n].full = t /\ IsLast(cases, end, n)
      BY <1>5
    <3> QED BY <1>1, <3>1
  <2> HIDE DEF S, T
  <2>5. Cardinality(S) = Cardinality(T)
    BY <2>1, <2>2, <2>3, <2>4, SameSize
  <2> QED BY <2>5 DEF S, T
<1> QED BY <1>8, <1>9 DEF D, Ending, KeptWith

\* The counts of a suite are those of the rows of its cases.
LEMMA CountsFacts ==
  ASSUME NEW suite, NEW id, NEW end \in Nat, GivenBefore(suite.cases, end),
         \A n \in DOMAIN suite.cases : suite.cases[n].retry \in Nat
  PROVE  StatusCounts(suite.cases, end) = CountsOf(Rows(id, suite))
<1> DEFINE last == LastAttempts(suite.cases, end)
           lasts == Lasts(Rows(id, suite))
           A(statuses) == Cardinality(KeptWith(last, statuses))
           B(statuses) == Cardinality(RowsWith(Rows(id, suite), statuses))
<1>1. Kept(suite.cases, end, last)
  BY LastAttemptsFacts
<1> HIDE DEF last
<1>2. Cardinality(DOMAIN last) = Cardinality(lasts)
  BY <1>1, LastRows, LastTitles
<1>3. ASSUME NEW statuses
      PROVE  Cardinality(KeptWith(last, statuses))
               = Cardinality(RowsWith(Rows(id, suite), statuses))
  <2>1. Cardinality(Ending(suite.cases, end, statuses))
          = Cardinality(RowsWith(Rows(id, suite), statuses))
    BY LastRows
  <2>2. Cardinality(Ending(suite.cases, end, statuses)) = Cardinality(KeptWith(last, statuses))
    BY ZenonT(30), <1>1, LastTitles
  <2> QED BY <2>1, <2>2
<1>4. StatusCounts(suite.cases, end) =
        [total |-> Cardinality(DOMAIN last), passed |-> A({"passed"}),
         failed |-> A({"failed", "timedOut"}), skipped |-> A({"skipped"}),
         flaky |-> A({"flaky"})]
  BY DEF StatusCounts, last, KeptWith
<1>5. CountsOf(Rows(id, suite)) =
        [total |-> Cardinality(lasts), passed |-> B({"passed"}),
         failed |-> B({"failed", "timedOut"}), skipped |-> B({"skipped"}),
         flaky |-> B({"flaky"})]
  BY DEF CountsOf, RowsWith
<1>6. \A statuses : A(statuses) = B(statuses)
  BY <1>3
<1> HIDE DEF A, B, lasts
<1> QED BY <1>2, <1>4, <1>5, <1>6
==============================================================================
