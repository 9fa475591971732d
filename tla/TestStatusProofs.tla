--------------------------- MODULE TestStatusProofs ---------------------------
(***************************************************************************)
(* What is proved of the TestStatus file of a test, for every set of       *)
(* COMPARE_<what> phases: what its operators compute, what every history   *)
(* of updates keeps, and what the programs that share the file may report. *)
(***************************************************************************)
EXTENDS TestStatusHistory, TestCaseRun, NaturalsInduction, WellFoundedInduction,
        SequenceTheorems, TLAPS

\* The core phases are a chain: PrevCore and NextCore are inverse, and only
\* CREATE_NEWCASE has no predecessor and RUN no successor.
LEMMA CoreChain ==
    /\ Core = {"CREATE_NEWCASE", "XML", "SETUP", "SHAREDLIB_BUILD",
               "MODEL_BUILD", "SUBMIT", "RUN"}
    /\ DOMAIN PrevCore = Core \ {"CREATE_NEWCASE"}
    /\ DOMAIN NextCore = Core \ {"RUN"}
    /\ PrevCore["XML"] = "CREATE_NEWCASE" /\ NextCore["CREATE_NEWCASE"] = "XML"
    /\ PrevCore["SETUP"] = "XML" /\ NextCore["XML"] = "SETUP"
    /\ PrevCore["SHAREDLIB_BUILD"] = "SETUP" /\ NextCore["SETUP"] = "SHAREDLIB_BUILD"
    /\ PrevCore["MODEL_BUILD"] = "SHAREDLIB_BUILD"
    /\ NextCore["SHAREDLIB_BUILD"] = "MODEL_BUILD"
    /\ PrevCore["SUBMIT"] = "MODEL_BUILD" /\ NextCore["MODEL_BUILD"] = "SUBMIT"
    /\ PrevCore["RUN"] = "SUBMIT" /\ NextCore["SUBMIT"] = "RUN"
<1>1. Core = {"CREATE_NEWCASE", "XML", "SETUP", "SHAREDLIB_BUILD",
              "MODEL_BUILD", "SUBMIT", "RUN"}
  BY DEF Core, CorePhases
<1>2. \A p \in Core : CoreIndex[p] \in DOMAIN CorePhases /\ CorePhases[CoreIndex[p]] = p
  <2> SUFFICES ASSUME NEW p \in Core
               PROVE  CoreIndex[p] \in DOMAIN CorePhases /\ CorePhases[CoreIndex[p]] = p
    OBVIOUS
  <2>1. \E i \in DOMAIN CorePhases : CorePhases[i] = p
    BY DEF Core
  <2>2. CoreIndex[p] = CHOOSE i \in DOMAIN CorePhases : CorePhases[i] = p
    BY DEF CoreIndex
  <2> QED
    BY <2>1, <2>2
<1>3. /\ CoreIndex["CREATE_NEWCASE"] = 1 /\ CoreIndex["XML"] = 2
      /\ CoreIndex["SETUP"] = 3 /\ CoreIndex["SHAREDLIB_BUILD"] = 4
      /\ CoreIndex["MODEL_BUILD"] = 5 /\ CoreIndex["SUBMIT"] = 6 /\ CoreIndex["RUN"] = 7
  BY <1>1, <1>2 DEF CorePhases
<1>4. /\ DOMAIN PrevCore = Core \ {"CREATE_NEWCASE"}
      /\ \A p \in Core \ {"CREATE_NEWCASE"} : PrevCore[p] = CorePhases[CoreIndex[p] - 1]
  BY DEF PrevCore
<1>5. /\ DOMAIN NextCore = Core \ {"RUN"}
      /\ \A p \in Core \ {"RUN"} : NextCore[p] = CorePhases[CoreIndex[p] + 1]
  BY DEF NextCore
<1>6. /\ CorePhases[1] = "CREATE_NEWCASE" /\ CorePhases[2] = "XML" /\ CorePhases[3] = "SETUP"
      /\ CorePhases[4] = "SHAREDLIB_BUILD" /\ CorePhases[5] = "MODEL_BUILD"
      /\ CorePhases[6] = "SUBMIT" /\ CorePhases[7] = "RUN"
  BY DEF CorePhases
<1> QED
  BY <1>1, <1>3, <1>4, <1>5, <1>6

\* Core phases precede the phases that follow them in ALL_PHASES; namelists are
\* compared between SETUP and SHAREDLIB_BUILD, results come after RUN.
LEMMA PhaseOrder ==
    /\ Core \subseteq Phases
    /\ "NLCOMP" \in Phases
    /\ AllIndex["CREATE_NEWCASE"] = 1 /\ AllIndex["XML"] = 2 /\ AllIndex["SETUP"] = 3
    /\ AllIndex["NLCOMP"] = 4 /\ AllIndex["SHAREDLIB_BUILD"] = 5
    /\ AllIndex["MODEL_BUILD"] = 6 /\ AllIndex["SUBMIT"] = 7 /\ AllIndex["RUN"] = 8
    /\ \A p \in ResultPhases : AllIndex[p] \in 9..15
    /\ \A p \in Phases : AllIndex[p] \in 1..15
<1>1. /\ \A i \in 1..15 : AllPhases[i] \notin ComparePhases
      /\ DOMAIN AllPhases = 1..15
  BY CompareAssumption DEF AllPhases
<1>2. /\ AllPhases[1] = "CREATE_NEWCASE" /\ AllPhases[2] = "XML" /\ AllPhases[3] = "SETUP"
      /\ AllPhases[4] = "NLCOMP" /\ AllPhases[5] = "SHAREDLIB_BUILD"
      /\ AllPhases[6] = "MODEL_BUILD" /\ AllPhases[7] = "SUBMIT" /\ AllPhases[8] = "RUN"
      /\ AllPhases[9] = "COMPARE" /\ AllPhases[10] = "BASELINE" /\ AllPhases[11] = "TPUTCOMP"
      /\ AllPhases[12] = "MEMCOMP" /\ AllPhases[13] = "MEMLEAK"
      /\ AllPhases[14] = "SHORT_TERM_ARCHIVER" /\ AllPhases[15] = "GENERATE"
  BY DEF AllPhases
<1>3. ASSUME NEW p \in Phases
      PROVE  /\ AllIndex[p] \in 1..15
             /\ AllPhases[AllIndex[p]] = IF p \in ComparePhases THEN "COMPARE" ELSE p
  <2> DEFINE name == IF p \in ComparePhases THEN "COMPARE" ELSE p
  <2>1. \E i \in DOMAIN AllPhases : AllPhases[i] = name
    <3>1. CASE p \in ComparePhases
      BY <3>1, <1>1, <1>2
    <3>2. CASE p \notin ComparePhases
      BY <3>2 DEF Phases
    <3> QED
      BY <3>1, <3>2
  <2>2. AllIndex[p] = CHOOSE i \in DOMAIN AllPhases : AllPhases[i] = name
    BY DEF AllIndex
  <2> QED
    BY <2>1, <2>2, <1>1
<1>4. /\ Core \subseteq Phases /\ "NLCOMP" \in Phases
      /\ \A p \in Core \cup {"NLCOMP"} : p \notin ComparePhases
  BY <1>1, <1>2, CoreChain DEF Phases
<1>5. ASSUME NEW p \in ResultPhases
      PROVE  AllIndex[p] \in 9..15
  <2>1. p \in Phases /\ p \notin Core /\ p # "NLCOMP"
    BY DEF ResultPhases
  <2>2. CASE p \in ComparePhases
    BY <1>3, <1>2, <2>1, <2>2
  <2>3. CASE p \notin ComparePhases
    BY <1>3, <1>2, <2>1, <2>3, CoreChain
  <2> QED
    BY <2>2, <2>3
<1>6. \A p \in Core \cup {"NLCOMP"} : AllIndex[p] \in 1..15 /\ AllPhases[AllIndex[p]] = p
  BY <1>3, <1>4
<1>7. \A p \in {"CREATE_NEWCASE", "XML", "SETUP", "NLCOMP", "SHAREDLIB_BUILD"} :
         AllIndex[p] \in 1..15 /\ AllPhases[AllIndex[p]] = p
  BY <1>6, CoreChain
<1>8. /\ AllIndex["CREATE_NEWCASE"] = 1 /\ AllIndex["XML"] = 2 /\ AllIndex["SETUP"] = 3
      /\ AllIndex["NLCOMP"] = 4 /\ AllIndex["SHAREDLIB_BUILD"] = 5
  BY <1>7, <1>2
<1>9. /\ AllIndex["MODEL_BUILD"] = 6 /\ AllIndex["SUBMIT"] = 7 /\ AllIndex["RUN"] = 8
  BY <1>6, <1>2, CoreChain
<1> QED
  BY <1>3, <1>4, <1>5, <1>8, <1>9

-----------------------------------------------------------------------------
(* Recursion and induction over an initial segment of the naturals *)

LEMMA Induction ==
    ASSUME NEW n \in Nat, NEW T, 0 \in T, \A i \in 1..n : i - 1 \in T => i \in T
    PROVE  \A i \in 0..n : i \in T
<1> DEFINE R   == {p \in Nat \X Nat : p[1] < p[2]}
           Bad == {i \in 0..n : i \notin T}
<1>1. IsWellFoundedOn(R, Nat)
  BY NatLessThanWellFounded DEF OpToRel
<1> HIDE DEF R
<1> SUFFICES ASSUME Bad # {} PROVE FALSE
  OBVIOUS
<1>0. Bad \subseteq Nat /\ \A i : i \in Bad <=> i \in 0..n /\ i \notin T
  OBVIOUS
<1> HIDE DEF Bad
<1>2. PICK x \in Bad : \A y \in Bad : ~(<< y, x >> \in R)
  BY <1>0, <1>1, WFMin
<1>3. x \in 1..n /\ x - 1 \in 0..n /\ x - 1 \notin T
  BY <1>0, <1>2
<1>4. ~(<< x - 1, x >> \in R) /\ << x - 1, x >> \in Nat \X Nat
  BY <1>0, <1>2, <1>3
<1>5. ~(x - 1 < x)
  BY <1>4 DEF R
<1> QED BY <1>3, <1>5

\* f takes n steps from a.
Stepwise(f, n, V, a, step) ==
    f \in [0..n -> V] /\ f[0] = a /\ \A i \in 1..n : f[i] = step[i][f[i - 1]]

\* What is defined step by step exists.
LEMMA Recursion ==
    ASSUME NEW n \in Nat, NEW V, NEW a \in V, NEW step \in [1..n -> [V -> V]]
    PROVE  \E f : Stepwise(f, n, V, a, step)
<1> DEFINE T == {m \in 0..n : \E f \in [0..m -> V] :
                    f[0] = a /\ \A i \in 1..m : f[i] = step[i][f[i - 1]]}
<1>0. \A m : m \in T <=> /\ m \in 0..n
                       /\ \E f \in [0..m -> V] :
                             f[0] = a /\ \A i \in 1..m : f[i] = step[i][f[i - 1]]
  OBVIOUS
<1> HIDE DEF T
<1>1. 0 \in T
  <2> DEFINE g == [i \in 0..0 |-> a]
  <2>1. g \in [0..0 -> V] /\ g[0] = a /\ \A i \in 1..0 : g[i] = step[i][g[i - 1]]
    OBVIOUS
  <2> HIDE DEF g
  <2>2. \E f \in [0..0 -> V] : f[0] = a /\ \A i \in 1..0 : f[i] = step[i][f[i - 1]]
    BY <2>1
  <2>3. 0 \in 0..n
    OBVIOUS
  <2> QED BY <2>2, <2>3 DEF T
<1>2. ASSUME NEW m \in 1..n, m - 1 \in T
      PROVE  m \in T
  <2>1. PICK f \in [0..(m - 1) -> V] :
           f[0] = a /\ \A i \in 1..(m - 1) : f[i] = step[i][f[i - 1]]
    BY <1>0, <1>2
  <2> DEFINE g == [i \in 0..m |-> IF i = m THEN step[m][f[m - 1]] ELSE f[i]]
  <2>2. f[m - 1] \in V /\ step[m][f[m - 1]] \in V
    OBVIOUS
  <2>3. g \in [0..m -> V]
    BY <2>2
  <2>4. g[0] = a
    BY <2>1
  <2>5. \A i \in 1..m : g[i] = step[i][g[i - 1]]
    BY <2>1
  <2> HIDE DEF g
  <2>6. m \in 0..n
    OBVIOUS
  <2> QED BY <1>0, <2>3, <2>4, <2>5, <2>6
<1>3. \A i \in 0..n : i \in T
  BY <1>1, <1>2, Induction
<1>4. n \in T
  BY <1>3
<1>5. PICK f \in [0..n -> V] : f[0] = a /\ \A i \in 1..n : f[i] = step[i][f[i - 1]]
  BY <1>4 DEF T
<1> QED BY <1>5 DEF Stepwise

-----------------------------------------------------------------------------
(* The sequence of lines *)

\* kept is what Without keeps of the first lines, for each number of lines.
Keeps(kept, S, seq, gone) ==
    /\ kept \in [0..Len(seq) -> Seq(S)]
    /\ Without(seq, gone) = kept[Len(seq)]
    /\ kept[0] = << >>
    /\ \A i \in 1..Len(seq) :
          kept[i] = IF seq[i] \in gone THEN kept[i - 1] ELSE Append(kept[i - 1], seq[i])

LEMMA AppendType ==
    ASSUME NEW S, NEW seq \in Seq(S), NEW e \in S
    PROVE  Append(seq, e) \in Seq(S)
OBVIOUS

LEMMA WithoutSteps ==
    ASSUME NEW S, NEW seq \in Seq(S), NEW gone
    PROVE  \E kept : Keeps(kept, S, seq, gone)
<1> DEFINE n == Len(seq)
           V == Seq(S)
           a == << >>
           F(f) == [i \in 0..n |-> IF i = 0 THEN << >>
                                   ELSE IF seq[i] \in gone THEN f[i - 1]
                                   ELSE Append(f[i - 1], seq[i])]
           step == [i \in 1..n |-> [v \in Seq(S) |->
                       IF seq[i] \in gone THEN v ELSE Append(v, seq[i])]]
<1>1. n \in Nat /\ step \in [1..n -> [Seq(S) -> Seq(S)]] /\ << >> \in Seq(S)
      /\ \A i \in 1..n : \A v \in Seq(S) :
            step[i][v] = IF seq[i] \in gone THEN v ELSE Append(v, seq[i])
  OBVIOUS
<1>0. step \in [1..n -> [V -> V]] /\ a \in V /\ n \in Nat
  BY <1>1
<1> HIDE DEF step, V, a, n
<1>r. PICK f : Stepwise(f, n, V, a, step)
  BY <1>0, Recursion
<1> USE DEF V, a, n
<1>2. f \in [0..n -> Seq(S)] /\ f[0] = << >> /\ \A i \in 1..n : f[i] = step[i][f[i - 1]]
  BY <1>r DEF Stepwise
<1>3. f = F(f)
  <2>1. ASSUME NEW i \in 0..n
        PROVE  f[i] = F(f)[i]
    <3>1. CASE i = 0
      BY <3>1, <1>2
    <3>2. CASE i # 0
      <4>1. i \in 1..n /\ f[i - 1] \in Seq(S)
        BY <3>2, <1>2
      <4> QED BY <4>1, <1>1, <1>2
    <3> QED BY <3>1, <3>2
  <2> QED BY <2>1, <1>2
<1> DEFINE kept == CHOOSE g : g = F(g)
<1>4. kept = F(kept)
  BY <1>3
<1>5. Without(seq, gone) = kept[n]
  BY DEF Without
<1> HIDE DEF kept, n
<1>6. /\ kept[0] = << >>
      /\ \A i \in 1..n : kept[i] = IF seq[i] \in gone THEN kept[i - 1]
                                   ELSE Append(kept[i - 1], seq[i])
  <2>1. 0 \in 0..n /\ \A i \in 1..n : i \in 0..n /\ i # 0
    BY <1>1
  <2> QED BY <1>4, <2>1
<1> DEFINE T == {i \in 0..n : kept[i] \in Seq(S)}
<1>7. \A i : i \in T <=> i \in 0..n /\ kept[i] \in Seq(S)
  OBVIOUS
<1>8. \A i \in 1..n : i \in 0..n /\ seq[i] \in S
  BY <1>1 DEF n
<1> HIDE DEF T
<1>9. 0 \in T
  <2>1. 0 \in 0..n /\ kept[0] \in Seq(S)
    BY <1>1, <1>6
  <2> QED BY <2>1 DEF T
<1>10. ASSUME NEW i \in 1..n, i - 1 \in T
       PROVE  i \in T
  <2>1. kept[i - 1] \in Seq(S)
    BY <1>10 DEF T
  <2>2. i \in 0..n /\ kept[i] \in Seq(S)
    BY <2>1, <1>6, <1>8, AppendType
  <2> QED BY <2>2 DEF T
<1>11. \A i \in 0..n : i \in T
  BY <1>1, <1>9, <1>10, Induction
<1>12. kept \in [0..n -> Seq(S)]
  BY <1>4, <1>7, <1>11
<1> QED BY <1>5, <1>6, <1>12 DEF n, Keeps

Listed(seq, x) == \E i \in DOMAIN seq : seq[i] = x

\* What is left of a sequence, whatever the order.
LEMMA WithoutMembers ==
    ASSUME NEW S, NEW seq \in Seq(S), NEW gone
    PROVE  /\ Without(seq, gone) \in Seq(S)
           /\ \A x : Listed(Without(seq, gone), x) <=> x \notin gone /\ Listed(seq, x)
<1> DEFINE n == Len(seq)
<1>0. PICK kept : Keeps(kept, S, seq, gone)
  BY WithoutSteps
<1>1. /\ kept \in [0..n -> Seq(S)]
      /\ Without(seq, gone) = kept[n]
      /\ kept[0] = << >>
      /\ \A i \in 1..n :
            kept[i] = IF seq[i] \in gone THEN kept[i - 1] ELSE Append(kept[i - 1], seq[i])
  BY <1>0 DEF Keeps
<1> DEFINE T == {i \in 0..n : \A x : (\E j \in DOMAIN kept[i] : kept[i][j] = x)
                                 <=> x \notin gone /\ \E j \in 1..i : seq[j] = x}
<1>n. n \in Nat /\ DOMAIN seq = 1..n /\ \A i \in 1..n : seq[i] \in S
  OBVIOUS
<1> HIDE DEF n
<1>t. \A i : i \in T <=> /\ i \in 0..n
                       /\ \A x : (\E j \in DOMAIN kept[i] : kept[i][j] = x)
                                 <=> x \notin gone /\ \E j \in 1..i : seq[j] = x
  OBVIOUS
<1> HIDE DEF T
<1>2. 0 \in T
  <2>1. 0 \in 0..n /\ \A x : (\E j \in DOMAIN kept[0] : kept[0][j] = x)
                               <=> x \notin gone /\ \E j \in 1..0 : seq[j] = x
    BY <1>1, <1>n
  <2> QED BY <2>1 DEF T
<1>3. ASSUME NEW i \in 1..n, i - 1 \in T
      PROVE  i \in T
  <2> DEFINE k == kept[i - 1]
  <2>0. i \in 0..n /\ i - 1 \in 0..n
    BY <1>n
  <2>1. k \in Seq(S) /\ seq[i] \in S
    BY <1>1, <1>n, <2>0
  <2>2. \A x : (\E j \in 1..i : seq[j] = x) <=> x = seq[i] \/ \E j \in 1..(i - 1) : seq[j] = x
    BY <1>n
  <2>3. \A x : (\E j \in DOMAIN k : k[j] = x) <=> x \notin gone /\ \E j \in 1..(i - 1) : seq[j] = x
    BY <1>3, <1>t
  <2>4. CASE seq[i] \in gone
    <3>1. kept[i] = k
      BY <2>4, <1>1
    <3> HIDE DEF k
    <3>2. \A x : (\E j \in DOMAIN kept[i] : kept[i][j] = x)
                    <=> x \notin gone /\ \E j \in 1..i : seq[j] = x
      BY <3>1, <2>2, <2>3, <2>4
    <3> QED BY <3>2, <2>0, <1>t
  <2>5. CASE seq[i] \notin gone
    <3>1. kept[i] = Append(k, seq[i])
      BY <2>5, <1>1
    <3> HIDE DEF k
    <3>2. \A x : (\E j \in DOMAIN kept[i] : kept[i][j] = x)
                    <=> x = seq[i] \/ \E j \in DOMAIN k : k[j] = x
      <4>1. DOMAIN kept[i] = 1..(Len(k) + 1) /\ DOMAIN k = 1..Len(k) /\ Len(k) \in Nat
        BY <3>1, <2>1
      <4>2. kept[i][Len(k) + 1] = seq[i] /\ \A j \in 1..Len(k) : kept[i][j] = k[j]
        BY <3>1, <2>1
      <4> QED BY <4>1, <4>2
    <3>3. \A x : (\E j \in DOMAIN kept[i] : kept[i][j] = x)
                    <=> x \notin gone /\ \E j \in 1..i : seq[j] = x
      BY <3>2, <2>2, <2>3, <2>5
    <3> QED BY <3>3, <2>0, <1>t
  <2> QED BY <2>4, <2>5
<1>4. \A i \in 0..n : i \in T
  BY <1>n, <1>2, <1>3, Induction
<1>5. n \in T /\ n \in 0..n
  BY <1>n, <1>4
<1>6. \A x : (\E j \in DOMAIN kept[n] : kept[n][j] = x)
                 <=> x \notin gone /\ \E j \in 1..n : seq[j] = x
  BY <1>5, <1>t
<1>7. kept[n] \in Seq(S)
  BY <1>1, <1>5
<1> QED BY <1>1, <1>6, <1>7, <1>n DEF Listed

\* A sequence that holds nothing of what goes stays as it is.
LEMMA WithoutNothing ==
    ASSUME NEW S, NEW seq \in Seq(S), NEW gone, \A i \in DOMAIN seq : seq[i] \notin gone
    PROVE  Without(seq, gone) = seq
<1> DEFINE n == Len(seq)
<1>0. PICK kept : Keeps(kept, S, seq, gone)
  BY WithoutSteps
<1>1. /\ kept \in [0..n -> Seq(S)]
      /\ Without(seq, gone) = kept[n]
      /\ kept[0] = << >>
      /\ \A i \in 1..n :
            kept[i] = IF seq[i] \in gone THEN kept[i - 1] ELSE Append(kept[i - 1], seq[i])
  BY <1>0 DEF Keeps
<1> DEFINE T == {i \in 0..n : Len(kept[i]) = i /\ \A j \in 1..i : kept[i][j] = seq[j]}
<1>n. n \in Nat /\ DOMAIN seq = 1..n /\ \A i \in 1..n : seq[i] \in S /\ seq[i] \notin gone
  OBVIOUS
<1>m. n = Len(seq)
  OBVIOUS
<1> HIDE DEF n
<1>t. \A i : i \in T <=> i \in 0..n /\ Len(kept[i]) = i /\ \A j \in 1..i : kept[i][j] = seq[j]
  OBVIOUS
<1> HIDE DEF T
<1>2. 0 \in T
  <2>1. 0 \in 0..n /\ Len(kept[0]) = 0 /\ \A j \in 1..0 : kept[0][j] = seq[j]
    BY <1>1, <1>n
  <2> QED BY <2>1 DEF T
<1>3. ASSUME NEW i \in 1..n, i - 1 \in T
      PROVE  i \in T
  <2>0. i \in 0..n /\ i - 1 \in 0..n
    BY <1>n
  <2>1. kept[i] = Append(kept[i - 1], seq[i]) /\ kept[i - 1] \in Seq(S) /\ seq[i] \in S
    BY <1>1, <1>n, <2>0
  <2>2. Len(kept[i - 1]) = i - 1 /\ \A j \in 1..(i - 1) : kept[i - 1][j] = seq[j]
    BY <1>3, <1>t
  <2>3. Len(kept[i]) = i /\ \A j \in 1..i : kept[i][j] = seq[j]
    BY <2>1, <2>2
  <2> QED BY <2>0, <2>3, <1>t
<1>4. \A i \in 0..n : i \in T
  BY <1>n, <1>2, <1>3, Induction
<1>5. n \in T /\ n \in 0..n
  BY <1>n, <1>4
<1>6. Len(kept[n]) = n /\ (\A j \in 1..n : kept[n][j] = seq[j]) /\ kept[n] \in Seq(S)
  BY <1>1, <1>5, <1>t
<1>7. kept[n] = seq
  BY <1>6, <1>m
<1> QED BY <1>1, <1>7

\* A new last line is deleted or stays the last.
LEMMA WithoutAppend ==
    ASSUME NEW S, NEW seq \in Seq(S), NEW e \in S, NEW gone
    PROVE  Without(Append(seq, e), gone) =
              IF e \in gone THEN Without(seq, gone) ELSE Append(Without(seq, gone), e)
<1> DEFINE n   == Len(seq)
           new == Append(seq, e)
<1>m. n = Len(seq)
  OBVIOUS
<1>0. n \in Nat /\ new \in Seq(S) /\ Len(new) = n + 1 /\ new[n + 1] = e
      /\ \A i \in 1..n : new[i] = seq[i]
  OBVIOUS
<1> HIDE DEF new, n
<1>a. PICK kept : Keeps(kept, S, seq, gone)
  BY WithoutSteps
<1>1. /\ kept \in [0..n -> Seq(S)]
      /\ Without(seq, gone) = kept[n]
      /\ kept[0] = << >>
      /\ \A i \in 1..n :
            kept[i] = IF seq[i] \in gone THEN kept[i - 1] ELSE Append(kept[i - 1], seq[i])
  BY <1>a, <1>m DEF Keeps
<1>b. PICK more : Keeps(more, S, new, gone)
  BY <1>0, WithoutSteps
<1>2. /\ more \in [0..(n + 1) -> Seq(S)]
      /\ Without(new, gone) = more[n + 1]
      /\ more[0] = << >>
      /\ \A i \in 1..(n + 1) :
            more[i] = IF new[i] \in gone THEN more[i - 1] ELSE Append(more[i - 1], new[i])
  <2>1. Len(new) = n + 1
    BY <1>0
  <2> QED BY <1>b, <2>1 DEF Keeps
<1> DEFINE T == {i \in 0..n : more[i] = kept[i]}
<1>t. \A i : i \in T <=> i \in 0..n /\ more[i] = kept[i]
  OBVIOUS
<1> HIDE DEF T
<1>3. 0 \in T
  <2>1. 0 \in 0..n /\ more[0] = kept[0]
    BY <1>0, <1>1, <1>2
  <2> QED BY <2>1 DEF T
<1>4. ASSUME NEW i \in 1..n, i - 1 \in T
      PROVE  i \in T
  <2>1. i \in 0..n /\ i \in 1..(n + 1) /\ more[i - 1] = kept[i - 1]
    BY <1>4, <1>0, <1>t
  <2>2. more[i] = kept[i]
    BY <2>1, <1>0, <1>1, <1>2
  <2> QED BY <2>1, <2>2, <1>t
<1>5. \A i \in 0..n : i \in T
  BY <1>0, <1>3, <1>4, Induction
<1>6. more[n] = kept[n] /\ n + 1 \in 1..(n + 1) /\ (n + 1) - 1 = n
  BY <1>5, <1>0, <1>t
<1>7. more[n + 1] = IF e \in gone THEN more[n] ELSE Append(more[n], e)
  BY <1>0, <1>2, <1>6
<1> QED BY <1>1, <1>2, <1>6, <1>7 DEF new

LEMMA AddLineMembers ==
    ASSUME NEW S, NEW seq \in Seq(S), NEW e \in S
    PROVE  /\ AddLine(seq, e) \in Seq(S)
           /\ \A x : Listed(AddLine(seq, e), x) <=> x = e \/ Listed(seq, x)
<1>1. CASE \E i \in DOMAIN seq : seq[i] = e
  BY <1>1 DEF AddLine, Listed
<1>2. CASE ~\E i \in DOMAIN seq : seq[i] = e
  <2> DEFINE new == Append(seq, e)
  <2>1. AddLine(seq, e) = new
    BY <1>2 DEF AddLine
  <2>2. /\ new \in Seq(S) /\ DOMAIN seq = 1..Len(seq) /\ DOMAIN new = 1..(Len(seq) + 1)
        /\ new[Len(seq) + 1] = e /\ \A i \in 1..Len(seq) : new[i] = seq[i]
        /\ Len(seq) \in Nat
    OBVIOUS
  <2> HIDE DEF new
  <2> QED BY <2>1, <2>2 DEF Listed
<1> QED BY <1>1, <1>2

-----------------------------------------------------------------------------
(* The loop over the phases *)

Verdicts == {"PASS", "FAIL", "PEND", "DIFF", "NLFAIL"}
Accs     == [rv : Verdicts, by : Phases \cup {NoStatus}, ran : BOOLEAN, done : BOOLEAN]

\* Phases and statuses by their names.
LEMMA Names ==
    /\ \A p \in Core : p \notin DiffPhases /\ p # "NLCOMP"
    /\ \A p \in DiffPhases : p \notin Core /\ p # "NLCOMP"
    /\ "RUN" \in Core /\ "SUBMIT" \in Core
    /\ \A o : \A p \in Core : ~Excused(p, o)
    /\ \A o : Excused("NLCOMP", o) <=> o.ignoreNl
  BY CoreChain DEF DiffPhases, Excused

\* What a failed phase does that nothing excuses.
LEMMA FailedIs ==
    ASSUME NEW acc \in Accs, NEW p \in Phases, NEW c, ~acc.done
    PROVE  /\ Failed(acc, p, c) \in Accs
           /\ Failed(acc, p, c).ran = acc.ran
           /\ Failed(acc, p, c).done <=> p \in Core
           /\ p = "NLCOMP" => Failed(acc, p, c).rv = IF acc.rv = "PASS" THEN "NLFAIL" ELSE acc.rv
           /\ p \in DiffPhases =>
                 Failed(acc, p, c).rv = IF Soft(acc.rv) THEN DiffVerdict(c) ELSE acc.rv
           /\ p \notin DiffPhases /\ p # "NLCOMP" => Failed(acc, p, c).rv = "FAIL"
<1>0. DiffVerdict(c) \in Verdicts
  BY DEF DiffVerdict, Verdicts
<1>1. CASE p = "NLCOMP"
  <2>1. p \notin Core /\ p \notin DiffPhases
    BY <1>1, Names
  <2>2. Failed(acc, p, c) = [acc EXCEPT !.rv = IF @ = "PASS" THEN "NLFAIL" ELSE @]
    BY <1>1, <2>1 DEF Failed
  <2> QED BY <1>1, <2>1, <2>2 DEF Accs, Verdicts
<1>2. CASE p \in DiffPhases
  <2>1. p \notin Core /\ p # "NLCOMP"
    BY <1>2, Names
  <2>2. Failed(acc, p, c) = IF Soft(acc.rv)
                            THEN [acc EXCEPT !.rv = DiffVerdict(c), !.by = p] ELSE acc
    BY <1>2, <2>1 DEF Failed
  <2> QED BY <1>0, <1>2, <2>1, <2>2 DEF Accs
<1>3. CASE p \in Core
  <2>1. p \notin DiffPhases /\ p # "NLCOMP"
    BY <1>3, Names
  <2>2. Failed(acc, p, c) = [acc EXCEPT !.rv = "FAIL", !.by = p, !.done = TRUE]
    BY <1>3, <2>1 DEF Failed
  <2> QED BY <1>3, <2>1, <2>2 DEF Accs, Verdicts
<1>4. CASE p \notin Core /\ p \notin DiffPhases /\ p # "NLCOMP"
  <2>1. Failed(acc, p, c) = [acc EXCEPT !.rv = "FAIL", !.by = p]
    BY <1>4 DEF Failed
  <2> QED BY <1>4, <2>1 DEF Accs, Verdicts
<1> QED BY <1>1, <1>2, <1>3, <1>4

\* What one phase does, whatever was found before it: before is what the loop
\* knows then, after what it knows when it has looked at the phase.
TurnEffect(t, o, p, before, after) ==
    /\ before.done \/ t.st[p] = NoStatus => after = before
    /\ ~before.done /\ t.st[p] # NoStatus =>
         /\ after.ran <=> before.ran \/ p = "RUN"
         /\ t.st[p] = "PEND" /\ Soft(before.rv) => after.rv = "PEND" /\ after.done
         /\ t.st[p] = "PEND" /\ ~Soft(before.rv) => after.rv = before.rv /\ ~after.done
         /\ t.st[p] = "PASS" \/ (t.st[p] = "FAIL" /\ Excused(p, o)) =>
               after.rv = before.rv /\ ~after.done
         /\ t.st[p] = "FAIL" /\ ~Excused(p, o) =>
              /\ after.done <=> p \in Core
              /\ p = "NLCOMP" => after.rv = IF before.rv = "PASS" THEN "NLFAIL" ELSE before.rv
              /\ p \in DiffPhases =>
                    after.rv = IF Soft(before.rv) THEN DiffVerdict(t.cm[p]) ELSE before.rv
              /\ p \notin DiffPhases /\ p # "NLCOMP" => after.rv = "FAIL"

LEMMA TurnIs ==
    ASSUME NEW t, NEW o, ~o.noRun, NEW acc \in Accs, NEW p \in Phases,
           t.st \in [Phases -> Statuses \cup {NoStatus}]
    PROVE  Turn(t, o, acc, p) \in Accs /\ TurnEffect(t, o, p, acc, Turn(t, o, acc, p))
<1>1. CASE acc.done \/ t.st[p] = NoStatus
  BY <1>1 DEF Turn, TurnEffect
<1>2. CASE ~(acc.done \/ t.st[p] = NoStatus)
  <2> DEFINE s == t.st[p]
             a == [acc EXCEPT !.by  = IF p \in Core /\ Soft(acc.rv) /\ s # "PEND" THEN p ELSE @,
                              !.ran = @ \/ p = "RUN"]
  <2>0. s \in {"PEND", "PASS", "FAIL"}
    BY <1>2 DEF Statuses, NoStatus
  <2>1. Turn(t, o, acc, p) = IF s = "PEND" /\ Soft(a.rv)
                             THEN [a EXCEPT !.rv = "PEND", !.by = p, !.done = TRUE]
                             ELSE IF s = "FAIL" /\ ~Excused(p, o) THEN Failed(a, p, t.cm[p]) ELSE a
    BY <1>2 DEF Turn, ScanPhase
  <2>2. (acc.ran \/ p = "RUN") \in BOOLEAN
    OBVIOUS
  <2>3. a \in Accs /\ a.rv = acc.rv /\ ~a.done
    BY <1>2, <2>2 DEF Accs
  <2>4. a.ran <=> acc.ran \/ p = "RUN"
    BY DEF Accs
  <2> HIDE DEF a
  <2>5. CASE s = "PEND"
    <3>1. CASE Soft(a.rv)
      <4>1. Turn(t, o, acc, p) = [a EXCEPT !.rv = "PEND", !.by = p, !.done = TRUE]
        BY <3>1, <2>1, <2>5
      <4>2. [a EXCEPT !.rv = "PEND", !.by = p, !.done = TRUE] \in Accs
        BY <2>3 DEF Accs, Verdicts
      <4>3. /\ Turn(t, o, acc, p).rv = "PEND" /\ Turn(t, o, acc, p).done
            /\ Turn(t, o, acc, p).ran = a.ran
        BY <4>1, <2>3 DEF Accs
      <4> QED BY <4>1, <4>2, <4>3, <3>1, <2>3, <2>4, <2>5, <1>2 DEF TurnEffect
    <3>2. CASE ~Soft(a.rv)
      <4>1. Turn(t, o, acc, p) = a
        BY <3>2, <2>1, <2>5
      <4> QED BY <4>1, <3>2, <2>3, <2>4, <2>5, <1>2 DEF TurnEffect
    <3> QED BY <3>1, <3>2
  <2>6. CASE s = "PASS" \/ (s = "FAIL" /\ Excused(p, o))
    <3>1. Turn(t, o, acc, p) = a
      BY <2>6, <2>1
    <3> QED BY <3>1, <2>3, <2>4, <2>6, <1>2 DEF TurnEffect
  <2>7. CASE s = "FAIL" /\ ~Excused(p, o)
    <3>1. Turn(t, o, acc, p) = Failed(a, p, t.cm[p])
      BY <2>7, <2>1
    <3>2. /\ Failed(a, p, t.cm[p]) \in Accs
          /\ Failed(a, p, t.cm[p]).ran = a.ran
          /\ Failed(a, p, t.cm[p]).done <=> p \in Core
          /\ p = "NLCOMP" => Failed(a, p, t.cm[p]).rv = IF a.rv = "PASS" THEN "NLFAIL" ELSE a.rv
          /\ p \in DiffPhases =>
                Failed(a, p, t.cm[p]).rv = IF Soft(a.rv) THEN DiffVerdict(t.cm[p]) ELSE a.rv
          /\ p \notin DiffPhases /\ p # "NLCOMP" => Failed(a, p, t.cm[p]).rv = "FAIL"
      BY <2>3, FailedIs
    <3> QED BY <3>1, <3>2, <2>3, <2>4, <2>7, <1>2 DEF TurnEffect
  <2> QED BY <2>0, <2>5, <2>6, <2>7
<1> QED BY <1>1, <1>2

\* acc is what the loop knows after each of the phases.
Scans(acc, t, o, phases) ==
    /\ acc \in [0..Len(phases) -> Accs]
    /\ Scanned(t, o, phases) = acc[Len(phases)]
    /\ acc[0] = NotScanned
    /\ \A i \in 1..Len(phases) : acc[i] = Turn(t, o, acc[i - 1], phases[i])

LEMMA ScanSteps ==
    ASSUME NEW t, NEW o, ~o.noRun, NEW phases \in Seq(Phases),
           t.st \in [Phases -> Statuses \cup {NoStatus}]
    PROVE  \E acc : Scans(acc, t, o, phases)
<1> DEFINE n == Len(phases)
           F(f) == [i \in 0..n |-> IF i = 0 THEN NotScanned ELSE Turn(t, o, f[i - 1], phases[i])]
           step == [i \in 1..n |-> [v \in Accs |-> Turn(t, o, v, phases[i])]]
<1>1. n \in Nat /\ NotScanned \in Accs /\ \A i \in 1..n : phases[i] \in Phases
  BY DEF NotScanned, Accs, Verdicts
<1>2. \A i \in 1..n : \A v \in Accs : Turn(t, o, v, phases[i]) \in Accs
  BY <1>1, TurnIs
<1>3. step \in [1..n -> [Accs -> Accs]]
      /\ \A i \in 1..n : \A v \in Accs : step[i][v] = Turn(t, o, v, phases[i])
  BY <1>2
<1> HIDE DEF step, n
<1>4. PICK f : Stepwise(f, n, Accs, NotScanned, step)
  BY <1>1, <1>3, Recursion
<1>5. f \in [0..n -> Accs] /\ f[0] = NotScanned /\ \A i \in 1..n : f[i] = step[i][f[i - 1]]
  BY <1>4 DEF Stepwise
<1>6. f = F(f)
  <2>1. ASSUME NEW i \in 0..n
        PROVE  f[i] = F(f)[i]
    <3>1. CASE i = 0
      BY <3>1, <1>5
    <3>2. CASE i # 0
      <4>1. i \in 1..n /\ f[i - 1] \in Accs
        BY <3>2, <1>1, <1>5
      <4> QED BY <4>1, <1>3, <1>5
    <3> QED BY <3>1, <3>2
  <2> QED BY <2>1, <1>5
<1> DEFINE acc == CHOOSE g : g = F(g)
<1>7. acc = F(acc)
  BY <1>6
<1>8. Scanned(t, o, phases) = acc[n]
  BY DEF Scanned, n
<1> HIDE DEF acc
<1>9. acc[0] = NotScanned /\ \A i \in 1..n : acc[i] = Turn(t, o, acc[i - 1], phases[i])
  <2>1. 0 \in 0..n /\ \A i \in 1..n : i \in 0..n /\ i # 0
    BY <1>1
  <2> QED BY <1>7, <2>1
<1> DEFINE T == {i \in 0..n : acc[i] \in Accs}
<1> HIDE DEF T
<1>10. 0 \in T
  <2>1. 0 \in 0..n /\ acc[0] \in Accs
    BY <1>1, <1>9
  <2> QED BY <2>1 DEF T
<1>11. ASSUME NEW i \in 1..n, i - 1 \in T
       PROVE  i \in T
  <2>1. acc[i - 1] \in Accs
    BY <1>11 DEF T
  <2>2. i \in 0..n /\ acc[i] \in Accs
    BY <2>1, <1>1, <1>2, <1>9
  <2> QED BY <2>2 DEF T
<1>12. \A i \in 0..n : i \in T
  BY <1>1, <1>10, <1>11, Induction
<1>13. acc \in [0..n -> Accs]
  <2>1. \A i \in 0..n : acc[i] \in Accs
    BY <1>12 DEF T
  <2> QED BY <1>7, <2>1
<1> QED BY <1>8, <1>9, <1>13 DEF n, Scans

-----------------------------------------------------------------------------
\* The inductive invariant: the two properties support each other.  A phase
\* that moves from PEND has nothing after it (NoStaleResults), so opening the
\* next phase keeps the prefix; a phase that can be set has a passed
\* predecessor (CorePrefix), so what comes after it was legitimately there.
FileInv ==
    /\ ts.st \in [Phases -> Statuses \cup {NoStatus}]
    /\ CorePrefix
    /\ NoStaleResults

LEMMA InitialFile == HistoryInit => FileInv
<1> SUFFICES ASSUME HistoryInit PROVE FileInv
  OBVIOUS
<1>1. ts.st = [p \in Phases |-> NoStatus]
  BY DEF HistoryInit, EmptyStatus
<1>2. CorePrefix
  BY <1>1, PhaseOrder, CoreChain DEF CorePrefix, NoStatus
<1>3. NoStaleResults
  BY <1>1 DEF NoStaleResults
<1> QED
  BY <1>1, <1>2, <1>3 DEF FileInv

\* Every update leaves a file whose statuses are those of SetPhase.
LEMMA CallStatuses ==
    ASSUME NEW p \in CalledPhases, NEW s \in Statuses, NEW c \in Comments, Call(p, s, c)
    PROVE  /\ p \in Phases /\ InTurn(p) /\ MaySet(ts.st, p)
           /\ ts'.st = SetPhase(ts.st, p, s)
  BY HistoryAssumption DEF Call, SetStatus

\* Updates of phases that are not core phases touch no other phase.
LEMMA ResultPreservesFileInv ==
    ASSUME FileInv, NEW p \in CalledPhases, NEW s \in Statuses, NEW c \in Comments,
           Call(p, s, c), p \notin Core
    PROVE  FileInv'
<1>1. /\ p \in Phases /\ InTurn(p)
      /\ ts'.st = [q \in Phases |-> IF q = p THEN s ELSE ts.st[q]]
  BY CallStatuses DEF SetPhase, Opened, Invalidated
<1>2. ts'.st \in [Phases -> Statuses \cup {NoStatus}]
  BY <1>1 DEF FileInv
<1>3. CorePrefix'
  BY <1>1, CoreChain, PhaseOrder DEF FileInv, CorePrefix
<1>4. ASSUME NEW q \in Core \ {"RUN"}, AllIndex[p] > AllIndex[q]
      PROVE  ts.st[q] = "PASS"
  <2>1. CASE p = "NLCOMP"
    BY <2>1, <1>1, <1>4, CoreChain, PhaseOrder
       DEF FileInv, CorePrefix, InTurn, NoStatus, ResultPhases
  <2>2. CASE p # "NLCOMP"
    <3>1. ts.st["RUN"] # NoStatus
      BY <2>2, <1>1, CoreChain DEF InTurn
    <3> QED
      BY <3>1, CoreChain, PhaseOrder DEF FileInv, CorePrefix, NoStatus
  <2> QED
    BY <2>1, <2>2
<1>5. NoStaleResults'
  BY <1>1, <1>4, PhaseOrder DEF FileInv, NoStaleResults
<1> QED
  BY <1>2, <1>3, <1>5 DEF FileInv

\* After an update of a core phase, what follows the phase is absent, except the
\* next core phase when the updated one passed.
LEMMA AfterCoreUpdate ==
    ASSUME FileInv, NEW p \in Core, NEW s \in Statuses, InTurn(p), MaySet(ts.st, p),
           ts'.st = SetPhase(ts.st, p, s)
    PROVE  /\ ts'.st \in [Phases -> Statuses \cup {NoStatus}]
           /\ ts'.st[p] = s
           /\ \A q \in Phases : AllIndex[q] < AllIndex[p] => ts'.st[q] = ts.st[q]
           /\ \A q \in Phases : AllIndex[q] > AllIndex[p] =>
                 ts'.st[q] = IF s = "PASS" /\ p # "RUN" /\ q = NextCore[p] THEN "PEND"
                             ELSE IF ts.st[p] \in {"PASS", "FAIL"} \/ p # "RUN"
                             THEN NoStatus ELSE ts.st[q]
<1>1. p \in Phases /\ p \in DOMAIN AllIndex
  BY PhaseOrder DEF AllIndex
<1>2. \A q \in Phases : q \in Opened(p, s) <=> s = "PASS" /\ p # "RUN" /\ q = NextCore[p]
  BY CoreChain DEF Opened
<1>3. p # "RUN" => AllIndex[NextCore[p]] > AllIndex[p]
  BY CoreChain, PhaseOrder
<1>4. \A q \in Phases : q \in Invalidated(ts.st, p) <=>
         ts.st[p] \in {"PASS", "FAIL"} /\ AllIndex[q] > AllIndex[p]
  BY DEF Invalidated
<1>5. \A q \in Phases : AllIndex[q] \in 1..15
  BY PhaseOrder
<1>6. ts'.st = [q \in Phases |-> IF q = p THEN s
                      ELSE IF q \in Opened(p, s) THEN "PEND"
                      ELSE IF q \in Invalidated(ts.st, p) THEN NoStatus
                      ELSE ts.st[q]]
  BY DEF SetPhase
<1>7. ts'.st \in [Phases -> Statuses \cup {NoStatus}]
  BY <1>6 DEF FileInv, Statuses
<1>8. ts'.st[p] = s
  BY <1>1, <1>6
<1>9. ASSUME NEW q \in Phases, AllIndex[q] < AllIndex[p]
      PROVE  ts'.st[q] = ts.st[q]
  BY <1>1, <1>2, <1>3, <1>4, <1>5, <1>6, <1>9
<1>10. ASSUME NEW q \in Phases, AllIndex[q] > AllIndex[p]
       PROVE  ts'.st[q] = IF s = "PASS" /\ p # "RUN" /\ q = NextCore[p] THEN "PEND"
                             ELSE IF ts.st[p] \in {"PASS", "FAIL"} \/ p # "RUN"
                             THEN NoStatus ELSE ts.st[q]
  <2>1. q # p
    BY <1>1, <1>5, <1>10
  <2>2. CASE ts.st[p] \in {"PASS", "FAIL"}
    BY <2>1, <2>2, <1>2, <1>4, <1>6, <1>10
  <2>3. CASE ts.st[p] \notin {"PASS", "FAIL"}
    <3>1. p # "RUN" => ts.st[q] = NoStatus
      BY <2>3, <1>10 DEF FileInv, NoStaleResults
    <3> QED
      BY <2>1, <2>3, <3>1, <1>2, <1>4, <1>6, <1>10
  <2> QED
    BY <2>2, <2>3
<1> QED
  BY <1>7, <1>8, <1>9, <1>10

LEMMA CorePreservesFileInv ==
    ASSUME FileInv, NEW p \in CalledPhases, NEW s \in Statuses, NEW c \in Comments,
           Call(p, s, c), p \in Core
    PROVE  FileInv'
<1>1. /\ p \in Phases /\ InTurn(p) /\ MaySet(ts.st, p)
      /\ ts'.st = SetPhase(ts.st, p, s)
  BY CallStatuses
<1>2. p # "CREATE_NEWCASE" => ts.st[PrevCore[p]] = "PASS"
  BY <1>1, CoreChain DEF InTurn, MaySet, ResultPhases
<1>3. /\ ts'.st \in [Phases -> Statuses \cup {NoStatus}]
      /\ ts'.st[p] = s
      /\ \A q \in Phases : AllIndex[q] < AllIndex[p] => ts'.st[q] = ts.st[q]
      /\ \A q \in Phases : AllIndex[q] > AllIndex[p] =>
            ts'.st[q] = IF s = "PASS" /\ p # "RUN" /\ q = NextCore[p] THEN "PEND"
                        ELSE IF ts.st[p] \in {"PASS", "FAIL"} \/ p # "RUN"
                        THEN NoStatus ELSE ts.st[q]
  BY <1>1, AfterCoreUpdate
<1>4. ASSUME NEW q \in Core, AllIndex[q] < AllIndex[p]
      PROVE  ts.st[q] = "PASS"
  BY <1>2, <1>4, CoreChain, PhaseOrder DEF FileInv, CorePrefix, NoStatus
<1>5. CorePrefix'
  BY <1>2, <1>3, <1>4, CoreChain, PhaseOrder DEF FileInv, CorePrefix, Statuses, NoStatus
<1>6. NoStaleResults'
  <2> SUFFICES ASSUME NEW a \in Core \ {"RUN"}, NEW q \in Phases,
                      ts'.st[a] # "PASS", AllIndex[q] > AllIndex[a]
               PROVE  ts'.st[q] = NoStatus
    BY DEF NoStaleResults
  <2>1. ~(AllIndex[a] < AllIndex[p])
    BY <1>3, <1>4, PhaseOrder
  <2>2. AllIndex[q] > AllIndex[p]
    BY <2>1, PhaseOrder
  <2>3. p # "RUN"
    BY <2>1, CoreChain, PhaseOrder
  <2>4. ~(s = "PASS" /\ q = NextCore[p])
    BY <2>1, <2>3, <1>3, CoreChain, PhaseOrder
  <2> QED
    BY <1>3, <2>2, <2>3, <2>4
<1> QED
  BY <1>3, <1>5, <1>6 DEF FileInv

-----------------------------------------------------------------------------
LEMMA FileInvariant == HistorySpec => []FileInv
<1>1. FileInv /\ [HistoryNext]_historyVars => FileInv'
  <2> SUFFICES ASSUME FileInv, [HistoryNext]_historyVars PROVE FileInv'
    OBVIOUS
  <2>1. CASE HistoryNext
    BY <2>1, CorePreservesFileInv, ResultPreservesFileInv DEF HistoryNext
  <2>2. CASE UNCHANGED historyVars
    BY <2>2 DEF historyVars, FileInv, CorePrefix, NoStaleResults
  <2> QED
    BY <2>1, <2>2
<1> QED
  BY InitialFile, <1>1, PTL DEF HistorySpec

\* The core phases a TestStatus file names are a passed prefix of the core phases
\* and at most one phase more (set_status and its callers).
THEOREM CorePrefixHolds == HistorySpec => []CorePrefix
  BY FileInvariant, PTL DEF FileInv

\* No history of updates leaves a result in the file after a core phase that has
\* not passed: repeating a phase erases what depended on it.
THEOREM NoStaleResultsHolds == HistorySpec => []NoStaleResults
  BY FileInvariant, PTL DEF FileInv

\* While no line is decisive, only namelist differences count.
NlFailed(t, o, phases, m) ==
    \E j \in 1..m : phases[j] = "NLCOMP" /\ t.st["NLCOMP"] = "FAIL" /\ ~o.ignoreNl
RunNamed(t, phases, m) == \E j \in 1..m : phases[j] = "RUN" /\ t.st["RUN"] # NoStatus

LEMMA QuietTurns ==
    ASSUME NEW t, NEW o, ~o.noRun, NEW phases \in Seq(Phases),
           t.st \in [Phases -> Statuses \cup {NoStatus}],
           NEW acc, Scans(acc, t, o, phases), NEW m \in 0..Len(phases),
           \A j \in 1..m : ~Decisive(t, o, phases[j])
    PROVE  /\ ~acc[m].done
           /\ acc[m].rv = IF NlFailed(t, o, phases, m) THEN "NLFAIL" ELSE "PASS"
           /\ acc[m].ran <=> RunNamed(t, phases, m)
<1> DEFINE Q(i) == /\ ~acc[i].done
                   /\ acc[i].rv = IF NlFailed(t, o, phases, i) THEN "NLFAIL" ELSE "PASS"
                   /\ acc[i].ran <=> RunNamed(t, phases, i)
           T == {i \in 0..m : Q(i)}
<1> HIDE DEF Q, T
<1>1. m \in Nat /\ \A i \in 1..m : i \in 1..Len(phases) /\ i - 1 \in 0..Len(phases) /\ phases[i] \in Phases
  OBVIOUS
<1>2. 0 \in T
  <2>1. acc[0] = NotScanned
    BY DEF Scans
  <2>2. ~NlFailed(t, o, phases, 0) /\ ~RunNamed(t, phases, 0)
    BY DEF NlFailed, RunNamed
  <2>3. 0 \in 0..m /\ Q(0)
    BY <1>1, <2>1, <2>2 DEF Q, NotScanned
  <2> QED BY <2>3 DEF T
<1>3. ASSUME NEW i \in 1..m, i - 1 \in T
      PROVE  i \in T
  <2> DEFINE a == acc[i - 1]
             b == acc[i]
             p == phases[i]
             s == t.st[p]
  <2>1. Q(i - 1)
    BY <1>3 DEF T
  <2>2. /\ a \in Accs /\ b = Turn(t, o, a, p) /\ p \in Phases
    BY <1>1 DEF Scans
  <2>3. /\ ~a.done
        /\ a.rv = IF NlFailed(t, o, phases, i - 1) THEN "NLFAIL" ELSE "PASS"
        /\ a.ran <=> RunNamed(t, phases, i - 1)
    BY <2>1 DEF Q
  <2>4. ~(s = "PEND") /\ (s = "FAIL" => p = "NLCOMP" \/ Excused(p, o))
    BY DEF Decisive
  <2>5. s \in {"NONE", "PASS", "FAIL"}
    BY <2>2, <2>4 DEF Statuses, NoStatus
  <2>6. NlFailed(t, o, phases, i) <=>
            NlFailed(t, o, phases, i - 1) \/ (p = "NLCOMP" /\ s = "FAIL" /\ ~o.ignoreNl)
    <3>1. \A j : j \in 1..i <=> j \in 1..(i - 1) \/ j = i
      OBVIOUS
    <3> QED BY <3>1 DEF NlFailed
  <2>7. RunNamed(t, phases, i) <=> RunNamed(t, phases, i - 1) \/ (p = "RUN" /\ s # NoStatus)
    <3>1. \A j : j \in 1..i <=> j \in 1..(i - 1) \/ j = i
      OBVIOUS
    <3> QED BY <3>1 DEF RunNamed
  <2>8. TurnEffect(t, o, p, a, b)
    BY <2>2, TurnIs
  <2>9. p = "NLCOMP" => p \notin Core /\ (Excused(p, o) <=> o.ignoreNl)
    BY Names
  <2> HIDE DEF a, b, p, s
  <2>10. Q(i)
    <3>1. CASE s = "NONE"
      <4>1. b = a /\ ~(s = "FAIL") /\ ~(s # NoStatus)
        BY <3>1, <2>8 DEF NoStatus, TurnEffect, s
      <4> QED BY <4>1, <2>3, <2>6, <2>7 DEF Q, b
    <3>2. CASE s = "PASS" \/ (s = "FAIL" /\ Excused(p, o))
      <4>1. b.rv = a.rv /\ ~b.done /\ (b.ran <=> a.ran \/ p = "RUN") /\ s # NoStatus
        BY <3>2, <2>3, <2>8 DEF NoStatus, TurnEffect, s
      <4>2. ~(p = "NLCOMP" /\ s = "FAIL" /\ ~o.ignoreNl)
        BY <3>2, <2>9
      <4> QED BY <4>1, <4>2, <2>3, <2>6, <2>7 DEF Q, b
    <3>3. CASE s = "FAIL" /\ ~Excused(p, o)
      <4>1. p = "NLCOMP" /\ ~o.ignoreNl
        BY <3>3, <2>4, <2>9
      <4>2. b.rv = "NLFAIL" /\ ~b.done /\ (b.ran <=> a.ran) /\ p # "RUN"
        BY <3>3, <4>1, <2>3, <2>8, <2>9 DEF NoStatus, TurnEffect, s
      <4> QED BY <3>3, <4>1, <4>2, <2>3, <2>6, <2>7 DEF Q, b
    <3> QED BY <3>1, <3>2, <3>3, <2>5
  <2>11. i \in 0..m
    BY <1>1
  <2> QED BY <2>10, <2>11 DEF T
<1>4. \A i \in 0..m : i \in T
  BY <1>1, <1>2, <1>3, Induction
<1>5. m \in 0..m
  BY <1>1
<1> QED BY <1>4, <1>5 DEF T, Q

\* A loop that has ended stays as it was.
LEMMA DoneStays ==
    ASSUME NEW t, NEW o, ~o.noRun, NEW phases \in Seq(Phases),
           t.st \in [Phases -> Statuses \cup {NoStatus}],
           NEW acc, Scans(acc, t, o, phases), NEW m \in 0..Len(phases), acc[m].done
    PROVE  Scanned(t, o, phases) = acc[m]
<1> DEFINE n == Len(phases)
           T == {i \in 0..(n - m) : acc[m + i] = acc[m]}
<1>0. n \in Nat /\ n - m \in Nat /\ m \in Nat
  OBVIOUS
<1> HIDE DEF T
<1>1. 0 \in T
  <2>1. 0 \in 0..(n - m) /\ acc[m + 0] = acc[m]
    BY <1>0
  <2> QED BY <2>1 DEF T
<1>2. ASSUME NEW i \in 1..(n - m), i - 1 \in T
      PROVE  i \in T
  <2>1. acc[m + (i - 1)] = acc[m]
    BY <1>2 DEF T
  <2>2. m + i \in 1..n /\ (m + i) - 1 = m + (i - 1) /\ m + (i - 1) \in 0..n /\ i \in 0..(n - m)
    BY <1>0
  <2>3. acc[m + i] = Turn(t, o, acc[m], phases[m + i])
    BY <2>1, <2>2 DEF Scans
  <2>4. acc[m + i] = acc[m]
    BY <2>3 DEF Turn
  <2> QED BY <2>2, <2>4 DEF T
<1>3. \A i \in 0..(n - m) : i \in T
  BY <1>0, <1>1, <1>2, Induction
<1>4. n - m \in T /\ m + (n - m) = n
  BY <1>0, <1>3
<1>5. acc[n] = acc[m]
  BY <1>4 DEF T
<1> QED BY <1>5 DEF Scans

\* m is the first of the phases that decides something.
FirstDecisive(t, o, phases, m) ==
    /\ m \in 1..Len(phases) /\ Decisive(t, o, phases[m])
    /\ \A j \in 1..(m - 1) : ~Decisive(t, o, phases[j])

HardFailed(t, o, phases, m) ==
    \E j \in 1..m : /\ Decisive(t, o, phases[j])
                    /\ phases[j] \notin DiffPhases /\ t.st[phases[j]] = "FAIL"

Decided(t, o, phases, m, acc) ==
    /\ m \in 1..Len(phases) /\ acc[m] \in Accs /\ phases[m] \in Phases
    /\ TurnEffect(t, o, phases[m], acc[m - 1], acc[m])
    /\ ~acc[m - 1].done /\ Soft(acc[m - 1].rv)
    /\ t.st[phases[m]] = "PEND" \/
       (t.st[phases[m]] = "FAIL" /\ phases[m] # "NLCOMP" /\ ~Excused(phases[m], o))

\* What the loop knew before the first phase that decides something, and what
\* that phase does.
LEMMA DecisiveTurn ==
    ASSUME NEW t, NEW o, ~o.noRun, NEW phases \in Seq(Phases),
           t.st \in [Phases -> Statuses \cup {NoStatus}],
           NEW acc, Scans(acc, t, o, phases), NEW m, FirstDecisive(t, o, phases, m)
    PROVE  Decided(t, o, phases, m, acc)
<1>1. /\ m \in 1..Len(phases) /\ m - 1 \in 0..Len(phases) /\ m \in 0..Len(phases)
      /\ phases[m] \in Phases
  BY DEF FirstDecisive
<1>2. ~acc[m - 1].done /\ Soft(acc[m - 1].rv)
  <2>1. \A j \in 1..(m - 1) : ~Decisive(t, o, phases[j])
    BY DEF FirstDecisive
  <2>2. /\ ~acc[m - 1].done
        /\ acc[m - 1].rv = IF NlFailed(t, o, phases, m - 1) THEN "NLFAIL" ELSE "PASS"
    BY <1>1, <2>1, QuietTurns
  <2> QED BY <2>2 DEF Soft
<1>3. acc[m] = Turn(t, o, acc[m - 1], phases[m]) /\ acc[m - 1] \in Accs /\ acc[m] \in Accs
  BY <1>1 DEF Scans
<1>4. TurnEffect(t, o, phases[m], acc[m - 1], acc[m])
  BY <1>1, <1>3, TurnIs
<1>5. Decisive(t, o, phases[m])
  BY DEF FirstDecisive
<1> QED BY <1>1, <1>2, <1>3, <1>4, <1>5 DEF Decisive, Decided

\* A pending phase and a failed core phase are the verdict.
LEMMA FinalTurn ==
    ASSUME NEW t, NEW o, ~o.noRun, NEW phases \in Seq(Phases),
           t.st \in [Phases -> Statuses \cup {NoStatus}],
           NEW m, FirstDecisive(t, o, phases, m),
           t.st[phases[m]] = "PEND" \/ phases[m] \in Core
    PROVE  Scanned(t, o, phases).rv = t.st[phases[m]] /\ t.st[phases[m]] \in {"PEND", "FAIL"}
<1>1. PICK acc : Scans(acc, t, o, phases)
  BY ScanSteps
<1>2. /\ m \in 1..Len(phases) /\ TurnEffect(t, o, phases[m], acc[m - 1], acc[m])
      /\ ~acc[m - 1].done /\ Soft(acc[m - 1].rv)
      /\ t.st[phases[m]] = "PEND" \/
         (t.st[phases[m]] = "FAIL" /\ phases[m] # "NLCOMP" /\ ~Excused(phases[m], o))
  <2>1. Decided(t, o, phases, m, acc)
    BY <1>1, DecisiveTurn
  <2> QED BY <2>1 DEF Decided
<1>3. acc[m].done /\ acc[m].rv = t.st[phases[m]]
  <2>1. CASE t.st[phases[m]] = "PEND"
    BY <2>1, <1>2 DEF TurnEffect, NoStatus
  <2>2. CASE t.st[phases[m]] = "FAIL" /\ phases[m] \in Core
    BY <2>2, <1>2, Names DEF TurnEffect, NoStatus
  <2> QED BY <2>1, <2>2, <1>2
<1>4. Scanned(t, o, phases) = acc[m]
  <2>1. m \in 0..Len(phases)
    BY <1>2
  <2> QED BY <2>1, <1>1, <1>3, DoneStays
<1> QED BY <1>2, <1>3, <1>4

\* After a failed result line only another failure that is not of a comparison
\* changes the verdict.
NoCoreFailed(t, phases) ==
    \A j \in 1..Len(phases) : phases[j] \in Core => t.st[phases[j]] # "FAIL"

FailVerdict(t, o, phases, m) ==
    Scanned(t, o, phases).rv = IF HardFailed(t, o, phases, Len(phases)) THEN "FAIL"
                               ELSE DiffVerdict(t.cm[phases[m]])

LEMMA FailTurns ==
    ASSUME NEW t, NEW o, ~o.noRun, NEW phases \in Seq(Phases),
           t.st \in [Phases -> Statuses \cup {NoStatus}],
           NEW m, FirstDecisive(t, o, phases, m),
           t.st[phases[m]] = "FAIL", phases[m] \notin Core,
           NoCoreFailed(t, phases)
    PROVE  FailVerdict(t, o, phases, m)
<1>1. PICK acc : Scans(acc, t, o, phases)
  BY ScanSteps
<1> DEFINE n == Len(phases)
           v == DiffVerdict(t.cm[phases[m]])
           Q(i) == ~acc[i].done /\ acc[i].rv = IF HardFailed(t, o, phases, i) THEN "FAIL" ELSE v
           T == {i \in 0..(n - m) : Q(m + i)}
<1>2. /\ m \in 1..n /\ TurnEffect(t, o, phases[m], acc[m - 1], acc[m])
      /\ ~acc[m - 1].done /\ Soft(acc[m - 1].rv)
      /\ phases[m] # "NLCOMP" /\ ~Excused(phases[m], o)
  <2>1. Decided(t, o, phases, m, acc)
    BY <1>1, DecisiveTurn
  <2> QED BY <2>1 DEF Decided
<1>3. n \in Nat /\ m \in 1..n /\ n - m \in Nat
  BY <1>2
<1>4. v \in {"FAIL", "DIFF"} /\ ~Soft(v) /\ ~Soft("FAIL")
  BY DEF DiffVerdict, Soft
<1> HIDE DEF Q, T, v
<1>5. Q(m)
  <2>1. HardFailed(t, o, phases, m) <=> phases[m] \notin DiffPhases
    BY <1>3 DEF FirstDecisive, HardFailed
  <2>2. ~acc[m].done
    BY <1>2 DEF TurnEffect, NoStatus
  <2>3. acc[m].rv = IF phases[m] \in DiffPhases THEN v ELSE "FAIL"
    BY <1>2 DEF TurnEffect, NoStatus, v
  <2> QED BY <2>1, <2>2, <2>3 DEF Q
<1>6. 0 \in T
  <2>1. 0 \in 0..(n - m) /\ m + 0 = m
    BY <1>3
  <2> QED BY <2>1, <1>5 DEF T
<1>7. ASSUME NEW i \in 1..(n - m), i - 1 \in T
      PROVE  i \in T
  <2> DEFINE k == m + i
             a == acc[k - 1]
             b == acc[k]
             p == phases[k]
             s == t.st[p]
  <2>1. k \in 1..n /\ k - 1 = m + (i - 1) /\ k - 1 \in 0..n /\ i \in 0..(n - m)
    BY <1>3
  <2> HIDE DEF k
  <2>2. Q(k - 1)
    BY <1>7, <2>1 DEF T
  <2>3. /\ ~a.done /\ ~Soft(a.rv)
        /\ a.rv = IF HardFailed(t, o, phases, k - 1) THEN "FAIL" ELSE v
    BY <2>2, <1>4 DEF Q
  <2>4. b = Turn(t, o, a, p) /\ a \in Accs /\ p \in Phases
    <3>1. b = Turn(t, o, a, p)
      BY <2>1, <1>1 DEF Scans
    <3>2. acc \in [0..n -> Accs]
      BY <1>1 DEF Scans
    <3>3. a \in Accs
      BY <2>1, <3>2
    <3>4. p \in Phases
      BY <2>1
    <3> QED BY <3>1, <3>3, <3>4
  <2>5. TurnEffect(t, o, p, a, b)
    BY <2>4, TurnIs
  <2>6. s \in {"PEND", "NONE", "PASS", "FAIL"} /\ (s = "FAIL" => p \notin Core)
    BY <2>1, <2>4 DEF Statuses, NoStatus, NoCoreFailed
  <2>7. HardFailed(t, o, phases, k) <=>
           HardFailed(t, o, phases, k - 1) \/
           (s = "FAIL" /\ p # "NLCOMP" /\ ~Excused(p, o) /\ p \notin DiffPhases)
    <3>1. \A j : j \in 1..k <=> j \in 1..(k - 1) \/ j = k
      BY <2>1
    <3> QED BY <3>1 DEF HardFailed, Decisive
  <2> HIDE DEF a, b, p
  <2>8. Q(k)
    <3>0. ~a.done /\ ~(a.rv = "PASS")
      BY <2>3 DEF Soft
    <3>1. CASE s = "NONE"
      <4>1. b = a
        BY <3>1, <2>5 DEF TurnEffect, NoStatus
      <4>2. ~(s = "FAIL")
        BY <3>1
      <4> QED BY <4>1, <4>2, <2>3, <2>7 DEF Q, b
    <3>2. CASE s = "PASS" \/ s = "PEND" \/ (s = "FAIL" /\ Excused(p, o))
      <4>1. b.rv = a.rv /\ ~b.done
        BY <3>2, <2>3, <2>5 DEF TurnEffect, NoStatus
      <4>2. ~(s = "FAIL" /\ ~Excused(p, o))
        BY <3>2
      <4> QED BY <4>1, <4>2, <2>3, <2>7 DEF Q, b
    <3>3. CASE s = "FAIL" /\ ~Excused(p, o) /\ (p = "NLCOMP" \/ p \in DiffPhases)
      <4>1. b.rv = a.rv /\ ~b.done
        BY <3>3, <3>0, <2>3, <2>5, <2>6 DEF TurnEffect, NoStatus
      <4> QED BY <4>1, <3>3, <2>3, <2>7 DEF Q, b
    <3>4. CASE s = "FAIL" /\ ~Excused(p, o) /\ p # "NLCOMP" /\ p \notin DiffPhases
      <4>1. b.rv = "FAIL" /\ ~b.done
        BY <3>4, <2>3, <2>5, <2>6 DEF TurnEffect, NoStatus
      <4> QED BY <4>1, <3>4, <2>7 DEF Q, b
    <3> QED BY <3>1, <3>2, <3>3, <3>4, <2>6
  <2> QED BY <2>1, <2>8 DEF T, k
<1>8. \A i \in 0..(n - m) : i \in T
  BY <1>3, <1>6, <1>7, Induction
<1>9. n - m \in T /\ m + (n - m) = n
  BY <1>3, <1>8
<1>10. Q(n)
  BY <1>9 DEF T
<1> QED BY <1>1, <1>10 DEF Scans, Q, v, FailVerdict

\* Lines are those of the file: named, and not core.
LEMMA ResultsIs ==
    ASSUME NEW t, IsStatus(t)
    PROVE  /\ Results(t) \in Seq(Phases)
           /\ \A p \in Phases : (\E i \in DOMAIN Results(t) : Results(t)[i] = p)
                                   <=> p \notin Core /\ t.st[p] # NoStatus
           /\ \A i \in DOMAIN Results(t) : /\ Results(t)[i] \in Phases \ Core
                                           /\ t.st[Results(t)[i]] # NoStatus
<1>1. t.order \in Seq(Phases)
  BY DEF IsStatus
<1>2. /\ Results(t) \in Seq(Phases)
      /\ \A x : (\E i \in DOMAIN Results(t) : Results(t)[i] = x)
                   <=> x \notin Core /\ \E i \in DOMAIN t.order : t.order[i] = x
  <2>1. /\ Results(t) \in Seq(Phases)
        /\ \A x : Listed(Results(t), x) <=> x \notin Core /\ Listed(t.order, x)
    BY <1>1, WithoutMembers DEF Results
  <2> QED BY <2>1 DEF Listed
<1>3. \A p \in Phases : (\E i \in DOMAIN Results(t) : Results(t)[i] = p)
                           <=> p \notin Core /\ t.st[p] # NoStatus
  BY <1>2 DEF IsStatus
<1>4. \A i \in DOMAIN Results(t) : Results(t)[i] \in Phases
  BY <1>2
<1> QED BY <1>2, <1>3, <1>4

\* A core phase decides when it is in the file and did not pass.
LEMMA CoreDecisive ==
    ASSUME NEW t, NEW o, NEW p \in Core
    PROVE  Decisive(t, o, p) <=> t.st[p] \in {"PEND", "FAIL"}
  BY Names DEF Decisive

LEMMA Least ==
    ASSUME NEW S \in SUBSET Nat, S # {}
    PROVE  \E m \in S : \A j \in S : m <= j
<1> DEFINE R == {p \in Nat \X Nat : p[1] < p[2]}
<1>1. IsWellFoundedOn(R, Nat)
  BY NatLessThanWellFounded DEF OpToRel
<1> HIDE DEF R
<1>2. PICK x \in S : \A y \in S : ~(<< y, x >> \in R)
  BY <1>1, WFMin
<1>3. ASSUME NEW y \in S PROVE x <= y
  <2>1. ~(<< y, x >> \in R) /\ << y, x >> \in Nat \X Nat
    BY <1>2
  <2>2. ~(y < x)
    BY <2>1 DEF R
  <2> QED BY <2>2
<1> QED BY <1>3

LEMMA CoreSequence ==
    /\ CorePhases \in Seq(Phases) /\ Len(CorePhases) = 7
    /\ \A i \in 1..7 : CorePhases[i] \in Core /\ CoreIndex[CorePhases[i]] = i
    /\ \A p \in Core : CoreIndex[p] \in 1..7 /\ CorePhases[CoreIndex[p]] = p
    /\ CorePhases[7] = "RUN"
<1>1. /\ Len(CorePhases) = 7 /\ DOMAIN CorePhases = 1..7
      /\ CorePhases[1] = "CREATE_NEWCASE" /\ CorePhases[2] = "XML" /\ CorePhases[3] = "SETUP"
      /\ CorePhases[4] = "SHAREDLIB_BUILD" /\ CorePhases[5] = "MODEL_BUILD"
      /\ CorePhases[6] = "SUBMIT" /\ CorePhases[7] = "RUN"
  BY DEF CorePhases
<1>2. \A i, j \in 1..7 : CorePhases[i] = CorePhases[j] => i = j
  BY <1>1
<1>3. \A p \in Core : CoreIndex[p] \in 1..7 /\ CorePhases[CoreIndex[p]] = p
  <2> SUFFICES ASSUME NEW p \in Core
               PROVE  CoreIndex[p] \in 1..7 /\ CorePhases[CoreIndex[p]] = p
    OBVIOUS
  <2>1. \E i \in 1..7 : CorePhases[i] = p
    BY <1>1 DEF Core
  <2>2. CoreIndex[p] = CHOOSE i \in 1..7 : CorePhases[i] = p
    BY <1>1 DEF CoreIndex
  <2> QED BY <2>1, <2>2
<1>4. \A i \in 1..7 : CorePhases[i] \in Core
  BY <1>1 DEF Core
<1>5. CorePhases \in Seq(Phases)
  <2>1. CorePhases \in Seq(Core)
    BY <1>1, <1>4 DEF CorePhases
  <2> QED BY <2>1, PhaseOrder
<1> QED BY <1>1, <1>2, <1>3, <1>4, <1>5

\* The first pass, when a core phase did not pass.
LEMMA BadCore ==
    ASSUME NEW t, NEW o, ~o.noRun, IsStatus(t),
           NEW bad, bad = {p \in Core : t.st[p] \in {"PEND", "FAIL"}}, bad # {}
    PROVE  Overall(t, o)[1] = t.st[CHOOSE p \in bad : \A q \in bad : CoreIndex[p] <= CoreIndex[q]]
<1> DEFINE S == {i \in 1..7 : CorePhases[i] \in bad}
<1>1. S \in SUBSET Nat /\ S # {}
  BY CoreSequence
<1>2. PICK m \in S : \A j \in S : m <= j
  BY <1>1, Least
<1>3. m \in 1..7 /\ CorePhases[m] \in bad /\ \A j \in 1..7 : CorePhases[j] \in bad => m <= j
  BY <1>2
<1>4. FirstDecisive(t, o, CorePhases, m)
  <2>1. m \in 1..Len(CorePhases) /\ Decisive(t, o, CorePhases[m])
    BY <1>3, CoreSequence, CoreDecisive
  <2>2. ASSUME NEW j \in 1..(m - 1) PROVE ~Decisive(t, o, CorePhases[j])
    <3>1. j \in 1..7 /\ ~(m <= j)
      BY <1>3
    <3>2. CorePhases[j] \notin bad /\ CorePhases[j] \in Core
      BY <3>1, <1>3, CoreSequence
    <3> QED BY <3>2, CoreDecisive
  <2> QED BY <2>1, <2>2 DEF FirstDecisive
<1>5. Scanned(t, o, CorePhases).rv = t.st[CorePhases[m]] /\ t.st[CorePhases[m]] \in {"PEND", "FAIL"}
  <2>1. t.st \in [Phases -> Statuses \cup {NoStatus}]
    BY DEF IsStatus
  <2>2. t.st[CorePhases[m]] = "PEND" \/ CorePhases[m] \in Core
    BY <1>3, CoreSequence
  <2>3. CorePhases \in Seq(Phases)
    BY CoreSequence
  <2> QED BY <2>1, <2>2, <2>3, <1>4, FinalTurn
<1>6. Overall(t, o)[1] = t.st[CorePhases[m]]
  BY <1>5 DEF Overall, OverallOfPhases, Soft
<1>7. (CHOOSE p \in bad : \A q \in bad : CoreIndex[p] <= CoreIndex[q]) = CorePhases[m]
  <2> DEFINE P(p) == \A q \in bad : CoreIndex[p] <= CoreIndex[q]
  <2>1. CorePhases[m] \in bad /\ P(CorePhases[m])
    <3>1. ASSUME NEW q \in bad PROVE CoreIndex[CorePhases[m]] <= CoreIndex[q]
      <4>1. q \in Core /\ CoreIndex[q] \in 1..7 /\ CorePhases[CoreIndex[q]] \in bad
        BY CoreSequence
      <4>2. CoreIndex[CorePhases[m]] = m
        BY <1>3, CoreSequence
      <4> QED BY <4>1, <4>2, <1>3
    <3> QED BY <3>1, <1>3
  <2>2. ASSUME NEW p \in bad, P(p) PROVE p = CorePhases[m]
    <3>1. p \in Core /\ CoreIndex[p] \in 1..7 /\ CorePhases[CoreIndex[p]] = p
      BY CoreSequence
    <3>2. m <= CoreIndex[p]
      BY <3>1, <1>3
    <3>3. CoreIndex[p] <= CoreIndex[CorePhases[m]] /\ CoreIndex[CorePhases[m]] = m
      BY <2>2, <1>3, CoreSequence
    <3>4. CoreIndex[p] = m
      BY <3>1, <3>2, <3>3, <1>3
    <3> QED BY <3>1, <3>4
  <2> HIDE DEF P
  <2>3. (CHOOSE p \in bad : P(p)) = CorePhases[m]
    BY <2>1, <2>2
  <2> QED BY <2>3 DEF P
<1> QED BY <1>6, <1>7

\* The first pass, when none did not pass.
LEMMA GoodCore ==
    ASSUME NEW t, NEW o, ~o.noRun, IsStatus(t),
           \A p \in Core : t.st[p] \notin {"PEND", "FAIL"}
    PROVE  Overall(t, o) = IF o.waitForRun /\ t.st["RUN"] = NoStatus THEN << "PEND", "RUN" >>
                           ELSE OverallOfPhases(t, o, CorePhases \o Results(t))
<1>1. t.st \in [Phases -> Statuses \cup {NoStatus}] /\ CorePhases \in Seq(Phases)
  BY CoreSequence DEF IsStatus
<1>2. PICK acc : Scans(acc, t, o, CorePhases)
  BY <1>1, ScanSteps
<1>3. \A j \in 1..7 : ~Decisive(t, o, CorePhases[j])
  BY CoreSequence, CoreDecisive
<1>4. /\ acc[7].rv = IF NlFailed(t, o, CorePhases, 7) THEN "NLFAIL" ELSE "PASS"
      /\ acc[7].ran <=> RunNamed(t, CorePhases, 7)
  <2>1. 7 \in 0..Len(CorePhases)
    BY CoreSequence
  <2> QED BY <2>1, <1>1, <1>2, <1>3, QuietTurns
<1>5. ~NlFailed(t, o, CorePhases, 7)
  BY CoreSequence, Names DEF NlFailed
<1>6. RunNamed(t, CorePhases, 7) <=> t.st["RUN"] # NoStatus
  BY CoreSequence DEF RunNamed
<1>7. Scanned(t, o, CorePhases) = acc[7]
  BY <1>2, CoreSequence DEF Scans
<1>8. OverallOfPhases(t, o, CorePhases)[1] =
         IF o.waitForRun /\ t.st["RUN"] = NoStatus THEN "PEND" ELSE "PASS"
  BY <1>4, <1>5, <1>6, <1>7 DEF OverallOfPhases, Soft
<1>9. o.waitForRun /\ t.st["RUN"] = NoStatus =>
         OverallOfPhases(t, o, CorePhases) = << "PEND", "RUN" >>
  BY <1>4, <1>5, <1>6, <1>7 DEF OverallOfPhases, Soft
<1> QED BY <1>8, <1>9 DEF Overall

Joined(c, a, b, m) ==
    /\ Len(c) = m + Len(b)
    /\ \A j \in 1..m : c[j] = a[j]
    /\ \A i \in 1..Len(b) : c[m + i] = b[i]

LEMMA Concat ==
    ASSUME NEW S, NEW a \in Seq(S), NEW b \in Seq(S), NEW m \in Nat, m = Len(a)
    PROVE  a \o b \in Seq(S) /\ Joined(a \o b, a, b, m)
<1>1. a \o b \in Seq(S) /\ Len(a \o b) = m + Len(b)
  OBVIOUS
<1>2. \A j \in 1..m : (a \o b)[j] = a[j]
  OBVIOUS
<1>3. ASSUME NEW i \in 1..Len(b) PROVE (a \o b)[m + i] = b[i]
  OBVIOUS
<1> QED BY <1>1, <1>2, <1>3 DEF Joined

\* The second pass sees the core phases, which decide nothing, and the results.
Second(t, o, lines, all) ==
    /\ lines \in Seq(Phases) /\ all \in Seq(Phases) /\ Len(all) = 7 + Len(lines)
    /\ \A j \in 1..7 : all[j] \in Core /\ ~Decisive(t, o, all[j])
    /\ \A i \in 1..Len(lines) : all[7 + i] = lines[i]
    /\ \A j \in 1..Len(all) : all[j] \in Core => t.st[all[j]] # "FAIL"
    /\ \A j \in 1..Len(all) : Decisive(t, o, all[j]) => j - 7 \in 1..Len(lines)

LEMMA SecondPass ==
    ASSUME NEW t, NEW o, ~o.noRun, IsStatus(t),
           \A p \in Core : t.st[p] \notin {"PEND", "FAIL"}
    PROVE  Second(t, o, Results(t), CorePhases \o Results(t))
<1> DEFINE lines == Results(t)
           all   == CorePhases \o lines
<1>1. lines \in Seq(Phases) /\ CorePhases \in Seq(Phases) /\ Len(CorePhases) = 7
  BY ResultsIs, CoreSequence
<1>2. /\ all \in Seq(Phases) /\ Len(all) = 7 + Len(lines)
      /\ \A j \in 1..7 : all[j] = CorePhases[j]
      /\ \A i \in 1..Len(lines) : all[7 + i] = lines[i]
  <2> HIDE DEF lines
  <2>1. all \in Seq(Phases) /\ Joined(all, CorePhases, lines, 7)
    BY <1>1, Concat
  <2> HIDE DEF all
  <2> QED BY <2>1 DEF Joined
<1> HIDE DEF lines, all
<1>3. \A j \in 1..7 : all[j] \in Core /\ ~Decisive(t, o, all[j])
  BY <1>2, CoreSequence, CoreDecisive
<1>4. \A j \in 1..Len(all) : all[j] \in Core => t.st[all[j]] # "FAIL"
  OBVIOUS
<1>5. ASSUME NEW j \in 1..Len(all), Decisive(t, o, all[j]) PROVE j - 7 \in 1..Len(lines)
  <2>1. j \notin 1..7
    BY <1>3, <1>5
  <2> QED BY <2>1, <1>1, <1>2
<1>6. Second(t, o, lines, all)
  BY <1>1, <1>2, <1>3, <1>4, <1>5 DEF Second
<1> QED BY <1>6 DEF lines, all

LEMMA NoneDecides ==
    ASSUME NEW t, NEW o, ~o.noRun, IsStatus(t),
           \A p \in Core : t.st[p] \notin {"PEND", "FAIL"},
           ~(o.waitForRun /\ t.st["RUN"] = NoStatus),
           \A i \in DOMAIN Results(t) : ~Decisive(t, o, Results(t)[i])
    PROVE  Overall(t, o)[1] = IF t.st["NLCOMP"] = "FAIL" /\ ~o.ignoreNl THEN "NLFAIL" ELSE "PASS"
<1> DEFINE lines == Results(t)
           all   == CorePhases \o lines
           n     == Len(all)
<1>0. lines = Results(t) /\ all = CorePhases \o lines
  OBVIOUS
<1> HIDE DEF lines, all
<1>1. /\ lines \in Seq(Phases) /\ all \in Seq(Phases) /\ n = 7 + Len(lines)
      /\ \A j \in 1..7 : all[j] \in Core /\ ~Decisive(t, o, all[j])
      /\ \A i \in 1..Len(lines) : all[7 + i] = lines[i]
      /\ \A j \in 1..n : Decisive(t, o, all[j]) => j - 7 \in 1..Len(lines)
  <2>1. Second(t, o, lines, all)
    BY SecondPass DEF lines, all
  <2> QED BY <2>1 DEF Second, n
<1>2. t.st \in [Phases -> Statuses \cup {NoStatus}]
  BY DEF IsStatus
<1>3. \A i \in 1..Len(lines) : ~Decisive(t, o, lines[i])
  BY <1>0, <1>1
<1>4. all[7] = "RUN" /\ 7 \in 1..n
  <2>1. CorePhases \in Seq(Phases) /\ Len(CorePhases) = 7 /\ CorePhases[7] = "RUN"
    BY CoreSequence
  <2> QED BY <1>0, <1>1, <2>1
<1>5. t.st["NLCOMP"] = "FAIL" => \E j \in 1..n : all[j] = "NLCOMP"
  <2> SUFFICES ASSUME t.st["NLCOMP"] = "FAIL" PROVE \E j \in 1..n : all[j] = "NLCOMP"
    OBVIOUS
  <2>1. "NLCOMP" \in Phases /\ "NLCOMP" \notin Core /\ t.st["NLCOMP"] # NoStatus
    BY PhaseOrder, CoreChain DEF NoStatus
  <2>2. PICK i \in DOMAIN lines : lines[i] = "NLCOMP"
    BY <1>0, <2>1, ResultsIs
  <2>3. i \in 1..Len(lines) /\ 7 + i \in 1..n
    BY <1>1
  <2>4. all[7 + i] = "NLCOMP"
    BY <1>1, <2>2, <2>3
  <2> QED BY <2>3, <2>4
<1> HIDE DEF n
<1>6. PICK acc : Scans(acc, t, o, all)
  BY <1>1, <1>2, ScanSteps
<1>7. \A j \in 1..n : ~Decisive(t, o, all[j])
  <2> SUFFICES ASSUME NEW j \in 1..n, Decisive(t, o, all[j]) PROVE FALSE
    OBVIOUS
  <2>1. j - 7 \in 1..Len(lines) /\ all[7 + (j - 7)] = lines[j - 7] /\ 7 + (j - 7) = j
    BY <1>1
  <2> QED BY <2>1, <1>3
<1>8. /\ acc[n].rv = IF NlFailed(t, o, all, n) THEN "NLFAIL" ELSE "PASS"
      /\ acc[n].ran <=> RunNamed(t, all, n)
  <2>1. n \in 0..Len(all)
    BY <1>1 DEF n
  <2> QED BY <2>1, <1>1, <1>2, <1>6, <1>7, QuietTurns
<1>9. NlFailed(t, o, all, n) <=> t.st["NLCOMP"] = "FAIL" /\ ~o.ignoreNl
  BY <1>5 DEF NlFailed
<1>10. RunNamed(t, all, n) <=> t.st["RUN"] # NoStatus
  BY <1>4 DEF RunNamed
<1>11. Scanned(t, o, all) = acc[n]
  BY <1>6 DEF Scans, n
<1>12. Overall(t, o) = OverallOfPhases(t, o, all)
  BY <1>0, GoodCore
<1>13. Overall(t, o)[1] = acc[n].rv
  BY <1>8, <1>10, <1>11, <1>12 DEF OverallOfPhases
<1> QED BY <1>8, <1>9, <1>13

\* The result lines that decide something, and the first of them.
Deciding(t, o, dec, first) ==
    /\ dec = {i \in DOMAIN Results(t) : Decisive(t, o, Results(t)[i])}
    /\ dec # {}
    /\ first = Results(t)[CHOOSE i \in dec : \A j \in dec : i <= j]

FirstDecides(t, o, dec, first) ==
    Overall(t, o)[1] =
       IF t.st[first] = "PEND" THEN "PEND"
       ELSE IF \E i \in dec : Results(t)[i] \notin DiffPhases /\ t.st[Results(t)[i]] = "FAIL"
       THEN "FAIL"
       ELSE DiffVerdict(t.cm[first])

LEMMA SomeDecides ==
    ASSUME NEW t, NEW o, ~o.noRun, IsStatus(t),
           \A p \in Core : t.st[p] \notin {"PEND", "FAIL"},
           ~(o.waitForRun /\ t.st["RUN"] = NoStatus),
           NEW dec, NEW first, Deciding(t, o, dec, first)
    PROVE  FirstDecides(t, o, dec, first)
<1> SUFFICES ASSUME dec = {i \in DOMAIN Results(t) : Decisive(t, o, Results(t)[i])}, dec # {},
                    first = Results(t)[CHOOSE i \in dec : \A j \in dec : i <= j]
             PROVE  Overall(t, o)[1] =
                       IF t.st[first] = "PEND" THEN "PEND"
                       ELSE IF \E i \in dec : Results(t)[i] \notin DiffPhases /\ t.st[Results(t)[i]] = "FAIL"
                       THEN "FAIL"
                       ELSE DiffVerdict(t.cm[first])
  BY DEF Deciding, FirstDecides
<1> DEFINE lines == Results(t)
           all   == CorePhases \o lines
           n     == Len(all)
           c     == CHOOSE i \in dec : \A j \in dec : i <= j
           m     == 7 + c
<1>0. lines = Results(t) /\ all = CorePhases \o lines
  OBVIOUS
<1> HIDE DEF lines, all
<1>1. /\ lines \in Seq(Phases) /\ all \in Seq(Phases) /\ n = 7 + Len(lines)
      /\ \A j \in 1..7 : all[j] \in Core /\ ~Decisive(t, o, all[j])
      /\ \A i \in 1..Len(lines) : all[7 + i] = lines[i]
      /\ \A j \in 1..n : all[j] \in Core => t.st[all[j]] # "FAIL"
      /\ \A j \in 1..n : Decisive(t, o, all[j]) => j - 7 \in 1..Len(lines)
  <2>1. Second(t, o, lines, all)
    BY SecondPass DEF lines, all
  <2> QED BY <2>1 DEF Second, n
<1>2. t.st \in [Phases -> Statuses \cup {NoStatus}]
  BY DEF IsStatus
<1>3. dec \in SUBSET Nat /\ \A i : i \in dec <=> i \in 1..Len(lines) /\ Decisive(t, o, lines[i])
  BY <1>0, <1>1
<1>4. PICK k \in dec : \A j \in dec : k <= j
  BY <1>3, Least
<1>5. c \in dec /\ \A j \in dec : c <= j
  BY <1>4
<1>6. first = lines[c] /\ lines[c] \notin Core
  <2>1. c \in DOMAIN Results(t)
    BY <1>5
  <2> QED BY <1>0, <2>1, ResultsIs
<1> HIDE DEF n, c
<1>7. m \in 1..n /\ all[m] = first /\ Decisive(t, o, all[m]) /\ c \in 1..Len(lines)
  <2>1. c \in 1..Len(lines) /\ Decisive(t, o, lines[c])
    BY <1>3, <1>5
  <2>2. m \in 1..n /\ all[m] = lines[c]
    BY <1>1, <2>1
  <2> QED BY <2>1, <2>2, <1>6
<1> HIDE DEF m
<1>8. FirstDecisive(t, o, all, m)
  <2>1. ASSUME NEW j \in 1..(m - 1), Decisive(t, o, all[j]) PROVE FALSE
    <3>1. j \in 1..n
      BY <1>1, <1>7 DEF m
    <3>2. j - 7 \in 1..Len(lines) /\ all[7 + (j - 7)] = lines[j - 7] /\ 7 + (j - 7) = j
      BY <3>1, <2>1, <1>1
    <3>3. j - 7 \in dec
      BY <3>2, <2>1, <1>3
    <3>4. c <= j - 7
      BY <3>3, <1>5
    <3> QED BY <3>4, <1>7 DEF m
  <2>2. m \in 1..Len(all)
    BY <1>7 DEF n
  <2> QED BY <2>1, <2>2, <1>7 DEF FirstDecisive
<1>9. Overall(t, o) = OverallOfPhases(t, o, all)
  BY <1>0, GoodCore
<1>10. t.st[first] = "PEND" \/ (t.st[first] = "FAIL" /\ first \notin Core)
  BY <1>6, <1>7 DEF Decisive
<1>11. CASE t.st[first] = "PEND"
  <2>1. Scanned(t, o, all).rv = "PEND"
    <3>1. t.st[all[m]] = "PEND" \/ all[m] \in Core
      BY <1>7, <1>11
    <3>2. Scanned(t, o, all).rv = t.st[all[m]]
      BY <3>1, <1>1, <1>2, <1>8, FinalTurn
    <3> QED BY <3>2, <1>7, <1>11
  <2> QED BY <2>1, <1>9, <1>11 DEF OverallOfPhases, Soft
<1>12. CASE t.st[first] = "FAIL" /\ first \notin Core
  <2>1. Scanned(t, o, all).rv = IF HardFailed(t, o, all, n) THEN "FAIL" ELSE DiffVerdict(t.cm[first])
    <3>1. t.st[all[m]] = "FAIL" /\ all[m] \notin Core
      BY <1>7, <1>12
    <3>2. NoCoreFailed(t, all)
      BY <1>1 DEF n, NoCoreFailed
    <3>3. FailVerdict(t, o, all, m)
      BY <3>1, <3>2, <1>1, <1>2, <1>8, FailTurns
    <3> QED BY <3>3, <1>7 DEF n, FailVerdict
  <2>2. HardFailed(t, o, all, n) <=>
           \E i \in dec : lines[i] \notin DiffPhases /\ t.st[lines[i]] = "FAIL"
    <3>1. ASSUME HardFailed(t, o, all, n)
          PROVE  \E i \in dec : lines[i] \notin DiffPhases /\ t.st[lines[i]] = "FAIL"
      <4>1. PICK j \in 1..n : /\ Decisive(t, o, all[j])
                              /\ all[j] \notin DiffPhases /\ t.st[all[j]] = "FAIL"
        BY <3>1 DEF HardFailed
      <4>2. j - 7 \in 1..Len(lines) /\ all[7 + (j - 7)] = lines[j - 7] /\ 7 + (j - 7) = j
        BY <4>1, <1>1
      <4>3. j - 7 \in dec
        BY <4>1, <4>2, <1>3
      <4> QED BY <4>1, <4>2, <4>3
    <3>2. ASSUME NEW i \in dec, lines[i] \notin DiffPhases, t.st[lines[i]] = "FAIL"
          PROVE  HardFailed(t, o, all, n)
      <4>1. i \in 1..Len(lines) /\ Decisive(t, o, lines[i])
        BY <1>3
      <4>2. 7 + i \in 1..n /\ all[7 + i] = lines[i]
        BY <4>1, <1>1
      <4> QED BY <4>1, <4>2, <3>2 DEF HardFailed
    <3> QED BY <3>1, <3>2
  <2>3. Overall(t, o)[1] = Scanned(t, o, all).rv
    <3>1. ~Soft(Scanned(t, o, all).rv)
      BY <2>1 DEF DiffVerdict, Soft
    <3> QED BY <3>1, <1>9 DEF OverallOfPhases
  <2>4. ~(t.st[first] = "PEND")
    BY <1>12
  <2> QED BY <2>1, <2>2, <2>3, <2>4, <1>0
<1> QED BY <1>10, <1>11, <1>12

\* get_overall_test_status ranks the lines as Precedence does, for every file and
\* every query about tests that are run.
THEOREM PrecedenceKept ==
    ASSUME NEW t, NEW o, ~o.noRun, IsStatus(t)
    PROVE  Overall(t, o)[1] = Precedence(t, o)
<1> DEFINE bad   == {p \in Core : t.st[p] \in {"PEND", "FAIL"}}
           lines == Results(t)
           dec   == {i \in DOMAIN lines : Decisive(t, o, lines[i])}
           first == lines[CHOOSE i \in dec : \A j \in dec : i <= j]
           hard  == \E i \in dec : lines[i] \notin DiffPhases /\ t.st[lines[i]] = "FAIL"
           early == t.st[CHOOSE p \in bad : \A q \in bad : CoreIndex[p] <= CoreIndex[q]]
<1>1. Precedence(t, o) =
         IF bad # {} THEN early
         ELSE IF o.waitForRun /\ t.st["RUN"] = NoStatus THEN "PEND"
         ELSE IF dec = {}
              THEN IF t.st["NLCOMP"] = "FAIL" /\ ~o.ignoreNl THEN "NLFAIL" ELSE "PASS"
         ELSE IF t.st[first] = "PEND" THEN "PEND"
         ELSE IF hard THEN "FAIL"
         ELSE DiffVerdict(t.cm[first])
  BY DEF Precedence
<1>2. bad # {} => Overall(t, o)[1] = early
  BY BadCore
<1>3. bad = {} => \A p \in Core : t.st[p] \notin {"PEND", "FAIL"}
  OBVIOUS
<1>4. bad = {} /\ o.waitForRun /\ t.st["RUN"] = NoStatus => Overall(t, o)[1] = "PEND"
  BY <1>3, GoodCore
<1>5. bad = {} /\ ~(o.waitForRun /\ t.st["RUN"] = NoStatus) /\ dec = {} =>
         Overall(t, o)[1] = IF t.st["NLCOMP"] = "FAIL" /\ ~o.ignoreNl THEN "NLFAIL" ELSE "PASS"
  BY <1>3, NoneDecides
<1>6. bad = {} /\ ~(o.waitForRun /\ t.st["RUN"] = NoStatus) /\ dec # {} =>
         Overall(t, o)[1] = IF t.st[first] = "PEND" THEN "PEND"
                            ELSE IF hard THEN "FAIL" ELSE DiffVerdict(t.cm[first])
  <2>1. /\ dec = {i \in DOMAIN Results(t) : Decisive(t, o, Results(t)[i])}
        /\ first = Results(t)[CHOOSE i \in dec : \A j \in dec : i <= j]
        /\ hard <=> \E i \in dec : Results(t)[i] \notin DiffPhases /\ t.st[Results(t)[i]] = "FAIL"
    OBVIOUS
  <2> HIDE DEF dec, first, hard
  <2> SUFFICES ASSUME bad = {}, ~(o.waitForRun /\ t.st["RUN"] = NoStatus), dec # {}
               PROVE  Overall(t, o)[1] = IF t.st[first] = "PEND" THEN "PEND"
                            ELSE IF hard THEN "FAIL" ELSE DiffVerdict(t.cm[first])
    OBVIOUS
  <2>2. \A p \in Core : t.st[p] \notin {"PEND", "FAIL"}
    BY <1>3
  <2>3. Overall(t, o)[1] =
              IF t.st[first] = "PEND" THEN "PEND"
              ELSE IF \E i \in dec : Results(t)[i] \notin DiffPhases /\ t.st[Results(t)[i]] = "FAIL"
              THEN "FAIL"
              ELSE DiffVerdict(t.cm[first])
    <3>1. Deciding(t, o, dec, first)
      BY <2>1 DEF Deciding
    <3>2. FirstDecides(t, o, dec, first)
      BY <2>2, <3>1, SomeDecides
    <3> QED BY <3>2 DEF FirstDecides
  <2> QED BY <2>1, <2>3
<1> HIDE DEF bad, dec, first, hard, early
<1> QED BY <1>1, <1>2, <1>4, <1>5, <1>6

-----------------------------------------------------------------------------
(* Updates *)

LEMMA EmptyIs == IsStatus(EmptyStatus)
<1> DEFINE blank == ""
           t == EmptyStatus
<1>1. t.st = [p \in Phases |-> NoStatus] /\ t.cm = [p \in Phases |-> blank] /\ t.order = << >>
  BY DEF EmptyStatus
<1>2. blank \in Comments
  BY DEF Comments
<1> HIDE DEF blank, t
<1>3. IsStatus(t)
  BY <1>1, <1>2 DEF IsStatus
<1> QED BY <1>3 DEF t

\* set_status leaves a file that names exactly the phases that have a line.
LEMMA SetStatusIs ==
    ASSUME NEW t, IsStatus(t), NEW p \in Phases, NEW s \in Statuses, NEW c \in Comments
    PROVE  /\ IsStatus(SetStatus(t, p, s, c))
           /\ SetStatus(t, p, s, c).st = SetPhase(t.st, p, s)
           /\ SetStatus(t, p, s, c).order # << >>
<1> DEFINE gone  == Invalidated(t.st, p)
           kept  == Without(t.order, gone)
           lines == AddLine(kept, p)
           open  == Opened(p, s)
           order == IF open = {} THEN lines ELSE AddLine(lines, NextCore[p])
           u     == SetStatus(t, p, s, c)
           blank == ""
<1>1. /\ u.st = SetPhase(t.st, p, s) /\ u.order = order
      /\ u.cm = [q \in Phases |-> IF q = p THEN c
                                  ELSE IF q \in gone \cup open THEN blank ELSE t.cm[q]]
  BY DEF SetStatus
<1>b. blank \in Comments
  BY DEF Comments
<1> HIDE DEF blank
<1>2. t.st \in [Phases -> Statuses \cup {NoStatus}] /\ t.order \in Seq(Phases)
      /\ t.cm \in [Phases -> Comments]
      /\ \A q \in Phases : t.st[q] # NoStatus <=> Listed(t.order, q)
  BY DEF IsStatus, Listed
<1>3. open = {} \/ (open = {NextCore[p]} /\ NextCore[p] \in Phases)
  BY CoreChain, PhaseOrder DEF Opened
<1> HIDE DEF gone, open, u
<1>4. kept \in Seq(Phases) /\ \A x : Listed(kept, x) <=> x \notin gone /\ Listed(t.order, x)
  BY <1>2, WithoutMembers
<1> HIDE DEF kept
<1>5. lines \in Seq(Phases) /\ \A x : Listed(lines, x) <=> x = p \/ Listed(kept, x)
  BY <1>4, AddLineMembers
<1> HIDE DEF lines
<1>6. order \in Seq(Phases) /\ \A x : Listed(order, x) <=> x = p \/ x \in open \/ Listed(kept, x)
  <2>1. CASE open = {}
    BY <2>1, <1>5
  <2>2. CASE open # {}
    <3>1. open = {NextCore[p]} /\ NextCore[p] \in Phases /\ order = AddLine(lines, NextCore[p])
      BY <2>2, <1>3
    <3> DEFINE e == NextCore[p]
    <3>2. e \in Phases /\ lines \in Seq(Phases)
      BY <3>1, <1>5
    <3> HIDE DEF e
    <3>3. /\ AddLine(lines, e) \in Seq(Phases)
          /\ \A x : Listed(AddLine(lines, e), x) <=> x = e \/ Listed(lines, x)
      BY <3>2, AddLineMembers
    <3> QED BY <3>1, <3>3, <1>5 DEF e
  <2> QED BY <2>1, <2>2
<1> HIDE DEF order
<1>7. /\ u.st \in [Phases -> Statuses \cup {NoStatus}]
      /\ \A q \in Phases : u.st[q] # NoStatus <=>
            q = p \/ q \in open \/ (q \notin gone /\ t.st[q] # NoStatus)
  <2>1. u.st = [q \in Phases |-> IF q = p THEN s ELSE IF q \in open THEN "PEND"
                                 ELSE IF q \in gone THEN NoStatus ELSE t.st[q]]
    BY <1>1 DEF SetPhase, open, gone
  <2> QED BY <2>1, <1>2 DEF Statuses, NoStatus
<1>8. u.cm \in [Phases -> Comments]
  BY <1>1, <1>2, <1>b
<1>9. \A q \in Phases : u.st[q] # NoStatus <=> Listed(order, q)
  BY <1>2, <1>4, <1>6, <1>7
<1>10. order # << >>
  <2>1. Listed(order, p)
    BY <1>6
  <2>2. PICK i \in DOMAIN order : order[i] = p
    BY <2>1 DEF Listed
  <2>3. DOMAIN order = 1..Len(order) /\ Len(order) \in Nat
    BY <1>6
  <2> QED BY <2>2, <2>3
<1>11. IsStatus(u)
  BY <1>1, <1>6, <1>7, <1>8, <1>9 DEF IsStatus, Listed
<1> QED BY <1>1, <1>10, <1>11 DEF u

\* Whatever programs a history is made of, the file stays a map of the phases that
\* have a line (the OrderedDict of TestStatus).
THEOREM HistoryTypeHolds == HistorySpec => []HistoryTypeOK
<1>1. HistoryInit => HistoryTypeOK
  <2>1. IsStatus(EmptyStatus)
    BY EmptyIs
  <2> QED BY <2>1 DEF HistoryInit, HistoryTypeOK
<1>2. HistoryTypeOK /\ [HistoryNext]_historyVars => HistoryTypeOK'
  <2> SUFFICES ASSUME HistoryTypeOK, [HistoryNext]_historyVars PROVE HistoryTypeOK'
    OBVIOUS
  <2>1. CASE HistoryNext
    <3>1. PICK p \in CalledPhases, s \in Statuses, c \in Comments : Call(p, s, c)
      BY <2>1 DEF HistoryNext
    <3>2. p \in Phases /\ ts' = SetStatus(ts, p, s, c) /\ IsStatus(ts)
      BY <3>1, HistoryAssumption DEF Call, HistoryTypeOK
    <3>3. IsStatus(SetStatus(ts, p, s, c))
      BY <3>2, SetStatusIs
    <3> QED BY <3>2, <3>3 DEF HistoryTypeOK, IsStatus
  <2>2. CASE UNCHANGED historyVars
    BY <2>2 DEF historyVars, HistoryTypeOK, IsStatus
  <2> QED BY <2>1, <2>2
<1> QED BY <1>1, <1>2, PTL DEF HistorySpec

\* The two passes of get_overall_test_status rank the lines as Precedence does,
\* for every file a history of updates can leave and every query about tests
\* that are run.
THEOREM OverallByPrecedenceHolds == HistorySpec => []OverallByPrecedence
<1>1. HistoryTypeOK => OverallByPrecedence
  <2> SUFFICES ASSUME HistoryTypeOK, NEW o \in Queries, ~o.noRun
               PROVE  Overall(ts, o)[1] = Precedence(ts, o)
    BY DEF OverallByPrecedence
  <2>1. IsStatus(ts)
    BY DEF HistoryTypeOK
  <2> QED BY <2>1, PrecedenceKept
<1> QED BY <1>1, HistoryTypeHolds, PTL

-----------------------------------------------------------------------------
(* The with blocks of the programs *)

\* The files a with block can leave.
Files == [st : [Phases -> Statuses \cup {NoStatus}], cm : [Phases -> Comments],
          order : Seq(Phases)]

LEMMA SetInIs ==
    ASSUME NEW t, IsStatus(t), NEW p \in Phases, NEW s \in Statuses
    PROVE  /\ IsStatus(SetIn(t, p, s)) /\ SetIn(t, p, s) \in Files
           /\ SetIn(t, p, s).st = SetPhase(t.st, p, s)
           /\ SetIn(t, p, s).order # << >>
<1> DEFINE blank == ""
           u == SetStatus(t, p, s, blank)
<1>1. blank \in Comments
  BY DEF Comments
<1>2. SetIn(t, p, s) = u
  BY DEF SetIn
<1> HIDE DEF blank
<1>3. IsStatus(u) /\ u.st = SetPhase(t.st, p, s) /\ u.order # << >>
  BY <1>1, SetStatusIs
<1>4. u = [st |-> u.st, cm |-> u.cm, order |-> u.order]
  BY DEF SetStatus
<1> HIDE DEF u
<1>5. u \in Files
  BY <1>3, <1>4 DEF IsStatus, Files
<1> QED BY <1>2, <1>3, <1>5

\* after is the file after each of the phases of a block.
Sets(after, t, ps, s) ==
    /\ \A i \in 0..Len(ps) : IsStatus(after[i])
    /\ SetAll(t, ps, s) = after[Len(ps)] /\ after[0] = t
    /\ \A i \in 1..Len(ps) : after[i] = SetIn(after[i - 1], ps[i], s)

LEMMA SetAllSteps ==
    ASSUME NEW t, IsStatus(t), NEW ps \in Seq(Phases), NEW s \in Statuses
    PROVE  \E after : Sets(after, t, ps, s)
<1> DEFINE n == Len(ps)
           V == {t} \cup {u \in Files : IsStatus(u)}
           F(f) == [i \in 0..n |-> IF i = 0 THEN t ELSE SetIn(f[i - 1], ps[i], s)]
           step == [i \in 1..n |-> [v \in V |-> SetIn(v, ps[i], s)]]
<1>1. n \in Nat /\ \A i \in 1..n : ps[i] \in Phases
  OBVIOUS
<1>2. t \in V /\ \A v \in V : IsStatus(v)
  OBVIOUS
<1>3. \A i \in 1..n : \A v \in V : SetIn(v, ps[i], s) \in V
  <2> SUFFICES ASSUME NEW i \in 1..n, NEW v \in V PROVE SetIn(v, ps[i], s) \in V
    OBVIOUS
  <2>1. IsStatus(v) /\ ps[i] \in Phases
    BY <1>1, <1>2
  <2>2. IsStatus(SetIn(v, ps[i], s)) /\ SetIn(v, ps[i], s) \in Files
    BY <2>1, SetInIs
  <2> QED BY <2>2
<1> HIDE DEF V
<1>4. step \in [1..n -> [V -> V]]
      /\ \A i \in 1..n : \A v \in V : step[i][v] = SetIn(v, ps[i], s)
  BY <1>3
<1> HIDE DEF step, n
<1>5. PICK f : Stepwise(f, n, V, t, step)
  BY <1>1, <1>2, <1>4, Recursion
<1>6. f \in [0..n -> V] /\ f[0] = t /\ \A i \in 1..n : f[i] = step[i][f[i - 1]]
  BY <1>5 DEF Stepwise
<1>7. f = F(f)
  <2>1. ASSUME NEW i \in 0..n
        PROVE  f[i] = F(f)[i]
    <3>1. CASE i = 0
      BY <3>1, <1>6
    <3>2. CASE i # 0
      <4>1. i \in 1..n /\ f[i - 1] \in V
        BY <3>2, <1>1, <1>6
      <4> QED BY <4>1, <1>4, <1>6
    <3> QED BY <3>1, <3>2
  <2> QED BY <2>1, <1>6
<1> DEFINE after == CHOOSE g : g = F(g)
<1>8. after = F(after)
  BY <1>7
<1>9. SetAll(t, ps, s) = after[n]
  BY DEF SetAll, n
<1> HIDE DEF after
<1>10. after[0] = t /\ \A i \in 1..n : after[i] = SetIn(after[i - 1], ps[i], s)
  <2>1. 0 \in 0..n /\ \A i \in 1..n : i \in 0..n /\ i # 0
    BY <1>1
  <2> QED BY <1>8, <2>1
<1> DEFINE T == {i \in 0..n : IsStatus(after[i])}
<1> HIDE DEF T
<1>11. 0 \in T
  <2>1. 0 \in 0..n /\ IsStatus(after[0])
    BY <1>1, <1>10
  <2> QED BY <2>1 DEF T
<1>12. ASSUME NEW i \in 1..n, i - 1 \in T
       PROVE  i \in T
  <2> DEFINE u == after[i - 1]
             p == ps[i]
  <2>1. IsStatus(u) /\ p \in Phases
    BY <1>1, <1>12 DEF T
  <2>2. i \in 0..n /\ after[i] = SetIn(u, p, s)
    BY <1>1, <1>10
  <2> HIDE DEF u, p
  <2>3. IsStatus(SetIn(u, p, s))
    BY <2>1, SetInIs
  <2> QED BY <2>2, <2>3 DEF T
<1>13. \A i \in 0..n : i \in T
  BY <1>1, <1>11, <1>12, Induction
<1>14. \A i \in 0..n : IsStatus(after[i])
  BY <1>13 DEF T
<1> QED BY <1>9, <1>10, <1>14 DEF n, Sets

LEMMA SetAllIs ==
    ASSUME NEW t, IsStatus(t), NEW ps \in Seq(Phases), NEW s \in Statuses
    PROVE  IsStatus(SetAll(t, ps, s))
<1>1. PICK after : Sets(after, t, ps, s)
  BY SetAllSteps
<1>2. Len(ps) \in 0..Len(ps)
  OBVIOUS
<1> QED BY <1>1, <1>2 DEF Sets

LEMMA SetOne ==
    ASSUME NEW t, IsStatus(t), NEW p \in Phases, NEW s \in Statuses
    PROVE  SetAll(t, << p >>, s) = SetIn(t, p, s)
<1> DEFINE ps == << p >>
<1>1. ps \in Seq(Phases) /\ Len(ps) = 1 /\ ps[1] = p
  OBVIOUS
<1> HIDE DEF ps
<1>2. PICK after : Sets(after, t, ps, s)
  BY <1>1, SetAllSteps
<1>3. after[1] = SetIn(after[1 - 1], p, s) /\ after[0] = t /\ SetAll(t, ps, s) = after[1]
  BY <1>1, <1>2 DEF Sets
<1> QED BY <1>3 DEF ps

FirstIs(t, p) == Results(t) # << >> /\ Results(t)[1] = p

\* A phase that is not a core phase touches no other one.
LEMMA SetResult ==
    ASSUME NEW t, IsStatus(t), NEW p \in Phases \ Core, NEW s \in Statuses
    PROVE  /\ IsStatus(SetIn(t, p, s))
           /\ \A q \in Phases : SetIn(t, p, s).st[q] = IF q = p THEN s ELSE t.st[q]
           /\ Results(t) = << >> => FirstIs(SetIn(t, p, s), p)
           /\ \A q : FirstIs(t, q) => FirstIs(SetIn(t, p, s), q)
<1> DEFINE u == SetIn(t, p, s)
<1>1. IsStatus(u) /\ u.st = SetPhase(t.st, p, s)
  BY SetInIs
<1>2. Invalidated(t.st, p) = {} /\ Opened(p, s) = {}
  BY DEF Invalidated, Opened
<1>3. \A q \in Phases : u.st[q] = IF q = p THEN s ELSE t.st[q]
  BY <1>1, <1>2 DEF SetPhase
<1>4. u.order = AddLine(Without(t.order, {}), p)
  BY <1>2 DEF SetIn, SetStatus
<1>5. t.order \in Seq(Phases) /\ Without(t.order, {}) = t.order
  <2>1. t.order \in Seq(Phases)
    BY DEF IsStatus
  <2> QED BY <2>1, WithoutNothing
<1> HIDE DEF u
<1>6. CASE \E i \in DOMAIN t.order : t.order[i] = p
  <2>1. Results(u) = Results(t)
    BY <1>4, <1>5, <1>6 DEF AddLine, Results
  <2>2. t.st[p] # NoStatus
    BY <1>6 DEF IsStatus
  <2>3. \E i \in DOMAIN Results(t) : Results(t)[i] = p
    BY <2>2, ResultsIs
  <2>4. Results(t) # << >>
    BY <2>3
  <2> QED BY <1>1, <1>3, <2>1, <2>4 DEF FirstIs, u
<1>7. CASE ~\E i \in DOMAIN t.order : t.order[i] = p
  <2>1. u.order = Append(t.order, p)
    BY <1>4, <1>5, <1>7 DEF AddLine
  <2>2. Without(Append(t.order, p), Core) = Append(Without(t.order, Core), p)
    BY <1>5, WithoutAppend
  <2>3. Results(u) = Append(Results(t), p) /\ Results(t) \in Seq(Phases)
    BY <2>1, <2>2, ResultsIs DEF Results
  <2>4. /\ Results(t) = << >> => FirstIs(u, p)
        /\ \A q : FirstIs(t, q) => FirstIs(u, q)
    <3> DEFINE r == Results(t)
    <3>1. Results(u) = Append(r, p) /\ r \in Seq(Phases) /\ p \in Phases
      BY <2>3
    <3> HIDE DEF r
    <3>2. Append(r, p) # << >> /\ (r = << >> => Append(r, p)[1] = p)
          /\ (r # << >> => Append(r, p)[1] = r[1])
      BY <3>1
    <3> QED BY <3>1, <3>2 DEF FirstIs, r
  <2> QED BY <1>1, <1>3, <2>4 DEF u
<1> QED BY <1>6, <1>7

\* u is t after a block that sets results.
ResultsSet(u, t, ps, s) ==
    /\ IsStatus(u)
    /\ \A q \in Phases : u.st[q] = IF Listed(ps, q) THEN s ELSE t.st[q]
    /\ \A q : FirstIs(t, q) => FirstIs(u, q)
    /\ Results(t) = << >> /\ ps # << >> => FirstIs(u, ps[1])

LEMMA SetAllResults ==
    ASSUME NEW t, IsStatus(t), NEW ps \in Seq(Phases \ Core), NEW s \in Statuses
    PROVE  ResultsSet(SetAll(t, ps, s), t, ps, s)
<1> DEFINE n == Len(ps)
<1>1. ps \in Seq(Phases) /\ n \in Nat /\ DOMAIN ps = 1..n /\ \A i \in 1..n : ps[i] \in Phases \ Core
  OBVIOUS
<1>2. PICK after : Sets(after, t, ps, s)
  BY <1>1, SetAllSteps
<1> HIDE DEF n
<1>3. /\ \A i \in 0..n : IsStatus(after[i])
      /\ SetAll(t, ps, s) = after[n] /\ after[0] = t
      /\ \A i \in 1..n : after[i] = SetIn(after[i - 1], ps[i], s)
  BY <1>2 DEF Sets, n
<1> DEFINE Q(i) ==
       /\ \A q \in Phases : after[i].st[q] = IF \E j \in 1..i : ps[j] = q THEN s ELSE t.st[q]
       /\ \A q : FirstIs(t, q) => FirstIs(after[i], q)
       /\ Results(t) = << >> /\ i # 0 => FirstIs(after[i], ps[1])
       T == {i \in 0..n : Q(i)}
<1>4. \A i : i \in T <=> i \in 0..n /\ Q(i)
  OBVIOUS
<1> HIDE DEF T
<1>5. 0 \in T
  <2>1. 0 \in 0..n /\ Q(0)
    BY <1>1, <1>3
  <2> QED BY <2>1 DEF T
<1>6. ASSUME NEW i \in 1..n, i - 1 \in T
      PROVE  i \in T
  <2> DEFINE a == after[i - 1]
             b == after[i]
             p == ps[i]
  <2>1. i \in 0..n /\ i - 1 \in 0..n /\ p \in Phases \ Core /\ b = SetIn(a, p, s)
    BY <1>1, <1>3
  <2>2. IsStatus(a)
    BY <2>1, <1>3
  <2>3. Q(i - 1)
    BY <1>4, <1>6
  <2>4. /\ \A q \in Phases : a.st[q] = IF \E j \in 1..(i - 1) : ps[j] = q THEN s ELSE t.st[q]
        /\ \A q : FirstIs(t, q) => FirstIs(a, q)
        /\ Results(t) = << >> /\ i - 1 # 0 => FirstIs(a, ps[1])
    BY <2>3
  <2>5. i - 1 = 0 => a = t /\ p = ps[1]
    BY <1>3, <2>1
  <2> HIDE DEF a, b, p
  <2>6. /\ \A q \in Phases : b.st[q] = IF q = p THEN s ELSE a.st[q]
        /\ Results(a) = << >> => FirstIs(b, p)
        /\ \A q : FirstIs(a, q) => FirstIs(b, q)
    BY <2>1, <2>2, SetResult
  <2>7. \A q : (\E j \in 1..i : ps[j] = q) <=> q = p \/ \E j \in 1..(i - 1) : ps[j] = q
    BY <1>1, <2>1 DEF p
  <2>8. \A q \in Phases : b.st[q] = IF \E j \in 1..i : ps[j] = q THEN s ELSE t.st[q]
    BY <2>4, <2>6, <2>7
  <2>9. Results(t) = << >> => FirstIs(b, ps[1])
    BY <2>4, <2>5, <2>6
  <2>10. \A q : FirstIs(t, q) => FirstIs(b, q)
    BY <2>4, <2>6
  <2>11. Q(i)
    BY <2>8, <2>9, <2>10 DEF b
  <2> QED BY <2>1, <2>11, <1>4
<1>7. \A i \in 0..n : i \in T
  BY <1>1, <1>5, <1>6, Induction
<1>8. n \in 0..n /\ Q(n)
  BY <1>1, <1>4, <1>7
<1>9. IsStatus(after[n])
  BY <1>3, <1>8
<1>10. \A q \in Phases : after[n].st[q] = IF Listed(ps, q) THEN s ELSE t.st[q]
  BY <1>1, <1>8 DEF Listed
<1>11. ps # << >> => n # 0
  BY <1>1 DEF n
<1> QED BY <1>3, <1>8, <1>9, <1>10, <1>11 DEF ResultsSet

\* u is t after an update of RUN.
RunSet(u, t, s) ==
    /\ IsStatus(u) /\ u.st["RUN"] = s
    /\ \A q \in Phases \ {"RUN"} :
          u.st[q] = IF t.st["RUN"] \in {"PASS", "FAIL"} /\ q \in ResultPhases
                    THEN NoStatus ELSE t.st[q]
    /\ t.st["RUN"] \notin {"PASS", "FAIL"} => Results(u) = Results(t)

LEMMA SetRun ==
    ASSUME NEW t, IsStatus(t), NEW s \in Statuses
    PROVE  RunSet(SetIn(t, "RUN", s), t, s)
<1> DEFINE u == SetIn(t, "RUN", s)
           gone == Invalidated(t.st, "RUN")
<1>1. "RUN" \in Phases /\ "RUN" \in Core
  BY PhaseOrder, Names
<1>2. IsStatus(u) /\ u.st = SetPhase(t.st, "RUN", s)
  BY <1>1, SetInIs
<1>3. Opened("RUN", s) = {}
  BY DEF Opened
<1>4. \A q \in Phases : q \in gone <=> t.st["RUN"] \in {"PASS", "FAIL"} /\ q \in ResultPhases
  <2>1. \A q \in Phases : AllIndex[q] > AllIndex["RUN"] <=> q \in ResultPhases
    BY PhaseOrder, CoreChain DEF ResultPhases
  <2> QED BY <1>1, <2>1 DEF Invalidated
<1>5. u.st["RUN"] = s /\ \A q \in Phases \ {"RUN"} :
          u.st[q] = IF t.st["RUN"] \in {"PASS", "FAIL"} /\ q \in ResultPhases
                    THEN NoStatus ELSE t.st[q]
  BY <1>1, <1>2, <1>3, <1>4 DEF SetPhase
<1>6. ASSUME t.st["RUN"] \notin {"PASS", "FAIL"}
      PROVE  Results(u) = Results(t)
  <2>1. gone = {}
    BY <1>6 DEF Invalidated
  <2>2. u.order = AddLine(Without(t.order, {}), "RUN")
    BY <1>3, <2>1 DEF SetIn, SetStatus
  <2>3. t.order \in Seq(Phases) /\ Without(t.order, {}) = t.order
    <3>1. t.order \in Seq(Phases)
      BY DEF IsStatus
    <3> QED BY <3>1, WithoutNothing
  <2> HIDE DEF u
  <2>4. CASE \E i \in DOMAIN t.order : t.order[i] = "RUN"
    BY <2>2, <2>3, <2>4 DEF AddLine, Results
  <2>5. CASE ~\E i \in DOMAIN t.order : t.order[i] = "RUN"
    <3>1. u.order = Append(t.order, "RUN")
      BY <2>2, <2>3, <2>5 DEF AddLine
    <3>2. Without(Append(t.order, "RUN"), Core) = Without(t.order, Core)
      BY <1>1, <2>3, WithoutAppend
    <3> QED BY <3>1, <3>2 DEF Results
  <2> QED BY <2>4, <2>5
<1> QED BY <1>2, <1>5, <1>6 DEF RunSet

\* u is t after an update of SUBMIT.
SubmitSet(u, t, s) ==
    /\ IsStatus(u) /\ u.st["SUBMIT"] = s /\ u.order # << >>
    /\ u.st["RUN"] = IF s = "PASS" THEN "PEND"
                     ELSE IF t.st["SUBMIT"] \in {"PASS", "FAIL"} THEN NoStatus ELSE t.st["RUN"]
    /\ \A q \in Core \ {"SUBMIT", "RUN"} : u.st[q] = t.st[q]
    /\ u.st["NLCOMP"] = t.st["NLCOMP"]
    /\ \A q \in ResultPhases : u.st[q] = IF t.st["SUBMIT"] \in {"PASS", "FAIL"} THEN NoStatus
                                         ELSE t.st[q]

LEMMA SetSubmit ==
    ASSUME NEW t, IsStatus(t), NEW s \in Statuses
    PROVE  SubmitSet(SetIn(t, "SUBMIT", s), t, s)
<1> DEFINE u == SetIn(t, "SUBMIT", s)
           gone == Invalidated(t.st, "SUBMIT")
<1>1. "SUBMIT" \in Phases /\ "SUBMIT" \in Core /\ "RUN" \in Phases /\ "NLCOMP" \in Phases
      /\ "NLCOMP" \notin Core /\ Core \subseteq Phases /\ ResultPhases \subseteq Phases
  BY PhaseOrder, Names, CoreChain DEF ResultPhases
<1>2. IsStatus(u) /\ u.st = SetPhase(t.st, "SUBMIT", s) /\ u.order # << >>
  BY <1>1, SetInIs
<1>3. Opened("SUBMIT", s) = IF s = "PASS" THEN {"RUN"} ELSE {}
  BY CoreChain DEF Opened
<1>4. \A q \in Phases : q \in gone <=> t.st["SUBMIT"] \in {"PASS", "FAIL"}
                                       /\ (q = "RUN" \/ q \in ResultPhases)
  <2>1. \A q \in Phases : AllIndex[q] > AllIndex["SUBMIT"] <=> q = "RUN" \/ q \in ResultPhases
    BY PhaseOrder, CoreChain DEF ResultPhases
  <2> QED BY <1>1, <2>1 DEF Invalidated
<1>5. \A q \in Phases : u.st[q] = IF q = "SUBMIT" THEN s
                      ELSE IF q \in Opened("SUBMIT", s) THEN "PEND"
                      ELSE IF q \in gone THEN NoStatus ELSE t.st[q]
  BY <1>2 DEF SetPhase
<1> HIDE DEF u, gone
<1>6. u.st["SUBMIT"] = s
  BY <1>1, <1>5
<1>7. u.st["RUN"] = IF s = "PASS" THEN "PEND"
                    ELSE IF t.st["SUBMIT"] \in {"PASS", "FAIL"} THEN NoStatus ELSE t.st["RUN"]
  BY <1>1, <1>3, <1>4, <1>5
<1>8. \A q \in Core \ {"SUBMIT", "RUN"} : u.st[q] = t.st[q]
  BY <1>1, <1>3, <1>4, <1>5 DEF ResultPhases
<1>9. u.st["NLCOMP"] = t.st["NLCOMP"]
  BY <1>1, <1>3, <1>4, <1>5 DEF ResultPhases
<1>10. \A q \in ResultPhases : u.st[q] = IF t.st["SUBMIT"] \in {"PASS", "FAIL"} THEN NoStatus
                                         ELSE t.st[q]
  <2>1. \A q \in ResultPhases : q \in Phases /\ q # "SUBMIT" /\ q # "RUN"
    BY <1>1, Names DEF ResultPhases
  <2> QED BY <2>1, <1>3, <1>4, <1>5
<1> QED BY <1>2, <1>6, <1>7, <1>8, <1>9, <1>10 DEF SubmitSet, u

-----------------------------------------------------------------------------
(* What wait_for_tests sees *)

Verdict(t) == Overall(t, WaitOptions)[1]

\* The first core phase that did not pass decides.
LEMMA VerdictOfCore ==
    ASSUME NEW t, IsStatus(t), NEW p \in Core, t.st[p] \in {"PEND", "FAIL"}
    PROVE  \E q \in Core : /\ t.st[q] \in {"PEND", "FAIL"} /\ Verdict(t) = t.st[q]
                           /\ CoreIndex[q] <= CoreIndex[p]
<1> DEFINE bad == {q \in Core : t.st[q] \in {"PEND", "FAIL"}}
           T   == {CoreIndex[q] : q \in bad}
           c   == CHOOSE x \in bad : \A y \in bad : CoreIndex[x] <= CoreIndex[y]
<1>1. p \in bad /\ T \in SUBSET Nat /\ T # {}
  BY CoreSequence
<1>2. PICK m \in T : \A n \in T : m <= n
  BY <1>1, Least
<1>3. \E x \in bad : \A y \in bad : CoreIndex[x] <= CoreIndex[y]
  BY <1>2
<1>4. c \in bad /\ \A y \in bad : CoreIndex[c] <= CoreIndex[y]
  BY <1>3
<1>5. Overall(t, WaitOptions)[1] = t.st[c]
  <2>1. ~WaitOptions.noRun
    BY DEF WaitOptions
  <2>2. bad = {q \in Core : t.st[q] \in {"PEND", "FAIL"}} /\ bad # {}
    BY <1>1
  <2> HIDE DEF bad
  <2> QED BY <2>1, <2>2, BadCore
<1> HIDE DEF c
<1> QED BY <1>1, <1>4, <1>5 DEF Verdict

LEMMA VerdictWithoutRun ==
    ASSUME NEW t, IsStatus(t), \A p \in Core : t.st[p] \notin {"PEND", "FAIL"},
           t.st["RUN"] = NoStatus
    PROVE  Verdict(t) = "PEND"
<1>1. ~WaitOptions.noRun /\ WaitOptions.waitForRun
  BY DEF WaitOptions
<1>2. Overall(t, WaitOptions) = << "PEND", "RUN" >>
  BY <1>1, GoodCore
<1> QED BY <1>2 DEF Verdict

\* Then the results decide: none of them, or the first decisive one.
LEMMA VerdictOfResults ==
    ASSUME NEW t, IsStatus(t), \A p \in Core : t.st[p] \notin {"PEND", "FAIL"},
           t.st["RUN"] # NoStatus
    PROVE  \/ /\ \A p \in Phases : t.st[p] # "PEND"
              /\ Verdict(t) # "PEND"
           \/ /\ Verdict(t) # "PASS"
              /\ \E p \in Phases \ Core :
                    /\ t.st[p] \in {"PEND", "FAIL"} /\ (Verdict(t) = "PEND" <=> t.st[p] = "PEND")
                    /\ \A q : FirstIs(t, q) /\ t.st[q] = "PEND" => p = q
<1> DEFINE o     == WaitOptions
           lines == Results(t)
           dec   == {i \in DOMAIN lines : Decisive(t, o, lines[i])}
           c     == CHOOSE i \in dec : \A j \in dec : i <= j
           first == lines[c]
<1>1. ~o.noRun /\ ~(o.waitForRun /\ t.st["RUN"] = NoStatus)
  BY DEF WaitOptions
<1>2. /\ lines \in Seq(Phases)
      /\ \A p \in Phases : (\E i \in DOMAIN lines : lines[i] = p) <=> p \notin Core /\ t.st[p] # NoStatus
      /\ \A i \in DOMAIN lines : lines[i] \in Phases \ Core /\ t.st[lines[i]] # NoStatus
  BY ResultsIs
<1>3. CASE dec = {}
  <2>1. \A i \in DOMAIN Results(t) : ~Decisive(t, o, Results(t)[i])
    BY <1>3
  <2>2. Verdict(t) = IF t.st["NLCOMP"] = "FAIL" /\ ~o.ignoreNl THEN "NLFAIL" ELSE "PASS"
    <3> HIDE DEF o
    <3>1. Overall(t, o)[1] = IF t.st["NLCOMP"] = "FAIL" /\ ~o.ignoreNl THEN "NLFAIL" ELSE "PASS"
      BY <1>1, <2>1, NoneDecides
    <3> QED BY <3>1 DEF Verdict, o
  <2>3. ASSUME NEW p \in Phases, t.st[p] = "PEND" PROVE FALSE
    <3>1. p \notin Core /\ t.st[p] # NoStatus
      BY <2>3 DEF NoStatus
    <3>2. PICK i \in DOMAIN lines : lines[i] = p
      BY <3>1, <1>2
    <3>3. Decisive(t, o, lines[i])
      BY <2>3, <3>2 DEF Decisive
    <3> QED BY <3>2, <3>3, <2>1
  <2> QED BY <2>2, <2>3
<1>4. CASE dec # {}
  <2>1. dec \in SUBSET Nat
    BY <1>2
  <2>2. \E i \in dec : \A j \in dec : i <= j
    BY <1>4, <2>1, Least
  <2>3. c \in dec /\ \A j \in dec : c <= j
    BY <2>2
  <2>4. first \in Phases \ Core /\ Decisive(t, o, first) /\ c \in DOMAIN lines
    BY <2>3, <1>2
  <2>5. Verdict(t) = IF t.st[first] = "PEND" THEN "PEND"
                     ELSE IF \E i \in dec : lines[i] \notin DiffPhases /\ t.st[lines[i]] = "FAIL"
                     THEN "FAIL" ELSE DiffVerdict(t.cm[first])
    <3>1. dec = {i \in DOMAIN Results(t) : Decisive(t, o, Results(t)[i])}
      OBVIOUS
    <3>2. first = Results(t)[CHOOSE i \in dec : \A j \in dec : i <= j]
      OBVIOUS
    <3>3. ~o.noRun
      BY <1>1
    <3>4. ~(o.waitForRun /\ t.st["RUN"] = NoStatus)
      BY <1>1
    <3> HIDE DEF dec, first, o
    <3>5. Deciding(t, o, dec, first)
      BY <1>4, <3>1, <3>2 DEF Deciding
    <3>6. FirstDecides(t, o, dec, first)
      BY <3>3, <3>4, <3>5, SomeDecides
    <3> QED BY <3>1, <3>6 DEF Verdict, o, dec, first, FirstDecides
  <2>6. t.st[first] \in {"PEND", "FAIL"}
    BY <2>4 DEF Decisive
  <2>7. Verdict(t) # "PASS" /\ (Verdict(t) = "PEND" <=> t.st[first] = "PEND")
    BY <2>5 DEF DiffVerdict
  <2>8. ASSUME NEW q, FirstIs(t, q), t.st[q] = "PEND" PROVE first = q
    <3>1. lines # << >> /\ lines[1] = q
      BY <2>8 DEF FirstIs
    <3>2. 1 \in DOMAIN lines
      BY <3>1, <1>2
    <3>3. 1 \in dec
      BY <3>1, <3>2, <2>8 DEF Decisive
    <3>4. c <= 1 /\ c \in Nat /\ c # 0
      BY <3>3, <2>3, <2>4, <1>2
    <3>5. c = 1
      BY <3>4
    <3> QED BY <3>1, <3>5
  <2> HIDE DEF first
  <2> QED BY <2>4, <2>6, <2>7, <2>8
<1> QED BY <1>3, <1>4

\* What is used of these: a core phase decides ...
LEMMA VerdictOfRun ==
    ASSUME NEW t, IsStatus(t), \A p \in Core \ {"RUN"} : t.st[p] = "PASS",
           t.st["RUN"] \in {"PEND", "FAIL"}
    PROVE  Verdict(t) = t.st["RUN"]
<1>1. "RUN" \in Core
  BY Names
<1>2. PICK q \in Core : t.st[q] \in {"PEND", "FAIL"} /\ Verdict(t) = t.st[q]
  BY <1>1, VerdictOfCore
<1> QED BY <1>2

LEMMA VerdictOfSubmit ==
    ASSUME NEW t, IsStatus(t), \A p \in Core \ {"SUBMIT", "RUN"} : t.st[p] = "PASS",
           t.st["SUBMIT"] \in {"PEND", "FAIL"}
    PROVE  Verdict(t) = t.st["SUBMIT"]
<1>1. "SUBMIT" \in Core /\ CoreIndex["SUBMIT"] = 6 /\ CoreIndex["RUN"] = 7
  <2>1. CorePhases[6] = "SUBMIT" /\ CorePhases[7] = "RUN"
    BY DEF CorePhases
  <2>2. CoreIndex[CorePhases[6]] = 6 /\ CoreIndex[CorePhases[7]] = 7
    BY CoreSequence
  <2> QED BY <2>1, <2>2, Names
<1>2. PICK q \in Core : /\ t.st[q] \in {"PEND", "FAIL"} /\ Verdict(t) = t.st[q]
                        /\ CoreIndex[q] <= CoreIndex["SUBMIT"]
  BY <1>1, VerdictOfCore
<1>3. q # "RUN"
  BY <1>1, <1>2
<1> QED BY <1>2, <1>3

\* ... a file without lines is that of a pending test ...
LEMMA VerdictOfNothing ==
    ASSUME NEW t, IsStatus(t), t.order = << >>
    PROVE  Verdict(t) = "PEND"
<1>1. \A p \in Phases : t.st[p] = NoStatus
  BY DEF IsStatus
<1>2. Core \subseteq Phases /\ "RUN" \in Core
  BY PhaseOrder, Names
<1>3. \A p \in Core : t.st[p] \notin {"PEND", "FAIL"}
  BY <1>1, <1>2 DEF NoStatus
<1> QED BY <1>1, <1>2, <1>3, VerdictWithoutRun

\* ... a pending result that comes first keeps a test pending ...
LEMMA VerdictOfFirst ==
    ASSUME NEW t, IsStatus(t), \A p \in Core : t.st[p] = "PASS",
           NEW q, FirstIs(t, q), t.st[q] = "PEND"
    PROVE  Verdict(t) = "PEND"
<1>1. t.st["RUN"] = "PASS" /\ \A p \in Core : t.st[p] \notin {"PEND", "FAIL"}
  BY Names
<1>2. q \in Phases
  <2>1. Results(t) \in Seq(Phases)
    BY ResultsIs
  <2> QED BY <2>1 DEF FirstIs
<1>3. t.st["RUN"] # NoStatus
  BY <1>1 DEF NoStatus
<1>4. PICK p \in Phases \ Core :
          /\ (Verdict(t) = "PEND" <=> t.st[p] = "PEND")
          /\ \A x : FirstIs(t, x) /\ t.st[x] = "PEND" => p = x
  BY <1>1, <1>2, <1>3, VerdictOfResults
<1> QED BY <1>4

\* ... and without pending phases a test that has been run is not pending.
LEMMA VerdictOfEnd ==
    ASSUME NEW t, IsStatus(t), \A p \in Phases : t.st[p] # "PEND", t.st["RUN"] # NoStatus
    PROVE  Verdict(t) # "PEND"
<1>1. CASE \E p \in Core : t.st[p] \in {"PEND", "FAIL"}
  <2>1. PICK q \in Core : t.st[q] \in {"PEND", "FAIL"} /\ Verdict(t) = t.st[q]
    BY <1>1, VerdictOfCore
  <2>2. q \in Phases
    BY PhaseOrder
  <2> QED BY <2>1, <2>2
<1>2. CASE \A p \in Core : t.st[p] \notin {"PEND", "FAIL"}
  <2>1. \/ Verdict(t) # "PEND"
        \/ \E p \in Phases \ Core : Verdict(t) = "PEND" <=> t.st[p] = "PEND"
    BY <1>2, VerdictOfResults
  <2> QED BY <2>1
<1> QED BY <1>1, <1>2

\* A file that passes is clear: RUN passed, no core phase failed, nothing is pending.
Clear(t) == /\ t.st["RUN"] = "PASS" /\ \A p \in Phases : t.st[p] # "PEND"
            /\ \A p \in Core : t.st[p] # "FAIL"

LEMMA PassIsClear ==
    ASSUME NEW t, IsStatus(t), Verdict(t) = "PASS"
    PROVE  Clear(t)
<1>1. \A p \in Core : t.st[p] \notin {"PEND", "FAIL"}
  <2> SUFFICES ASSUME NEW p \in Core, t.st[p] \in {"PEND", "FAIL"} PROVE FALSE
    OBVIOUS
  <2>1. PICK q \in Core : t.st[q] \in {"PEND", "FAIL"} /\ Verdict(t) = t.st[q]
    BY VerdictOfCore
  <2> QED BY <2>1
<1>2. t.st["RUN"] # NoStatus
  BY <1>1, VerdictWithoutRun
<1>3. \A p \in Phases : t.st[p] # "PEND"
  BY <1>1, <1>2, VerdictOfResults
<1>4. t.st["RUN"] = "PASS"
  <2>1. "RUN" \in Phases /\ "RUN" \in Core
    BY PhaseOrder, Names
  <2>2. t.st["RUN"] \in Statuses \cup {NoStatus}
    BY <2>1 DEF IsStatus
  <2> QED BY <2>1, <2>2, <1>1, <1>2 DEF Statuses
<1> QED BY <1>1, <1>3, <1>4 DEF Clear

-----------------------------------------------------------------------------
(* The blocks of a job *)

Begin == Set(<< "RUN" >>, {"PEND"})
Pass  == Set(<< "RUN" >>, {"PASS"})
Fail  == Set(<< "RUN" >>, {"FAIL"})

\* The phases that may be pending when a submission ends.
PendPhases == ComparePhases \cup {"GENERATE", "BASELINE", "MEMCOMP", "TPUTCOMP"}

\* The steps between the first and the last status of a run of the k-th job of T.
Marking      == [act : {"set"}, phases : Seq(PendPhases) \ {<< >>}, to : {{"PEND"}}]
Resulting    == {Set(<< p >>, AnyResult) : p \in ResultPhases}
Judging      == {Judge("MEMCOMP"), Judge("TPUTCOMP")}
Watching     == {Set(<< "MEMLEAK" >>, AnyResult), Set(<< "SHORT_TERM_ARCHIVER" >>, AnyResult)}
Acting(T, k) == {x \in {Act("model"), Act("resubmit")} :
                    x = Act("resubmit") => T.inJob /\ k < T.jobs}
Between(T, k) == Acting(T, k) \cup Marking \cup
                    (IF k < T.jobs THEN Watching ELSE Resulting \cup Judging)

LEMMA ResultNames ==
    /\ PendPhases \subseteq ResultPhases
    /\ {"GENERATE", "BASELINE", "MEMCOMP", "TPUTCOMP", "MEMLEAK", "SHORT_TERM_ARCHIVER"}
          \subseteq ResultPhases
    /\ {"MEMLEAK", "SHORT_TERM_ARCHIVER"} \cap PendPhases = {}
    /\ ResultPhases = Phases \ (Core \cup {"NLCOMP"})
<1>1. /\ DOMAIN AllPhases = 1..15
      /\ AllPhases[10] = "BASELINE" /\ AllPhases[11] = "TPUTCOMP" /\ AllPhases[12] = "MEMCOMP"
      /\ AllPhases[13] = "MEMLEAK" /\ AllPhases[14] = "SHORT_TERM_ARCHIVER"
      /\ AllPhases[15] = "GENERATE" /\ AllPhases[4] = "NLCOMP"
      /\ AllPhases[1] = "CREATE_NEWCASE" /\ AllPhases[2] = "XML" /\ AllPhases[3] = "SETUP"
      /\ AllPhases[5] = "SHAREDLIB_BUILD" /\ AllPhases[6] = "MODEL_BUILD"
      /\ AllPhases[7] = "SUBMIT" /\ AllPhases[8] = "RUN"
  BY DEF AllPhases
<1>2. \A i \in 1..15 : AllPhases[i] \notin ComparePhases
  BY <1>1, CompareAssumption
<1>3. ResultPhases = Phases \ (Core \cup {"NLCOMP"})
  BY DEF ResultPhases
<1>4. {"GENERATE", "BASELINE", "MEMCOMP", "TPUTCOMP", "MEMLEAK", "SHORT_TERM_ARCHIVER"}
          \subseteq ResultPhases
  <2>1. \A i \in 10..15 : AllPhases[i] \in Phases
    BY <1>1 DEF Phases
  <2>2. {"GENERATE", "BASELINE", "MEMCOMP", "TPUTCOMP", "MEMLEAK", "SHORT_TERM_ARCHIVER"}
          \subseteq Phases
    BY <1>1, <2>1
  <2> QED BY <2>2, <1>3, CoreChain
<1>5. ComparePhases \subseteq ResultPhases
  <2>1. \A p \in ComparePhases : p \notin Core /\ p # "NLCOMP"
    BY <1>1, <1>2, CoreChain
  <2> QED BY <2>1, <1>3 DEF Phases
<1>6. {"MEMLEAK", "SHORT_TERM_ARCHIVER"} \cap PendPhases = {}
  BY <1>1, <1>2 DEF PendPhases
<1> QED BY <1>3, <1>4, <1>5, <1>6 DEF PendPhases

\* What is known of such a step.
LEMMA BetweenIs ==
    ASSUME NEW T, NEW k, NEW x \in Between(T, k)
    PROVE  /\ x.act \in {"set", "judge", "model", "resubmit"}
           /\ x.act = "set" => \/ x \in Marking
                               \/ \E p \in ResultPhases : x = Set(<< p >>, AnyResult)
           /\ x.act = "set" /\ k < T.jobs => x \in Marking \cup Watching
           /\ x.act = "judge" => x \in Judging /\ ~(k < T.jobs)
           /\ x.act = "resubmit" => T.inJob /\ k < T.jobs
<1>1. CASE x \in Acting(T, k)
  BY <1>1 DEF Acting, Act
<1>2. CASE x \in Marking
  BY <1>2 DEF Marking
<1>3. CASE k < T.jobs /\ x \in Watching
  BY <1>3, ResultNames DEF Watching, Set
<1>4. CASE ~(k < T.jobs) /\ x \in Resulting
  <2>1. PICK p \in ResultPhases : x = Set(<< p >>, AnyResult)
    BY <1>4 DEF Resulting
  <2> QED BY <2>1, <1>4 DEF Set
<1>5. CASE ~(k < T.jobs) /\ x \in Judging
  BY <1>5 DEF Judging, Judge
<1> QED BY <1>1, <1>2, <1>3, <1>4, <1>5 DEF Between

LEMMA MarkingIs ==
    ASSUME NEW x \in Marking
    PROVE  /\ x.act = "set" /\ x.to = {"PEND"} /\ x.phases # << >>
           /\ x.phases \in Seq(PendPhases) /\ x.phases \in Seq(Phases \ Core)
           /\ x.phases[1] \in PendPhases /\ Head(x.phases) = x.phases[1]
           /\ \A p : Listed(x.phases, p) => p \in PendPhases
<1>1. x.act = "set" /\ x.to = {"PEND"} /\ x.phases # << >> /\ x.phases \in Seq(PendPhases)
  BY DEF Marking
<1>2. PendPhases \subseteq Phases \ Core
  BY ResultNames
<1> DEFINE s == x.phases
<1> HIDE DEF s
<1>3. s \in Seq(PendPhases) /\ s # << >> => s \in Seq(Phases \ Core) /\ s[1] \in PendPhases
         /\ Head(s) = s[1] /\ \A p : (\E i \in DOMAIN s : s[i] = p) => p \in PendPhases
  BY <1>2
<1> QED BY <1>1, <1>3 DEF s, Listed

-----------------------------------------------------------------------------
\* What is left of the run of a job.
Left(T, k, seq) ==
    /\ seq \in Seq(Between(T, k) \cup {Pass}) /\ seq # << >> /\ seq[Len(seq)] = Pass
    /\ \A i \in 1..(Len(seq) - 1) : seq[i] \in Between(T, k)

\* A run that has not begun.
Begins(T, k, seq) ==
    /\ seq \in Seq(Between(T, k) \cup {Begin, Pass}) /\ seq # << >> /\ Head(seq) = Begin
    /\ Left(T, k, Tail(seq))

LEMMA LeftNext ==
    ASSUME NEW T, NEW k, NEW seq, Left(T, k, seq)
    PROVE  \/ Len(seq) = 1 /\ Head(seq) = Pass /\ Tail(seq) = << >>
           \/ /\ Head(seq) \in Between(T, k) /\ Left(T, k, Tail(seq)) /\ Len(seq) > 1
<1> DEFINE B == Between(T, k)
           S == B \cup {Pass}
<1>1. /\ seq \in Seq(S) /\ seq # << >> /\ seq[Len(seq)] = Pass
      /\ \A i \in 1..(Len(seq) - 1) : seq[i] \in B
  BY DEF Left
<1> HIDE DEF B, S
<1>2. Len(seq) \in Nat \ {0} /\ Head(seq) = seq[1]
  BY <1>1
<1>3. CASE Len(seq) = 1
  <2>1. Tail(seq) \in Seq(S) /\ Len(Tail(seq)) = 0
    BY <1>1, <1>2, <1>3
  <2>2. Tail(seq) = << >>
    BY <2>1, EmptySeq
  <2> QED BY <2>2, <1>1, <1>2, <1>3
<1>4. CASE Len(seq) > 1
  <2> DEFINE t == Tail(seq)
  <2>1. t \in Seq(S) /\ Len(t) = Len(seq) - 1 /\ \A i \in 1..Len(t) : t[i] = seq[i + 1]
    BY <1>1, <1>2
  <2> HIDE DEF t
  <2>2. t # << >> /\ t[Len(t)] = Pass /\ \A i \in 1..(Len(t) - 1) : t[i] \in B
    BY <2>1, <1>1, <1>2, <1>4
  <2>3. Left(T, k, t)
    BY <2>1, <2>2 DEF Left, B, S
  <2>4. seq[1] \in B
    BY <1>1, <1>2, <1>4
  <2> QED BY <2>3, <2>4, <1>2, <1>4 DEF t, B
<1>5. Len(seq) = 1 \/ Len(seq) > 1
  <2> DEFINE n == Len(seq)
  <2>1. n \in Nat /\ n # 0
    BY <1>2
  <2> HIDE DEF n
  <2>2. n = 1 \/ n > 1
    BY <2>1
  <2> QED BY <2>2 DEF n
<1> QED BY <1>3, <1>4, <1>5

-----------------------------------------------------------------------------
\* What the properties need of the blocks of a run: some block marks the test as
\* pending ...
MarkOf(T) == IF "GENERATE" \in T.baseline THEN "GENERATE"
             ELSE IF "BASELINE" \in T.baseline THEN "BASELINE" ELSE T.compares[1]
MarkSet(T) == {x \in Marking : Listed(x.phases, MarkOf(T))}
Some(seq, S) == \E i \in DOMAIN seq : seq[i] \in S

\* ... does so before any result is written ...
Quiet == {Act("model"), Act("resubmit")}
Opens(seq) == \E i \in DOMAIN seq : seq[i] \in Marking /\ \A j \in 1..(i - 1) : seq[j] \in Quiet
AllQuiet(seq) == \A i \in DOMAIN seq : seq[i] \in Quiet

\* ... and the last job resolves every phase that a block made pending, but those in D.
Owes(seq, D) ==
    \A i \in DOMAIN seq : seq[i] \in Marking =>
       \A p : Listed(seq[i].phases, p) =>
          p \in D \/ \E j \in DOMAIN seq : j > i /\ seq[j] = Set(<< p >>, AnyResult)

\* A test of several submissions that leaves a pending result after each but the last.
LeavesMark(T) == T.jobs = 1 \/ T.baseline # {} \/ (T.jobs = 2 /\ T.compares # << >>)

LEMMA ConcatSome ==
    ASSUME NEW S, NEW a \in Seq(S), NEW b \in Seq(S), NEW Q, Some(a, Q) \/ Some(b, Q)
    PROVE  Some(a \o b, Q)
<1> DEFINE m == Len(a)
           c == a \o b
<1>1. m \in Nat /\ DOMAIN a = 1..m /\ DOMAIN b = 1..Len(b) /\ Len(b) \in Nat
  OBVIOUS
<1>2. c \in Seq(S) /\ Joined(c, a, b, m)
  BY <1>1, Concat
<1> HIDE DEF c, m
<1>3. /\ DOMAIN c = 1..(m + Len(b))
      /\ \A j \in 1..m : c[j] = a[j]
      /\ \A i \in 1..Len(b) : c[m + i] = b[i]
  BY <1>1, <1>2 DEF Joined
<1>4. CASE Some(a, Q)
  <2>1. PICK i \in 1..m : a[i] \in Q
    BY <1>1, <1>4 DEF Some
  <2>2. i \in DOMAIN c /\ c[i] \in Q
    BY <2>1, <1>1, <1>3
  <2> QED BY <2>2 DEF Some, c
<1>5. CASE Some(b, Q)
  <2>1. PICK i \in 1..Len(b) : b[i] \in Q
    BY <1>1, <1>5 DEF Some
  <2>2. m + i \in DOMAIN c /\ c[m + i] \in Q
    BY <2>1, <1>1, <1>3
  <2> QED BY <2>2 DEF Some, c
<1> QED BY <1>4, <1>5

LEMMA ConcatOpens ==
    ASSUME NEW S, NEW a \in Seq(S), NEW b \in Seq(S)
    PROVE  /\ Opens(a) => Opens(a \o b)
           /\ AllQuiet(a) /\ Opens(b) => Opens(a \o b)
           /\ AllQuiet(a) /\ AllQuiet(b) => AllQuiet(a \o b)
<1> DEFINE m == Len(a)
           c == a \o b
<1>1. m \in Nat /\ DOMAIN a = 1..m /\ DOMAIN b = 1..Len(b) /\ Len(b) \in Nat
  OBVIOUS
<1>2. c \in Seq(S) /\ Joined(c, a, b, m)
  BY <1>1, Concat
<1> HIDE DEF c, m
<1>3. /\ DOMAIN c = 1..(m + Len(b))
      /\ \A j \in 1..m : c[j] = a[j]
      /\ \A i \in 1..Len(b) : c[m + i] = b[i]
  BY <1>1, <1>2 DEF Joined
<1>4. \A j \in (m + 1)..(m + Len(b)) : j - m \in 1..Len(b) /\ c[j] = b[j - m]
  <2> SUFFICES ASSUME NEW j \in (m + 1)..(m + Len(b))
               PROVE  j - m \in 1..Len(b) /\ c[j] = b[j - m]
    OBVIOUS
  <2>1. j - m \in 1..Len(b) /\ m + (j - m) = j
    BY <1>1
  <2> QED BY <2>1, <1>3
<1>5. ASSUME Opens(a) PROVE Opens(c)
  <2>1. PICK i \in 1..m : a[i] \in Marking /\ \A j \in 1..(i - 1) : a[j] \in Quiet
    BY <1>1, <1>5 DEF Opens
  <2>2. i \in DOMAIN c /\ c[i] \in Marking /\ \A j \in 1..(i - 1) : c[j] \in Quiet
    BY <2>1, <1>1, <1>3
  <2> QED BY <2>2 DEF Opens
<1>6. ASSUME AllQuiet(a), Opens(b) PROVE Opens(c)
  <2>1. PICK i \in 1..Len(b) : b[i] \in Marking /\ \A j \in 1..(i - 1) : b[j] \in Quiet
    BY <1>1, <1>6 DEF Opens
  <2>2. \A j \in 1..m : c[j] \in Quiet
    BY <1>1, <1>3, <1>6 DEF AllQuiet
  <2>3. \A j \in (m + 1)..((m + i) - 1) : c[j] \in Quiet
    <3> SUFFICES ASSUME NEW j \in (m + 1)..((m + i) - 1) PROVE c[j] \in Quiet
      OBVIOUS
    <3>1. j \in (m + 1)..(m + Len(b)) /\ j - m \in 1..(i - 1)
      BY <1>1, <2>1
    <3> QED BY <3>1, <1>4, <2>1
  <2>4. m + i \in DOMAIN c /\ c[m + i] \in Marking
    BY <1>1, <1>3, <2>1
  <2>5. \A j \in 1..((m + i) - 1) : c[j] \in Quiet
    BY <1>1, <2>1, <2>2, <2>3
  <2> DEFINE l == m + i
  <2>6. l \in DOMAIN c /\ c[l] \in Marking /\ \A j \in 1..(l - 1) : c[j] \in Quiet
    BY <2>4, <2>5
  <2> HIDE DEF l
  <2> QED BY <2>6 DEF Opens
<1>7. ASSUME AllQuiet(a), AllQuiet(b) PROVE AllQuiet(c)
  <2> SUFFICES ASSUME NEW j \in 1..(m + Len(b)) PROVE c[j] \in Quiet
    BY <1>3 DEF AllQuiet
  <2>1. CASE j \in 1..m
    BY <2>1, <1>1, <1>3, <1>7 DEF AllQuiet
  <2>2. CASE j \in (m + 1)..(m + Len(b))
    BY <2>2, <1>1, <1>4, <1>7 DEF AllQuiet
  <2> QED BY <2>1, <2>2, <1>1
<1> QED BY <1>5, <1>6, <1>7 DEF c

LEMMA ConcatOwes ==
    ASSUME NEW S, NEW a \in Seq(S), NEW b \in Seq(S), NEW D, ~Some(b, Marking)
    PROVE  /\ Owes(a, D) => Owes(a \o b, D)
           /\ Owes(a, D) /\ (\A p \in D : Some(b, {Set(<< p >>, AnyResult)})) => Owes(a \o b, {})
           /\ ~Some(a, Marking) => ~Some(a \o b, Marking)
<1> DEFINE m == Len(a)
           c == a \o b
<1>1. m \in Nat /\ DOMAIN a = 1..m /\ DOMAIN b = 1..Len(b) /\ Len(b) \in Nat
  OBVIOUS
<1>2. c \in Seq(S) /\ Joined(c, a, b, m)
  BY <1>1, Concat
<1> HIDE DEF c, m
<1>3. /\ DOMAIN c = 1..(m + Len(b))
      /\ \A j \in 1..m : c[j] = a[j]
      /\ \A i \in 1..Len(b) : c[m + i] = b[i]
  BY <1>1, <1>2 DEF Joined
<1>4. ASSUME NEW j \in DOMAIN c, c[j] \in Marking
      PROVE  j \in 1..m /\ c[j] = a[j]
  <2>1. CASE j \in 1..m
    BY <2>1, <1>3
  <2>2. CASE j \in (m + 1)..(m + Len(b))
    <3>1. j - m \in 1..Len(b) /\ m + (j - m) = j
      BY <2>2, <1>1
    <3>2. b[j - m] \in Marking
      BY <3>1, <1>3, <1>4
    <3> QED BY <3>1, <3>2, <1>1 DEF Some
  <2> QED BY <2>1, <2>2, <1>1, <1>3
<1>5. ASSUME NEW i \in 1..m, NEW p, NEW j \in 1..m, j > i, a[j] = Set(<< p >>, AnyResult)
      PROVE  j \in DOMAIN c /\ c[j] = Set(<< p >>, AnyResult)
  BY <1>1, <1>3, <1>5
<1>6. Owes(a, D) => Owes(c, D)
  <2> SUFFICES ASSUME Owes(a, D), NEW i \in DOMAIN c, c[i] \in Marking,
                      NEW p, Listed(c[i].phases, p), p \notin D
               PROVE  \E j \in DOMAIN c : j > i /\ c[j] = Set(<< p >>, AnyResult)
    BY DEF Owes
  <2>1. i \in 1..m /\ c[i] = a[i]
    BY <1>4
  <2>2. PICK j \in 1..m : j > i /\ a[j] = Set(<< p >>, AnyResult)
    BY <1>1, <2>1 DEF Owes
  <2> QED BY <2>1, <2>2, <1>5
<1>7. Owes(a, D) /\ (\A p \in D : Some(b, {Set(<< p >>, AnyResult)})) => Owes(c, {})
  <2> SUFFICES ASSUME Owes(a, D), \A p \in D : Some(b, {Set(<< p >>, AnyResult)}),
                      NEW i \in DOMAIN c, c[i] \in Marking,
                      NEW p, Listed(c[i].phases, p)
               PROVE  \E j \in DOMAIN c : j > i /\ c[j] = Set(<< p >>, AnyResult)
    BY DEF Owes
  <2>1. i \in 1..m /\ c[i] = a[i]
    BY <1>4
  <2>2. CASE p \in D
    <3>1. PICK j \in 1..Len(b) : b[j] = Set(<< p >>, AnyResult)
      BY <1>1, <2>2 DEF Some
    <3>2. m + j \in DOMAIN c /\ m + j > i /\ c[m + j] = Set(<< p >>, AnyResult)
      BY <1>1, <1>3, <2>1, <3>1
    <3> QED BY <3>2
  <2>3. CASE p \notin D
    <3>1. PICK j \in 1..m : j > i /\ a[j] = Set(<< p >>, AnyResult)
      BY <1>1, <2>1, <2>3 DEF Owes
    <3> QED BY <2>1, <3>1, <1>5
  <2> QED BY <2>2, <2>3
<1>8. ~Some(a, Marking) => ~Some(c, Marking)
  BY <1>1, <1>4 DEF Some
<1> QED BY <1>6, <1>7, <1>8 DEF c

LEMMA ConsIs ==
    ASSUME NEW S, NEW e \in S, NEW s \in Seq(S)
    PROVE  /\ << e >> \o s \in Seq(S) /\ << e >> \o s # << >>
           /\ Head(<< e >> \o s) = e /\ Tail(<< e >> \o s) = s
<1> DEFINE c == << e >> \o s
<1>1. c \in Seq(S) /\ Len(c) = 1 + Len(s) /\ c[1] = e /\ \A i \in 1..Len(s) : c[1 + i] = s[i]
  <2>1. << e >> \in Seq(S) /\ Len(<< e >>) = 1 /\ << e >>[1] = e
    OBVIOUS
  <2>2. c \in Seq(S) /\ Joined(c, << e >>, s, 1)
    <3> DEFINE o == << e >>
    <3>1. o \in Seq(S) /\ 1 = Len(o) /\ 1 \in Nat
      BY <2>1
    <3> HIDE DEF o
    <3>2. o \o s \in Seq(S) /\ Joined(o \o s, o, s, 1)
      BY <3>1, Concat
    <3> QED BY <3>2 DEF o
  <2> HIDE DEF c
  <2> QED BY <2>1, <2>2 DEF Joined
<1> HIDE DEF c
<1>2. c # << >> /\ Head(c) = e
  BY <1>1
<1>3. Tail(c) = s
  <2>1. Tail(c) \in Seq(S) /\ Len(Tail(c)) = Len(s) /\ \A i \in 1..Len(s) : Tail(c)[i] = s[i]
    BY <1>1
  <2> QED BY <2>1
<1> QED BY <1>1, <1>2, <1>3 DEF c

LEMMA OneIs ==
    ASSUME NEW S, NEW e \in S
    PROVE  /\ << e >> \in Seq(S)
           /\ \A Q : Some(<< e >>, Q) <=> e \in Q
           /\ e \in Marking => Opens(<< e >>)
<1> DEFINE c == << e >>
<1>1. c \in Seq(S) /\ DOMAIN c = {1} /\ c[1] = e /\ 1..(1 - 1) = {}
  OBVIOUS
<1> HIDE DEF c
<1>2. \A Q : Some(c, Q) <=> e \in Q
  BY <1>1 DEF Some
<1>3. e \in Marking => Opens(c)
  BY <1>1 DEF Opens
<1> QED BY <1>1, <1>2, <1>3 DEF c

LEMMA IfIs ==
    ASSUME NEW S, NEW c \in BOOLEAN, NEW seq \in Seq(S)
    PROVE  /\ If(c, seq) \in Seq(S)
           /\ \A Q : ~Some(seq, Q) => ~Some(If(c, seq), Q)
           /\ c => If(c, seq) = seq
           /\ ~c => AllQuiet(If(c, seq))
<1>1. << >> \in Seq(S) /\ DOMAIN << >> = {}
  OBVIOUS
<1>2. CASE c
  BY <1>2 DEF If
<1>3. CASE ~c
  BY <1>1, <1>3 DEF If, Some, AllQuiet
<1> QED BY <1>2, <1>3

\* The blocks between the first and the last status of a run.
LEMMA WorkIs ==
    ASSUME test \in Tests, NEW k \in K
    PROVE  /\ Work(k) \in Seq(Between(test, k))
           /\ k < Jobs /\ LeavesMark(test) => Some(Work(k), MarkSet(test))
           /\ k < Jobs /\ LeavesMark(test) => Opens(Work(k))
           /\ k = Jobs => Owes(Work(k), {})
<1> DEFINE S  == Between(test, k)
           w1 == If(k = 1, Compare({"PEND"}))
           w2 == << Act("model") >>
           w3 == If(InJob /\ ~Final(k), << Act("resubmit") >>)
           w4 == IF Final(k) THEN Compare(AnyResult) \o BaselineOps ELSE BaselinePending
           w5 == << Set(<< "MEMLEAK" >>, AnyResult), Set(<< "SHORT_TERM_ARCHIVER" >>, AnyResult) >>
           n  == Len(test.compares)
<1>1. /\ test.jobs \in Nat \ {0} /\ test.compares \in Seq(ComparePhases) /\ test.inJob \in BOOLEAN
      /\ Jobs = test.jobs /\ InJob = test.inJob /\ (Final(k) <=> k = test.jobs)
      /\ n \in Nat /\ DOMAIN test.compares = 1..n
      /\ \A i \in 1..n : test.compares[i] \in ComparePhases
  BY CaseRunAssumption DEF Jobs, InJob, Final
<1>2. k \in 1..test.jobs
  BY DEF K, Jobs
<1>3. ASSUME NEW s
      PROVE  /\ Compare(s) = [i \in 1..n |-> Set(<< test.compares[i] >>, s)]
             /\ Len(Compare(s)) = n /\ DOMAIN Compare(s) = 1..n
             /\ \A i \in 1..n : Compare(s)[i] = Set(<< test.compares[i] >>, s)
  BY <1>1 DEF Compare
<1>4. ASSUME NEW p \in PendPhases
      PROVE  Set(<< p >>, {"PEND"}) \in Marking /\ Listed(Set(<< p >>, {"PEND"}).phases, p)
  <2>1. << p >> \in Seq(PendPhases) \ {<< >>}
    OBVIOUS
  <2>2. Listed(<< p >>, p)
    BY DEF Listed
  <2> QED BY <2>1, <2>2 DEF Marking, Set
<1>5. Set(<< "BASELINE", "MEMCOMP", "TPUTCOMP" >>, {"PEND"}) \in Marking
      /\ Listed(<< "BASELINE", "MEMCOMP", "TPUTCOMP" >>, "BASELINE")
  <2>1. << "BASELINE", "MEMCOMP", "TPUTCOMP" >> \in Seq(PendPhases) \ {<< >>}
    BY DEF PendPhases
  <2>2. Listed(<< "BASELINE", "MEMCOMP", "TPUTCOMP" >>, "BASELINE")
    BY DEF Listed
  <2> QED BY <2>1, <2>2 DEF Marking, Set
<1>6. \A x : x.act # "set" \/ x.to = AnyResult => x \notin Marking
  <2>1. AnyResult # {"PEND"}
    BY DEF AnyResult
  <2> QED BY <2>1 DEF Marking
<1>7. ASSUME NEW p
      PROVE  Set(<< p >>, AnyResult).to = AnyResult
  BY DEF Set
<1>8. /\ Marking \subseteq S /\ Act("model") \in S
      /\ k < Jobs => Watching \subseteq S
      /\ ~(k < Jobs) => Resulting \subseteq S /\ Judging \subseteq S
  BY <1>1 DEF Between, Acting, Act
<1>9. MarkSet(test) \subseteq Marking
  BY DEF MarkSet
<1> HIDE DEF S, n
<1>w1. /\ w1 \in Seq(S) /\ (k = 1 /\ n > 0 => Opens(w1)) /\ (~(k = 1 /\ n > 0) => AllQuiet(w1))
       /\ Owes(w1, {test.compares[i] : i \in 1..n})
       /\ k = 1 /\ n > 0 /\ test.baseline = {} => Some(w1, MarkSet(test))
  <2>1. CASE k = 1
    <3> DEFINE c == Compare({"PEND"})
    <3>1. w1 = c
      BY <2>1 DEF If
    <3>2. Len(c) = n /\ DOMAIN c = 1..n /\ \A i \in 1..n : c[i] = Set(<< test.compares[i] >>, {"PEND"})
      BY <1>3
    <3>3. c = [i \in 1..n |-> Set(<< test.compares[i] >>, {"PEND"})]
      BY <1>3
    <3> HIDE DEF c
    <3>4. \A i \in 1..n : c[i] \in Marking
      BY <1>1, <1>4, <3>2 DEF PendPhases
    <3>5. c \in Seq(S)
      <4>1. \A i \in 1..n : c[i] \in S
        BY <3>4, <1>8
      <4> QED BY <4>1, <3>2, <3>3, <1>1
    <3>6. n > 0 => Opens(c)
      <4> SUFFICES ASSUME n > 0 PROVE Opens(c)
        OBVIOUS
      <4>1. 1 \in 1..n /\ 1..(1 - 1) = {}
        BY <1>1
      <4> QED BY <4>1, <3>2, <3>4 DEF Opens
    <3>7. ~(n > 0) => AllQuiet(c)
      BY <3>2, <1>1 DEF AllQuiet
    <3>8. Owes(c, {test.compares[i] : i \in 1..n})
      <4> SUFFICES ASSUME NEW i \in 1..n, NEW p, Listed(c[i].phases, p)
                   PROVE  p = test.compares[i]
        BY <3>2 DEF Owes
      <4>1. c[i].phases = << test.compares[i] >>
        BY <3>2 DEF Set
      <4> QED BY <4>1 DEF Listed
    <3>9. n > 0 /\ test.baseline = {} => Some(c, MarkSet(test))
      <4> SUFFICES ASSUME n > 0, test.baseline = {} PROVE Some(c, MarkSet(test))
        OBVIOUS
      <4>1. 1 \in 1..n /\ MarkOf(test) = test.compares[1] /\ test.compares[1] \in PendPhases
        BY <1>1 DEF MarkOf, PendPhases
      <4>2. c[1] \in Marking /\ Listed(c[1].phases, MarkOf(test))
        BY <4>1, <1>4, <3>2
      <4> QED BY <4>1, <4>2, <3>2 DEF Some, MarkSet
    <3> QED BY <3>1, <3>5, <3>6, <3>7, <3>8, <3>9, <2>1
  <2>2. CASE k # 1
    <3>1. w1 = << >>
      BY <2>2 DEF If
    <3>2. << >> \in Seq(S) /\ DOMAIN << >> = {}
      OBVIOUS
    <3> QED BY <2>2, <3>1, <3>2 DEF AllQuiet, Owes
  <2> QED BY <2>1, <2>2
<1>w2. w2 \in Seq(S) /\ AllQuiet(w2) /\ ~Some(w2, Marking)
  <2>1. w2 \in Seq(S) /\ DOMAIN w2 = {1} /\ w2[1] = Act("model")
    BY <1>8
  <2>2. Act("model").act # "set"
    BY DEF Act
  <2> HIDE DEF w2
  <2> QED BY <2>1, <2>2, <1>6 DEF AllQuiet, Quiet, Some
<1>w3. w3 \in Seq(S) /\ AllQuiet(w3) /\ ~Some(w3, Marking)
  <2>1. CASE InJob /\ ~Final(k)
    <3>1. w3 = << Act("resubmit") >>
      BY <2>1 DEF If
    <3>2. Act("resubmit") \in S
      <4>1. test.inJob /\ k < test.jobs
        <5>1. test.inJob /\ k # test.jobs
          BY <2>1, <1>1
        <5> QED BY <5>1, <1>1, <1>2
      <4>2. Act("resubmit") \in Acting(test, k)
        BY <4>1 DEF Acting
      <4> QED BY <4>2 DEF Between, S
    <3>3. w3 \in Seq(S) /\ DOMAIN w3 = {1} /\ w3[1] = Act("resubmit")
      BY <3>1, <3>2
    <3>4. Act("resubmit").act # "set"
      BY DEF Act
    <3> HIDE DEF w3
    <3> QED BY <3>3, <3>4, <1>6 DEF AllQuiet, Quiet, Some
  <2>2. CASE ~(InJob /\ ~Final(k))
    <3>1. w3 = << >>
      BY <2>2 DEF If
    <3>2. << >> \in Seq(S) /\ DOMAIN << >> = {}
      OBVIOUS
    <3> QED BY <3>1, <3>2 DEF AllQuiet, Some
  <2> QED BY <2>1, <2>2
<1>w5. w5 \in Seq(S) /\ ~Some(w5, Marking)
  <2> DEFINE a == Set(<< "MEMLEAK" >>, AnyResult)
             b == Set(<< "SHORT_TERM_ARCHIVER" >>, AnyResult)
  <2>1. a \in S /\ b \in S
    <3>1. CASE k < Jobs
      BY <3>1, <1>8 DEF Watching
    <3>2. CASE ~(k < Jobs)
      BY <3>2, <1>8, ResultNames DEF Resulting
    <3> QED BY <3>1, <3>2
  <2>2. a \notin Marking /\ b \notin Marking
    BY <1>6, <1>7
  <2> HIDE DEF a, b
  <2>3. << a, b >> \in Seq(S) /\ DOMAIN << a, b >> = {1, 2} /\ << a, b >>[1] = a /\ << a, b >>[2] = b
    BY <2>1
  <2> DEFINE c == << a, b >>
  <2> HIDE DEF c
  <2>4. ~Some(c, Marking)
    BY <2>2, <2>3 DEF Some, c
  <2> QED BY <2>3, <2>4 DEF a, b, c
<1> DEFINE x == If(Generate, << Set(<< "GENERATE" >>, {"PEND"}) >>)
           y == If(Against, << Set(<< "BASELINE", "MEMCOMP", "TPUTCOMP" >>, {"PEND"}) >>)
<1>10. Generate \in BOOLEAN /\ Against \in BOOLEAN /\ (~Standalone) \in BOOLEAN
       /\ (test.baseline # {} => Generate \/ Against)
       /\ (Generate <=> "GENERATE" \in test.baseline)
       /\ (Against <=> "BASELINE" \in test.baseline)
  BY CaseRunAssumption DEF Generate, Against, Baseline, Standalone
<1>w4a. ASSUME k < Jobs
        PROVE  w4 \in Seq(S)
               /\ (test.baseline # {} => Some(w4, MarkSet(test)) /\ Opens(w4))
  <2>1. w4 = x \o y
    BY <1>w4a, <1>1, <1>2 DEF BaselinePending
  <2> DEFINE g == Set(<< "GENERATE" >>, {"PEND"})
             b == Set(<< "BASELINE", "MEMCOMP", "TPUTCOMP" >>, {"PEND"})
  <2>2. g \in Marking /\ Listed(g.phases, "GENERATE")
    BY <1>4 DEF PendPhases
  <2>3. b \in Marking /\ Listed(b.phases, "BASELINE")
    BY <1>5 DEF Set
  <2> HIDE DEF g, b, S, w4
  <2>4. g \in S /\ b \in S
    BY <2>2, <2>3, <1>8
  <2>5. << g >> \in Seq(S) /\ Opens(<< g >>) /\ (g \in MarkSet(test) => Some(<< g >>, MarkSet(test)))
    BY <2>2, <2>4, OneIs
  <2>6. << b >> \in Seq(S) /\ Opens(<< b >>) /\ (b \in MarkSet(test) => Some(<< b >>, MarkSet(test)))
    BY <2>3, <2>4, OneIs
  <2>7. x = If(Generate, << g >>) /\ y = If(Against, << b >>)
    BY DEF g, b
  <2> HIDE DEF x, y
  <2>8. x \in Seq(S) /\ (Generate => x = << g >>) /\ (~Generate => AllQuiet(x))
    BY <2>5, <2>7, <1>10, IfIs
  <2>9. y \in Seq(S) /\ (Against => y = << b >>)
    BY <2>6, <2>7, <1>10, IfIs
  <2>10. w4 \in Seq(S)
    BY <2>1, <2>8, <2>9, ConcatProperties
  <2>11. CASE Generate
    <3>1. g \in MarkSet(test)
      BY <2>2, <2>11, <1>10 DEF MarkSet, MarkOf
    <3>2. Opens(x) /\ Some(x, MarkSet(test))
      BY <3>1, <2>5, <2>8, <2>11
    <3> QED BY <3>2, <2>1, <2>8, <2>9, <2>10, ConcatOpens, ConcatSome
  <2>12. CASE ~Generate /\ Against
    <3>1. b \in MarkSet(test)
      BY <2>3, <2>12, <1>10 DEF MarkSet, MarkOf
    <3>2. AllQuiet(x) /\ Opens(y) /\ Some(y, MarkSet(test))
      BY <3>1, <2>6, <2>8, <2>9, <2>12
    <3> QED BY <3>2, <2>1, <2>8, <2>9, <2>10, ConcatOpens, ConcatSome
  <2> QED BY <2>10, <2>11, <2>12, <1>10
<1>w4b. ASSUME k = Jobs
        PROVE  /\ w4 \in Seq(S) /\ ~Some(w4, Marking)
               /\ \A p \in {test.compares[i] : i \in 1..n} : Some(w4, {Set(<< p >>, AnyResult)})
  <2> DEFINE c == Compare(AnyResult)
             g == Set(<< "GENERATE" >>, AnyResult)
             b == Set(<< "BASELINE" >>, AnyResult)
             j == << Judge("MEMCOMP"), Judge("TPUTCOMP") >>
             gs == If(Generate, << g >>)
             js == If(~Standalone, j)
             bs == << b >> \o js
             as == If(Against, bs)
  <2>1. w4 = c \o (gs \o as)
    BY <1>w4b, <1>1 DEF BaselineOps, Jobs
  <2>2. Resulting \subseteq S /\ Judging \subseteq S
    BY <1>w4b, <1>1, <1>8
  <2>3. g \in S /\ b \in S /\ g \notin Marking /\ b \notin Marking
    BY <2>2, <1>6, <1>7, ResultNames DEF Resulting
  <2>4. j \in Seq(S) /\ ~Some(j, Marking)
    <3> DEFINE u == Judge("MEMCOMP")
               v == Judge("TPUTCOMP")
    <3>1. u \in S /\ v \in S
      BY <2>2 DEF Judging
    <3>2. u \notin Marking /\ v \notin Marking
      BY <1>6 DEF Judge
    <3>3. j = << u, v >>
      OBVIOUS
    <3> HIDE DEF u, v, j
    <3>4. j \in Seq(S) /\ DOMAIN j = {1, 2} /\ j[1] = u /\ j[2] = v
      BY <3>1, <3>3
    <3> QED BY <3>2, <3>4 DEF Some
  <2>5. c \in Seq(S) /\ ~Some(c, Marking)
        /\ \A p \in {test.compares[i] : i \in 1..n} : Some(c, {Set(<< p >>, AnyResult)})
    <3>1. /\ c = [i \in 1..n |-> Set(<< test.compares[i] >>, AnyResult)]
          /\ Len(c) = n /\ DOMAIN c = 1..n
          /\ \A i \in 1..n : c[i] = Set(<< test.compares[i] >>, AnyResult)
      BY <1>3
    <3> HIDE DEF c
    <3>2. \A i \in 1..n : c[i] \in S /\ c[i] \notin Marking
      <4> SUFFICES ASSUME NEW i \in 1..n PROVE c[i] \in S /\ c[i] \notin Marking
        OBVIOUS
      <4>1. test.compares[i] \in ResultPhases
        BY <1>1, ResultNames DEF PendPhases
      <4>2. c[i] \in Resulting
        BY <4>1, <3>1 DEF Resulting
      <4> QED BY <4>2, <2>2, <3>1, <1>6, <1>7
    <3>3. c \in Seq(S)
      BY <3>1, <3>2, <1>1
    <3> QED BY <3>1, <3>2, <3>3 DEF Some
  <2> HIDE DEF c, g, b, j, S, w4
  <2>6. gs \in Seq(S) /\ ~Some(gs, Marking)
    <3>1. << g >> \in Seq(S) /\ ~Some(<< g >>, Marking)
      BY <2>3, OneIs
    <3> QED BY <3>1, <1>10, IfIs
  <2>7. js \in Seq(S) /\ ~Some(js, Marking)
    BY <2>4, <1>10, IfIs
  <2> HIDE DEF gs, js
  <2>8. bs \in Seq(S) /\ ~Some(bs, Marking)
    <3>1. << b >> \in Seq(S) /\ ~Some(<< b >>, Marking)
      BY <2>3, OneIs
    <3> QED BY <3>1, <2>7, ConcatProperties, ConcatOwes
  <2> HIDE DEF bs
  <2>9. as \in Seq(S) /\ ~Some(as, Marking)
    BY <2>8, <1>10, IfIs
  <2> HIDE DEF as
  <2> DEFINE o == gs \o as
  <2>10. o \in Seq(S) /\ ~Some(o, Marking)
    BY <2>6, <2>9, ConcatProperties, ConcatOwes
  <2>11. w4 = c \o o
    BY <2>1
  <2> HIDE DEF o
  <2>12. w4 \in Seq(S) /\ ~Some(w4, Marking)
    BY <2>5, <2>10, <2>11, ConcatProperties, ConcatOwes
  <2>13. ASSUME NEW p \in {test.compares[i] : i \in 1..n}
         PROVE  Some(w4, {Set(<< p >>, AnyResult)})
    BY <2>5, <2>10, <2>11, ConcatSome
  <2> QED BY <2>12, <2>13
<1> DEFINE M  == MarkSet(test)
           D  == {test.compares[i] : i \in 1..n}
           c2 == w1 \o w2
           c3 == c2 \o w3
           c4 == c3 \o w4
           c5 == c4 \o w5
<1>11. Work(k) = c5
  BY DEF Work
<1>12. LeavesMark(test) /\ k < Jobs /\ test.baseline = {} => k = 1 /\ n > 0
  <2>1. test.compares # << >> => n > 0
    BY <1>1, EmptySeq DEF n
  <2> QED BY <2>1, <1>1, <1>2 DEF LeavesMark
<1>13. k < Jobs \/ k = Jobs
  BY <1>1, <1>2
<1>14. w4 \in Seq(S)
  BY <1>13, <1>w4a, <1>w4b
<1> HIDE DEF S, w1, w2, w3, w4, w5, M, D, n
<1>c2. /\ c2 \in Seq(S) /\ Owes(c2, D)
       /\ (Opens(w1) => Opens(c2)) /\ (AllQuiet(w1) => AllQuiet(c2))
       /\ (Some(w1, M) => Some(c2, M))
  BY <1>w1, <1>w2, ConcatProperties, ConcatOwes, ConcatOpens, ConcatSome DEF D
<1> HIDE DEF c2
<1>c3. /\ c3 \in Seq(S) /\ Owes(c3, D)
       /\ (Opens(c2) => Opens(c3)) /\ (AllQuiet(c2) => AllQuiet(c3))
       /\ (Some(c2, M) => Some(c3, M))
  BY <1>c2, <1>w3, ConcatProperties, ConcatOwes, ConcatOpens, ConcatSome
<1> HIDE DEF c3
<1>c4. /\ c4 \in Seq(S)
       /\ k = Jobs => Owes(c4, {})
       /\ (Opens(c3) => Opens(c4)) /\ (AllQuiet(c3) /\ Opens(w4) => Opens(c4))
       /\ (Some(c3, M) \/ Some(w4, M) => Some(c4, M))
  <2>1. c4 \in Seq(S)
    BY <1>c3, <1>14, ConcatProperties
  <2>2. k = Jobs => Owes(c4, {})
    BY <1>c3, <1>14, <1>w4b, ConcatOwes DEF D
  <2>3. (Opens(c3) => Opens(c4)) /\ (AllQuiet(c3) /\ Opens(w4) => Opens(c4))
    BY <1>c3, <1>14, ConcatOpens
  <2>4. Some(c3, M) \/ Some(w4, M) => Some(c4, M)
    BY <1>c3, <1>14, ConcatSome
  <2> QED BY <2>1, <2>2, <2>3, <2>4
<1> HIDE DEF c4
<1>c5. /\ c5 \in Seq(S)
       /\ k = Jobs => Owes(c5, {})
       /\ (Opens(c4) => Opens(c5)) /\ (Some(c4, M) => Some(c5, M))
  BY <1>c4, <1>w5, ConcatProperties, ConcatOwes, ConcatOpens, ConcatSome
<1> HIDE DEF c5
<1>15. k < Jobs /\ LeavesMark(test) => Some(c5, M) /\ Opens(c5)
  <2> SUFFICES ASSUME k < Jobs, LeavesMark(test) PROVE Some(c5, M) /\ Opens(c5)
    OBVIOUS
  <2>1. CASE test.baseline # {}
    <3>1. Some(w4, M) /\ Opens(w4)
      BY <1>w4a, <2>1 DEF M
    <3>2. Opens(w1) \/ AllQuiet(w1)
      BY <1>w1
    <3> QED BY <3>1, <3>2, <1>c2, <1>c3, <1>c4, <1>c5
  <2>2. CASE test.baseline = {}
    <3>1. Opens(w1) /\ Some(w1, M)
      BY <1>w1, <1>12, <2>2 DEF M
    <3> QED BY <3>1, <1>c2, <1>c3, <1>c4, <1>c5
  <2> QED BY <2>1, <2>2
<1> QED BY <1>11, <1>15, <1>c5 DEF S, M


LEMMA ScriptIs ==
    ASSUME test \in Tests, NEW k \in K
    PROVE  LET rest == Tail(Script(k))
           IN  /\ Begins(test, k, Script(k))
               /\ k < Jobs /\ LeavesMark(test) => Some(rest, MarkSet(test)) /\ Opens(rest)
               /\ k = Jobs => Owes(rest, {})
<1> DEFINE B == Between(test, k)
           S == B \cup {Begin, Pass}
           w == Work(k)
           r == w \o << Pass >>
           m == Len(w)
<1>1. /\ w \in Seq(B) /\ w \in Seq(S)
      /\ k < Jobs /\ LeavesMark(test) => Some(w, MarkSet(test)) /\ Opens(w)
      /\ k = Jobs => Owes(w, {})
  <2>1. w \in Seq(B)
    BY WorkIs
  <2> HIDE DEF w, B
  <2>2. w \in Seq(S)
    BY <2>1
  <2> QED BY <2>1, <2>2, WorkIs DEF w
<1>2. Begin \in S /\ Pass \in S
  OBVIOUS
<1>3. Script(k) = (<< Begin >> \o w) \o << Pass >>
  BY DEF Script, Begin, Pass
<1>4. Pass \notin Marking
  BY DEF Pass, Set, Marking
<1> HIDE DEF w, S, m
<1>5. << Begin >> \in Seq(S) /\ << Pass >> \in Seq(S) /\ Len(<< Pass >>) = 1 /\ << Pass >>[1] = Pass
      /\ ~Some(<< Pass >>, Marking)
  <2>1. << Begin >> \in Seq(S) /\ << Pass >> \in Seq(S)
    BY <1>2, OneIs
  <2>2. ~Some(<< Pass >>, Marking)
    BY <1>2, <1>4, OneIs
  <2> QED BY <2>1, <2>2
<1>6. Script(k) = << Begin >> \o r
  BY <1>1, <1>3, <1>5, ConcatAssociative
<1>7. r \in Seq(S) /\ Joined(r, w, << Pass >>, m) /\ m \in Nat
  <2>1. m \in Nat /\ m = Len(w)
    BY <1>1 DEF m
  <2> QED BY <2>1, <1>1, <1>5, Concat
<1>8. /\ k < Jobs /\ LeavesMark(test) => Some(r, MarkSet(test)) /\ Opens(r)
      /\ k = Jobs => Owes(r, {})
  BY <1>1, <1>5, ConcatSome, ConcatOpens, ConcatOwes
<1> HIDE DEF r
<1>9. Len(r) = m + 1 /\ r[m + 1] = Pass /\ \A j \in 1..m : r[j] = w[j] /\ r[j] \in B
  <2>1. Len(r) = m + Len(<< Pass >>) /\ r[m + 1] = << Pass >>[1] /\ \A j \in 1..m : r[j] = w[j]
    BY <1>5, <1>7 DEF Joined
  <2>2. \A j \in 1..m : w[j] \in B
    BY <1>1 DEF m
  <2> QED BY <2>1, <2>2, <1>5
<1>10. Left(test, k, r)
  <2>1. \A j \in 1..(Len(r) - 1) : r[j] \in B
    BY <1>7, <1>9
  <2>2. r[Len(r)] = Pass /\ r # << >>
    BY <1>7, <1>9
  <2>3. r \in Seq(B \cup {Pass})
    <3>1. \A j \in 1..Len(r) : r[j] \in B \cup {Pass}
      BY <1>7, <1>9
    <3> QED BY <3>1, <1>7
  <2> QED BY <2>1, <2>2, <2>3 DEF Left
<1>11. Head(Script(k)) = Begin /\ Tail(Script(k)) = r /\ Script(k) \in Seq(S) /\ Script(k) # << >>
  BY <1>2, <1>6, <1>7, ConsIs
<1>12. Begins(test, k, Script(k))
  BY <1>10, <1>11 DEF Begins, S
<1> QED BY <1>8, <1>11, <1>12

\* What a job has still to do.
Steps(T, k, seq) ==
    seq = << >> \/ seq = << Fail >> \/ Begins(T, k, seq) \/ Left(T, k, seq)

LEMMA HeadIs ==
    ASSUME NEW T, NEW k, NEW seq, Steps(T, k, seq), seq # << >>
    PROVE  /\ Steps(T, k, Tail(seq))
           /\ \/ Head(seq) = Begin /\ Begins(T, k, seq) /\ Left(T, k, Tail(seq))
              \/ Head(seq) = Pass /\ Left(T, k, seq) /\ Tail(seq) = << >> /\ seq = << Pass >>
              \/ Head(seq) = Fail /\ seq = << Fail >> /\ Tail(seq) = << >>
              \/ Head(seq) \in Between(T, k) /\ Left(T, k, seq) /\ Left(T, k, Tail(seq))
<1>1. CASE seq = << Fail >>
  BY <1>1 DEF Steps
<1>2. CASE Begins(T, k, seq)
  BY <1>2 DEF Steps, Begins
<1>3. CASE Left(T, k, seq)
  <2>1. CASE Len(seq) = 1 /\ Head(seq) = Pass /\ Tail(seq) = << >>
    <3> DEFINE S == Between(T, k) \cup {Pass}
    <3>1. seq \in Seq(S)
      BY <1>3 DEF Left
    <3> HIDE DEF S
    <3>2. seq = << Pass >>
      BY <3>1, <2>1
    <3> QED BY <3>2, <2>1, <1>3 DEF Steps
  <2>2. CASE Head(seq) \in Between(T, k) /\ Left(T, k, Tail(seq))
    BY <2>2, <1>3 DEF Steps
  <2> QED BY <1>3, <2>1, <2>2, LeftNext
<1> QED BY <1>1, <1>2, <1>3 DEF Steps

\* A with block of a job: an update of RUN or of results.
LEMMA BlockIs ==
    ASSUME NEW T, NEW k, NEW x \in Between(T, k) \cup {Begin, Pass, Fail}, x.act = "set",
           NEW s \in x.to, NEW X, IsStatus(X)
    PROVE  LET u == SetAll(X, x.phases, s)
           IN  /\ s \in Statuses /\ IsStatus(u)
               /\ \/ x \in {Begin, Pass, Fail} /\ x.phases = << "RUN" >> /\ RunSet(u, X, s)
                  \/ /\ x \in Between(T, k) /\ x.phases # << "RUN" >> /\ x.phases # << >>
                     /\ x.phases \in Seq(Phases \ Core) /\ ResultsSet(u, X, x.phases, s)
<1> DEFINE u == SetAll(X, x.phases, s)
<1>1. CASE x \in {Begin, Pass, Fail}
  <2>1. x.phases = << "RUN" >> /\ s \in Statuses
    BY <1>1 DEF Begin, Pass, Fail, Set, Statuses
  <2>2. "RUN" \in Phases
    BY PhaseOrder, Names
  <2>3. u = SetIn(X, "RUN", s)
    BY <2>1, <2>2, SetOne
  <2>4. RunSet(u, X, s)
    BY <2>1, <2>3, SetRun
  <2>5. IsStatus(u)
    BY <2>4 DEF RunSet
  <2> QED BY <1>1, <2>1, <2>4, <2>5
<1>2. CASE x \in Between(T, k)
  <2>1. s \in Statuses /\ x.phases \in Seq(Phases \ Core) /\ x.phases # << >>
    <3>1. CASE x \in Marking
      BY <3>1, MarkingIs DEF Statuses
    <3>2. CASE \E p \in ResultPhases : x = Set(<< p >>, AnyResult)
      <4>1. PICK p \in ResultPhases : x = Set(<< p >>, AnyResult)
        BY <3>2
      <4>2. x.phases = << p >> /\ x.to = AnyResult
        BY <4>1 DEF Set
      <4>3. p \in Phases \ Core
        BY ResultNames
      <4> QED BY <4>2, <4>3 DEF AnyResult, Statuses
    <3> QED BY <1>2, <3>1, <3>2, BetweenIs
  <2>2. x.phases # << "RUN" >>
    <3>1. "RUN" \in Core
      BY Names
    <3> DEFINE ps == x.phases
    <3>2. ps \in Seq(Phases \ Core) /\ ps # << >>
      BY <2>1
    <3> HIDE DEF ps
    <3>3. ps[1] \notin Core
      BY <3>2
    <3>4. ps # << "RUN" >>
      BY <3>1, <3>3
    <3> QED BY <3>4 DEF ps
  <2>3. ResultsSet(u, X, x.phases, s)
    BY <2>1, SetAllResults
  <2>4. IsStatus(u)
    BY <2>3 DEF ResultsSet
  <2> QED BY <1>2, <2>1, <2>2, <2>3, <2>4
<1> QED BY <1>1, <1>2

-----------------------------------------------------------------------------
(* Types *)

\* The strengthening of TypeOK: what the jobs have left to do is what is left of
\* their script, or the record of a failure.
TypeInv ==
    /\ TypeOK
    /\ DOMAIN submitMem = K /\ DOMAIN jobMem = K /\ DOMAIN todo = K
    /\ \A k \in K : Steps(test, k, todo[k])

LEMMA BuiltIs ==
    /\ IsStatus(Built) /\ Built.st["SUBMIT"] = "PEND" /\ Built.st["RUN"] = NoStatus
    /\ \A p \in Core \ {"SUBMIT", "RUN"} : Built.st[p] = "PASS"
    /\ \A p \in Phases \ Core : Built.st[p] = NoStatus
<1> DEFINE blank == ""
           o == SubSeq(CorePhases, 1, 6)
           t == Built
<1>1. blank \in Comments
  BY DEF Comments
<1>2. t.st = [p \in Phases |-> IF p = "SUBMIT" THEN "PEND"
                               ELSE IF p \in Core \ {"RUN"} THEN "PASS" ELSE NoStatus]
      /\ t.cm = [p \in Phases |-> blank] /\ t.order = o
  BY DEF Built
<1> HIDE DEF blank, t
<1>3. o \in Seq(Phases) /\ Len(o) = 6 /\ \A i \in 1..6 : o[i] = CorePhases[i]
  <2> DEFINE c == CorePhases
  <2>1. c \in Seq(Phases) /\ Len(c) = 7
    BY CoreSequence
  <2>i. \A i \in 1..6 : c[i] \in Phases
    BY CoreSequence, PhaseOrder
  <2> HIDE DEF c
  <2>2. /\ SubSeq(c, 1, 6) \in Seq(Phases) /\ Len(SubSeq(c, 1, 6)) = 6
        /\ \A i \in 1..6 : SubSeq(c, 1, 6)[i] = c[i]
    <3> DEFINE x == 1
               y == 6
               z == SubSeq(c, x, y)
    <3>1. x \in Int /\ y \in Int /\ \A i \in x..y : c[i] \in Phases
      BY <2>i
    <3> HIDE DEF x, y
    <3>2. /\ z \in Seq(Phases) /\ Len(z) = IF x <= y THEN y - x + 1 ELSE 0
          /\ \A i \in 1..(y - x + 1) : z[i] = c[x + i - 1]
      BY <3>1, SubSeqProperties
    <3> HIDE DEF z
    <3>3. z \in Seq(Phases) /\ Len(z) = 6 /\ \A i \in 1..6 : z[i] = c[i]
      BY <3>2 DEF x, y
    <3> QED BY <3>3 DEF x, y, z
  <2> QED BY <2>2 DEF c
<1> HIDE DEF o
<1>4. \A p \in Phases : (\E i \in DOMAIN o : o[i] = p) <=> p \in Core \ {"RUN"}
  <2>1. DOMAIN o = 1..6
    BY <1>3
  <2>2. \A i \in 1..6 : o[i] \in Core \ {"RUN"}
    <3>1. CoreIndex["RUN"] = 7
      BY CoreSequence
    <3> QED BY <3>1, <1>3, CoreSequence
  <2>3. \A p \in Core \ {"RUN"} : CoreIndex[p] \in 1..6 /\ o[CoreIndex[p]] = p
    <3>1. \A p \in Core \ {"RUN"} : CoreIndex[p] # 7
      BY CoreSequence
    <3> QED BY <3>1, <1>3, CoreSequence
  <2> QED BY <2>1, <2>2, <2>3
<1>5. t.st \in [Phases -> Statuses \cup {NoStatus}] /\ t.cm \in [Phases -> Comments]
  BY <1>1, <1>2 DEF Statuses
<1>6. \A p \in Phases : t.st[p] # NoStatus <=> p \in Core \ {"RUN"}
  BY <1>2, Names DEF NoStatus
<1>7. IsStatus(t)
  BY <1>2, <1>3, <1>4, <1>5, <1>6 DEF IsStatus
<1>8. "SUBMIT" \in Phases /\ "RUN" \in Phases /\ Core \subseteq Phases /\ "RUN" # "SUBMIT"
      /\ "SUBMIT" \in Core /\ "RUN" \in Core
  BY PhaseOrder, Names
<1>9. t.st["SUBMIT"] = "PEND" /\ t.st["RUN"] = NoStatus
  BY <1>2, <1>8
<1>10. \A p \in Core \ {"SUBMIT", "RUN"} : t.st[p] = "PASS"
  BY <1>2, <1>8
<1>11. \A p \in Phases \ Core : t.st[p] = NoStatus
  BY <1>2, <1>8
<1> QED BY <1>7, <1>9, <1>10, <1>11 DEF t

LEMMA Counting ==
    ASSUME test \in Tests
    PROVE  /\ Jobs = test.jobs /\ Jobs \in Nat \ {0} /\ K = 1..Jobs /\ 1 \in K /\ Jobs \in K
           /\ \A k \in K : k \in Nat /\ k <= Jobs /\ (k < Jobs \/ k = Jobs) /\ (Final(k) <=> k = Jobs)
           /\ \A k \in K : k < Jobs => k + 1 \in K /\ k + 1 # k
  BY CaseRunAssumption DEF Jobs, K, Final

\* The steps of the submissions keep the types ...
LEMMA SubmitTypes ==
    ASSUME TypeInv, NEW k \in K, Submit(k), test' = test
    PROVE  TypeInv'
<1>1. K' = K
  BY DEF K, Jobs
<1>2. IsStatus(file) /\ IsStatus(submitMem[k]) /\ IsStatus(EmptyStatus)
  BY EmptyIs DEF TypeInv, TypeOK
<1>3. ASSUME NEW s \in {"PASS", "FAIL"} PROVE IsStatus(SetIn(file, "SUBMIT", s))
  <2>1. "SUBMIT" \in Phases /\ s \in Statuses
    BY PhaseOrder, Names DEF Statuses
  <2> QED BY <1>2, <2>1, SetInIs
<1>4. /\ DOMAIN submitMem' = K /\ IsStatus(file') /\ \A l \in K : IsStatus(submitMem'[l])
      /\ submit' \in [K -> {"none", "start", "flush", "write", "queue", "error", "flushFail",
                            "writeFail", "done", "failed"}]
      /\ job' \in [K -> {"none", "queued", "run", "flush", "write", "over", "killed"}]
  <2>t. /\ DOMAIN submitMem = K /\ \A l \in K : IsStatus(submitMem[l])
        /\ submit \in [K -> {"none", "start", "flush", "write", "queue", "error", "flushFail",
                              "writeFail", "done", "failed"}]
        /\ job \in [K -> {"none", "queued", "run", "flush", "write", "over", "killed"}]
    BY DEF TypeInv, TypeOK
  <2> DEFINE mem == IF file.st["SUBMIT"] = "PASS" THEN file ELSE SetIn(file, "SUBMIT", "PASS")
             bad == SetIn(file, "SUBMIT", "FAIL")
  <2>1. IsStatus(mem) /\ IsStatus(bad)
    BY <1>2, <1>3
  <2>2. SubmitRead(k) => submitMem' = [submitMem EXCEPT ![k] = mem]
    BY DEF SubmitRead
  <2>3. SubmitError(k) => submitMem' = [submitMem EXCEPT ![k] = bad]
    BY DEF SubmitError
  <2> HIDE DEF mem, bad
  <2>4. CASE SubmitRead(k)
    <3>1. /\ DOMAIN submitMem' = K /\ \A l \in K : IsStatus(submitMem'[l])
      BY <2>t, <2>1, <2>2, <2>4
    <3> QED BY <2>t, <1>2, <2>4, <3>1 DEF SubmitRead, jobVars
  <2>5. CASE SubmitError(k)
    <3>1. /\ DOMAIN submitMem' = K /\ \A l \in K : IsStatus(submitMem'[l])
      BY <2>t, <2>1, <2>3, <2>5
    <3> QED BY <2>t, <1>2, <2>5, <3>1 DEF SubmitError, jobVars
  <2>6. CASE SubmitFlush(k)
    BY <2>t, <1>2, <2>6 DEF SubmitFlush, jobVars
  <2>7. CASE SubmitWrite(k)
    BY <2>t, <1>2, <2>7 DEF SubmitWrite, jobVars, After
  <2>8. CASE Queue(k)
    BY <2>t, <1>2, <2>8 DEF Queue
  <2> QED BY <2>4, <2>5, <2>6, <2>7, <2>8 DEF Submit
<1>5. UNCHANGED << jobMem, todo, outcome, test >>
  BY DEF Submit, SubmitRead, SubmitError, SubmitFlush, SubmitWrite, Queue, jobVars
<1> QED BY <1>1, <1>4, <1>5 DEF TypeInv, TypeOK

\* ... and so do those of the jobs.
LEMMA JobTypes ==
    ASSUME TypeInv, NEW k \in K, Job(k) \/ Kill(k), test' = test
    PROVE  TypeInv'
<1>1. K' = K
  BY DEF K, Jobs
<1>2. /\ test \in Tests /\ IsStatus(file) /\ IsStatus(jobMem[k]) /\ IsStatus(EmptyStatus)
      /\ Steps(test, k, todo[k])
  BY EmptyIs DEF TypeInv, TypeOK
<1>3. \A l \in K : IsStatus(submitMem[l]) /\ IsStatus(jobMem[l]) /\ Steps(test, l, todo[l])
  BY DEF TypeInv, TypeOK
<1>4. Steps(test, k, << >>) /\ Steps(test, k, << Fail >>) /\ Steps(test, k, Script(k))
  BY <1>2, ScriptIs DEF Steps
<1>5. /\ IsStatus(file') /\ DOMAIN jobMem' = K /\ IsStatus(jobMem'[k])
      /\ \A l \in K \ {k} : jobMem'[l] = jobMem[l]
  <2>1. CASE Start(k)
    <3> DEFINE bad == IF MaySet(file.st, "RUN") THEN SetIn(file, "RUN", "FAIL") ELSE file
    <3>1. IsStatus(bad)
      <4>1. "RUN" \in Phases /\ "FAIL" \in Statuses
        BY PhaseOrder, Names DEF Statuses
      <4> QED BY <1>2, <4>1, SetInIs
    <3>2. jobMem' = [jobMem EXCEPT ![k] = file] \/ jobMem' = [jobMem EXCEPT ![k] = bad]
      BY <2>1 DEF Start
    <3> HIDE DEF bad
    <3> QED BY <3>1, <3>2, <1>2, <2>1 DEF Start, TypeInv
  <2>2. CASE SetNext(k)
    <3> DEFINE x == Head(todo[k])
    <3>1. x.act = "set" /\ todo[k] # << >>
      BY <2>2 DEF SetNext
    <3>2. x \in Between(test, k) \cup {Begin, Pass, Fail}
      BY <3>1, <1>2, HeadIs
    <3>3. \/ UNCHANGED jobMem
          \/ \E s \in x.to : jobMem' = [jobMem EXCEPT ![k] = SetAll(@, x.phases, s)]
      BY <2>2 DEF SetNext
    <3> HIDE DEF x
    <3>4. ASSUME NEW s \in x.to PROVE IsStatus(SetAll(jobMem[k], x.phases, s))
      BY <1>2, <3>1, <3>2, BlockIs
    <3> QED BY <3>3, <3>4, <1>2, <2>2 DEF SetNext, TypeInv
  <2>3. CASE JudgeNext(k)
    <3> DEFINE x == Head(todo[k])
               p == x.phases[1]
    <3>1. x.act = "judge" /\ todo[k] # << >>
      BY <2>3 DEF JudgeNext
    <3>2. x \in Between(test, k)
      BY <3>1, <1>2, HeadIs DEF Begin, Pass, Fail, Set
    <3>3. x \in Judging
      BY <3>1, <3>2, BetweenIs
    <3>4. p \in Phases
      BY <3>3, ResultNames DEF Judging, Judge
    <3>5. \/ UNCHANGED jobMem
          \/ \E s \in {"PASS", "FAIL"} : jobMem' = [jobMem EXCEPT ![k] = SetIn(@, p, s)]
      BY <2>3 DEF JudgeNext
    <3> HIDE DEF p
    <3>6. ASSUME NEW s \in {"PASS", "FAIL"} PROVE IsStatus(SetIn(jobMem[k], p, s))
      <4>1. s \in Statuses
        BY DEF Statuses
      <4> QED BY <4>1, <1>2, <3>4, SetInIs
    <3> QED BY <3>5, <3>6, <1>2, <2>3 DEF JudgeNext, TypeInv
  <2>4. CASE JobFlush(k) \/ JobWrite(k) \/ RunModel(k) \/ Resubmit(k) \/ Archive(k) \/ Kill(k)
    BY <1>2, <2>4 DEF JobFlush, JobWrite, RunModel, Resubmit, Archive, Kill, TypeInv, jobVars
  <2> QED BY <2>1, <2>2, <2>3, <2>4 DEF Job
<1>6. /\ DOMAIN todo' = K /\ Steps(test, k, todo'[k])
      /\ \A l \in K \ {k} : todo'[l] = todo[l]
  <2>1. todo[k] # << >> => Steps(test, k, Tail(todo[k]))
    BY <1>2, HeadIs
  <2>2. \/ UNCHANGED todo
        \/ todo' = [todo EXCEPT ![k] = Script(k)]
        \/ todo' = [todo EXCEPT ![k] = << >>]
        \/ todo[k] # << >> /\ todo' = [todo EXCEPT ![k] = Tail(@)]
        \/ todo' = [todo EXCEPT ![k] = << Fail >>]
    <3>1. CASE Start(k)
      BY <3>1 DEF Start
    <3>2. CASE SetNext(k)
      BY <3>2 DEF SetNext, GoOn
    <3>3. CASE JudgeNext(k)
      BY <3>3 DEF JudgeNext, GoOn
    <3>4. CASE RunModel(k)
      BY <3>4 DEF RunModel, GoOn, Fail
    <3>5. CASE Resubmit(k)
      BY <3>5 DEF Resubmit, GoOn, Fail
    <3>6. CASE JobFlush(k) \/ JobWrite(k) \/ Archive(k) \/ Kill(k)
      BY <3>6 DEF JobFlush, JobWrite, Archive, Kill, jobVars
    <3> QED BY <3>1, <3>2, <3>3, <3>4, <3>5, <3>6 DEF Job
  <2> QED BY <1>2, <1>4, <2>1, <2>2 DEF TypeInv
<1>7. job' \in [K -> {"none", "queued", "run", "flush", "write", "over", "killed"}]
  <2>1. \E pc \in {"run", "flush", "write", "over", "killed"} : job' = [job EXCEPT ![k] = pc] \/ job' = job
    BY DEF Job, Start, SetNext, JudgeNext, JobFlush, JobWrite, RunModel, Resubmit, Archive, Kill,
           jobVars
  <2> QED BY <2>1 DEF TypeInv, TypeOK
<1>8. outcome' \in [K -> AnyResult \cup {""}]
  <2> DEFINE R == AnyResult \cup {""}
  <2>1. outcome \in [K -> R]
    BY DEF TypeInv, TypeOK
  <2>2. "FAIL" \in R /\ \A s \in Statuses : s # "PEND" => s \in R
    BY DEF AnyResult, Statuses
  <2> HIDE DEF R
  <2>3. \E s \in R : outcome' = [outcome EXCEPT ![k] = s] \/ outcome' = outcome
    <3>1. CASE Start(k)
      BY <3>1, <2>2 DEF Start
    <3>2. CASE SetNext(k)
      <4> DEFINE x == Head(todo[k])
      <4>1. x.act = "set" /\ todo[k] # << >>
        BY <3>2 DEF SetNext
      <4>2. x \in Between(test, k) \cup {Begin, Pass, Fail}
        BY <4>1, <1>2, HeadIs
      <4>3. \/ outcome' = [outcome EXCEPT ![k] = "FAIL"]
            \/ \E s \in x.to : \/ s # "PEND" /\ outcome' = [outcome EXCEPT ![k] = s]
                               \/ outcome' = [outcome EXCEPT ![k] = @]
        BY <3>2 DEF SetNext
      <4> HIDE DEF x
      <4>4. \A s \in x.to : s \in Statuses
        BY <4>1, <4>2, <1>2, BlockIs
      <4>5. [outcome EXCEPT ![k] = @] = outcome
        BY <2>1
      <4> QED BY <4>3, <4>4, <4>5, <2>2
    <3>3. CASE JudgeNext(k) \/ JobFlush(k) \/ JobWrite(k) \/ RunModel(k) \/ Resubmit(k)
               \/ Archive(k) \/ Kill(k)
      BY <3>3, <2>2 DEF JudgeNext, JobFlush, JobWrite, RunModel, Resubmit, Archive, Kill, jobVars
    <3> QED BY <3>1, <3>2, <3>3 DEF Job
  <2>4. outcome' \in [K -> R]
    BY <2>1, <2>3
  <2> QED BY <2>4 DEF R
<1>9. submit' \in [K -> {"none", "start", "flush", "write", "queue", "error", "flushFail",
                         "writeFail", "done", "failed"}]
      /\ UNCHANGED submitMem
  <2>1. UNCHANGED submitMem /\ (\/ UNCHANGED submit
                                \/ submit' = [submit EXCEPT ![k + 1] = "start"])
    BY DEF Job, Start, SetNext, JudgeNext, JobFlush, JobWrite, RunModel, Resubmit, Archive, Kill,
           submitVars
  <2> QED BY <2>1 DEF TypeInv, TypeOK
<1>10. DOMAIN submitMem' = K /\ \A l \in K : /\ IsStatus(submitMem'[l]) /\ IsStatus(jobMem'[l])
                                            /\ Steps(test, l, todo'[l])
  BY <1>3, <1>5, <1>6, <1>9 DEF TypeInv
<1> QED BY <1>1, <1>2, <1>5, <1>6, <1>7, <1>8, <1>9, <1>10 DEF TypeInv, TypeOK

LEMMA TypeInvariant == Spec => []TypeInv
<1>1. Init => TypeInv
  <2> SUFFICES ASSUME Init PROVE TypeInv
    OBVIOUS
  <2>1. test \in Tests /\ 1 \in K
    BY Counting DEF Init
  <2>2. IsStatus(file) /\ IsStatus(EmptyStatus)
    BY BuiltIs, EmptyIs DEF Init
  <2>3. /\ submitMem = [k \in K |-> EmptyStatus] /\ jobMem = [k \in K |-> EmptyStatus]
        /\ todo = [k \in K |-> << >>] /\ job = [k \in K |-> "none"]
        /\ submit = [k \in K |-> IF k = 1 THEN "start" ELSE "none"]
    BY DEF Init
  <2>4. outcome \in [K -> AnyResult \cup {""}]
    <3> DEFINE e == ""
               R == AnyResult \cup {e}
    <3>1. outcome = [k \in K |-> e]
      BY DEF Init
    <3> HIDE DEF e
    <3> QED BY <3>1 DEF e
  <2>5. \A k \in K : Steps(test, k, todo[k])
    BY <2>3 DEF Steps
  <2>6. DOMAIN submitMem = K /\ DOMAIN jobMem = K /\ DOMAIN todo = K
        /\ \A k \in K : IsStatus(submitMem[k]) /\ IsStatus(jobMem[k])
    BY <2>2, <2>3
  <2>7. /\ submit \in [K -> {"none", "start", "flush", "write", "queue", "error", "flushFail",
                             "writeFail", "done", "failed"}]
        /\ job \in [K -> {"none", "queued", "run", "flush", "write", "over", "killed"}]
    BY <2>3
  <2> QED BY <2>1, <2>2, <2>4, <2>5, <2>6, <2>7 DEF TypeInv, TypeOK
<1>2. TypeInv /\ [Next]_vars => TypeInv'
  <2> SUFFICES ASSUME TypeInv, [Next]_vars PROVE TypeInv'
    OBVIOUS
  <2>1. CASE \E k \in K : (Submit(k) \/ Job(k) \/ Kill(k)) /\ test' = test
    BY <2>1, SubmitTypes, JobTypes
  <2>2. CASE UNCHANGED << test, file, submitVars, jobVars >>
    BY <2>2 DEF TypeInv, TypeOK, submitVars, jobVars, K, Jobs
  <2>3. CASE Next
    BY <2>1, <2>2, <2>3 DEF Next, Stop, Report, Terminating, vars
  <2>4. CASE UNCHANGED vars
    BY <2>2, <2>4 DEF vars
  <2> QED BY <2>3, <2>4
<1> QED BY <1>1, <1>2, PTL DEF Spec

\* Every state of the programs that share a TestStatus file is one of its types:
\* in particular every file and every memory of one is consistent, a line for each
\* phase that has a status and for no other.
THEOREM TypeHolds == Spec => []TypeOK
  BY TypeInvariant, PTL DEF TypeInv

\* What is reported without being stopped has a name: a file without lines, which
\* is what a poll finds while a with block is rewriting it, is a pending test's.
THEOREM ReportHasNameHolds == Spec => []ReportHasName
<1>1. Init => ReportHasName
  BY DEF Init, ReportHasName
<1>2. TypeInv /\ ReportHasName /\ [Next]_vars => ReportHasName'
  <2> SUFFICES ASSUME TypeInv, ReportHasName, [Next]_vars PROVE ReportHasName'
    OBVIOUS
  <2>1. CASE Report
    <3>1. file.order = << >> => Verdict(file) = "PEND"
      BY VerdictOfNothing DEF TypeInv, TypeOK
    <3>2. verdict'.named = (file.order # << >>) /\ stopped' = stopped
          /\ (Verdict(file) # "PEND" \/ stopped)
      BY <2>1 DEF Report, Verdict
    <3> QED BY <3>1, <3>2 DEF ReportHasName
  <2>2. CASE Stop
    BY <2>2 DEF Stop, ReportHasName
  <2>3. CASE UNCHANGED waitVars
    BY <2>3 DEF waitVars, ReportHasName
  <2>4. CASE \E k \in K : Submit(k) \/ Job(k) \/ Kill(k)
    BY <2>3, <2>4 DEF Submit, SubmitRead, SubmitError, SubmitFlush, SubmitWrite, Queue, Job, Start,
           SetNext, JudgeNext, JobFlush, JobWrite, RunModel, Resubmit, Archive, Kill
  <2>5. CASE Next
    BY <2>1, <2>2, <2>3, <2>4, <2>5 DEF Next, Terminating, vars
  <2>6. CASE UNCHANGED vars
    BY <2>3, <2>6 DEF vars
  <2> QED BY <2>5, <2>6
<1> QED BY <1>1, <1>2, TypeInvariant, PTL DEF Spec

-----------------------------------------------------------------------------
(* A reported pass *)

\* What holds of a run between its blocks: it is pending until its last one, and
\* the run of a job that is not the last one leaves a mark, a pending result.
JobSafe(T, k, X, seq) ==
    /\ Left(T, k, seq) \/ seq = << Fail >> => X.st["RUN"] = "PEND"
    /\ k < T.jobs /\ Begins(T, k, seq) => Some(Tail(seq), MarkSet(T))
    /\ k < T.jobs /\ Left(T, k, seq) => X.st[MarkOf(T)] = "PEND" \/ Some(seq, MarkSet(T))

LEMMA MarkIs ==
    ASSUME NEW T \in Tests, LeavesMark(T), T.jobs # 1
    PROVE  MarkOf(T) \in PendPhases /\ MarkOf(T) \in ResultPhases /\ MarkOf(T) \in Phases
           /\ MarkOf(T) \notin Core /\ MarkOf(T) # "RUN"
<1> DEFINE c == T.compares
<1>1. c \in Seq(ComparePhases) /\ T.baseline \subseteq {"GENERATE", "BASELINE"}
  BY CaseRunAssumption
<1>2. T.baseline = {} => c # << >>
  BY DEF LeavesMark
<1>3. T.baseline = {} => c[1] \in ComparePhases
  <2> HIDE DEF c
  <2> QED BY <1>1, <1>2
<1>4. MarkOf(T) \in PendPhases
  BY <1>1, <1>3 DEF MarkOf, PendPhases
<1>5. MarkOf(T) \in ResultPhases
  BY <1>4, ResultNames
<1> QED BY <1>4, <1>5, ResultNames, Names

\* Sequences of steps without their first one.
LEMMA TailSome ==
    ASSUME NEW S, NEW seq \in Seq(S), seq # << >>, NEW Q, Some(seq, Q), Head(seq) \notin Q
    PROVE  Some(Tail(seq), Q)
<1>1. PICK i \in DOMAIN seq : seq[i] \in Q
  BY DEF Some
<1>2. i # 1 /\ i \in 1..Len(seq) /\ Len(seq) \in Nat
  BY <1>1
<1>3. i - 1 \in DOMAIN Tail(seq) /\ Tail(seq)[i - 1] = seq[i]
  BY <1>2
<1> QED BY <1>1, <1>3 DEF Some

LEMMA LeftSeq ==
    ASSUME NEW T, NEW k, NEW seq, Left(T, k, seq)
    PROVE  seq \in Seq(Between(T, k) \cup {Pass}) /\ seq # << >>
  BY DEF Left

LEMMA RunNames ==
    /\ Begin \notin Marking /\ Pass \notin Marking /\ Fail \notin Marking
    /\ Begin.act = "set" /\ Pass.act = "set" /\ Fail.act = "set"
    /\ Begin.to = {"PEND"} /\ Pass.to = {"PASS"} /\ Fail.to = {"FAIL"}
    /\ Begin # Pass /\ Begin # Fail /\ Pass # Fail
    /\ \A T : MarkSet(T) \subseteq Marking
<1>1. Begin.to = {"PEND"} /\ Pass.to = {"PASS"} /\ Fail.to = {"FAIL"}
      /\ Begin.act = "set" /\ Pass.act = "set" /\ Fail.act = "set"
      /\ Begin.phases = << "RUN" >>
  BY DEF Begin, Pass, Fail, Set
<1>2. Pass \notin Marking /\ Fail \notin Marking
  BY <1>1 DEF Marking
<1>3. Begin \notin Marking
  <2>1. "RUN" \notin PendPhases
    BY ResultNames, Names
  <2>2. << "RUN" >> \notin Seq(PendPhases)
    BY <2>1
  <2> QED BY <1>1, <2>2 DEF Marking
<1> QED BY <1>1, <1>2, <1>3 DEF MarkSet

\* Nothing is left of a run after a failure, and little of one that has not begun.
LEMMA ShapeIs ==
    ASSUME NEW T, NEW k
    PROVE  /\ ~Left(T, k, << Fail >>) /\ ~Begins(T, k, << Fail >>)
           /\ ~Left(T, k, << >>) /\ ~Begins(T, k, << >>)
           /\ \A seq : Begins(T, k, seq) => ~Left(T, k, seq)
           /\ Begin \notin Between(T, k)
<1>1. Begin \notin Between(T, k)
  <2> SUFFICES ASSUME Begin \in Between(T, k) PROVE FALSE
    OBVIOUS
  <2>1. PICK p \in ResultPhases : Begin = Set(<< p >>, AnyResult)
    BY BetweenIs, RunNames
  <2>2. Begin.to = AnyResult
    BY <2>1 DEF Set
  <2> QED BY <2>2, RunNames DEF AnyResult
<1>2. \A seq : Begins(T, k, seq) => ~Left(T, k, seq)
  <2> SUFFICES ASSUME NEW seq, Begins(T, k, seq), Left(T, k, seq) PROVE FALSE
    OBVIOUS
  <2>1. Head(seq) = Begin
    BY DEF Begins
  <2>2. Head(seq) = Pass \/ Head(seq) \in Between(T, k)
    BY LeftNext
  <2> QED BY <2>1, <2>2, <1>1, RunNames
<1>3. ~Left(T, k, << >>) /\ ~Begins(T, k, << >>)
  BY DEF Left, Begins
<1>4. ~Left(T, k, << Fail >>)
  <2>1. << Fail >>[Len(<< Fail >>)] = Fail
    OBVIOUS
  <2> QED BY <2>1, RunNames DEF Left
<1>5. ~Begins(T, k, << Fail >>)
  <2>1. Head(<< Fail >>) = Fail
    OBVIOUS
  <2> QED BY <2>1, RunNames DEF Begins
<1> QED BY <1>1, <1>2, <1>3, <1>4, <1>5

\* One block of a job: only the last block of the last job makes its file clear.
LEMMA BlockSafe ==
    ASSUME NEW T \in Tests, LeavesMark(T), NEW k, NEW X, IsStatus(X), NEW seq,
           Steps(T, k, seq), seq # << >>, JobSafe(T, k, X, seq),
           Head(seq).act = "set", NEW s \in Head(seq).to, k < T.jobs => T.jobs # 1
    PROVE  LET u == SetAll(X, Head(seq).phases, s)
           IN  /\ JobSafe(T, k, u, Tail(seq))
               /\ Clear(u) => /\ ~(k < T.jobs) /\ Tail(seq) = << >>
                              /\ Head(seq).phases = << "RUN" >> /\ s = "PASS"
<1> DEFINE x == Head(seq)
           u == SetAll(X, x.phases, s)
           M == MarkOf(T)
<1>1. x \in Between(T, k) \cup {Begin, Pass, Fail}
  BY HeadIs
<1>2. /\ s \in Statuses /\ IsStatus(u)
      /\ \/ x \in {Begin, Pass, Fail} /\ x.phases = << "RUN" >> /\ RunSet(u, X, s)
         \/ /\ x \in Between(T, k) /\ x.phases # << "RUN" >> /\ x.phases # << >>
            /\ x.phases \in Seq(Phases \ Core) /\ ResultsSet(u, X, x.phases, s)
  BY <1>1, BlockIs
<1>3. k < T.jobs => M \in PendPhases /\ M \in Phases /\ M \notin Core /\ M # "RUN"
  BY MarkIs
<1>4. "RUN" \in Core /\ "RUN" \in Phases
  BY Names, PhaseOrder
<1> HIDE DEF u, M
<1>5. CASE x = Begin /\ Begins(T, k, seq) /\ Left(T, k, Tail(seq))
  <2>1. s = "PEND" /\ RunSet(u, X, s)
    BY <1>2, <1>5, ShapeIs, RunNames
  <2>2. u.st["RUN"] = "PEND"
    BY <2>1 DEF RunSet
  <2>3. k < T.jobs => Some(Tail(seq), MarkSet(T))
    BY <1>5 DEF JobSafe
  <2>4. ~Begins(T, k, Tail(seq))
    BY <1>5, ShapeIs
  <2> QED BY <2>2, <2>3, <2>4 DEF JobSafe, Clear, u
<1>6. CASE x = Pass /\ Left(T, k, seq) /\ Tail(seq) = << >> /\ seq = << Pass >>
  <2>1. s = "PASS" /\ x.phases = << "RUN" >>
    BY <1>6, RunNames DEF Pass, Set
  <2>2. RunSet(u, X, s)
    BY <1>2, <2>1
  <2>3. JobSafe(T, k, u, Tail(seq))
    BY <1>6, ShapeIs DEF JobSafe
  <2>4. k < T.jobs => X.st[M] = "PEND"
    <3>1. ~Some(<< Pass >>, MarkSet(T))
      <4>1. Pass \notin MarkSet(T)
        BY RunNames
      <4> QED BY <4>1, OneIs
    <3> QED BY <3>1, <1>6 DEF JobSafe, M
  <2>5. X.st["RUN"] = "PEND"
    BY <1>6 DEF JobSafe
  <2>6. k < T.jobs => u.st[M] = "PEND"
    BY <2>2, <2>4, <2>5, <1>3 DEF RunSet
  <2>7. k < T.jobs => ~Clear(u)
    BY <2>6, <1>3 DEF Clear
  <2> QED BY <2>1, <2>3, <2>7, <1>6 DEF u
<1>7. CASE x = Fail /\ seq = << Fail >> /\ Tail(seq) = << >>
  <2>1. s = "FAIL" /\ x.phases = << "RUN" >>
    BY <1>7, RunNames DEF Fail, Set
  <2>2. u.st["RUN"] = "FAIL"
    BY <1>2, <2>1 DEF RunSet
  <2>3. JobSafe(T, k, u, Tail(seq))
    BY <1>7, ShapeIs DEF JobSafe
  <2> QED BY <2>2, <2>3, <1>4 DEF Clear, u
<1>8. CASE x \in Between(T, k) /\ Left(T, k, seq) /\ Left(T, k, Tail(seq))
  <2>1. CASE x \in {Begin, Pass, Fail}
    <3>1. FALSE
      <4>1. x = Begin => FALSE
        BY <1>8, ShapeIs
      <4>2. x # Begin => x \notin Marking /\ x.act = "set" /\ x.to # AnyResult
        BY <2>1, RunNames DEF AnyResult
      <4>3. \A p \in ResultPhases : Set(<< p >>, AnyResult).to = AnyResult
        BY DEF Set
      <4> QED BY <4>1, <4>2, <4>3, <1>8, BetweenIs
    <3> QED BY <3>1
  <2>2. CASE ResultsSet(u, X, x.phases, s) /\ x.phases \in Seq(Phases \ Core)
    <3>1. \A q \in Phases : u.st[q] = IF Listed(x.phases, q) THEN s ELSE X.st[q]
      BY <2>2 DEF ResultsSet
    <3>2. ~Listed(x.phases, "RUN")
      <4> DEFINE ps == x.phases
      <4>1. ps \in Seq(Phases \ Core)
        BY <2>2
      <4> HIDE DEF ps
      <4>2. \A i \in DOMAIN ps : ps[i] \notin Core
        BY <4>1
      <4> QED BY <4>2, <1>4 DEF Listed, ps
    <3>3. X.st["RUN"] = "PEND"
      BY <1>8 DEF JobSafe
    <3>4. u.st["RUN"] = "PEND"
      BY <3>1, <3>2, <3>3, <1>4
    <3>5. ~Begins(T, k, Tail(seq))
      BY <1>8, ShapeIs
    <3>6. ASSUME k < T.jobs
          PROVE  u.st[M] = "PEND" \/ Some(Tail(seq), MarkSet(T))
      <4>1. X.st[M] = "PEND" \/ Some(seq, MarkSet(T))
        BY <1>8, <3>6 DEF JobSafe, M
      <4>2. x \in Marking \cup Watching
        BY <1>8, <3>6, BetweenIs
      <4>3. CASE x \in MarkSet(T)
        <5>1. Listed(x.phases, M) /\ s = "PEND"
          BY <4>3, MarkingIs DEF MarkSet, M
        <5> QED BY <5>1, <3>1, <3>6, <1>3
      <4>4. CASE x \notin MarkSet(T) /\ Some(seq, MarkSet(T))
        BY <4>4, <1>8, LeftSeq, TailSome
      <4>5. CASE x \notin MarkSet(T) /\ X.st[M] = "PEND"
        <5>1. CASE x \in Marking
          <6>1. ~Listed(x.phases, M)
            BY <4>5, <5>1 DEF MarkSet, M
          <6> QED BY <6>1, <4>5, <3>1, <3>6, <1>3
        <5>2. CASE x \in Watching
          <6>1. x.phases = << "MEMLEAK" >> \/ x.phases = << "SHORT_TERM_ARCHIVER" >>
            BY <5>2 DEF Watching, Set
          <6>2. ~Listed(x.phases, M)
            BY <6>1, <1>3, <3>6, ResultNames DEF Listed
          <6> QED BY <6>2, <4>5, <3>1, <3>6, <1>3
        <5> QED BY <5>1, <5>2, <4>2
      <4> QED BY <4>1, <4>3, <4>4, <4>5
    <3> QED BY <3>4, <3>5, <3>6 DEF JobSafe, Clear, u, M
  <2> QED BY <2>1, <2>2, <1>2
<1> QED BY <1>5, <1>6, <1>7, <1>8, HeadIs

\* A step of a job that is no with block.
LEMMA QuietSafe ==
    ASSUME NEW T, NEW k, NEW X, NEW seq, Steps(T, k, seq), seq # << >>, JobSafe(T, k, X, seq),
           Head(seq).act # "set"
    PROVE  /\ Left(T, k, seq) /\ X.st["RUN"] = "PEND"
           /\ JobSafe(T, k, X, Tail(seq)) /\ JobSafe(T, k, X, << Fail >>)
<1>1. Left(T, k, seq) /\ Left(T, k, Tail(seq))
  BY HeadIs, RunNames
<1>2. X.st["RUN"] = "PEND"
  BY <1>1 DEF JobSafe
<1>3. Some(seq, MarkSet(T)) => Some(Tail(seq), MarkSet(T))
  <2>1. Head(seq) \notin MarkSet(T)
    BY RunNames, MarkingIs
  <2> QED BY <1>1, <2>1, LeftSeq, TailSome
<1>4. ~Begins(T, k, Tail(seq))
  BY <1>1, ShapeIs
<1> QED BY <1>1, <1>2, <1>3, <1>4, ShapeIs DEF JobSafe

\* The last job has run and passed.
LastDone == job[Jobs] = "over" /\ outcome[Jobs] = "PASS"

Active == {"run", "flush", "write"}
Early  == {"none", "start", "flush", "write", "queue"}

\* A submission that has not come to the queue has no job.
Unqueued == \A k \in K : submit[k] \in Early => job[k] = "none"

\* Nothing clear is ever in the file, nor in a memory that will be written to it,
\* but after the last job, or in the last flush of it.
PassInv ==
    /\ Unqueued
    /\ Clear(file) => LastDone
    /\ \A k \in K : submit[k] \in {"flush", "write", "flushFail", "writeFail"} /\ Clear(submitMem[k])
                       => LastDone
    /\ \A k \in K : job[k] \in Active =>
          /\ JobSafe(test, k, jobMem[k], todo[k])
          /\ Clear(jobMem[k]) => LastDone \/ (k = Jobs /\ todo[k] = << >> /\ outcome[k] = "PASS")
    /\ PassMeansRan

\* What a step of the k-th job or submission has to keep.
LEMMA PassFrame ==
    ASSUME TypeInv, PassInv, test' = test, NEW k \in K, UNCHANGED waitVars, Unqueued',
           LastDone => LastDone',
           Clear(file') => LastDone',
           \A l \in K : submit'[l] \in {"flush", "write", "flushFail", "writeFail"} /\ Clear(submitMem'[l])
                           => LastDone',
           \A l \in K \ {k} : /\ job'[l] = job[l] /\ jobMem'[l] = jobMem[l] /\ todo'[l] = todo[l]
                              /\ outcome'[l] = outcome[l],
           job'[k] \in Active => /\ JobSafe(test, k, jobMem'[k], todo'[k])
                                 /\ Clear(jobMem'[k]) =>
                                       \/ LastDone'
                                       \/ k = Jobs /\ todo'[k] = << >> /\ outcome'[k] = "PASS"
    PROVE  PassInv'
<1>1. K' = K /\ Jobs' = Jobs
  BY DEF K, Jobs
<1>2. PassMeansRan'
  BY <1>1 DEF PassInv, PassMeansRan, LastDone, waitVars
<1>3. ASSUME NEW l \in K, job'[l] \in Active
      PROVE  /\ JobSafe(test, l, jobMem'[l], todo'[l])
             /\ Clear(jobMem'[l]) =>
                   LastDone' \/ (l = Jobs /\ todo'[l] = << >> /\ outcome'[l] = "PASS")
  <2>1. CASE l = k
    BY <2>1, <1>3
  <2>2. CASE l # k
    <3>1. /\ job'[l] = job[l] /\ jobMem'[l] = jobMem[l] /\ todo'[l] = todo[l]
          /\ outcome'[l] = outcome[l]
      BY <2>2
    <3>2. /\ JobSafe(test, l, jobMem[l], todo[l])
          /\ Clear(jobMem[l]) => LastDone \/ (l = Jobs /\ todo[l] = << >> /\ outcome[l] = "PASS")
      BY <3>1, <1>3 DEF PassInv
    <3> QED BY <3>1, <3>2
  <2> QED BY <2>1, <2>2
<1> QED BY <1>1, <1>2, <1>3 DEF PassInv

LEMMA NotClear ==
    /\ ~Clear(EmptyStatus)
    /\ ~Clear(Built)
    /\ \A t, s : IsStatus(t) /\ s \in {"PASS", "FAIL"} => ~Clear(SetIn(t, "SUBMIT", s))
    /\ \A t : IsStatus(t) => ~Clear(SetIn(t, "RUN", "FAIL"))
<1>1. "RUN" \in Phases /\ "SUBMIT" \in Core /\ "RUN" \in Core
  BY Names, PhaseOrder
<1>2. EmptyStatus.st["RUN"] = NoStatus /\ Built.st["RUN"] = NoStatus
  BY <1>1, BuiltIs DEF EmptyStatus
<1>3. ASSUME NEW t, IsStatus(t), NEW s \in {"PASS", "FAIL"}
      PROVE  ~Clear(SetIn(t, "SUBMIT", s))
  <2> DEFINE u == SetIn(t, "SUBMIT", s)
  <2>1. SubmitSet(u, t, s)
    BY <1>3, SetSubmit DEF Statuses
  <2> HIDE DEF u
  <2>2. s = "PASS" => u.st["RUN"] = "PEND"
    BY <2>1 DEF SubmitSet
  <2>3. u.st["SUBMIT"] = s
    BY <2>1 DEF SubmitSet
  <2>4. ~Clear(u)
    BY <2>2, <2>3, <1>1 DEF Clear
  <2> QED BY <2>4 DEF u
<1>4. ASSUME NEW t, IsStatus(t)
      PROVE  ~Clear(SetIn(t, "RUN", "FAIL"))
  <2> DEFINE u == SetIn(t, "RUN", "FAIL")
  <2>1. RunSet(u, t, "FAIL")
    BY <1>4, SetRun DEF Statuses
  <2> HIDE DEF u
  <2>2. u.st["RUN"] = "FAIL"
    BY <2>1 DEF RunSet
  <2>3. ~Clear(u)
    BY <2>2 DEF Clear
  <2> QED BY <2>3 DEF u
<1> QED BY <1>2, <1>3, <1>4 DEF Clear, NoStatus

\* What all the steps of a submission have in common.
LEMMA SubmitFrame ==
    ASSUME TypeInv, Unqueued, NEW k \in K, Submit(k), test' = test
    PROVE  /\ Unqueued'
           /\ UNCHANGED << jobMem, todo, outcome, waitVars >>
           /\ job' = job \/ (submit[k] = "queue" /\ job[k] = "none" /\ job' = [job EXCEPT ![k] = "queued"])
           /\ \A l \in K \ {k} : /\ submit'[l] = submit[l] /\ submitMem'[l] = submitMem[l]
                                 /\ job'[l] = job[l]
<1>1. K' = K /\ Jobs' = Jobs
  BY DEF K, Jobs
<1>2. /\ submit \in [K -> {"none", "start", "flush", "write", "queue", "error", "flushFail",
                           "writeFail", "done", "failed"}]
      /\ DOMAIN job = K /\ DOMAIN submitMem = K
  BY DEF TypeInv, TypeOK
<1>3. UNCHANGED << jobMem, todo, outcome, waitVars >>
  BY DEF Submit, SubmitRead, SubmitError, SubmitFlush, SubmitWrite, Queue, jobVars
<1>4. job' = job \/ (submit[k] = "queue" /\ job[k] = "none" /\ job' = [job EXCEPT ![k] = "queued"])
  BY DEF Submit, SubmitRead, SubmitError, SubmitFlush, SubmitWrite, Queue, jobVars, Unqueued, Early
<1>5. \A l \in K \ {k} : job'[l] = job[l]
  BY <1>2, <1>4
<1>6. \A l \in K \ {k} : submit'[l] = submit[l]
  BY <1>2 DEF Submit, SubmitRead, SubmitError, SubmitFlush, SubmitWrite, Queue
<1>7. \A l \in K \ {k} : submitMem'[l] = submitMem[l]
  <2>1. CASE SubmitRead(k)
    <3> DEFINE mem == IF file.st["SUBMIT"] = "PASS" THEN file ELSE SetIn(file, "SUBMIT", "PASS")
    <3>1. submitMem' = [submitMem EXCEPT ![k] = mem]
      BY <2>1 DEF SubmitRead
    <3> HIDE DEF mem
    <3> QED BY <3>1, <1>2
  <2>2. CASE ~SubmitRead(k)
    BY <2>2, <1>2 DEF Submit, SubmitError, SubmitFlush, SubmitWrite, Queue
  <2> QED BY <2>1, <2>2
<1>8. Unqueued'
  <2>1. submit'[k] \in Early => submit[k] \in Early /\ job' = job
    BY <1>2 DEF Submit, SubmitRead, SubmitError, SubmitFlush, SubmitWrite, Queue, Early, After, jobVars
  <2> QED BY <2>1, <1>1, <1>5, <1>6 DEF Unqueued
<1> QED BY <1>3, <1>4, <1>5, <1>6, <1>7, <1>8

LEMMA SubmitKeepsPass ==
    ASSUME TypeInv, PassInv, NEW k \in K, Submit(k), test' = test
    PROVE  PassInv'
<1>1. K' = K /\ Jobs' = Jobs /\ test \in Tests /\ IsStatus(file) /\ Jobs \in K
  BY Counting DEF K, Jobs, TypeInv, TypeOK
<1>2. /\ submit \in [K -> {"none", "start", "flush", "write", "queue", "error", "flushFail",
                           "writeFail", "done", "failed"}]
      /\ DOMAIN job = K /\ DOMAIN submitMem = K
  BY DEF TypeInv, TypeOK
<1>3. UNCHANGED << jobMem, todo, outcome, waitVars >> /\ Unqueued'
  BY SubmitFrame DEF PassInv
<1>4. job' = job \/ (submit[k] = "queue" /\ job[k] = "none" /\ job' = [job EXCEPT ![k] = "queued"])
  BY SubmitFrame DEF PassInv
<1>5. LastDone => LastDone'
  BY <1>1, <1>2, <1>3, <1>4 DEF LastDone
<1>6. \A l \in K \ {k} : /\ job'[l] = job[l] /\ jobMem'[l] = jobMem[l] /\ todo'[l] = todo[l]
                         /\ outcome'[l] = outcome[l]
  BY <1>2, <1>3, <1>4
<1>7. job'[k] \in Active => job[k] = job'[k]
  BY <1>2, <1>4 DEF Active
<1>8. job'[k] \in Active => /\ JobSafe(test, k, jobMem'[k], todo'[k])
                            /\ Clear(jobMem'[k]) =>
                                  \/ LastDone'
                                  \/ k = Jobs /\ todo'[k] = << >> /\ outcome'[k] = "PASS"
  BY <1>3, <1>5, <1>7 DEF PassInv
<1>10. Clear(file') => LastDone'
  <2>1. \/ file' = file \/ file' = EmptyStatus
        \/ submit[k] \in {"write", "writeFail"} /\ file' = submitMem[k]
    BY DEF Submit, SubmitRead, SubmitError, SubmitFlush, SubmitWrite, Queue
  <2> QED BY <2>1, <1>5, NotClear DEF PassInv
<1>11. \A l \in K : submit'[l] \in {"flush", "write", "flushFail", "writeFail"} /\ Clear(submitMem'[l])
                      => LastDone'
  <2>1. CASE SubmitRead(k)
    <3> DEFINE mem == IF file.st["SUBMIT"] = "PASS" THEN file ELSE SetIn(file, "SUBMIT", "PASS")
    <3>1. Clear(mem) => LastDone
      BY <1>1, NotClear DEF PassInv
    <3>2. submitMem' = [submitMem EXCEPT ![k] = mem]
      BY <2>1 DEF SubmitRead
    <3> HIDE DEF mem
    <3>3. \A l \in K : l # k => submitMem'[l] = submitMem[l] /\ submit'[l] = submit[l]
      BY <1>2, <2>1, <3>2 DEF SubmitRead
    <3> QED BY <3>1, <3>2, <3>3, <1>2, <1>5 DEF PassInv
  <2>2. CASE SubmitError(k)
    <3> DEFINE mem == SetIn(file, "SUBMIT", "FAIL")
    <3>1. ~Clear(mem)
      BY <1>1, NotClear
    <3>2. submitMem' = [submitMem EXCEPT ![k] = mem]
      BY <2>2 DEF SubmitError
    <3> HIDE DEF mem
    <3>3. \A l \in K : l # k => submitMem'[l] = submitMem[l] /\ submit'[l] = submit[l]
      BY <1>2, <2>2, <3>2 DEF SubmitError
    <3> QED BY <3>1, <3>2, <3>3, <1>2, <1>5 DEF PassInv
  <2>3. CASE SubmitFlush(k) \/ SubmitWrite(k) \/ Queue(k)
    <3>1. submitMem' = submitMem
      BY <2>3 DEF SubmitFlush, SubmitWrite, Queue
    <3>2. \A l \in K : submit'[l] \in {"flush", "write", "flushFail", "writeFail"}
                          => submit[l] \in {"flush", "write", "flushFail", "writeFail"}
      BY <1>2, <2>3 DEF SubmitFlush, SubmitWrite, Queue, After
    <3> QED BY <3>1, <3>2, <1>5 DEF PassInv
  <2> QED BY <2>1, <2>2, <2>3 DEF Submit
<1> QED BY <1>3, <1>5, <1>6, <1>8, <1>10, <1>11, PassFrame

\* What all the steps of a job have in common.
LEMMA JobFrame ==
    ASSUME TypeInv, Unqueued, NEW k \in K, Job(k) \/ Kill(k), test' = test
    PROVE  /\ job[k] # "none" /\ Unqueued'
           /\ \A l \in K \ {k} : /\ job'[l] = job[l] /\ jobMem'[l] = jobMem[l]
                                 /\ todo'[l] = todo[l] /\ outcome'[l] = outcome[l]
           /\ \A l \in K : submit'[l] = submit[l] \/ (submit[l] = "none" /\ submit'[l] = "start")
           /\ UNCHANGED submitMem /\ UNCHANGED waitVars
<1>1. K' = K /\ Jobs' = Jobs
  BY DEF K, Jobs
<1>2. /\ submit \in [K -> {"none", "start", "flush", "write", "queue", "error", "flushFail",
                           "writeFail", "done", "failed"}]
      /\ DOMAIN job = K /\ DOMAIN jobMem = K /\ DOMAIN todo = K /\ DOMAIN outcome = K
  <2>1. DOMAIN outcome = K
    <3> DEFINE R == AnyResult \cup {""}
    <3>1. outcome \in [K -> R]
      BY DEF TypeInv, TypeOK
    <3> HIDE DEF R
    <3> QED BY <3>1
  <2>2. /\ submit \in [K -> {"none", "start", "flush", "write", "queue", "error", "flushFail",
                           "writeFail", "done", "failed"}]
        /\ job \in [K -> {"none", "queued", "run", "flush", "write", "over", "killed"}]
    BY DEF TypeInv, TypeOK
  <2> QED BY <2>1, <2>2 DEF TypeInv
<1>3. UNCHANGED << submitMem, waitVars >>
  BY DEF Job, Start, SetNext, JudgeNext, JobFlush, JobWrite, RunModel, Resubmit, Archive, Kill,
         submitVars
<1>4. job[k] # "none"
  BY DEF Job, Start, SetNext, JudgeNext, JobFlush, JobWrite, RunModel, Resubmit, Archive, Kill
<1>5. \A l \in K \ {k} : job'[l] = job[l] /\ jobMem'[l] = jobMem[l]
  <2>1. CASE Start(k)
    BY <2>1, <1>2 DEF Start
  <2>2. CASE SetNext(k)
    BY <2>2, <1>2 DEF SetNext
  <2>3. CASE JudgeNext(k)
    BY <2>3, <1>2 DEF JudgeNext
  <2>4. CASE JobFlush(k) \/ JobWrite(k) \/ RunModel(k) \/ Resubmit(k) \/ Archive(k) \/ Kill(k)
    BY <2>4, <1>2 DEF JobFlush, JobWrite, RunModel, Resubmit, Archive, Kill, jobVars
  <2> QED BY <2>1, <2>2, <2>3, <2>4 DEF Job
<1>6. \A l \in K \ {k} : todo'[l] = todo[l] /\ outcome'[l] = outcome[l]
  <2>1. CASE Start(k)
    BY <2>1, <1>2 DEF Start
  <2>2. CASE SetNext(k)
    BY <2>2, <1>2 DEF SetNext, GoOn
  <2>3. CASE JudgeNext(k)
    BY <2>3, <1>2 DEF JudgeNext, GoOn
  <2>4. CASE JobFlush(k) \/ JobWrite(k) \/ RunModel(k) \/ Resubmit(k) \/ Archive(k) \/ Kill(k)
    BY <2>4, <1>2 DEF JobFlush, JobWrite, RunModel, Resubmit, Archive, Kill, jobVars, GoOn
  <2> QED BY <2>1, <2>2, <2>3, <2>4 DEF Job
<1>7. \/ UNCHANGED submit
      \/ submit[k + 1] = "none" /\ submit' = [submit EXCEPT ![k + 1] = "start"]
  BY DEF Job, Start, SetNext, JudgeNext, JobFlush, JobWrite, RunModel, Resubmit, Archive, Kill,
         submitVars
<1>8. \A l \in K : submit'[l] = submit[l] \/ (submit[l] = "none" /\ submit'[l] = "start")
  BY <1>2, <1>7
<1>9. ASSUME NEW l \in K, submit'[l] \in Early
      PROVE  job'[l] = "none"
  <2>1. submit[l] \in Early
    BY <1>8, <1>9 DEF Early
  <2>2. job[l] = "none"
    BY <2>1 DEF Unqueued
  <2> QED BY <2>2, <1>4, <1>5
<1>10. Unqueued'
  BY <1>1, <1>9 DEF Unqueued
<1>11. UNCHANGED submitMem /\ UNCHANGED waitVars
  BY <1>3
<1>12. \A l \in K \ {k} : /\ job'[l] = job[l] /\ jobMem'[l] = jobMem[l]
                           /\ todo'[l] = todo[l] /\ outcome'[l] = outcome[l]
  BY <1>5, <1>6
<1> QED BY <1>4, <1>8, <1>10, <1>11, <1>12

LEMMA JobEffects ==
    ASSUME TypeInv, PassInv, NEW k \in K, Job(k) \/ Kill(k), test' = test
    PROVE  /\ Unqueued' /\ UNCHANGED waitVars
           /\ \A l \in K \ {k} : /\ job'[l] = job[l] /\ jobMem'[l] = jobMem[l]
                                 /\ todo'[l] = todo[l] /\ outcome'[l] = outcome[l]
           /\ LastDone => LastDone'
           /\ \A l \in K :
                submit'[l] \in {"flush", "write", "flushFail", "writeFail"} /\ Clear(submitMem'[l])
                   => LastDone'
<1>1. Jobs' = Jobs /\ Jobs \in K
  BY Counting DEF Jobs, TypeInv, TypeOK
<1>2. /\ \A l \in K \ {k} : /\ job'[l] = job[l] /\ jobMem'[l] = jobMem[l]
                            /\ todo'[l] = todo[l] /\ outcome'[l] = outcome[l]
      /\ \A l \in K : submit'[l] = submit[l] \/ (submit[l] = "none" /\ submit'[l] = "start")
      /\ UNCHANGED submitMem /\ UNCHANGED waitVars /\ Unqueued'
  BY JobFrame DEF PassInv
<1>3. LastDone => LastDone'
  <2>1. job[k] = "over" => job'[k] = "over" /\ outcome' = outcome
    <3>1. job[k] = "over" => Archive(k)
      BY DEF Job, Start, SetNext, JudgeNext, JobFlush, JobWrite, RunModel, Resubmit, Kill
    <3> QED BY <3>1 DEF Archive, jobVars
  <2> QED BY <2>1, <1>1, <1>2 DEF LastDone
<1>4. ASSUME NEW l \in K, submit'[l] \in {"flush", "write", "flushFail", "writeFail"},
             Clear(submitMem'[l])
      PROVE  LastDone'
  BY <1>2, <1>3, <1>4 DEF PassInv
<1>5. \A l \in K :
          submit'[l] \in {"flush", "write", "flushFail", "writeFail"} /\ Clear(submitMem'[l])
             => LastDone'
  BY <1>4
<1> QED BY <1>2, <1>3, <1>5

LEMMA JobKeepsPass ==
    ASSUME TypeInv, PassInv, LeavesMark(test), NEW k \in K, Job(k) \/ Kill(k), test' = test
    PROVE  PassInv'
<1> DEFINE Safe == job'[k] \in Active =>
                      /\ JobSafe(test, k, jobMem'[k], todo'[k])
                      /\ Clear(jobMem'[k]) =>
                            \/ LastDone'
                            \/ k = Jobs /\ todo'[k] = << >> /\ outcome'[k] = "PASS"
<1>1. /\ K' = K /\ Jobs' = Jobs /\ test \in Tests /\ IsStatus(file) /\ IsStatus(jobMem[k])
      /\ Steps(test, k, todo[k]) /\ Jobs = test.jobs /\ (k < Jobs \/ k = Jobs)
      /\ (k < test.jobs => test.jobs # 1)
  <2>1. test \in Tests
    BY DEF TypeInv, TypeOK
  <2>2. Jobs = test.jobs /\ Jobs \in Nat /\ k \in Nat /\ (k < Jobs \/ k = Jobs) /\ K = 1..Jobs
    BY <2>1, Counting
  <2>3. k < test.jobs => test.jobs # 1
    BY <2>2
  <2>4. K' = K /\ Jobs' = Jobs
    BY DEF K, Jobs
  <2> QED BY <2>1, <2>2, <2>3, <2>4 DEF TypeInv, TypeOK
<1>2. /\ DOMAIN job = K /\ DOMAIN jobMem = K /\ DOMAIN todo = K /\ DOMAIN outcome = K
  <2>1. DOMAIN outcome = K
    <3> DEFINE R == AnyResult \cup {""}
    <3>1. outcome \in [K -> R]
      BY DEF TypeInv, TypeOK
    <3> HIDE DEF R
    <3> QED BY <3>1
  <2>2. job \in [K -> {"none", "queued", "run", "flush", "write", "over", "killed"}]
    BY DEF TypeInv, TypeOK
  <2> QED BY <2>1, <2>2 DEF TypeInv
<1>3. /\ LastDone => LastDone'
      /\ Clear(file) => LastDone
      /\ job[k] \in Active =>
            /\ JobSafe(test, k, jobMem[k], todo[k])
            /\ Clear(jobMem[k]) => LastDone \/ (k = Jobs /\ todo[k] = << >> /\ outcome[k] = "PASS")
  BY JobEffects DEF PassInv
<1>4. CASE Start(k)
  <2> DEFINE bad == IF MaySet(file.st, "RUN") THEN SetIn(file, "RUN", "FAIL") ELSE file
  <2>1. Clear(bad) => LastDone
    BY <1>1, <1>3, NotClear
  <2>2. ASSUME jobMem' = [jobMem EXCEPT ![k] = file], todo' = [todo EXCEPT ![k] = Script(k)]
        PROVE  Safe
    <3>1. JobSafe(test, k, jobMem'[k], todo'[k])
      <4>1. Begins(test, k, Script(k)) /\ (k < Jobs => Some(Tail(Script(k)), MarkSet(test)))
        BY <1>1, ScriptIs
      <4>2. ~Left(test, k, Script(k))
        BY <4>1, ShapeIs
      <4>3. Script(k) # << Fail >>
        BY <4>1, ShapeIs
      <4>4. JobSafe(test, k, file, Script(k))
        BY <4>1, <4>2, <4>3, <1>1 DEF JobSafe
      <4> QED BY <4>4, <2>2, <1>2
    <3> QED BY <3>1, <2>2, <1>2, <1>3
  <2>3. ASSUME jobMem' = [jobMem EXCEPT ![k] = bad], todo' = [todo EXCEPT ![k] = << >>]
        PROVE  Safe
    <3> HIDE DEF bad
    <3>1. JobSafe(test, k, jobMem'[k], todo'[k])
      BY <2>3, <1>2, ShapeIs DEF JobSafe
    <3> QED BY <3>1, <2>1, <2>3, <1>2, <1>3
  <2>4. Safe
    <3>1. \/ jobMem' = [jobMem EXCEPT ![k] = file] /\ todo' = [todo EXCEPT ![k] = Script(k)]
          \/ jobMem' = [jobMem EXCEPT ![k] = bad] /\ todo' = [todo EXCEPT ![k] = << >>]
      BY <1>4 DEF Start
    <3> HIDE DEF bad, Safe
    <3> QED BY <2>2, <2>3, <3>1
  <2>5. file' = file
    BY <1>4 DEF Start
  <2> QED BY <2>4, <2>5, <1>3, JobEffects, PassFrame
<1>5. CASE SetNext(k)
  <2> DEFINE x == Head(todo[k])
             t == Tail(todo[k])
  <2>1. job[k] = "run" /\ todo[k] # << >> /\ x.act = "set" /\ job[k] \in Active /\ file' = file
    BY <1>5 DEF SetNext, Active
  <2>2. \/ \E s \in x.to :
              /\ jobMem' = [jobMem EXCEPT ![k] = SetAll(@, x.phases, s)]
              /\ outcome' = [outcome EXCEPT ![k] = IF x.phases = << "RUN" >> /\ s # "PEND" THEN s ELSE @]
              /\ todo' = [todo EXCEPT ![k] = t]
        \/ UNCHANGED jobMem /\ todo' = [todo EXCEPT ![k] = << >>]
    BY <1>5 DEF SetNext, GoOn
  <2>3. CASE UNCHANGED jobMem /\ todo' = [todo EXCEPT ![k] = << >>]
    <3>1. JobSafe(test, k, jobMem'[k], todo'[k])
      BY <2>3, <1>2, ShapeIs DEF JobSafe
    <3>2. Clear(jobMem'[k]) => LastDone'
      BY <2>1, <2>3, <1>3
    <3> QED BY <3>1, <3>2, <2>1, <1>3, JobEffects, PassFrame
  <2>4. ASSUME NEW s \in x.to,
               jobMem' = [jobMem EXCEPT ![k] = SetAll(@, x.phases, s)],
               outcome' = [outcome EXCEPT ![k] = IF x.phases = << "RUN" >> /\ s # "PEND" THEN s ELSE @],
               todo' = [todo EXCEPT ![k] = t]
        PROVE  PassInv'
    <3> DEFINE u == SetAll(jobMem[k], x.phases, s)
    <3>1. /\ JobSafe(test, k, u, t)
          /\ Clear(u) => /\ ~(k < test.jobs) /\ t = << >> /\ x.phases = << "RUN" >> /\ s = "PASS"
      <4> DEFINE seq == todo[k]
                 X == jobMem[k]
      <4>1. /\ IsStatus(X) /\ Steps(test, k, seq) /\ seq # << >> /\ JobSafe(test, k, X, seq)
            /\ Head(seq).act = "set" /\ s \in Head(seq).to /\ test \in Tests /\ LeavesMark(test)
            /\ (k < test.jobs => test.jobs # 1)
        BY <2>1, <1>1, <1>3
      <4> HIDE DEF seq, X
      <4>2. /\ JobSafe(test, k, SetAll(X, Head(seq).phases, s), Tail(seq))
            /\ Clear(SetAll(X, Head(seq).phases, s)) =>
                   /\ ~(k < test.jobs) /\ Tail(seq) = << >>
                   /\ Head(seq).phases = << "RUN" >> /\ s = "PASS"
        BY <4>1, BlockSafe
      <4> QED BY <4>2 DEF seq, X
    <3>2. jobMem'[k] = u /\ todo'[k] = t
      BY <2>4, <1>2
    <3>3. x.phases = << "RUN" >> /\ s = "PASS" => outcome'[k] = "PASS"
      BY <2>4, <1>2
    <3> HIDE DEF u, t, x
    <3> QED BY <3>1, <3>2, <3>3, <2>1, <1>1, <1>3, JobEffects, PassFrame
  <2> QED BY <2>2, <2>3, <2>4
<1>6. CASE JudgeNext(k)
  <2> DEFINE x == Head(todo[k])
             p == x.phases[1]
             X == jobMem[k]
  <2>1. job[k] = "run" /\ todo[k] # << >> /\ x.act = "judge" /\ job[k] \in Active /\ file' = file
        /\ todo' = [todo EXCEPT ![k] = Tail(todo[k])]
    BY <1>6 DEF JudgeNext, Active, GoOn
  <2>2. Left(test, k, todo[k]) /\ X.st["RUN"] = "PEND" /\ Left(test, k, Tail(todo[k]))
    <3> DEFINE seq == todo[k]
    <3>1. Steps(test, k, seq) /\ seq # << >> /\ JobSafe(test, k, X, seq) /\ Head(seq).act # "set"
      BY <2>1, <1>1, <1>3
    <3> HIDE DEF seq, X
    <3>2. Left(test, k, seq) /\ X.st["RUN"] = "PEND"
      BY <3>1, QuietSafe
    <3>3. Left(test, k, Tail(seq))
      BY <3>1, HeadIs, RunNames
    <3> QED BY <3>2, <3>3 DEF seq, X
  <2>3. x \in Between(test, k)
    BY <2>1, <1>1, HeadIs, RunNames
  <2>4. x \in Judging /\ ~(k < test.jobs)
    BY <2>1, <2>3, BetweenIs
  <2>5. p \in Phases \ Core /\ "RUN" \in Core /\ "RUN" \in Phases
    BY <2>4, ResultNames, Names, PhaseOrder DEF Judging, Judge
  <2>6. \/ UNCHANGED jobMem
        \/ \E s \in {"PASS", "FAIL"} : jobMem' = [jobMem EXCEPT ![k] = SetIn(X, p, s)]
    BY <1>6 DEF JudgeNext
  <2> HIDE DEF p, X
  <2>7. ASSUME NEW s \in {"PASS", "FAIL"} PROVE SetIn(X, p, s).st["RUN"] = "PEND"
    <3>1. \A q \in Phases : SetIn(X, p, s).st[q] = IF q = p THEN s ELSE X.st[q]
      BY <2>5, <1>1, SetResult DEF Statuses, X
    <3> QED BY <3>1, <2>2, <2>5
  <2>8. jobMem'[k].st["RUN"] = "PEND"
    BY <2>2, <2>6, <2>7, <1>2 DEF X
  <2>9. ~Begins(test, k, Tail(todo[k]))
    BY <2>2, ShapeIs
  <2>10. JobSafe(test, k, jobMem'[k], Tail(todo[k])) /\ ~Clear(jobMem'[k])
    BY <2>4, <2>8, <2>9 DEF JobSafe, Clear
  <2>11. todo'[k] = Tail(todo[k])
    BY <2>1, <1>2
  <2> QED BY <2>1, <2>10, <2>11, <1>3, JobEffects, PassFrame
<1>7. CASE RunModel(k) \/ Resubmit(k)
  <2>1. /\ job[k] \in Active /\ todo[k] # << >> /\ Head(todo[k]).act # "set"
        /\ UNCHANGED << file, jobMem, outcome >>
        /\ \/ UNCHANGED todo \/ todo' = [todo EXCEPT ![k] = Tail(todo[k])]
           \/ todo' = [todo EXCEPT ![k] = << Fail >>]
    BY <1>7 DEF RunModel, Resubmit, GoOn, Fail, Active
  <2>2. /\ JobSafe(test, k, jobMem[k], todo[k]) /\ jobMem[k].st["RUN"] = "PEND"
        /\ JobSafe(test, k, jobMem[k], Tail(todo[k])) /\ JobSafe(test, k, jobMem[k], << Fail >>)
    BY <2>1, <1>1, <1>3, QuietSafe
  <2>3. todo'[k] = todo[k] \/ todo'[k] = Tail(todo[k]) \/ todo'[k] = << Fail >>
    BY <2>1, <1>2
  <2>4. JobSafe(test, k, jobMem'[k], todo'[k]) /\ ~Clear(jobMem'[k])
    BY <2>1, <2>2, <2>3 DEF Clear
  <2> QED BY <2>1, <2>4, <1>3, JobEffects, PassFrame
<1>8. CASE JobFlush(k)
  <2>1. job[k] \in Active /\ file' = EmptyStatus /\ UNCHANGED << jobMem, todo, outcome >>
    BY <1>8 DEF JobFlush, Active
  <2> QED BY <2>1, <1>3, JobEffects, PassFrame, NotClear
<1>9. CASE JobWrite(k)
  <2>1. /\ job[k] \in Active /\ file' = jobMem[k] /\ UNCHANGED << jobMem, todo, outcome >>
        /\ job' = [job EXCEPT ![k] = IF todo[k] = << >> THEN "over" ELSE "run"]
    BY <1>9 DEF JobWrite, Active
  <2>2. Clear(file') => LastDone'
    <3> SUFFICES ASSUME Clear(jobMem[k]) PROVE LastDone'
      BY <2>1
    <3>1. CASE LastDone
      BY <3>1, <1>3
    <3>2. CASE k = Jobs /\ todo[k] = << >> /\ outcome[k] = "PASS"
      BY <3>2, <2>1, <1>1, <1>2 DEF LastDone
    <3> QED BY <3>1, <3>2, <2>1, <1>3
  <2> QED BY <2>1, <2>2, <1>3, JobEffects, PassFrame
<1>10. CASE Archive(k) \/ Kill(k)
  <2>1. UNCHANGED << file, jobMem, todo, outcome >> /\ (job'[k] \in Active => job[k] = job'[k])
    BY <1>10, <1>2 DEF Archive, Kill, jobVars, Active
  <2> QED BY <2>1, <1>3, JobEffects, PassFrame
<1> QED BY <1>4, <1>5, <1>6, <1>7, <1>8, <1>9, <1>10 DEF Job

LEMMA PassInvariant ==
    ASSUME \A t \in Tests : LeavesMark(t)
    PROVE  Spec => []PassInv
<1>1. Init => PassInv
  <2> SUFFICES ASSUME Init PROVE PassInv
    OBVIOUS
  <2>1. file = Built /\ \A k \in K : /\ job[k] = "none" /\ submit[k] \in {"none", "start"}
    BY DEF Init
  <2>2. verdict.status = NoStatus
    BY DEF Init, NoVerdict
  <2>3. PassMeansRan
    BY <2>2 DEF PassMeansRan, NoStatus
  <2> QED BY <2>1, <2>3, NotClear DEF PassInv, Active, Unqueued
<1>2. TypeInv /\ PassInv /\ [Next]_vars => PassInv'
  <2> SUFFICES ASSUME TypeInv, PassInv, [Next]_vars PROVE PassInv'
    OBVIOUS
  <2>1. CASE \E k \in K : (Submit(k) \/ Job(k) \/ Kill(k)) /\ test' = test
    <3>1. LeavesMark(test)
      BY DEF TypeInv, TypeOK
    <3> QED BY <2>1, <3>1, SubmitKeepsPass, JobKeepsPass
  <2>2. CASE UNCHANGED << test, file, submitVars, jobVars >> /\ PassMeansRan'
    BY <2>2 DEF PassInv, Unqueued, submitVars, jobVars, K, Jobs, LastDone
  <2>3. CASE Report /\ test' = test
    <3>1. /\ verdict'.status = Verdict(file) /\ stopped' = stopped
          /\ UNCHANGED << test, file, submitVars, jobVars >>
      BY <2>3 DEF Report, Verdict
    <3>2. Verdict(file) = "PASS" => LastDone
      BY PassIsClear DEF PassInv, TypeInv, TypeOK
    <3>3. PassMeansRan'
      BY <3>1, <3>2 DEF PassMeansRan, LastDone, Jobs, jobVars
    <3> QED BY <2>2, <3>1, <3>3
  <2>4. CASE Stop /\ test' = test
    <3>1. PassMeansRan'
      BY <2>4 DEF Stop, PassMeansRan
    <3> QED BY <2>2, <2>4, <3>1 DEF Stop
  <2>5. CASE UNCHANGED vars
    <3>1. PassMeansRan'
      BY <2>5 DEF PassInv, PassMeansRan, vars, waitVars, jobVars, Jobs
    <3> QED BY <2>2, <2>5, <3>1 DEF vars
  <2> QED BY <2>1, <2>3, <2>4, <2>5 DEF Next, Terminating
<1> QED BY <1>1, <1>2, TypeInvariant, PTL DEF Spec

\* A test is reported as passed only when its last submission has run, has passed
\* and writes nothing any more: for every number of submissions, when each run but
\* the last leaves a pending result for wait_for_tests to see.
THEOREM PassMeansRanHolds ==
    ASSUME \A t \in Tests : LeavesMark(t)
    PROVE  Spec => []PassMeansRan
  BY PassInvariant, PTL DEF PassInv

-----------------------------------------------------------------------------
(* A test whose jobs run one after the other *)

\* The core phases before RUN have passed, and what RUN is.
Cores(X, r) ==
    /\ \A p \in Core \ {"RUN"} : X.st[p] = "PASS"
    /\ X.st["RUN"] = r /\ X.st["NLCOMP"] = NoStatus

\* A file whose submission has failed, and one without results.
Refused(X)    == X.st["SUBMIT"] = "FAIL" /\ \A p \in Core \ {"SUBMIT", "RUN"} : X.st[p] = "PASS"
Resultless(X) == \A p \in Phases \ Core : X.st[p] = NoStatus

\* The first result is a pending one: what keeps wait_for_tests waiting between two jobs.
FirstPend(X) == \E q \in PendPhases : FirstIs(X, q) /\ X.st[q] = "PEND"
Waits(T, X)  == LeavesMark(T) => FirstPend(X)

\* The file when the k-th submission has been made, and before that.
Submitted(T, k, X) ==
    IF k = 1 THEN Cores(X, "PEND") /\ Resultless(X) ELSE Cores(X, "PASS") /\ Waits(T, X)
Unsubmitted(T, k, X) == IF k = 1 THEN X = Built ELSE Submitted(T, k, X)

\* A script that has not begun.
Fresh(T, k, seq) ==
    /\ Begins(T, k, seq)
    /\ k < T.jobs /\ LeavesMark(T) => Opens(Tail(seq))
    /\ k = T.jobs => Owes(Tail(seq), {})

\* The file of a job that runs: its pending phases are resolved, by the last job,
\* or hold the verdict back.
Resolved(X, seq) ==
    \A p \in Phases \ {"RUN"} : X.st[p] = "PEND" => Some(seq, {Set(<< p >>, AnyResult)})

Underway(T, k, X, seq) ==
    /\ Left(T, k, seq) /\ Cores(X, "PEND")
    /\ k < T.jobs /\ LeavesMark(T) => FirstPend(X) \/ (Resultless(X) /\ Opens(seq))
    /\ k = T.jobs => Resolved(X, seq) /\ Owes(seq, {})

\* The file of a job that has ended.
Ended(T, k, X, r) ==
    /\ r \in AnyResult /\ Cores(X, r)
    /\ r = "PASS" /\ k < T.jobs => Waits(T, X)
    /\ r = "PASS" /\ k = T.jobs => \A p \in Phases : X.st[p] # "PEND"

LEMMA RunPhases ==
    /\ "RUN" \in Core /\ "RUN" \in Phases /\ "SUBMIT" \in Core /\ "SUBMIT" \in Phases
    /\ "SUBMIT" # "RUN" /\ "NLCOMP" \in Phases /\ "NLCOMP" \notin Core /\ "NLCOMP" # "RUN"
    /\ "NLCOMP" \notin ResultPhases /\ "RUN" \notin ResultPhases
    /\ \A p \in Core : p \in Phases /\ p \notin ResultPhases /\ p # "NLCOMP"
    /\ \A p \in Phases : p \in Core \/ p = "NLCOMP" \/ p \in ResultPhases
    /\ \A p \in ResultPhases : p \in Phases /\ p \notin Core
    /\ \A p \in PendPhases : p \in Phases /\ p \in ResultPhases /\ p \notin Core
  BY PhaseOrder, Names, ResultNames

LEMMA CoresVerdict ==
    ASSUME NEW X, IsStatus(X), NEW r \in {"PEND", "FAIL"}, Cores(X, r)
    PROVE  Verdict(X) = r
  BY VerdictOfRun DEF Cores

\* A test that is submitted, or will be, is pending.
LEMMA SubmittedWaits ==
    ASSUME NEW T, LeavesMark(T), NEW k, NEW X, IsStatus(X),
           Submitted(T, k, X) \/ Unsubmitted(T, k, X)
    PROVE  Verdict(X) = "PEND"
<1>1. CASE k = 1 /\ X = Built
  <2>1. \A p \in Core \ {"SUBMIT", "RUN"} : X.st[p] = "PASS"
    BY <1>1, BuiltIs
  <2>2. X.st["SUBMIT"] = "PEND"
    BY <1>1, BuiltIs
  <2> QED BY <2>1, <2>2, VerdictOfSubmit
<1>2. CASE k = 1 /\ Cores(X, "PEND")
  BY <1>2, CoresVerdict
<1>3. CASE k # 1 /\ Cores(X, "PASS") /\ FirstPend(X)
  <2>1. \A p \in Core : X.st[p] = "PASS"
    BY <1>3 DEF Cores
  <2>2. PICK q \in PendPhases : FirstIs(X, q) /\ X.st[q] = "PEND"
    BY <1>3 DEF FirstPend
  <2> QED BY <2>1, <2>2, VerdictOfFirst
<1> QED BY <1>1, <1>2, <1>3 DEF Submitted, Unsubmitted, Waits

LEMMA RefusedVerdict ==
    ASSUME NEW X, IsStatus(X), Refused(X)
    PROVE  Verdict(X) = "FAIL"
  BY VerdictOfSubmit DEF Refused

\* The submission.
LEMMA SubmitPasses ==
    ASSUME NEW T, NEW k, NEW X, IsStatus(X), Unsubmitted(T, k, X)
    PROVE  LET u == IF X.st["SUBMIT"] = "PASS" THEN X ELSE SetIn(X, "SUBMIT", "PASS")
           IN  Submitted(T, k, u) /\ u.order # << >>
<1> DEFINE v == SetIn(X, "SUBMIT", "PASS")
<1>1. CASE k = 1
  <2>1. SubmitSet(v, X, "PASS") /\ X = Built
    BY <1>1, SetSubmit DEF Statuses, Unsubmitted
  <2>2. X.st["SUBMIT"] = "PEND" /\ (\A p \in Core \ {"SUBMIT", "RUN"} : X.st[p] = "PASS")
        /\ \A p \in Phases \ Core : X.st[p] = NoStatus
    BY <2>1, BuiltIs
  <2> HIDE DEF v
  <2>3. Cores(v, "PEND") /\ v.order # << >>
    BY <2>1, <2>2, RunPhases DEF SubmitSet, Cores
  <2>4. Resultless(v)
    <3> SUFFICES ASSUME NEW p \in Phases \ Core PROVE v.st[p] = NoStatus
      BY DEF Resultless
    <3>1. CASE p = "NLCOMP"
      BY <3>1, <2>3 DEF Cores
    <3>2. CASE p \in ResultPhases
      BY <3>2, <2>1, <2>2 DEF SubmitSet
    <3> QED BY <3>1, <3>2, RunPhases
  <2> QED BY <1>1, <2>2, <2>3, <2>4 DEF Submitted, v
<1>2. CASE k # 1
  <2>1. Cores(X, "PASS") /\ Submitted(T, k, X)
    BY <1>2 DEF Submitted, Unsubmitted
  <2>2. X.st["SUBMIT"] = "PASS"
    BY <2>1, RunPhases DEF Cores
  <2>3. X.order # << >>
    <3>1. PICK i \in DOMAIN X.order : X.order[i] = "SUBMIT"
      BY <2>2, RunPhases DEF IsStatus, NoStatus
    <3> QED BY <3>1
  <2> QED BY <2>1, <2>2, <2>3
<1> QED BY <1>1, <1>2

LEMMA SubmitRefused ==
    ASSUME NEW T, NEW k, NEW X, IsStatus(X), Submitted(T, k, X)
    PROVE  Refused(SetIn(X, "SUBMIT", "FAIL"))
<1> DEFINE u == SetIn(X, "SUBMIT", "FAIL")
<1>1. SubmitSet(u, X, "FAIL")
  BY SetSubmit DEF Statuses
<1>2. \A p \in Core \ {"RUN"} : X.st[p] = "PASS"
  BY DEF Submitted, Cores
<1> HIDE DEF u
<1>3. Refused(u)
  BY <1>1, <1>2 DEF SubmitSet, Refused
<1> QED BY <1>3 DEF u

\* An update of RUN after the other core phases.
LEMMA RunCores ==
    ASSUME NEW X, NEW u, NEW r, NEW s, Cores(X, r), RunSet(u, X, s)
    PROVE  Cores(u, s)
  BY RunPhases DEF Cores, RunSet

LEMMA MaySetRun ==
    ASSUME NEW X, NEW r, Cores(X, r)
    PROVE  MaySet(X.st, "RUN")
<1>1. PrevCore["RUN"] = "SUBMIT"
  BY CoreChain
<1>2. X.st["SUBMIT"] = "PASS"
  BY RunPhases DEF Cores
<1> QED BY <1>1, <1>2 DEF MaySet

LEMMA FailEnds ==
    ASSUME NEW T, NEW k, NEW X, IsStatus(X), NEW r, Cores(X, r)
    PROVE  Ended(T, k, SetIn(X, "RUN", "FAIL"), "FAIL") /\ SetIn(X, "RUN", "FAIL").order # << >>
<1> DEFINE u == SetIn(X, "RUN", "FAIL")
<1>1. RunSet(u, X, "FAIL") /\ u.order # << >>
  BY SetRun, SetInIs, RunPhases DEF Statuses
<1> HIDE DEF u
<1>2. Cores(u, "FAIL")
  BY <1>1, RunCores
<1>3. Ended(T, k, u, "FAIL")
  BY <1>2 DEF Ended, AnyResult
<1> QED BY <1>1, <1>3 DEF u

LEMMA TailOwes ==
    ASSUME NEW S, NEW seq \in Seq(S), seq # << >>, Owes(seq, {})
    PROVE  Owes(Tail(seq), {})
<1> DEFINE t == Tail(seq)
<1>1. /\ Len(seq) \in Nat /\ DOMAIN seq = 1..Len(seq) /\ DOMAIN t = 1..(Len(seq) - 1)
      /\ \A i \in 1..(Len(seq) - 1) : t[i] = seq[i + 1] /\ i + 1 \in DOMAIN seq
  OBVIOUS
<1>2. \A j \in DOMAIN seq : j > 1 => j - 1 \in DOMAIN t /\ t[j - 1] = seq[j]
  OBVIOUS
<1> HIDE DEF t
<1> SUFFICES ASSUME NEW i \in DOMAIN t, t[i] \in Marking, NEW p, Listed(t[i].phases, p)
             PROVE  \E j \in DOMAIN t : j > i /\ t[j] = Set(<< p >>, AnyResult)
  BY DEF Owes, t
<1>3. i \in Nat /\ i + 1 \in DOMAIN seq /\ t[i] = seq[i + 1]
  BY <1>1
<1>4. PICK j \in DOMAIN seq : j > i + 1 /\ seq[j] = Set(<< p >>, AnyResult)
  <2> DEFINE m == i + 1
  <2>1. m \in DOMAIN seq /\ seq[m] \in Marking /\ Listed(seq[m].phases, p)
    BY <1>3
  <2> HIDE DEF m
  <2>2. \E j \in DOMAIN seq : j > m /\ seq[j] = Set(<< p >>, AnyResult)
    BY <2>1 DEF Owes
  <2> QED BY <2>2 DEF m
<1>5. j \in Nat /\ j > 1 /\ j - 1 > i
  BY <1>1, <1>3, <1>4
<1> QED BY <1>2, <1>4, <1>5

LEMMA TailOpens ==
    ASSUME NEW S, NEW seq \in Seq(S), seq # << >>, Opens(seq), Head(seq) \notin Marking
    PROVE  Head(seq) \in Quiet /\ Opens(Tail(seq))
<1> DEFINE t == Tail(seq)
<1>1. /\ Len(seq) \in Nat /\ DOMAIN seq = 1..Len(seq) /\ DOMAIN t = 1..(Len(seq) - 1)
      /\ \A i \in 1..(Len(seq) - 1) : t[i] = seq[i + 1] /\ i + 1 \in DOMAIN seq
      /\ Head(seq) = seq[1]
  OBVIOUS
<1>2. PICK i \in DOMAIN seq : seq[i] \in Marking /\ \A j \in 1..(i - 1) : seq[j] \in Quiet
  BY DEF Opens
<1>3. i # 1 /\ i \in Nat /\ i > 1
  BY <1>1, <1>2
<1>4. seq[1] \in Quiet
  BY <1>2, <1>3
<1> DEFINE m == i - 1
<1>5. m \in DOMAIN t /\ t[m] = seq[i]
  BY <1>1, <1>3
<1>6. \A j \in 1..(m - 1) : t[j] \in Quiet
  <2> SUFFICES ASSUME NEW j \in 1..(m - 1) PROVE t[j] \in Quiet
    OBVIOUS
  <2>1. j \in 1..(Len(seq) - 1) /\ j + 1 \in 1..(i - 1)
    BY <1>1, <1>3
  <2> QED BY <2>1, <1>1, <1>2
<1> HIDE DEF m, t
<1>7. Opens(t)
  BY <1>2, <1>5, <1>6 DEF Opens
<1> QED BY <1>1, <1>4, <1>7 DEF t

\* The first block of a job.
LEMMA BeginRuns ==
    ASSUME NEW T, NEW k, NEW X, IsStatus(X), Submitted(T, k, X), NEW seq, Fresh(T, k, seq),
           NEW s \in Begin.to
    PROVE  Underway(T, k, SetAll(X, Begin.phases, s), Tail(seq))
<1> DEFINE u == SetAll(X, Begin.phases, s)
<1>1. s = "PEND"
  BY RunNames
<1>2. RunSet(u, X, s)
  BY BlockIs, ShapeIs, RunNames
<1> HIDE DEF u
<1>3. (Cores(X, "PEND") /\ Resultless(X)) \/ Cores(X, "PASS")
  BY DEF Submitted
<1>4. Cores(u, "PEND")
  BY <1>1, <1>2, <1>3, RunCores
<1>5. Resultless(u)
  <2> SUFFICES ASSUME NEW q \in Phases \ Core PROVE u.st[q] = NoStatus
    BY DEF Resultless
  <2>1. CASE q = "NLCOMP"
    BY <2>1, <1>4 DEF Cores
  <2>2. CASE q \in ResultPhases
    <3>1. q # "RUN"
      BY RunPhases
    <3>2. u.st[q] = IF X.st["RUN"] \in {"PASS", "FAIL"} THEN NoStatus ELSE X.st[q]
      BY <3>1, <2>2, <1>2 DEF RunSet
    <3>3. X.st["RUN"] = "PASS" \/ X.st[q] = NoStatus
      BY <1>3 DEF Cores, Resultless
    <3> QED BY <3>2, <3>3
  <2> QED BY <2>1, <2>2, RunPhases
<1>6. Resolved(u, Tail(seq))
  <2> SUFFICES ASSUME NEW p \in Phases \ {"RUN"}, u.st[p] = "PEND" PROVE FALSE
    BY DEF Resolved
  <2>1. CASE p \in Core
    BY <2>1, <1>4 DEF Cores
  <2>2. CASE p \notin Core
    BY <2>2, <1>5 DEF Resultless, NoStatus
  <2> QED BY <2>1, <2>2
<1> QED BY <1>4, <1>5, <1>6 DEF Underway, Fresh, Begins, u

\* A block between the first and the last one: only results are touched.
LEMMA ResultsCores ==
    ASSUME NEW X, NEW u, NEW r, Cores(X, r), \A q \in Phases \ ResultPhases : u.st[q] = X.st[q]
    PROVE  Cores(u, r)
  BY RunPhases DEF Cores

LEMMA StillFirst ==
    ASSUME NEW X, NEW u, FirstPend(X), \A q : FirstIs(X, q) => FirstIs(u, q),
           \A q \in PendPhases : X.st[q] = "PEND" => u.st[q] = "PEND"
    PROVE  FirstPend(u)
  BY DEF FirstPend

LEMMA ResolvedTail ==
    ASSUME NEW S, NEW seq \in Seq(S), seq # << >>, NEW X, NEW u, Resolved(X, seq),
           \A q \in Phases \ {"RUN"} : u.st[q] = "PEND" =>
               \/ X.st[q] = "PEND" /\ Head(seq) # Set(<< q >>, AnyResult)
               \/ Some(Tail(seq), {Set(<< q >>, AnyResult)})
    PROVE  Resolved(u, Tail(seq))
<1> SUFFICES ASSUME NEW q \in Phases \ {"RUN"}, X.st[q] = "PEND", Head(seq) # Set(<< q >>, AnyResult)
             PROVE  Some(Tail(seq), {Set(<< q >>, AnyResult)})
  BY DEF Resolved
<1> DEFINE Q == {Set(<< q >>, AnyResult)}
<1>1. Some(seq, Q)
  BY DEF Resolved
<1>2. Head(seq) \notin Q
  OBVIOUS
<1> HIDE DEF Q
<1>3. Some(Tail(seq), Q)
  BY <1>1, <1>2, TailSome
<1> QED BY <1>3 DEF Q

LEMMA MarkingRuns ==
    ASSUME NEW T, NEW k, k < T.jobs \/ k = T.jobs, NEW X, IsStatus(X), NEW seq,
           Underway(T, k, X, seq), Left(T, k, Tail(seq)), Head(seq) \in Marking,
           NEW u, ResultsSet(u, X, Head(seq).phases, "PEND")
    PROVE  Underway(T, k, u, Tail(seq))
<1> DEFINE x  == Head(seq)
           ps == x.phases
           t  == Tail(seq)
<1>1. /\ \A q \in Phases : u.st[q] = IF Listed(ps, q) THEN "PEND" ELSE X.st[q]
      /\ \A q : FirstIs(X, q) => FirstIs(u, q)
      /\ Results(X) = << >> /\ ps # << >> => FirstIs(u, ps[1])
  BY DEF ResultsSet
<1>2. /\ ps # << >> /\ ps[1] \in PendPhases /\ \A q : Listed(ps, q) => q \in PendPhases
      /\ x.to = {"PEND"} /\ ps \in Seq(PendPhases)
  BY MarkingIs
<1>3. seq \in Seq(Between(T, k) \cup {Pass}) /\ seq # << >>
  BY LeftSeq DEF Underway
<1>4. Cores(u, "PEND")
  <2>1. \A q \in Phases \ ResultPhases : u.st[q] = X.st[q]
    BY <1>1, <1>2, RunPhases
  <2> QED BY <2>1, ResultsCores DEF Underway
<1>5. ASSUME k < T.jobs, LeavesMark(T)
      PROVE  FirstPend(u)
  <2>1. \A q \in PendPhases : X.st[q] = "PEND" => u.st[q] = "PEND"
    BY <1>1, RunPhases
  <2>2. CASE FirstPend(X)
    BY <2>1, <2>2, <1>1, StillFirst
  <2>3. CASE Resultless(X)
    <3>1. Results(X) = << >>
      <4>1. \A i \in DOMAIN Results(X) : Results(X)[i] \in Phases \ Core /\ X.st[Results(X)[i]] # NoStatus
        BY ResultsIs
      <4>2. DOMAIN Results(X) = {}
        BY <4>1, <2>3 DEF Resultless
      <4>3. Results(X) \in Seq(Phases)
        BY ResultsIs
      <4> QED BY <4>2, <4>3
    <3>2. Listed(ps, ps[1])
      <4> HIDE DEF ps
      <4>1. 1 \in DOMAIN ps
        BY <1>2
      <4> QED BY <4>1 DEF Listed
    <3>3. FirstIs(u, ps[1])
      BY <3>1, <1>1, <1>2
    <3>4. u.st[ps[1]] = "PEND"
      BY <3>2, <1>1, <1>2, RunPhases
    <3> HIDE DEF ps
    <3> QED BY <3>3, <3>4, <1>2 DEF FirstPend
  <2> QED BY <1>5, <2>2, <2>3 DEF Underway
<1>6. ASSUME k = T.jobs
      PROVE  Resolved(u, t) /\ Owes(t, {})
  <2>1. Resolved(X, seq) /\ Owes(seq, {})
    BY <1>6 DEF Underway
  <2>2. Owes(t, {})
    BY <2>1, <1>3, TailOwes
  <2>3. ASSUME NEW q \in Phases \ {"RUN"}, u.st[q] = "PEND"
        PROVE  \/ X.st[q] = "PEND" /\ Head(seq) # Set(<< q >>, AnyResult)
               \/ Some(t, {Set(<< q >>, AnyResult)})
    <3>1. CASE Listed(ps, q)
      <4> DEFINE Q == {Set(<< q >>, AnyResult)}
      <4>1. Len(seq) \in Nat /\ 1 \in DOMAIN seq /\ seq[1] = x
        BY <1>3
      <4>2. PICK j \in DOMAIN seq : j > 1 /\ seq[j] \in Q
        <5>1. Listed(seq[1].phases, q) /\ seq[1] \in Marking
          BY <4>1, <3>1
        <5>2. \E j \in DOMAIN seq : j > 1 /\ seq[j] = Set(<< q >>, AnyResult)
          BY <5>1, <4>1, <2>1 DEF Owes
        <5> QED BY <5>2
      <4> HIDE DEF Q
      <4>3. j - 1 \in DOMAIN Tail(seq) /\ Tail(seq)[j - 1] = seq[j]
        BY <4>2, <1>3
      <4>4. Some(t, Q)
        BY <4>2, <4>3 DEF Some
      <4> QED BY <4>4 DEF Q
    <3>2. CASE ~Listed(ps, q)
      <4>1. X.st[q] = "PEND"
        BY <3>2, <2>3, <1>1
      <4>2. Set(<< q >>, AnyResult).to = AnyResult /\ AnyResult # {"PEND"}
        BY DEF Set, AnyResult
      <4> QED BY <4>1, <4>2, <1>2
    <3> QED BY <3>1, <3>2
  <2> HIDE DEF t, x, ps
  <2>4. Resolved(u, Tail(seq))
    BY <2>1, <2>3, <1>3, ResolvedTail DEF t
  <2> QED BY <2>2, <2>4 DEF t
<1>7. Left(T, k, t)
  OBVIOUS
<1> HIDE DEF t, x, ps
<1>8. Underway(T, k, u, t)
  BY <1>4, <1>5, <1>6, <1>7 DEF Underway
<1> QED BY <1>8 DEF t

\* One result of a run is known.
LEMMA ResultRuns ==
    ASSUME NEW T, NEW k, k < T.jobs \/ k = T.jobs, NEW X, IsStatus(X), NEW seq,
           Underway(T, k, X, seq), Left(T, k, Tail(seq)), Head(seq) \notin Marking,
           NEW p \in ResultPhases, NEW u, NEW s, s # "PEND",
           \A q \in Phases : u.st[q] = IF q = p THEN s ELSE X.st[q],
           \A q : FirstIs(X, q) => FirstIs(u, q),
           k < T.jobs => p \notin PendPhases /\ Head(seq) \notin Quiet,
           \A q : Head(seq) = Set(<< q >>, AnyResult) => q = p
    PROVE  Underway(T, k, u, Tail(seq))
<1>1. seq \in Seq(Between(T, k) \cup {Pass}) /\ seq # << >>
  BY LeftSeq DEF Underway
<1>2. Cores(u, "PEND")
  <2>1. \A q \in Phases \ ResultPhases : u.st[q] = X.st[q]
    OBVIOUS
  <2> QED BY <2>1, ResultsCores DEF Underway
<1>3. ASSUME k < T.jobs, LeavesMark(T)
      PROVE  FirstPend(u)
  <2>1. ~Opens(seq)
    BY <1>1, <1>3, TailOpens
  <2>2. FirstPend(X)
    BY <2>1, <1>3 DEF Underway
  <2>3. \A q \in PendPhases : X.st[q] = "PEND" => u.st[q] = "PEND"
    BY <1>3, RunPhases
  <2> QED BY <2>2, <2>3, StillFirst
<1>4. ASSUME k = T.jobs
      PROVE  Resolved(u, Tail(seq)) /\ Owes(Tail(seq), {})
  <2>1. Resolved(X, seq) /\ Owes(seq, {})
    BY <1>4 DEF Underway
  <2>2. Owes(Tail(seq), {})
    BY <2>1, <1>1, TailOwes
  <2>3. ASSUME NEW q \in Phases \ {"RUN"}, u.st[q] = "PEND"
        PROVE  X.st[q] = "PEND" /\ Head(seq) # Set(<< q >>, AnyResult)
    BY <2>3
  <2>4. Resolved(u, Tail(seq))
    BY <2>1, <2>3, <1>1, ResolvedTail
  <2> QED BY <2>2, <2>4
<1> QED BY <1>2, <1>3, <1>4 DEF Underway

\* A step of a run that touches no status.
LEMMA QuietRuns ==
    ASSUME NEW T, NEW k, k < T.jobs \/ k = T.jobs, NEW X, NEW seq,
           Underway(T, k, X, seq), Left(T, k, Tail(seq)), Head(seq).act # "set"
    PROVE  Underway(T, k, X, Tail(seq))
<1>1. seq \in Seq(Between(T, k) \cup {Pass}) /\ seq # << >>
  BY LeftSeq DEF Underway
<1>2. Head(seq) \notin Marking /\ \A q : Head(seq) # Set(<< q >>, AnyResult)
  BY MarkingIs DEF Set
<1>3. ASSUME k < T.jobs, LeavesMark(T)
      PROVE  FirstPend(X) \/ (Resultless(X) /\ Opens(Tail(seq)))
  BY <1>1, <1>2, <1>3, TailOpens DEF Underway
<1>4. ASSUME k = T.jobs
      PROVE  Resolved(X, Tail(seq)) /\ Owes(Tail(seq), {})
  <2>1. Resolved(X, seq) /\ Owes(seq, {})
    BY <1>4 DEF Underway
  <2>2. Owes(Tail(seq), {})
    BY <2>1, <1>1, TailOwes
  <2>3. Resolved(X, Tail(seq))
    BY <2>1, <1>1, <1>2, ResolvedTail
  <2> QED BY <2>2, <2>3
<1> QED BY <1>3, <1>4 DEF Underway

\* The last block of a run that passes.
LEMMA PassEnds ==
    ASSUME NEW T, NEW k, NEW X, IsStatus(X), Underway(T, k, X, << Pass >>), NEW s \in Pass.to
    PROVE  Ended(T, k, SetAll(X, Pass.phases, s), "PASS") /\ s = "PASS"
<1> DEFINE u == SetAll(X, Pass.phases, s)
<1>1. s = "PASS"
  BY RunNames
<1>2. RunSet(u, X, s)
  <2>1. Pass.phases = << "RUN" >>
    BY DEF Pass, Set
  <2>2. u = SetIn(X, "RUN", s) /\ s \in Statuses
    BY <1>1, <2>1, SetOne, RunPhases DEF Statuses
  <2> QED BY <2>2, SetRun
<1> HIDE DEF u
<1>3. Cores(X, "PEND") /\ Cores(u, "PASS")
  BY <1>1, <1>2, RunCores DEF Underway
<1>4. u.st["RUN"] = "PASS" /\ Results(u) = Results(X) /\ \A q \in Phases \ {"RUN"} : u.st[q] = X.st[q]
  BY <1>1, <1>2, <1>3 DEF RunSet, Cores
<1>5. \A Q : Pass \notin Q => ~Some(<< Pass >>, Q)
  BY OneIs
<1>6. ASSUME k < T.jobs, LeavesMark(T)
      PROVE  FirstPend(u)
  <2>1. ~Opens(<< Pass >>)
    <3>1. ~Some(<< Pass >>, Marking)
      BY <1>5, RunNames
    <3> QED BY <3>1 DEF Opens, Some
  <2>2. PICK q \in PendPhases : FirstIs(X, q) /\ X.st[q] = "PEND"
    BY <2>1, <1>6 DEF Underway, FirstPend
  <2>3. FirstIs(u, q) /\ u.st[q] = "PEND"
    <3>1. q \in Phases /\ q # "RUN"
      BY RunPhases
    <3> QED BY <3>1, <2>2, <1>4 DEF FirstIs
  <2> QED BY <2>3 DEF FirstPend
<1>7. ASSUME k = T.jobs, NEW p \in Phases
      PROVE  u.st[p] # "PEND"
  <2>1. CASE p = "RUN"
    BY <2>1, <1>4
  <2>2. CASE p # "RUN" /\ X.st[p] = "PEND"
    <3>1. Some(<< Pass >>, {Set(<< p >>, AnyResult)})
      BY <2>2, <1>7 DEF Underway, Resolved
    <3>2. Pass \notin {Set(<< p >>, AnyResult)}
      <4>1. Set(<< p >>, AnyResult).to = AnyResult
        BY DEF Set
      <4> QED BY <4>1, RunNames DEF AnyResult
    <3> QED BY <3>1, <3>2, <1>5
  <2> QED BY <2>1, <2>2, <1>4
<1> QED BY <1>1, <1>3, <1>6, <1>7 DEF Ended, AnyResult, Waits, u


\* A job between its blocks, and in one of them.
Running(T, k, X, seq) ==
    \/ Fresh(T, k, seq) /\ Submitted(T, k, X)
    \/ Underway(T, k, X, seq)
    \/ seq = << Fail >> /\ Cores(X, "PEND")
Flushing(T, k, X, seq, r) == Underway(T, k, X, seq) \/ (seq = << >> /\ Ended(T, k, X, r))

LEMMA RunningSteps ==
    ASSUME NEW T, NEW k, NEW X, NEW seq, Running(T, k, X, seq)
    PROVE  /\ Steps(T, k, seq) /\ seq # << >>
           /\ Begins(T, k, seq) => Fresh(T, k, seq) /\ Submitted(T, k, X)
           /\ Left(T, k, seq) => Underway(T, k, X, seq)
           /\ seq = << Fail >> => Cores(X, "PEND")
<1>1. CASE Fresh(T, k, seq) /\ Submitted(T, k, X)
  <2>1. Begins(T, k, seq)
    BY <1>1 DEF Fresh
  <2> QED BY <2>1, <1>1, ShapeIs DEF Steps
<1>2. CASE Underway(T, k, X, seq)
  <2>1. Left(T, k, seq)
    BY <1>2 DEF Underway
  <2> QED BY <2>1, <1>2, ShapeIs DEF Steps
<1>3. CASE seq = << Fail >> /\ Cores(X, "PEND")
  BY <1>3, ShapeIs DEF Steps
<1> QED BY <1>1, <1>2, <1>3 DEF Running

LEMMA SubmittedCores ==
    ASSUME NEW T, NEW k, NEW X, Submitted(T, k, X)
    PROVE  \E r : Cores(X, r)
  BY DEF Submitted

\* set_status raises nothing in a job that started after its submission.
LEMMA RunMay ==
    ASSUME NEW T, NEW k, NEW X, NEW seq, Running(T, k, X, seq), Head(seq).act = "set"
    PROVE  MaySet(X.st, Head(Head(seq).phases))
<1> DEFINE x == Head(seq)
<1>1. x \in Between(T, k) \/ x \in {Begin, Pass, Fail}
  BY RunningSteps, HeadIs
<1>2. \E r : Cores(X, r)
  BY SubmittedCores DEF Running, Underway
<1>3. MaySet(X.st, "RUN")
  BY <1>2, MaySetRun
<1>4. CASE x \in {Begin, Pass, Fail}
  <2>1. x.phases = << "RUN" >>
    BY <1>4 DEF Begin, Pass, Fail, Set
  <2> QED BY <2>1, <1>3
<1>5. CASE x \in Between(T, k)
  <2>1. x \in Marking \/ \E p \in ResultPhases : x = Set(<< p >>, AnyResult)
    BY <1>5, BetweenIs
  <2>2. Head(x.phases) \in ResultPhases
    <3>1. CASE x \in Marking
      BY <3>1, MarkingIs, RunPhases
    <3>2. CASE \E p \in ResultPhases : x = Set(<< p >>, AnyResult)
      <4>1. PICK p \in ResultPhases : x = Set(<< p >>, AnyResult)
        BY <3>2
      <4>2. x.phases = << p >>
        BY <4>1 DEF Set
      <4> QED BY <4>2
    <3> QED BY <2>1, <3>1, <3>2
  <2>3. Head(x.phases) \notin Core
    BY <2>2, RunPhases
  <2> QED BY <2>3 DEF MaySet
<1> QED BY <1>1, <1>4, <1>5

\* A block of a job.
LEMMA BlockRuns ==
    ASSUME NEW T, NEW k, k < T.jobs \/ k = T.jobs, NEW X, IsStatus(X), NEW seq,
           Running(T, k, X, seq), Head(seq).act = "set", NEW s \in Head(seq).to
    PROVE  LET u == SetAll(X, Head(seq).phases, s)
           IN  \/ /\ Underway(T, k, u, Tail(seq))
                  /\ ~(Head(seq).phases = << "RUN" >> /\ s # "PEND")
               \/ /\ Tail(seq) = << >> /\ Ended(T, k, u, s)
                  /\ Head(seq).phases = << "RUN" >> /\ s # "PEND"
<1> DEFINE x == Head(seq)
           u == SetAll(X, x.phases, s)
<1>1. /\ Steps(T, k, seq) /\ seq # << >>
      /\ Begins(T, k, seq) => Fresh(T, k, seq) /\ Submitted(T, k, X)
      /\ Left(T, k, seq) => Underway(T, k, X, seq)
      /\ seq = << Fail >> => Cores(X, "PEND")
  BY RunningSteps
<1>2. CASE x = Begin /\ Begins(T, k, seq)
  <2>1. s \in Begin.to /\ s = "PEND"
    BY <1>2, RunNames
  <2>2. Underway(T, k, SetAll(X, Begin.phases, s), Tail(seq))
    BY <1>1, <1>2, <2>1, BeginRuns
  <2> QED BY <1>2, <2>1, <2>2
<1>3. CASE x = Pass /\ seq = << Pass >> /\ Left(T, k, seq) /\ Tail(seq) = << >>
  <2>1. s \in Pass.to
    BY <1>3
  <2>2. Ended(T, k, SetAll(X, Pass.phases, s), "PASS") /\ s = "PASS"
    BY <1>1, <1>3, <2>1, PassEnds
  <2>3. Pass.phases = << "RUN" >>
    BY DEF Pass, Set
  <2> QED BY <1>3, <2>2, <2>3
<1>4. CASE x = Fail /\ seq = << Fail >> /\ Tail(seq) = << >>
  <2>1. s = "FAIL" /\ Fail.phases = << "RUN" >>
    BY <1>4, RunNames DEF Fail, Set
  <2>2. SetAll(X, Fail.phases, s) = SetIn(X, "RUN", "FAIL")
    BY <2>1, SetOne, RunPhases DEF Statuses
  <2>3. Ended(T, k, SetIn(X, "RUN", "FAIL"), "FAIL")
    BY <1>1, <1>4, FailEnds
  <2> QED BY <1>4, <2>1, <2>2, <2>3
<1>5. CASE x \in Between(T, k) /\ Left(T, k, seq) /\ Left(T, k, Tail(seq))
  <2>1. Underway(T, k, X, seq) /\ x \in Between(T, k) \cup {Begin, Pass, Fail}
    BY <1>1, <1>5
  <2>2. /\ x.phases # << "RUN" >> /\ ResultsSet(u, X, x.phases, s)
    <3>1. x.act = "set" /\ s \in x.to
      OBVIOUS
    <3>2. \/ x \in {Begin, Pass, Fail} /\ x.phases = << "RUN" >>
          \/ x.phases # << "RUN" >> /\ ResultsSet(u, X, x.phases, s)
      BY <2>1, <3>1, BlockIs
    <3>3. x.phases # << "RUN" >>
      <4> SUFFICES ASSUME x.phases = << "RUN" >> PROVE FALSE
        OBVIOUS
      <4>1. x \in Marking \/ \E p \in ResultPhases : x = Set(<< p >>, AnyResult)
        BY <1>5, BetweenIs
      <4>2. \E p \in ResultPhases : x.phases[1] = p
        BY <4>1, MarkingIs, RunPhases DEF Set
      <4> QED BY <4>2, RunPhases
    <3> QED BY <3>2, <3>3
  <2>3. CASE x \in Marking
    <3>1. s = "PEND"
      BY <2>3, MarkingIs
    <3>2. ResultsSet(u, X, x.phases, "PEND")
      BY <2>2, <3>1
    <3> HIDE DEF u
    <3>3. Underway(T, k, u, Tail(seq))
      BY <1>5, <2>1, <2>3, <3>2, MarkingRuns
    <3> QED BY <3>1, <3>3 DEF u
  <2>4. CASE x \notin Marking
    <3>1. PICK p \in ResultPhases : x = Set(<< p >>, AnyResult)
      BY <1>5, <2>4, BetweenIs
    <3>2. x.phases = << p >> /\ x.to = AnyResult
      BY <3>1 DEF Set
    <3>3. s # "PEND"
      BY <3>2 DEF AnyResult
    <3>4. /\ \A q \in Phases : u.st[q] = IF q = p THEN s ELSE X.st[q]
          /\ \A q : FirstIs(X, q) => FirstIs(u, q)
      BY <2>2, <3>2 DEF ResultsSet, Listed
    <3>5. k < T.jobs => p \notin PendPhases /\ x \notin Quiet
      <4> SUFFICES ASSUME k < T.jobs PROVE p \notin PendPhases /\ x \notin Quiet
        OBVIOUS
      <4>1. x \in Watching
        BY <1>5, <2>4, BetweenIs
      <4>2. p \in {"MEMLEAK", "SHORT_TERM_ARCHIVER"}
        BY <4>1, <3>2 DEF Watching, Set
      <4>3. x.act = "set" /\ \A y \in Quiet : y.act # "set"
        BY DEF Quiet, Act
      <4> QED BY <4>2, <4>3, ResultNames
    <3>6. \A q : x = Set(<< q >>, AnyResult) => q = p
      BY <3>2 DEF Set
    <3> HIDE DEF u
    <3>7. Underway(T, k, u, Tail(seq))
      BY <1>5, <2>1, <2>4, <3>3, <3>4, <3>5, <3>6, ResultRuns
    <3> QED BY <2>2, <3>7 DEF u
  <2> QED BY <2>3, <2>4
<1> HIDE DEF u
<1> QED BY <1>1, <1>2, <1>3, <1>4, <1>5, HeadIs DEF u

\* The k-th submission of T at pc, with the file X and its memory M.
SubmitStage(T, k, pc, X, M) ==
    /\ pc \in {"start", "flush"} => Unsubmitted(T, k, X)
    /\ pc \in {"flush", "write"} => Submitted(T, k, M)
    /\ pc \in {"write", "writeFail"} => X = EmptyStatus
    /\ pc \in {"queue", "error", "flushFail"} => Submitted(T, k, X)
    /\ pc \in {"flushFail", "writeFail"} => Refused(M)
    /\ pc = "failed" => Refused(X)

\* Its job at pc, with the file X, its memory M, what it has left to do and its outcome.
JobStage(T, k, pc, X, M, seq, r) ==
    /\ pc = "queued" => Submitted(T, k, X)
    /\ pc \in Active \cup {"queued"} /\ LeavesMark(T) => Verdict(X) = "PEND"
    /\ pc = "run" => Running(T, k, M, seq)
    /\ pc \in {"flush", "write"} => Flushing(T, k, M, seq, r)
    /\ pc = "over" => Ended(T, k, X, r)

\* The steps of the submission.
LEMMA SubmitGoes ==
    ASSUME TypeInv, NEW k \in K, Submit(k), test' = test,
           SubmitStage(test, k, submit[k], file, submitMem[k])
    PROVE  /\ SubmitStage(test, k, submit'[k], file', submitMem'[k])
           /\ submit[k] = "queue" => Submitted(test, k, file')
           /\ LeavesMark(test) => file' = file \/ Verdict(file) = "PEND"
           /\ submit[k] \notin {"none", "done", "failed"} /\ submit'[k] # "none"
           /\ submit'[k] = "done" => submit[k] = "queue" /\ job' = [job EXCEPT ![k] = "queued"]
           /\ submit[k] = "queue" => file' = file
<1> DEFINE T == test
           good == IF file.st["SUBMIT"] = "PASS" THEN file ELSE SetIn(file, "SUBMIT", "PASS")
           bad  == SetIn(file, "SUBMIT", "FAIL")
<1>1. /\ submit \in [K -> {"none", "start", "flush", "write", "queue", "error", "flushFail",
                           "writeFail", "done", "failed"}]
      /\ DOMAIN submitMem = K /\ IsStatus(file) /\ IsStatus(EmptyStatus) /\ EmptyStatus.order = << >>
      /\ IsStatus(submitMem[k])
  BY EmptyIs DEF TypeInv, TypeOK, EmptyStatus
<1>2. CASE SubmitRead(k)
  <2>1. /\ submit[k] = "start" /\ file' = file
        /\ submitMem'[k] = good
        /\ submit'[k] = IF submitMem'[k].order = << >> THEN "queue" ELSE "flush"
    <3>1. submit[k] = "start" /\ file' = file /\ submitMem' = [submitMem EXCEPT ![k] = good]
          /\ submit' = [submit EXCEPT ![k] = IF submitMem'[k].order = << >> THEN "queue" ELSE "flush"]
      BY <1>2 DEF SubmitRead
    <3> HIDE DEF good
    <3> QED BY <3>1, <1>1
  <2>2. Unsubmitted(T, k, file)
    BY <2>1 DEF SubmitStage
  <2>3. Submitted(T, k, good) /\ good.order # << >>
    BY <1>1, <2>2, SubmitPasses
  <2> HIDE DEF good
  <2> QED BY <2>1, <2>2, <2>3 DEF SubmitStage
<1>3. CASE SubmitError(k)
  <2>1. submit[k] = "error" /\ file' = file /\ submitMem'[k] = bad /\ submit'[k] = "flushFail"
    <3>1. submit[k] = "error" /\ file' = file /\ submitMem' = [submitMem EXCEPT ![k] = bad]
          /\ submit' = [submit EXCEPT ![k] = "flushFail"]
      BY <1>3 DEF SubmitError
    <3> HIDE DEF bad
    <3> QED BY <3>1, <1>1
  <2>2. Submitted(T, k, file)
    BY <2>1 DEF SubmitStage
  <2>3. Refused(bad)
    BY <1>1, <2>2, SubmitRefused
  <2> HIDE DEF bad
  <2> QED BY <2>1, <2>2, <2>3 DEF SubmitStage
<1>4. CASE SubmitFlush(k)
  <2>1. /\ submit[k] \in {"flush", "flushFail"} /\ file' = EmptyStatus
        /\ submitMem'[k] = submitMem[k]
        /\ submit'[k] = IF submit[k] = "flush" THEN "write" ELSE "writeFail"
    BY <1>1, <1>4 DEF SubmitFlush
  <2>2. Submitted(T, k, file) \/ Unsubmitted(T, k, file)
    BY <2>1 DEF SubmitStage
  <2>3. LeavesMark(test) => Verdict(file) = "PEND"
    BY <1>1, <2>2, SubmittedWaits
  <2> QED BY <2>1, <2>3 DEF SubmitStage
<1>5. CASE SubmitWrite(k)
  <2>1. /\ submit[k] \in {"write", "writeFail"} /\ file' = submitMem[k]
        /\ submitMem'[k] = submitMem[k]
        /\ submit'[k] = IF submit[k] = "write" THEN "queue" ELSE "failed"
    BY <1>1, <1>5 DEF SubmitWrite, After
  <2>2. file = EmptyStatus
    BY <2>1 DEF SubmitStage
  <2>3. Verdict(file) = "PEND"
    BY <1>1, <2>2, VerdictOfNothing
  <2> QED BY <2>1, <2>3 DEF SubmitStage
<1>6. CASE Queue(k)
  <2>1. /\ submit[k] = "queue" /\ file' = file /\ submitMem'[k] = submitMem[k]
        /\ submit'[k] \in {"done", "error"}
        /\ submit'[k] = "done" => job' = [job EXCEPT ![k] = "queued"]
    BY <1>1, <1>6 DEF Queue
  <2> QED BY <2>1 DEF SubmitStage
<1> QED BY <1>2, <1>3, <1>4, <1>5, <1>6 DEF Submit

\* The steps of the job.
LEMMA StartGoes ==
    ASSUME TypeInv, NEW k \in K, Start(k), test' = test,
           JobStage(test, k, job[k], file, jobMem[k], todo[k], outcome[k])
    PROVE  /\ JobStage(test, k, job'[k], file', jobMem'[k], todo'[k], outcome'[k])
           /\ file' = file
<1> DEFINE bad == IF MaySet(file.st, "RUN") THEN SetIn(file, "RUN", "FAIL") ELSE file
<1>1. /\ DOMAIN job = K /\ DOMAIN jobMem = K /\ DOMAIN todo = K /\ DOMAIN outcome = K
      /\ test \in Tests /\ IsStatus(file) /\ Jobs = test.jobs
  <2>1. DOMAIN outcome = K
    <3> DEFINE R == AnyResult \cup {""}
    <3>1. outcome \in [K -> R]
      BY DEF TypeInv, TypeOK
    <3> HIDE DEF R
    <3> QED BY <3>1
  <2>2. /\ job \in [K -> {"none", "queued", "run", "flush", "write", "over", "killed"}]
        /\ test \in Tests /\ IsStatus(file)
    BY DEF TypeInv, TypeOK
  <2> QED BY <2>1, <2>2 DEF TypeInv, Jobs
<1>2. job[k] = "queued" /\ file' = file
  BY DEF Start
<1>3. Submitted(test, k, file) /\ (LeavesMark(test) => Verdict(file) = "PEND")
  BY <1>2 DEF JobStage
<1>4. PICK r : Cores(file, r)
  BY <1>3, SubmittedCores
<1>5. MaySet(file.st, "RUN")
  BY <1>4, MaySetRun
<1>6. Ended(test, k, bad, "FAIL") /\ bad.order # << >>
  BY <1>1, <1>4, <1>5, FailEnds
<1> HIDE DEF bad
<1>7. \/ jobMem'[k] = file /\ todo'[k] = Script(k) /\ job'[k] = "run"
      \/ jobMem'[k] = bad /\ todo'[k] = << >> /\ job'[k] = "flush" /\ outcome'[k] = "FAIL"
  <2>1. \/ /\ jobMem' = [jobMem EXCEPT ![k] = file]
           /\ todo' = [todo EXCEPT ![k] = Script(k)] /\ job' = [job EXCEPT ![k] = "run"]
        \/ /\ jobMem' = [jobMem EXCEPT ![k] = bad] /\ todo' = [todo EXCEPT ![k] = << >>]
           /\ job' = [job EXCEPT ![k] = IF jobMem'[k].order = << >> THEN "over" ELSE "flush"]
           /\ outcome' = [outcome EXCEPT ![k] = "FAIL"]
    BY DEF Start, bad
  <2> QED BY <2>1, <1>1, <1>6
<1>8. CASE jobMem'[k] = file /\ todo'[k] = Script(k) /\ job'[k] = "run"
  <2>1. Fresh(test, k, Script(k))
    BY <1>1, ScriptIs DEF Fresh
  <2>2. Running(test, k, file, Script(k))
    BY <2>1, <1>3 DEF Running
  <2> QED BY <1>2, <1>3, <1>8, <2>2 DEF JobStage, Active
<1>9. CASE jobMem'[k] = bad /\ todo'[k] = << >> /\ job'[k] = "flush" /\ outcome'[k] = "FAIL"
  <2>1. Flushing(test, k, bad, << >>, "FAIL")
    BY <1>6 DEF Flushing
  <2> QED BY <1>2, <1>3, <1>9, <2>1 DEF JobStage, Active
<1> QED BY <1>2, <1>7, <1>8, <1>9

LEMMA SetGoes ==
    ASSUME TypeInv, NEW k \in K, SetNext(k), test' = test,
           JobStage(test, k, job[k], file, jobMem[k], todo[k], outcome[k])
    PROVE  /\ JobStage(test, k, job'[k], file', jobMem'[k], todo'[k], outcome'[k])
           /\ file' = file
<1> DEFINE X == jobMem[k]
           seq == todo[k]
           x == Head(seq)
<1>1. /\ DOMAIN job = K /\ DOMAIN jobMem = K /\ DOMAIN todo = K /\ DOMAIN outcome = K
      /\ IsStatus(X) /\ (k < test.jobs \/ k = test.jobs)
  <2>1. DOMAIN outcome = K
    <3> DEFINE R == AnyResult \cup {""}
    <3>1. outcome \in [K -> R]
      BY DEF TypeInv, TypeOK
    <3> HIDE DEF R
    <3> QED BY <3>1
  <2>2. /\ job \in [K -> {"none", "queued", "run", "flush", "write", "over", "killed"}]
        /\ test \in Tests /\ IsStatus(jobMem[k])
    BY DEF TypeInv, TypeOK
  <2>3. k < test.jobs \/ k = test.jobs
    BY <2>2, Counting
  <2> QED BY <2>1, <2>2, <2>3 DEF TypeInv
<1>2. /\ job[k] = "run" /\ seq # << >> /\ x.act = "set" /\ file' = file
      /\ job' = [job EXCEPT ![k] = "flush"]
  BY DEF SetNext
<1>3. Running(test, k, X, seq) /\ (LeavesMark(test) => Verdict(file) = "PEND")
  BY <1>2 DEF JobStage, Active
<1> HIDE DEF X, seq
<1>4. MaySet(X.st, Head(x.phases))
  BY <1>2, <1>3, RunMay
<1>5. PICK s \in x.to :
        /\ jobMem' = [jobMem EXCEPT ![k] = SetAll(@, x.phases, s)]
        /\ outcome' = [outcome EXCEPT ![k] = IF x.phases = << "RUN" >> /\ s # "PEND" THEN s ELSE @]
        /\ todo' = [todo EXCEPT ![k] = Tail(seq)]
  BY <1>4 DEF SetNext, GoOn, X, seq
<1> DEFINE u == SetAll(X, x.phases, s)
<1>6. jobMem'[k] = u /\ todo'[k] = Tail(seq) /\ job'[k] = "flush"
      /\ outcome'[k] = IF x.phases = << "RUN" >> /\ s # "PEND" THEN s ELSE outcome[k]
  BY <1>1, <1>2, <1>5 DEF X
<1>7. \/ /\ Underway(test, k, u, Tail(seq))
         /\ ~(x.phases = << "RUN" >> /\ s # "PEND")
      \/ /\ Tail(seq) = << >> /\ Ended(test, k, u, s)
         /\ x.phases = << "RUN" >> /\ s # "PEND"
  BY <1>1, <1>2, <1>3, BlockRuns
<1> HIDE DEF u
<1>8. Flushing(test, k, jobMem'[k], todo'[k], outcome'[k])
  BY <1>6, <1>7 DEF Flushing
<1> QED BY <1>2, <1>3, <1>6, <1>8 DEF JobStage, Active

LEMMA MidRun ==
    ASSUME NEW T, NEW k, NEW X, NEW seq, Running(T, k, X, seq), Head(seq).act # "set"
    PROVE  /\ Underway(T, k, X, seq) /\ Left(T, k, Tail(seq)) /\ Head(seq) \in Between(T, k)
           /\ Cores(X, "PEND") /\ Steps(T, k, seq) /\ seq # << >>
<1>1. /\ Steps(T, k, seq) /\ seq # << >>
      /\ Left(T, k, seq) => Underway(T, k, X, seq)
  BY RunningSteps
<1>2. Head(seq) \in Between(T, k) /\ Left(T, k, seq) /\ Left(T, k, Tail(seq))
  BY <1>1, HeadIs, RunNames
<1> QED BY <1>1, <1>2 DEF Underway

LEMMA RestGoes ==
    ASSUME TypeInv, InOrder, NEW k \in K,
           \/ JudgeNext(k) \/ JobFlush(k) \/ JobWrite(k) \/ RunModel(k) \/ Resubmit(k) \/ Kill(k),
           test' = test,
           JobStage(test, k, job[k], file, jobMem[k], todo[k], outcome[k])
    PROVE  /\ JobStage(test, k, job'[k], file', jobMem'[k], todo'[k], outcome'[k])
           /\ LeavesMark(test) => file' = file \/ Verdict(file) = "PEND"
<1> DEFINE X == jobMem[k]
           seq == todo[k]
           x == Head(seq)
<1>1. /\ DOMAIN job = K /\ DOMAIN jobMem = K /\ DOMAIN todo = K
      /\ IsStatus(X) /\ (k < test.jobs \/ k = test.jobs) /\ IsStatus(EmptyStatus)
      /\ EmptyStatus.order = << >>
  <2>1. /\ job \in [K -> {"none", "queued", "run", "flush", "write", "over", "killed"}]
        /\ test \in Tests /\ IsStatus(jobMem[k])
    BY DEF TypeInv, TypeOK
  <2>2. k < test.jobs \/ k = test.jobs
    BY <2>1, Counting
  <2> QED BY <2>1, <2>2, EmptyIs DEF TypeInv, EmptyStatus
<1>2. CASE JudgeNext(k)
  <2> DEFINE p == x.phases[1]
  <2>1. /\ job[k] = "run" /\ seq # << >> /\ x.act = "judge" /\ file' = file
        /\ job' = [job EXCEPT ![k] = "flush"] /\ todo' = [todo EXCEPT ![k] = Tail(@)]
        /\ outcome' = outcome
        /\ jobMem' = jobMem \/ \E s \in {"PASS", "FAIL"} : jobMem' = [jobMem EXCEPT ![k] = SetIn(X, p, s)]
    BY <1>2 DEF JudgeNext, GoOn
  <2>2. Running(test, k, X, seq) /\ (LeavesMark(test) => Verdict(file) = "PEND")
    BY <2>1 DEF JobStage, Active
  <2> HIDE DEF X, seq
  <2>3. Underway(test, k, X, seq) /\ Left(test, k, Tail(seq)) /\ x \in Between(test, k)
    BY <2>1, <2>2, MidRun
  <2>4. x \in Judging /\ ~(k < test.jobs)
    BY <2>1, <2>3, BetweenIs
  <2>5. p \in ResultPhases /\ p \in Phases \ Core
    BY <2>4, ResultNames, RunPhases DEF Judging, Judge
  <2>6. x \notin Marking /\ \A q : x # Set(<< q >>, AnyResult)
    BY <2>1, MarkingIs DEF Set
  <2>7. ASSUME NEW s \in {"PASS", "FAIL"}
        PROVE  Underway(test, k, SetIn(X, p, s), Tail(seq))
    <3> DEFINE u == SetIn(X, p, s)
    <3>1. /\ \A q \in Phases : u.st[q] = IF q = p THEN s ELSE X.st[q]
          /\ \A q : FirstIs(X, q) => FirstIs(u, q)
      <4> HIDE DEF p
      <4>1. IsStatus(X) /\ p \in Phases \ Core /\ s \in Statuses
        BY <1>1, <2>5 DEF Statuses
      <4> QED BY <4>1, SetResult
    <3> HIDE DEF u, p
    <3>2. Underway(test, k, u, Tail(seq))
      BY <1>1, <2>3, <2>4, <2>5, <2>6, <3>1, ResultRuns
    <3> QED BY <3>2 DEF u
  <2>8. Underway(test, k, X, Tail(seq))
    BY <1>1, <2>1, <2>3, QuietRuns
  <2> HIDE DEF p
  <2>9. Underway(test, k, jobMem'[k], Tail(seq))
    BY <2>1, <2>7, <2>8, <1>1 DEF X
  <2>10. todo'[k] = Tail(seq) /\ job'[k] = "flush"
    BY <2>1, <1>1 DEF seq
  <2>11. Flushing(test, k, jobMem'[k], todo'[k], outcome'[k])
    BY <2>9, <2>10 DEF Flushing
  <2> QED BY <2>1, <2>2, <2>10, <2>11 DEF JobStage, Active
<1>3. CASE JobFlush(k)
  <2>1. /\ job[k] = "flush" /\ file' = EmptyStatus /\ job'[k] = "write"
        /\ UNCHANGED << jobMem, todo, outcome >>
    BY <1>1, <1>3 DEF JobFlush
  <2>2. Flushing(test, k, X, seq, outcome[k]) /\ (LeavesMark(test) => Verdict(file) = "PEND")
    BY <2>1 DEF JobStage, Active
  <2>3. Verdict(file') = "PEND"
    <3>1. Verdict(EmptyStatus) = "PEND"
      BY <1>1, VerdictOfNothing
    <3> QED BY <2>1, <3>1 DEF Verdict
  <2> QED BY <2>1, <2>2, <2>3 DEF JobStage, Active
<1>4. CASE JobWrite(k)
  <2>1. /\ job[k] = "write" /\ file' = X /\ UNCHANGED << jobMem, todo, outcome >>
        /\ job'[k] = IF seq = << >> THEN "over" ELSE "run"
    BY <1>1, <1>4 DEF JobWrite
  <2>2. Flushing(test, k, X, seq, outcome[k]) /\ (LeavesMark(test) => Verdict(file) = "PEND")
    BY <2>1 DEF JobStage, Active
  <2> HIDE DEF X, seq
  <2>3. CASE seq = << >>
    <3>1. Ended(test, k, X, outcome[k])
      BY <2>2, <2>3, ShapeIs DEF Flushing, Underway
    <3> QED BY <2>1, <2>2, <2>3, <3>1 DEF JobStage, Active
  <2>4. CASE seq # << >>
    <3>1. Underway(test, k, X, seq)
      BY <2>2, <2>4 DEF Flushing
    <3>2. Verdict(X) = "PEND"
      BY <3>1, <1>1, CoresVerdict DEF Underway
    <3>3. Running(test, k, X, seq)
      BY <3>1 DEF Running
    <3>4. jobMem'[k] = X /\ todo'[k] = seq /\ job'[k] = "run"
      BY <2>1, <2>4 DEF X, seq
    <3>5. Verdict(file') = "PEND"
      BY <3>2, <2>1
    <3> QED BY <2>2, <3>3, <3>4, <3>5 DEF JobStage, Active
  <2> QED BY <2>3, <2>4
<1>5. CASE RunModel(k)
  <2>1. /\ job[k] = "run" /\ x.act = "model" /\ UNCHANGED << file, job, jobMem, outcome >>
        /\ todo'[k] = Tail(seq) \/ todo'[k] = << Fail >>
    BY <1>1, <1>5 DEF RunModel, GoOn, Fail
  <2>2. Running(test, k, X, seq) /\ (LeavesMark(test) => Verdict(file) = "PEND")
    BY <2>1 DEF JobStage, Active
  <2> HIDE DEF X, seq
  <2>3. Underway(test, k, X, seq) /\ Left(test, k, Tail(seq)) /\ Cores(X, "PEND")
    BY <2>1, <2>2, MidRun
  <2>4. Underway(test, k, X, Tail(seq))
    BY <1>1, <2>1, <2>3, QuietRuns
  <2>5. Running(test, k, X, todo'[k])
    BY <2>1, <2>3, <2>4 DEF Running
  <2>6. jobMem'[k] = X /\ job'[k] = "run"
    BY <2>1 DEF X
  <2>7. Verdict(file') = Verdict(file)
    BY <2>1
  <2> QED BY <2>1, <2>2, <2>5, <2>6, <2>7 DEF JobStage, Active
<1>6. CASE Resubmit(k)
  <2>1. job[k] = "run" /\ x.act = "resubmit"
    BY <1>6 DEF Resubmit
  <2>2. Running(test, k, X, seq)
    BY <2>1 DEF JobStage, Active
  <2> HIDE DEF X, seq
  <2>3. x \in Between(test, k)
    BY <2>1, <2>2, MidRun
  <2>4. test.inJob
    BY <2>1, <2>3, BetweenIs
  <2> QED BY <2>4 DEF InOrder, InJob
<1>7. CASE Kill(k)
  <2>1. file' = file /\ job'[k] = "killed"
    BY <1>1, <1>7 DEF Kill
  <2> QED BY <2>1 DEF JobStage, Active
<1> QED BY <1>2, <1>3, <1>4, <1>5, <1>6, <1>7

\* The submission was not broken off after it queued its job.
NoBreak == \A k \in K : job[k] # "none" => submit[k] = "done"

\* The last submission that was begun.
Current(k) == submit[k] # "none" /\ \A l \in K : l > k => submit[l] = "none"

Stage(k) == /\ SubmitStage(test, k, submit[k], file, submitMem[k])
            /\ JobStage(test, k, job[k], file, jobMem[k], todo[k], outcome[k])

Answered == verdict # NoVerdict /\ ~stopped

\* The jobs of a test run one after the other, and the last submission says what the
\* file and the memories are.
Ordered ==
    /\ submit[1] # "none"
    /\ \A k \in K : submit[k] = "done" => job[k] # "none"
    /\ \A k, l \in K : l < k /\ submit[k] # "none" =>
          submit[l] = "done" /\ job[l] = "over" /\ outcome[l] = "PASS"
    /\ \A k \in K : Current(k) => Stage(k)
    /\ LeavesMark(test) /\ Answered => verdict.status = Verdict(file) /\ Verdict(file) # "PEND"

OrderInv == Unqueued /\ (InOrder /\ NoBreak => Ordered)

LEMMA OneIsCurrent ==
    ASSUME test \in Tests, submit[1] # "none"
    PROVE  \E k \in K : Current(k)
<1> DEFINE S == {i \in 1..Jobs : submit[Jobs + 1 - i] # "none"}
<1>1. Jobs \in Nat \ {0} /\ K = 1..Jobs
  BY Counting
<1>2. Jobs \in S /\ S \subseteq Nat
  <2>1. Jobs + 1 - Jobs = 1 /\ Jobs \in 1..Jobs
    BY <1>1
  <2>2. submit[Jobs + 1 - Jobs] # "none"
    BY <2>1
  <2> QED BY <2>1, <2>2, <1>1
<1>3. PICK i \in S : \A j \in S : i <= j
  <2> HIDE DEF S
  <2> QED BY <1>2, Least
<1> DEFINE k == Jobs + 1 - i
<1>4. i \in 1..Jobs /\ submit[k] # "none" /\ k \in K
  BY <1>1
<1>5. ASSUME NEW l \in K, l > k PROVE submit[l] = "none"
  <2> DEFINE j == Jobs + 1 - l
  <2>1. j \in 1..Jobs /\ j < i /\ Jobs + 1 - j = l
    BY <1>1, <1>4, <1>5
  <2>2. j \notin S
    BY <2>1, <1>3, <1>4
  <2> QED BY <2>1, <2>2
<1> QED BY <1>4, <1>5 DEF Current

\* A submission before which another one is not done, or a job before it, is current.
LEMMA IsCurrent ==
    ASSUME test \in Tests, Ordered, NEW k \in K, submit[k] # "none",
           submit[k] # "done" \/ job[k] # "over"
    PROVE  Current(k) /\ Stage(k)
<1>1. \A l \in K : l > k => submit[l] = "none"
  <2>1. \A l \in K : k \in Int /\ l \in Int
    BY Counting
  <2> QED BY <2>1 DEF Ordered
<1>2. Current(k)
  BY <1>1 DEF Current
<1> QED BY <1>2 DEF Ordered

LEMMA BreakStays ==
    ASSUME TypeInv, Unqueued, NEW k \in K, Submit(k) \/ Job(k) \/ Kill(k), test' = test, NoBreak'
    PROVE  NoBreak
<1>1. K' = K
  BY DEF K, Jobs
<1>2. /\ submit \in [K -> {"none", "start", "flush", "write", "queue", "error", "flushFail",
                           "writeFail", "done", "failed"}]
      /\ job \in [K -> {"none", "queued", "run", "flush", "write", "over", "killed"}]
  BY DEF TypeInv, TypeOK
<1> SUFFICES ASSUME NEW l \in K, job[l] # "none" PROVE submit[l] = "done"
  BY DEF NoBreak
<1>3. CASE Submit(k)
  <2>1. job'[l] # "none"
    BY <1>2, <1>3, SubmitFrame
  <2>2. submit'[l] = "done"
    BY <2>1, <1>1 DEF NoBreak
  <2>3. CASE l = k
    <3>1. submit[k] \notin Early
      BY <2>3 DEF Unqueued
    <3>2. submit'[k] # "done"
      BY <3>1, <1>2, <1>3 DEF Submit, SubmitRead, SubmitError, SubmitFlush, SubmitWrite, Queue, After,
                              Early
    <3> QED BY <3>2, <2>2, <2>3
  <2>4. CASE l # k
    BY <2>2, <2>4, <1>3, SubmitFrame
  <2> QED BY <2>3, <2>4
<1>4. CASE Job(k) \/ Kill(k)
  <2>1. job'[l] # "none"
    <3>1. CASE l = k
      <4>1. job'[k] # "none"
        BY <1>2, <1>4, <3>1 DEF Job, Start, SetNext, JudgeNext, JobFlush, JobWrite, RunModel,
                                Resubmit, Archive, Kill, jobVars
      <4> QED BY <4>1, <3>1
    <3>2. CASE l # k
      BY <3>2, <1>4, JobFrame
    <3> QED BY <3>1, <3>2
  <2>2. submit'[l] = "done"
    BY <2>1, <1>1 DEF NoBreak
  <2> QED BY <2>2, <1>4, JobFrame
<1> QED BY <1>3, <1>4

\* What a step of the current submission or of its job has to keep.
LEMMA OrderFrame ==
    ASSUME TypeInv, Ordered, test' = test, NEW k \in K, Current(k), UNCHANGED waitVars,
           submit'[k] # "none", submit'[k] = "done" => job'[k] # "none", Stage(k)',
           \A l \in K \ {k} : submit'[l] = submit[l] /\ job'[l] = job[l] /\ outcome'[l] = outcome[l],
           LeavesMark(test) => file' = file \/ Verdict(file) = "PEND"
    PROVE  Ordered'
<1>1. K' = K /\ \A l \in K : l \in Int
  <2>1. test \in Tests
    BY DEF TypeInv, TypeOK
  <2>2. \A l \in K : l \in Int
    BY <2>1, Counting
  <2> QED BY <2>2 DEF K, Jobs
<1>2. 1 \in K
  BY Counting DEF TypeInv, TypeOK
<1>3. submit'[1] # "none"
  BY <1>2 DEF Ordered
<1>4. \A m \in K : submit'[m] = "done" => job'[m] # "none"
  BY DEF Ordered
<1>5. ASSUME NEW m \in K, NEW l \in K, l < m, submit'[m] # "none"
      PROVE  submit'[l] = "done" /\ job'[l] = "over" /\ outcome'[l] = "PASS"
  <2>1. ~(m > k) /\ submit[m] # "none"
    BY <1>5 DEF Current
  <2>2. l # k
    BY <2>1, <1>1, <1>5
  <2> QED BY <2>1, <2>2, <1>5 DEF Ordered
<1>6. ASSUME NEW m \in K, Current(m)'
      PROVE  m = k
  <2>1. submit'[m] # "none" /\ ~(k > m)
    BY <1>1, <1>6 DEF Current
  <2>2. m > k => submit'[m] = "none"
    BY <1>1 DEF Current
  <2> QED BY <2>1, <2>2, <1>1
<1>7. ASSUME LeavesMark(test), Answered'
      PROVE  verdict'.status = Verdict(file') /\ Verdict(file') # "PEND"
  <2>1. Answered /\ verdict' = verdict
    BY <1>7 DEF Answered, waitVars
  <2>2. verdict.status = Verdict(file) /\ Verdict(file) # "PEND"
    BY <2>1, <1>7 DEF Ordered
  <2>3. file' = file
    BY <2>2, <1>7
  <2> QED BY <2>1, <2>2, <2>3
<1>8. \A m \in K : Current(m)' => Stage(m)'
  BY <1>6
<1>9. LeavesMark(test)' => LeavesMark(test)
  BY DEF LeavesMark
<1>10. Verdict(file)' = Verdict(file')
  BY DEF Verdict
<1> QED BY <1>1, <1>3, <1>4, <1>5, <1>7, <1>8, <1>9, <1>10 DEF Ordered

\* The submissions, the jobs and the archiver keep that order.
LEMMA SubmitOrder ==
    ASSUME TypeInv, OrderInv, InOrder, NEW k \in K, Submit(k), test' = test, NoBreak'
    PROVE  Ordered'
<1>1. NoBreak /\ Ordered /\ Unqueued /\ test \in Tests
  BY BreakStays DEF OrderInv, TypeInv, TypeOK
<1>2. submit[k] \notin {"none", "done", "failed"}
  BY DEF Submit, SubmitRead, SubmitError, SubmitFlush, SubmitWrite, Queue
<1>3. Current(k) /\ Stage(k)
  BY <1>1, <1>2, IsCurrent
<1>4. /\ SubmitStage(test, k, submit'[k], file', submitMem'[k])
      /\ submit[k] = "queue" => Submitted(test, k, file')
      /\ LeavesMark(test) => file' = file \/ Verdict(file) = "PEND"
      /\ submit'[k] # "none"
      /\ submit'[k] = "done" => submit[k] = "queue" /\ job' = [job EXCEPT ![k] = "queued"]
  BY <1>3, SubmitGoes DEF Stage
<1>5. /\ UNCHANGED << jobMem, todo, outcome, waitVars >>
      /\ job' = job \/ (submit[k] = "queue" /\ job[k] = "none" /\ job' = [job EXCEPT ![k] = "queued"])
      /\ \A l \in K \ {k} : submit'[l] = submit[l] /\ job'[l] = job[l]
  BY <1>1, SubmitFrame
<1>6. job[k] = "none"
  BY <1>1, <1>2 DEF NoBreak
<1>7. DOMAIN job = K /\ IsStatus(file')
  <2>1. TypeInv'
    BY SubmitTypes
  <2> QED BY <2>1 DEF TypeInv, TypeOK
<1>8. submit'[k] = "done" => job'[k] # "none"
  BY <1>4, <1>7
<1>9. JobStage(test, k, job'[k], file', jobMem'[k], todo'[k], outcome'[k])
  <2>1. CASE job' = job
    BY <2>1, <1>6 DEF JobStage, Active
  <2>2. CASE submit[k] = "queue" /\ job' = [job EXCEPT ![k] = "queued"]
    <3>1. job'[k] = "queued" /\ Submitted(test, k, file')
      BY <2>2, <1>4, <1>7
    <3>2. LeavesMark(test) => Verdict(file') = "PEND"
      BY <3>1, <1>7, SubmittedWaits
    <3> QED BY <3>1, <3>2 DEF JobStage, Active
  <2> QED BY <2>1, <2>2, <1>5
<1>10. Stage(k)'
  <2>1. /\ SubmitStage(test, k, submit'[k], file', submitMem'[k])
              = SubmitStage(test, k, submit[k], file, submitMem[k])'
        /\ JobStage(test, k, job'[k], file', jobMem'[k], todo'[k], outcome'[k])
              = JobStage(test, k, job[k], file, jobMem[k], todo[k], outcome[k])'
    OBVIOUS
  <2> QED BY <1>4, <1>9 DEF Stage
<1> QED BY <1>1, <1>3, <1>4, <1>5, <1>8, <1>10, OrderFrame

LEMMA JobOrder ==
    ASSUME TypeInv, OrderInv, InOrder, NEW k \in K, (Job(k) /\ ~Archive(k)) \/ Kill(k),
           test' = test, NoBreak'
    PROVE  Ordered'
<1>1. NoBreak /\ Ordered /\ Unqueued /\ test \in Tests
  BY BreakStays DEF OrderInv, TypeInv, TypeOK
<1>2. job[k] \notin {"none", "over", "killed"}
  BY DEF Job, Start, SetNext, JudgeNext, JobFlush, JobWrite, RunModel, Resubmit, Kill
<1>3. submit[k] = "done"
  BY <1>1, <1>2 DEF NoBreak
<1>4. Current(k) /\ Stage(k)
  BY <1>1, <1>2, <1>3, IsCurrent
<1>5. /\ JobStage(test, k, job'[k], file', jobMem'[k], todo'[k], outcome'[k])
      /\ LeavesMark(test) => file' = file \/ Verdict(file) = "PEND"
  <2>1. JobStage(test, k, job[k], file, jobMem[k], todo[k], outcome[k])
    BY <1>4 DEF Stage
  <2>2. CASE Start(k)
    BY <2>1, <2>2, StartGoes
  <2>3. CASE SetNext(k)
    BY <2>1, <2>3, SetGoes
  <2>4. CASE \/ JudgeNext(k) \/ JobFlush(k) \/ JobWrite(k) \/ RunModel(k) \/ Resubmit(k) \/ Kill(k)
    BY <2>1, <2>4, RestGoes
  <2> QED BY <2>2, <2>3, <2>4 DEF Job
<1>6. UNCHANGED submit
  <2>1. CASE Resubmit(k)
    <3>1. JobStage(test, k, job[k], file, jobMem[k], todo[k], outcome[k])
      BY <1>4 DEF Stage
    <3>2. Head(todo[k]).act = "resubmit" /\ Running(test, k, jobMem[k], todo[k])
      BY <2>1, <3>1 DEF Resubmit, JobStage
    <3>3. test.inJob
      BY <3>2, MidRun, BetweenIs
    <3> QED BY <3>3 DEF InOrder, InJob
  <2>2. CASE ~Resubmit(k)
    BY <2>2 DEF Job, Start, SetNext, JudgeNext, JobFlush, JobWrite, RunModel, Kill, submitVars
  <2> QED BY <2>1, <2>2
<1>7. /\ UNCHANGED waitVars /\ UNCHANGED submitMem
      /\ \A l \in K \ {k} : submit'[l] = submit[l] /\ job'[l] = job[l] /\ outcome'[l] = outcome[l]
  BY <1>1, <1>6, JobFrame
<1>8. job'[k] # "none"
  <2>1. DOMAIN job = K
    BY DEF TypeInv, TypeOK
  <2> QED BY <2>1, <1>2 DEF Job, Start, SetNext, JudgeNext, JobFlush, JobWrite, RunModel, Resubmit, Kill
<1>9. SubmitStage(test, k, submit'[k], file', submitMem'[k])
  BY <1>3, <1>6 DEF SubmitStage
<1>10. Stage(k)'
  BY <1>5, <1>9 DEF Stage
<1> QED BY <1>1, <1>3, <1>4, <1>5, <1>6, <1>7, <1>8, <1>10, OrderFrame

LEMMA ArchiveOrder ==
    ASSUME TypeInv, OrderInv, InOrder, NEW k \in K, Archive(k), test' = test, NoBreak'
    PROVE  Ordered'
<1>1. NoBreak /\ Ordered /\ Unqueued /\ test \in Tests /\ K' = K
  BY BreakStays DEF OrderInv, TypeInv, TypeOK, Job, K, Jobs
<1>2. /\ job[k] = "over" /\ outcome[k] = "PASS" /\ submit[k + 1] = "none"
      /\ submit' = [submit EXCEPT ![k + 1] = "start"]
      /\ UNCHANGED << file, submitMem, job, jobMem, todo, outcome, waitVars >>
  BY DEF Archive, jobVars
<1>3. /\ k < Jobs /\ Jobs = test.jobs /\ k + 1 \in K /\ k \in Nat /\ k >= 1 /\ 1 \in K
      /\ \A l \in K : l \in Nat
  BY <1>1, Counting DEF Archive, Final, K
<1>4. submit[k] = "done" /\ DOMAIN submit = K
  BY <1>1, <1>2 DEF NoBreak, TypeInv, TypeOK
<1>5. \A l \in K : l > k => submit[l] = "none"
  <2> SUFFICES ASSUME NEW l \in K, l > k, submit[l] # "none" PROVE FALSE
    OBVIOUS
  <2>1. l # k + 1
    BY <1>2
  <2>2. k + 1 < l
    BY <2>1, <1>3
  <2>3. submit[k + 1] = "done"
    BY <2>2, <1>1, <1>3 DEF Ordered
  <2> QED BY <2>3, <1>2
<1>6. Ended(test, k, file, "PASS")
  <2>1. Current(k)
    BY <1>4, <1>5 DEF Current
  <2>2. Stage(k)
    BY <2>1, <1>1 DEF Ordered
  <2> QED BY <2>2, <1>2 DEF Stage, JobStage
<1>7. Unsubmitted(test, k + 1, file)
  BY <1>3, <1>6 DEF Ended, Unsubmitted, Submitted
<1>8. \A l \in K : submit'[l] = IF l = k + 1 THEN "start" ELSE submit[l]
  BY <1>2, <1>4
<1>9. job[k + 1] = "none"
  BY <1>1, <1>2, <1>3 DEF Unqueued, Early
<1>10. \A m \in K : Current(m)' => Stage(m)'
  <2> SUFFICES ASSUME NEW m \in K, Current(m)' PROVE Stage(m)'
    OBVIOUS
  <2>1. m = k + 1
    <3>1. submit'[m] # "none" /\ \A l \in K : l > m => submit'[l] = "none"
      BY <1>1 DEF Current
    <3>2. ~(k + 1 > m)
      BY <3>1, <1>3, <1>8
    <3>3. ~(m > k + 1)
      <4> SUFFICES ASSUME m > k + 1 PROVE FALSE
        OBVIOUS
      <4>1. m > k /\ m # k + 1
        BY <1>3
      <4> QED BY <4>1, <3>1, <1>5, <1>8
    <3> QED BY <3>2, <3>3, <1>3
  <2>2. SubmitStage(test, m, submit'[m], file', submitMem'[m])
    BY <2>1, <1>2, <1>3, <1>7, <1>8 DEF SubmitStage
  <2>3. JobStage(test, m, job'[m], file', jobMem'[m], todo'[m], outcome'[m])
    BY <2>1, <1>2, <1>9 DEF JobStage, Active
  <2> QED BY <2>2, <2>3 DEF Stage
<1>11. \A m \in K : submit'[m] = "done" => job'[m] # "none"
  BY <1>1, <1>2, <1>8 DEF Ordered
<1>12. ASSUME NEW m \in K, NEW l \in K, l < m, submit'[m] # "none"
       PROVE  submit'[l] = "done" /\ job'[l] = "over" /\ outcome'[l] = "PASS"
  <2>1. submit[l] = "done" /\ job[l] = "over" /\ outcome[l] = "PASS"
    <3>1. CASE m # k + 1
      BY <3>1, <1>1, <1>8, <1>12 DEF Ordered
    <3>2. CASE m = k + 1 /\ l # k
      <4>1. l < k
        BY <3>2, <1>3, <1>12
      <4> QED BY <4>1, <1>1, <1>4 DEF Ordered
    <3>3. CASE l = k
      BY <3>3, <1>2, <1>4
    <3> QED BY <3>1, <3>2, <3>3
  <2> QED BY <2>1, <1>2, <1>8
<1>13. submit'[1] # "none"
  BY <1>1, <1>3, <1>8 DEF Ordered
<1>14. LeavesMark(test)' /\ Answered' => verdict'.status = Verdict(file)' /\ Verdict(file)' # "PEND"
  BY <1>1, <1>2 DEF Ordered, LeavesMark, Answered, Verdict, waitVars
<1> QED BY <1>1, <1>10, <1>11, <1>12, <1>13, <1>14 DEF Ordered

LEMMA OrderInvariant == Spec => []OrderInv
<1>1. Init => OrderInv
  <2> SUFFICES ASSUME Init PROVE OrderInv
    OBVIOUS
  <2>1. /\ test \in Tests /\ file = Built
        /\ submit = [k \in K |-> IF k = 1 THEN "start" ELSE "none"]
        /\ job = [k \in K |-> "none"] /\ verdict = NoVerdict
    BY DEF Init
  <2>2. 1 \in K /\ \A l \in K : l \in Nat /\ l >= 1
    BY <2>1, Counting DEF K
  <2>3. Unqueued /\ ~Answered /\ submit[1] # "none"
    BY <2>1, <2>2 DEF Unqueued, Answered
  <2>4. ASSUME NEW m \in K, submit[m] # "none"
        PROVE  m = 1 /\ Stage(m)
    <3>1. m = 1 /\ submit[m] = "start" /\ job[m] = "none"
      BY <2>1, <2>4
    <3>2. Unsubmitted(test, m, file)
      BY <2>1, <3>1 DEF Unsubmitted
    <3>3. SubmitStage(test, m, submit[m], file, submitMem[m])
      BY <3>1, <3>2 DEF SubmitStage
    <3>4. JobStage(test, m, job[m], file, jobMem[m], todo[m], outcome[m])
      BY <3>1 DEF JobStage, Active
    <3> QED BY <3>1, <3>3, <3>4 DEF Stage
  <2>5. \A k \in K : submit[k] # "done"
    BY <2>1
  <2>6. \A k, l \in K : ~(l < k /\ submit[k] # "none")
    BY <2>2, <2>4
  <2> QED BY <2>3, <2>4, <2>5, <2>6 DEF OrderInv, Ordered, Current
<1>2. TypeInv /\ OrderInv /\ [Next]_vars => OrderInv'
  <2> SUFFICES ASSUME TypeInv, OrderInv, [Next]_vars PROVE OrderInv'
    OBVIOUS
  <2>1. CASE \E k \in K : (Submit(k) \/ Job(k) \/ Kill(k)) /\ test' = test
    <3>1. PICK k \in K : Submit(k) \/ Job(k) \/ Kill(k)
      BY <2>1
    <3>2. Unqueued'
      BY <2>1, <3>1, SubmitFrame, JobFrame DEF OrderInv
    <3>3. InOrder' => InOrder
      BY <2>1 DEF InOrder, InJob
    <3>4. InOrder /\ NoBreak' => Ordered'
      BY <2>1, <3>1, SubmitOrder, JobOrder, ArchiveOrder
    <3> QED BY <3>2, <3>3, <3>4 DEF OrderInv
  <2>2. ASSUME UNCHANGED << test, file, submitVars, jobVars >>,
               Ordered /\ LeavesMark(test) /\ Answered' =>
                  verdict'.status = Verdict(file) /\ Verdict(file) # "PEND"
        PROVE  OrderInv'
    <3>1. /\ K' = K /\ UNCHANGED << test, file, submit, submitMem, job, jobMem, todo, outcome >>
          /\ Verdict(file)' = Verdict(file)
      BY <2>2 DEF K, Jobs, submitVars, jobVars, Verdict
    <3>2. (Unqueued' <=> Unqueued) /\ (InOrder' <=> InOrder) /\ (NoBreak' <=> NoBreak)
      BY <3>1 DEF Unqueued, InOrder, InJob, NoBreak
    <3>3. \A k \in K : Current(k)' => Current(k)
      BY <3>1 DEF Current
    <3>4. \A k \in K : Stage(k) => Stage(k)'
      BY <3>1 DEF Stage
    <3>5. LeavesMark(test)' => LeavesMark(test)
      BY <3>1 DEF LeavesMark
    <3>6. Ordered => Ordered'
      BY <2>2, <3>1, <3>3, <3>4, <3>5 DEF Ordered
    <3> QED BY <3>2, <3>6 DEF OrderInv
  <2>3. CASE Report /\ test' = test
    <3>1. /\ UNCHANGED << test, file, submitVars, jobVars >> /\ stopped' = stopped
          /\ verdict'.status = Verdict(file) /\ (Verdict(file) # "PEND" \/ stopped)
      BY <2>3 DEF Report, Verdict
    <3>2. Answered' => verdict'.status = Verdict(file) /\ Verdict(file) # "PEND"
      BY <3>1 DEF Answered
    <3> QED BY <2>2, <3>1, <3>2
  <2>4. CASE Stop /\ test' = test
    <3>1. ~Answered' /\ UNCHANGED << test, file, submitVars, jobVars >>
      BY <2>4 DEF Stop, Answered
    <3> QED BY <2>2, <3>1
  <2>5. CASE UNCHANGED vars
    <3>1. (Answered' <=> Answered) /\ verdict' = verdict
          /\ UNCHANGED << test, file, submitVars, jobVars >>
      BY <2>5 DEF Answered, vars, waitVars
    <3> QED BY <2>2, <3>1 DEF Ordered
  <2> QED BY <2>1, <2>3, <2>4, <2>5 DEF Next, Terminating
<1> QED BY <1>1, <1>2, TypeInvariant, PTL DEF Spec

-----------------------------------------------------------------------------
(* What follows for the end of a test *)

LEMMA EndsDone ==
    ASSUME TypeInv, OrderInv, InOrder, NoBreak, Over
    PROVE  \E k \in K :
              /\ Current(k) /\ submit[k] \in {"done", "failed"}
              /\ submit[k] = "failed" => Refused(file)
              /\ submit[k] = "done" =>
                    /\ job[k] = "killed" \/ (job[k] = "over" /\ Ended(test, k, file, outcome[k]))
                    /\ ~More(k)
              /\ \A l \in K : l > k => submit[l] = "none" /\ job[l] = "none"
<1>1. Ordered /\ Unqueued /\ test \in Tests
  BY DEF OrderInv, TypeInv, TypeOK
<1>2. PICK k \in K : Current(k)
  BY <1>1, OneIsCurrent DEF Ordered
<1>3. Stage(k)
  BY <1>1, <1>2 DEF Ordered
<1>4. submit[k] \in {"done", "failed"} /\ ~More(k) /\ job[k] \in {"none", "over", "killed"}
  BY <1>2 DEF Over, Idle, Current
<1>5. submit[k] = "failed" => Refused(file)
  BY <1>3 DEF Stage, SubmitStage
<1>6. submit[k] = "done" => job[k] = "killed" \/ (job[k] = "over" /\ Ended(test, k, file, outcome[k]))
  BY <1>1, <1>3, <1>4 DEF Ordered, Stage, JobStage
<1>7. \A l \in K : l > k => submit[l] = "none" /\ job[l] = "none"
  BY <1>1, <1>2 DEF Current, Unqueued, Early
<1> QED BY <1>2, <1>4, <1>5, <1>6, <1>7

\* The RUN phase at the end of a test is the result of its last job: no update of the
\* file is lost when the jobs of the test follow one another and none is killed.
THEOREM ResultsKeptHolds == Spec => []ResultsKept
<1>1. TypeInv /\ OrderInv => ResultsKept
  <2> SUFFICES ASSUME TypeInv, OrderInv, InOrder, Over,
                      \A k \in K : submit[k] # "failed" /\ job[k] # "killed"
               PROVE  \E k \in K : /\ job[k] = "over" /\ \A l \in K : l > k => job[l] = "none"
                                   /\ file.st["RUN"] = outcome[k]
    BY DEF ResultsKept
  <2>1. NoBreak
    BY DEF NoBreak, OrderInv, Unqueued, Early, Over, Idle
  <2>2. PICK k \in K : /\ job[k] = "over" /\ Ended(test, k, file, outcome[k])
                       /\ \A l \in K : l > k => job[l] = "none"
    BY <2>1, EndsDone
  <2> QED BY <2>2 DEF Ended, Cores
<1> QED BY <1>1, TypeInvariant, OrderInvariant, PTL

\* Where no case.submit fails after it queued its job, none is broken off.
LEMMA NeverBroken ==
    ASSUME \A t \in Tests : ~t.inJob => "break" \notin t.may
    PROVE  Spec => [](InOrder => NoBreak)
<1>1. Init => (InOrder => NoBreak)
  <2> SUFFICES ASSUME Init PROVE NoBreak
    OBVIOUS
  <2>1. \A k \in K : job[k] = "none"
    BY DEF Init
  <2> QED BY <2>1 DEF NoBreak
<1>2. TypeInv /\ OrderInv /\ (InOrder => NoBreak) /\ [Next]_vars => (InOrder => NoBreak)'
  <2> SUFFICES ASSUME TypeInv, OrderInv, InOrder => NoBreak, [Next]_vars, InOrder', NEW l \in K',
                      job'[l] # "none"
               PROVE  submit'[l] = "done"
    BY DEF NoBreak
  <2>1. test' = test /\ K' = K /\ InOrder /\ NoBreak /\ l \in K /\ test \in Tests
    BY DEF Next, vars, K, Jobs, InOrder, InJob, TypeInv, TypeOK
  <2>2. ~May("break")
    BY <2>1 DEF May, InOrder, InJob
  <2>3. /\ submit \in [K -> {"none", "start", "flush", "write", "queue", "error", "flushFail",
                             "writeFail", "done", "failed"}]
        /\ DOMAIN job = K
    BY DEF TypeInv, TypeOK
  <2>4. ASSUME NEW k \in K, Submit(k) PROVE submit'[l] = "done"
    <3>1. CASE l # k
      <4>1. job'[l] = job[l] /\ submit'[l] = submit[l]
        BY <2>1, <2>4, <3>1, SubmitFrame DEF OrderInv
      <4> QED BY <4>1, <2>1 DEF NoBreak
    <3>2. CASE l = k
      <4>1. submit[k] # "done"
        BY <2>4 DEF Submit, SubmitRead, SubmitError, SubmitFlush, SubmitWrite, Queue
      <4>2. job[k] = "none"
        BY <4>1, <2>1 DEF NoBreak
      <4>3. Queue(k) /\ submit'[k] = "done"
        BY <4>2, <2>2, <2>3, <2>4, <3>2 DEF Submit, SubmitRead, SubmitError, SubmitFlush, SubmitWrite,
                                            Queue, jobVars
      <4> QED BY <4>3, <3>2
    <3> QED BY <3>1, <3>2
  <2>5. ASSUME NEW k \in K, Job(k) \/ Kill(k) PROVE submit'[l] = "done"
    <3>1. job[k] # "none"
      BY <2>1, <2>5, JobFrame DEF OrderInv
    <3>2. job[l] # "none"
      <4>1. l # k => job'[l] = job[l]
        BY <2>1, <2>5, JobFrame DEF OrderInv
      <4> QED BY <4>1, <3>1
    <3>3. submit[l] = "done"
      BY <3>2, <2>1 DEF NoBreak
    <3>4. submit'[l] = submit[l] \/ submit[l] = "none"
      BY <2>1, <2>5, JobFrame DEF OrderInv
    <3> QED BY <3>3, <3>4
  <2>6. CASE UNCHANGED << submitVars, jobVars >>
    BY <2>1, <2>6 DEF NoBreak, submitVars, jobVars
  <2> QED BY <2>4, <2>5, <2>6 DEF Next, Stop, Report, Terminating, vars
<1> QED BY <1>1, <1>2, TypeInvariant, OrderInvariant, PTL DEF Spec

\* A refused submission is a failed test at the end, in the order of the batch
\* system and when case.submit fails only before its job is queued.
THEOREM FailedSubmitMarkedHolds ==
    ASSUME \A t \in Tests : ~t.inJob => "break" \notin t.may
    PROVE  Spec => []FailedSubmitMarked
<1>1. TypeInv /\ OrderInv /\ (InOrder => NoBreak) => FailedSubmitMarked
  <2> SUFFICES ASSUME TypeInv, OrderInv, NoBreak, InOrder, NEW k \in K, submit[k] = "failed"
               PROVE  Verdict(file) = "FAIL"
    BY DEF FailedSubmitMarked, Verdict
  <2>1. Ordered /\ test \in Tests /\ IsStatus(file)
    BY DEF OrderInv, TypeInv, TypeOK
  <2>2. Stage(k)
    BY <2>1, IsCurrent
  <2>3. Refused(file)
    BY <2>2 DEF Stage, SubmitStage
  <2> QED BY <2>1, <2>3, RefusedVerdict
<1> QED BY <1>1, TypeInvariant, OrderInvariant, NeverBroken, PTL

\* wait_for_tests always gets an answer in the end, unless a job is killed: nothing
\* is pending in the file when nothing is left to happen.
THEOREM AnswerAtEndHolds ==
    ASSUME \A t \in Tests : ~t.inJob => "break" \notin t.may
    PROVE  Spec => []AnswerAtEnd
<1>1. TypeInv /\ OrderInv /\ (InOrder => NoBreak) => AnswerAtEnd
  <2> SUFFICES ASSUME TypeInv, OrderInv, NoBreak, InOrder, Over, \A k \in K : job[k] # "killed"
               PROVE  Verdict(file) # "PEND"
    BY DEF AnswerAtEnd, Verdict
  <2>1. IsStatus(file) /\ test \in Tests
    BY DEF TypeInv, TypeOK
  <2>2. PICK k \in K :
              /\ Current(k) /\ submit[k] \in {"done", "failed"}
              /\ submit[k] = "failed" => Refused(file)
              /\ submit[k] = "done" => job[k] = "over" /\ Ended(test, k, file, outcome[k]) /\ ~More(k)
    BY EndsDone
  <2>3. CASE submit[k] = "failed"
    BY <2>1, <2>2, <2>3, RefusedVerdict
  <2>4. CASE submit[k] = "done" /\ outcome[k] = "FAIL"
    <3>1. Cores(file, "FAIL")
      BY <2>2, <2>4 DEF Ended
    <3> QED BY <3>1, <2>1, CoresVerdict
  <2>5. CASE submit[k] = "done" /\ outcome[k] = "PASS"
    <3>1. Ended(test, k, file, "PASS") /\ ~More(k) /\ job[k] = "over"
      BY <2>2, <2>5
    <3>2. k = test.jobs
      <4> SUFFICES ASSUME k # test.jobs PROVE FALSE
        OBVIOUS
      <4>1. k + 1 \in K /\ k + 1 > k /\ ~Final(k)
        BY <2>1, Counting
      <4>2. submit[k + 1] = "none"
        BY <4>1, <2>2 DEF Current
      <4> QED BY <4>1, <4>2, <3>1, <2>5 DEF More, InOrder
    <3>3. (\A p \in Phases : file.st[p] # "PEND") /\ file.st["RUN"] = "PASS"
      BY <3>1, <3>2 DEF Ended, Cores
    <3> QED BY <3>3, <2>1, VerdictOfEnd DEF NoStatus
  <2>6. submit[k] = "done" => outcome[k] \in {"PASS", "FAIL"}
    BY <2>2 DEF Ended, AnyResult
  <2> QED BY <2>2, <2>3, <2>4, <2>5, <2>6
<1> QED BY <1>1, TypeInvariant, OrderInvariant, NeverBroken, PTL

\* What wait_for_tests reports is what the file says at the end: the verdict of a
\* test of several submissions is not given between two of them.
THEOREM VerdictIsFinalHolds ==
    ASSUME \A t \in Tests : LeavesMark(t), \A t \in Tests : ~t.inJob => "break" \notin t.may
    PROVE  Spec => []VerdictIsFinal
<1>1. TypeInv /\ OrderInv /\ (InOrder => NoBreak) => VerdictIsFinal
  <2> SUFFICES ASSUME TypeInv, OrderInv, NoBreak, InOrder, Answered
               PROVE  verdict.status = Verdict(file)
    BY DEF VerdictIsFinal, Verdict, Answered
  <2>1. Ordered /\ LeavesMark(test)
    BY DEF OrderInv, TypeInv, TypeOK
  <2> QED BY <2>1 DEF Ordered
<1> QED BY <1>1, TypeInvariant, OrderInvariant, NeverBroken, PTL

\* The three of them that a poll of the file relies on.
THEOREM ReportHolds ==
    ASSUME \A t \in Tests : ~t.inJob => "break" \notin t.may
    PROVE  Spec => []ReportInv
  BY TypeHolds, ReportHasNameHolds, FailedSubmitMarkedHolds, PTL DEF ReportInv
=============================================================================
