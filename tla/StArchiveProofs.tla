---------------------------- MODULE StArchiveProofs ----------------------------
(***************************************************************************)
(* What the archiver leaves, for any number of components, any length of   *)
(* runs and history files, and kills of the model and the archiver         *)
(* anywhere.                                                               *)
(***************************************************************************)
EXTENDS StArchive, WellFoundedInduction, TLAPS

(***************************************************************************)
(* The inductive invariant                                                 *)
(***************************************************************************)
N == Len(Order)
Looping == job.at \in {"rpointer", "restart"}
\* The day the simulation has reached on disk
Now == IF model.on THEN model.at ELSE run.rp[Cpl]
SavedNow == Looping /\ (ThisDate = job.latest \/ interim)

\* The types, and where model and archiver are
Types ==
  /\ TypeOK
  /\ model.on => ~ArchiverOn /\ (model.wrote # Comps => model.at > 0)
  /\ Looping <=> job.left # {}

\* The pointer files point to the day reached; the coupler's is the last to
Pointers ==
  /\ \A c \in Comps : run.rp[c] = IF model.on /\ c \notin model.wrote THEN Now - 1 ELSE Now
  /\ model.on /\ Cpl \in model.wrote => model.wrote = Comps

\* The restarts of the run directory are not after the pointers, one of them is
\* there, the coupler has every date, and the history files they list are whole
Restarts ==
  \A c \in Comps :
    /\ \A d \in run.r[c] : /\ d <= run.rp[c]
                           /\ d \in run.r[Cpl] \/ d = run.rp[c]
                           /\ \A s \in Open(d) : run.h[c][s] >= d
    /\ run.rp[c] > 0 => run.rp[c] \in run.r[c]

\* A history file in the run directory is up to date, the open ones of a running
\* model are there; if a file is not there, it is in the archive
Whole(h, s, now) == h >= now \/ h >= s + Width - 1
Histories ==
  \A c \in Comps :
    /\ \A s \in {t \in Starts : t <= Now} :
         IF run.h[c][s] > 0 THEN Whole(run.h[c][s], s, Now) ELSE Whole(hist[c][s], s, Now)
    /\ model.on => \A s \in Open(model.at) : run.h[c][s] >= model.at

\* What a saved set has of a component
Part(c, d) ==
  c \in rest[d].r /\ (d \notin spoiled => \A s \in Open(d) : rest[d].h[c][s] >= d)
Moved ==
  interim => \A c \in Comps : \A d \in run.r[Cpl] \ run.r[c] : rest[d] # Absent /\ Part(c, d)

\* The saved dates are not after those of the run directory, the last modified
\* is the last; a set has only history files that are open; the last date, whose
\* restarts stay in the run directory, is not spoiled
Ascending ==
  /\ \A d \in spoiled : d < run.rp[Cpl]
  /\ \A d \in {e \in Dates : rest[e] # Absent} :
         /\ d <= newest /\ run.rp[Cpl] > 0 /\ \A e \in run.r[Cpl] : d <= e
         /\ \A c \in Comps : \A s \in Starts : rest[d].h[c][s] > 0 => s \in Open(d)

\* Every set is usable, apart from the one that is being saved
SetsUsable ==
  \A d \in Dates \ cut :
    \/ SavedNow /\ d = ThisDate
    \/ rest[d] = Absent
    \/ rest[d] # Absent /\ Usable(d)
    \/ ~interim /\ rest[d] = EmptySet

\* What the archiver has done of this date
Turn ==
  Looping =>
    \A j \in 1..N :
      /\ SavedNow /\ (j < job.i \/ (j = job.i /\ job.at = "restart")) =>
           rest[ThisDate] # Absent /\ rest[ThisDate].rp[Order[j]] = ThisDate
      /\ j < job.i /\ SavedNow => Part(Order[j], ThisDate)
      /\ j < job.i /\ ThisDate # job.latest => ThisDate \notin run.r[Order[j]]
      /\ j < job.i /\ ThisDate = job.latest => Open(job.latest) \subseteq job.keep[Order[j]]

\* The archiver as a whole: the dates left to do, the last set and its history
Archiving ==
  /\ ArchiverOn => /\ job.latest = run.rp[Cpl] /\ job.last = NoDate /\ ~job.copy
                   /\ job.left \subseteq run.r[Cpl] /\ run.r[Cpl] \subseteq job.left \cup {job.latest}
                   /\ Looping => job.latest \in job.left
  /\ job.at = "history" /\ job.latest > 0 =>
       /\ rest[job.latest] # Absent /\ Usable(job.latest)
       /\ \A c \in Comps : Open(job.latest) \subseteq job.keep[c]
  /\ job.done => /\ ~model.on /\ ~ArchiverOn
                 /\ run.rp[Cpl] > 0 => rest[run.rp[Cpl]] # Absent /\ Usable(run.rp[Cpl])

InOrder == Pointers /\ Restarts /\ Histories /\ Moved /\ Ascending /\ SetsUsable /\ Turn /\ Archiving
IInv == Types /\ (~torn => InOrder)

\* Every archiving is of all dates, and moves files (the defaults of
\* case.st_archive), and every component has one pointer file; section 7 of the
\* README says what the others do.
Plain == LastDates \subseteq {NoDate} /\ CopyOnly \subseteq {FALSE} /\ Many = {}

--------------------------------------------------------------------------------
(* Lemmas about the operators *)

\* A set of dates has a first one.
LEMMA FirstOfDates ==
  ASSUME NEW S \in SUBSET Nat, S # {}
  PROVE  Min(S) \in S /\ \A y \in S : Min(S) <= y
<1> DEFINE R == {p \in Nat \X Nat : p[1] < p[2]}
<1>1. IsWellFoundedOn(R, Nat)
  BY NatLessThanWellFounded DEF OpToRel
<1> HIDE DEF R
<1>2. PICK x \in S : \A y \in S : ~(<<y, x>> \in R)
  BY <1>1, WFMin
<1>3. ASSUME NEW y \in S PROVE x <= y
  <2>1. ~(<<y, x>> \in R) /\ <<y, x>> \in Nat \X Nat
    BY <1>2
  <2>2. ~(y < x)
    BY <2>1 DEF R
  <2> QED BY <2>2
<1> QED BY <1>3 DEF Min

\* The last of some dates, when it is known.
LEMMA LastOfDates ==
  ASSUME NEW S \in SUBSET Int, NEW m \in S, \A y \in S : m >= y
  PROVE  Max(S) = m
<1>1. \A x \in S : (\A y \in S : x >= y) => x = m
  OBVIOUS
<1> QED BY <1>1 DEF Max

\* Days have a last one.
LEMMA LastOfSome ==
  ASSUME NEW n \in Nat, NEW S \in SUBSET (0..n), S # {}
  PROVE  Max(S) \in S
<1> DEFINE T == {n - x : x \in S}
<1>1. T \in SUBSET Nat /\ T # {}
  <2>1. \A x \in S : n - x \in Nat
    OBVIOUS
  <2> QED BY <2>1
<1>2. Min(T) \in T /\ \A y \in T : Min(T) <= y
  BY <1>1, FirstOfDates
<1>3. PICK m \in S : Min(T) = n - m
  BY <1>2
<1>4. \A x \in S : m >= x
  <2> TAKE x \in S
  <2>1. n - m <= n - x
    BY <1>2, <1>3
  <2> QED BY <2>1
<1>5. S \in SUBSET Int
  OBVIOUS
<1> QED BY <1>4, <1>5, LastOfDates

LEMMA LastOfTwo ==
  ASSUME NEW a \in Int, NEW b \in Int
  PROVE  Max({a, b}) >= a /\ Max({a, b}) >= b
<1>1. CASE a >= b
  <2>1. Max({a, b}) = a
    BY <1>1, LastOfDates, \A y \in {a, b} : a >= y
  <2> QED BY <1>1, <2>1
<1>2. CASE b >= a
  <2>1. Max({a, b}) = b
    BY <1>2, LastOfDates, \A y \in {a, b} : b >= y
  <2> QED BY <1>2, <2>1
<1> QED BY <1>1, <1>2

LEMMA FirstOfTwo ==
  ASSUME NEW a \in Nat, NEW b \in Nat
  PROVE  Min({a, b}) <= a /\ Min({a, b}) <= b
BY FirstOfDates

\* A multiple leaves no remainder.
LEMMA Multiple ==
  ASSUME NEW w \in Nat \ {0}, NEW q \in Int
  PROVE  (w * q) % w = 0
<1> DEFINE p == (w * q) \div w
           r == (w * q) % w
<1>1. p \in Int /\ r \in 0..(w - 1) /\ w * q = w * p + r
  OBVIOUS
<1> HIDE DEF p, r
<1>2. r = w * (q - p)
  BY <1>1
<1>3. q - p < 1
  <2> SUFFICES ASSUME q - p >= 1 PROVE FALSE
    BY <1>1
  <2>1. w * (q - p) >= w
    BY <1>1
  <2> QED BY <2>1, <1>1, <1>2
<1>4. q - p > -1
  <2> SUFFICES ASSUME q - p <= -1 PROVE FALSE
    BY <1>1
  <2>1. w * (q - p) <= -w
    BY <1>1
  <2> QED BY <2>1, <1>1, <1>2
<1>5. q - p = 0
  BY <1>1, <1>3, <1>4
<1>6. r = 0
  BY <1>2, <1>5
<1> QED BY <1>6 DEF r

\* The first day of a history file comes after whole files.
LEMMA StartIsMultiple ==
  ASSUME NEW s \in Starts
  PROVE  \E q \in Int : s - 1 = Width * q
<1> DEFINE q == (s - 1) \div Width
           r == (s - 1) % Width
<1>1. Width \in Nat \ {0} /\ s \in Nat /\ s >= 1
  BY LengthAssumption DEF Starts, Dates
<1>2. q \in Int /\ s - 1 = Width * q + r
  BY <1>1
<1>3. r = 0
  BY DEF Starts
<1> HIDE DEF q, r
<1>4. s - 1 = Width * q
  BY <1>1, <1>2, <1>3
<1> QED BY <1>2, <1>4

\* The first days of two history files are at least a file apart.
LEMMA StartsApart ==
  ASSUME NEW s \in Starts, NEW t \in Starts, s < t
  PROVE  s + Width <= t
<1>1. Width \in Nat \ {0} /\ s \in Nat /\ t \in Nat /\ s >= 1
  BY LengthAssumption DEF Starts, Dates
<1>2. PICK q \in Int : s - 1 = Width * q
  BY StartIsMultiple
<1>3. PICK r \in Int : t - 1 = Width * r
  BY StartIsMultiple
<1>4. Width * (r - q) > 0
  BY <1>1, <1>2, <1>3
<1>5. r - q >= 1
  BY <1>1, <1>4
<1>6. Width * (r - q) >= Width
  BY <1>1, <1>5
<1> QED BY <1>1, <1>2, <1>3, <1>6

\* Every day has its history file, and the files before it have ended.
LEMMA FileOfDay ==
  ASSUME NEW d \in Dates
  PROVE  /\ FileOf(d) \in Starts /\ FileOf(d) <= d /\ d < FileOf(d) + Width
         /\ \A s \in Starts : s <= d /\ s # FileOf(d) => s + Width <= d
<1>1. Width \in Nat \ {0} /\ Days \in Nat /\ d \in 1..Days
  BY LengthAssumption DEF Dates
<1> DEFINE f == d - ((d - 1) % Width)
<1>2. f \in Starts /\ f <= d /\ d < f + Width
  <2> DEFINE q == (d - 1) \div Width
             r == (d - 1) % Width
  <2>1. q \in Int /\ r \in 0..(Width - 1) /\ d - 1 = Width * q + r
    BY <1>1
  <2>2. f = d - r
    OBVIOUS
  <2> HIDE DEF q, r, f
  <2>3. f - 1 = Width * q /\ f \in Int /\ f <= d /\ d < f + Width
    BY <2>1, <2>2, <1>1
  <2>4. (f - 1) % Width = 0
    BY <2>1, <2>3, <1>1, Multiple
  <2>5. q >= 0
    <3> SUFFICES ASSUME q <= -1 PROVE FALSE
      BY <2>1
    <3>1. Width * q <= -Width
      BY <2>1, <1>1
    <3> QED BY <3>1, <2>1, <1>1
  <2>6. Width * q >= 0
    BY <2>5, <2>1, <1>1
  <2>7. f >= 1
    BY <2>6, <2>3
  <2>8. f \in Dates
    BY <2>7, <2>3, <1>1 DEF Dates
  <2> QED BY <2>3, <2>4, <2>8 DEF Starts
<1>3. FileOf(d) \in Starts /\ FileOf(d) <= d /\ d < FileOf(d) + Width
  BY <1>2 DEF FileOf
<1>4. ASSUME NEW s \in Starts, s <= d, s # FileOf(d)
      PROVE  s + Width <= d
  <2>1. s \in Int /\ FileOf(d) \in Int
    BY <1>3 DEF Starts, Dates
  <2>2. CASE s < FileOf(d)
    BY <2>1, <2>2, <1>1, <1>3, <1>4, StartsApart
  <2>3. CASE FileOf(d) < s
    <3>1. FileOf(d) + Width <= s
      BY <2>3, <1>3, StartsApart
    <3> QED BY <3>1, <2>1, <1>1, <1>3, <1>4
  <2> QED BY <2>1, <2>2, <2>3, <1>4
<1> QED BY <1>3, <1>4

\* The components are those of the order, the coupler is the last.
LEMMA Components ==
  /\ N \in Nat \ {0} /\ Cpl \in Comps /\ Cpl = Order[N]
  /\ \A j \in 1..N : Order[j] \in Comps
  /\ \A c \in Comps : \E j \in 1..N : Order[j] = c
  /\ \A j, k \in 1..N : Order[j] = Order[k] => j = k
BY OrderAssumption DEF N, Cpl, Comps, ToSet, IsInjective

\* An absent directory is not a set.
LEMMA AbsentIsNone == Absent \notin Sets
<1>1. SUFFICES ASSUME Absent \in Sets PROVE FALSE
  OBVIOUS
<1>2. "h" \in DOMAIN Absent
  BY <1>1 DEF Sets
<1> QED BY <1>2 DEF Absent

LEMMA EmptyIsSet == EmptySet \in Sets /\ NoHist \in HistFiles
BY LengthAssumption DEF EmptySet, Sets, NoHist, HistFiles

--------------------------------------------------------------------------------
(* Types *)

\* In the loops, the date at hand is the first of those left.
LEMMA DateAtHand ==
  ASSUME Types, Looping
  PROVE  ThisDate \in job.left /\ ThisDate \in Dates /\ \A d \in job.left : ThisDate <= d
<1>1. job.left \in SUBSET Nat /\ job.left # {} /\ job.left \subseteq Dates
  BY LengthAssumption DEF Types, Dates, TypeOK, Jobs
<1> QED BY <1>1, FirstOfDates DEF ThisDate, FirstDate

LEMMA DateAtHandNext ==
  ASSUME Types', Looping'
  PROVE  ThisDate' \in job.left' /\ ThisDate' \in Dates /\ \A d \in job.left' : ThisDate' <= d
<1>1. job.left' \in SUBSET Nat /\ job.left' # {} /\ job.left' \subseteq Dates
  BY LengthAssumption DEF Types, Dates, Looping, TypeOK, Jobs
<1> QED BY <1>1, FirstOfDates DEF ThisDate, FirstDate

LEMMA TypesInit == Init => Types
<1> SUFFICES ASSUME Init PROVE Types
  OBVIOUS
<1>1. job \in Jobs /\ model \in Models /\ run \in Runs
  BY LengthAssumption, Components, EmptyIsSet DEF Init, Idle, Jobs, N, Off, Models, Runs
<1>2. TypeOK
  <2>1. kills \in 0..MaxKills /\ hist \in HistFiles
    BY LengthAssumption, EmptyIsSet DEF Init
  <2> QED BY <1>1, <2>1 DEF TypeOK, Init
<1> QED BY <1>2 DEF Init, Types, Off, Idle, ArchiverOn, Looping

\* What a turn of the loops leaves.
LEMMA TurnTypes ==
  ASSUME Types, Looping
  PROVE  /\ NextTurn.at \in {"rpointer", "history"} /\ NextTurn.left \in SUBSET Dates
         /\ NextTurn.i \in 1..N
         /\ NextTurn.at = "rpointer" <=> NextTurn.left # {}
<1>1. ThisDate \in job.left /\ job.left \subseteq Dates /\ job.i \in 1..N /\ N \in Nat \ {0}
  BY DateAtHand, Components DEF Types, TypeOK, Jobs, N
<1> HIDE DEF ThisDate
<1>2. CASE job.i < Len(Order)
  BY <1>1, <1>2 DEF NextTurn, N
<1>3. CASE ~(job.i < Len(Order))
  BY <1>1, <1>3 DEF NextTurn, N
<1> QED BY <1>2, <1>3

\* A restart file and some history files under rest.
LEMMA ToArchiveTypes ==
  ASSUME Types, NEW c \in Comps, NEW d \in Dates, NEW copied \in SUBSET Starts,
         ToArchive(c, d, copied)
  PROVE  /\ run' \in Runs /\ rest' \in [Dates -> Sets \cup {Absent}]
         /\ newest' \in {0} \cup {e \in Dates : rest'[e] # Absent}
<1>t. /\ run \in Runs /\ rest \in [Dates -> Sets \cup {Absent}]
      /\ newest \in {0} \cup {e \in Dates : rest[e] # Absent}
  BY DEF Types, TypeOK
<1>2. RestDir(d) \in Sets
  BY <1>t, EmptyIsSet DEF RestDir
<1>3. WithHistory(RestDir(d), c, copied) \in Sets
  <2>1. run.h[c] \in [Starts -> 0..Days] /\ RestDir(d).h[c] \in [Starts -> 0..Days]
    BY <1>2, <1>t DEF Runs, HistFiles, Sets
  <2> DEFINE set == RestDir(d)
             k == [s \in Starts |-> IF s \in copied THEN run.h[c][s] ELSE RestDir(d).h[c][s]]
  <2>2. k \in [Starts -> 0..Days]
    BY <2>1
  <2>3. WithHistory(RestDir(d), c, copied) = [set EXCEPT !.r = set.r \cup {c}, !.h[c] = k]
    BY DEF WithHistory
  <2> HIDE DEF k, set
  <2>4. set \in Sets
    BY <1>2 DEF set
  <2>5. [set EXCEPT !.r = set.r \cup {c}, !.h[c] = k] \in Sets
    BY <2>2, <2>4 DEF Sets, HistFiles
  <2> QED BY <2>3, <2>5
<1>4. \/ UNCHANGED <<run, rest, newest>>
      \/ /\ run' = [run EXCEPT !.r[c] = Remaining(c, d)]
         /\ \E new \in Sets : rest' = [rest EXCEPT ![d] = new]
         /\ newest' = d \/ (rest[d] # Absent /\ newest' = newest)
  BY <1>2, <1>3 DEF ToArchive, Enter
<1>5. /\ rest' \in [Dates -> Sets \cup {Absent}]
      /\ newest' \in {0} \cup {e \in Dates : rest'[e] # Absent}
  BY <1>4, <1>t, AbsentIsNone
<1>6. run' \in Runs
  BY <1>4, <1>t DEF Runs, Remaining
<1> QED BY <1>5, <1>6

\* Some history files of a component in the archive.
LEMMA ToHistoryTypes ==
  ASSUME Types, NEW c \in Comps, NEW done \in SUBSET Starts, ToHistory(c, done)
  PROVE  hist' \in HistFiles /\ run' \in Runs
<1> DEFINE new == [s \in Starts |-> IF s \in done THEN Archived(c, s) ELSE hist[c][s]]
           old == [s \in Starts |-> IF s \in done \ job.keep[c] /\ ~job.copy THEN 0 ELSE run.h[c][s]]
<1>t. hist \in HistFiles /\ run \in Runs /\ Days \in Nat
  BY LengthAssumption DEF Types, TypeOK
<1>1. new \in [Starts -> 0..Days] /\ old \in [Starts -> 0..Days]
  <2>1. run.h[c] \in [Starts -> 0..Days] /\ hist[c] \in [Starts -> 0..Days]
    BY <1>t DEF Runs, HistFiles
  <2> QED BY <2>1, <1>t DEF Archived
<1>2. hist' = [hist EXCEPT ![c] = new] /\ run' = [run EXCEPT !.h[c] = old]
  BY DEF ToHistory
<1> HIDE DEF new, old
<1> QED BY <1>1, <1>2, <1>t DEF HistFiles, Runs

LEMMA TypesNext == Types /\ [Next]_vars => Types'
<1> SUFFICES ASSUME Types, [Next]_vars PROVE Types'
  OBVIOUS
<1>t. /\ interim \in BOOLEAN /\ torn \in BOOLEAN /\ kills \in 0..MaxKills
      /\ run \in Runs /\ rest \in [Dates -> Sets \cup {Absent}]
      /\ newest \in {0} \cup {d \in Dates : rest[d] # Absent}
      /\ hist \in HistFiles /\ cut \subseteq Dates /\ spoiled \subseteq Dates
      /\ model \in Models /\ job \in Jobs
  BY DEF Types, TypeOK
<1>x. (model.on => ~ArchiverOn /\ (model.wrote # Comps => model.at > 0))
      /\ (Looping <=> job.left # {})
  BY DEF Types
<1>c. Days \in Nat /\ MaxKills \in Nat /\ StopN \in Nat \ {0} /\ Width \in Nat \ {0}
  BY LengthAssumption
<1>n. Cpl \in Comps /\ N \in Nat \ {0} /\ \A j \in 1..N : Order[j] \in Comps
  BY Components
<1>r. run \in Runs
  BY <1>t
<1>m. model \in Models
  BY <1>t
<1>j. job \in Jobs
  BY <1>t
<1>i. Idle \in Jobs /\ Off \in Models
  BY LengthAssumption, Components DEF Idle, Jobs, Off, Models, N
<1>1. CASE ModelStart
  <2> DEFINE d == run.rp[Cpl]
             h == [c \in Comps |-> [s \in Starts |-> IF s \in Open(d) THEN d ELSE run.h[c][s]]]
  <2>1. d \in 0..Days /\ d + StopN <= Days /\ run.h \in HistFiles
    BY <1>1, <1>r, <1>c, <1>n DEF ModelStart, Runs
  <2>2. model' = [on |-> TRUE, at |-> d, end |-> d + StopN, wrote |-> Comps] /\ job' = Idle
        /\ UNCHANGED <<interim, rest, newest, hist, kills, torn, cut, spoiled>> /\ run' = [run EXCEPT !.h = h]
    BY <1>1 DEF ModelStart
  <2> HIDE DEF d
  <2>3. h \in HistFiles
    BY <2>1, <1>c DEF HistFiles
  <2> HIDE DEF h
  <2>4. run' \in Runs
    BY <2>2, <2>3, <1>t DEF Runs
  <2>5. model' \in Models
    BY <2>1, <2>2, <1>c DEF Models
  <2>6. TypeOK'
    BY <2>2, <2>4, <2>5, <1>t, <1>i DEF TypeOK
  <2> QED BY <2>2, <2>6 DEF Types, Idle, ArchiverOn, Looping
<1>2. CASE ModelDay
  <2> DEFINE d == model.at + 1
             h == [c \in Comps |-> [run.h[c] EXCEPT ![FileOf(d)] = d]]
  <2>1. d \in 1..Days /\ run.h \in HistFiles
    BY <1>2, <1>r, <1>m, <1>c DEF ModelDay, Models, Runs
  <2>2. model' = [model EXCEPT !.at = d, !.wrote = {}] /\ run' = [run EXCEPT !.h = h] /\ model.on
        /\ UNCHANGED <<interim, rest, newest, hist, job, kills, torn, cut, spoiled>>
    BY <1>2 DEF ModelDay
  <2> HIDE DEF d
  <2>3. h \in HistFiles
    <3>1. ASSUME NEW c \in Comps PROVE [run.h[c] EXCEPT ![FileOf(d)] = d] \in [Starts -> 0..Days]
      <4>1. run.h[c] \in [Starts -> 0..Days] /\ d \in 0..Days
        BY <2>1, <1>c DEF HistFiles
      <4> QED BY <4>1
    <3> QED BY <3>1 DEF HistFiles
  <2> HIDE DEF h
  <2>4. run' \in Runs
    BY <2>2, <2>3, <1>t DEF Runs
  <2>5. model' \in Models /\ model'.at = d /\ model'.on
    <3>1. d \in 0..Days
      BY <2>1, <1>c
    <3> QED BY <3>1, <2>2, <1>m DEF Models
  <2>6. TypeOK'
    BY <2>2, <2>4, <2>5, <1>t DEF TypeOK
  <2> QED BY <2>1, <2>2, <2>5, <2>6, <1>x DEF Types, ArchiverOn, Looping
<1>3. CASE \E c \in Comps : ModelRestart(c)
  <2>1. PICK c \in Comps : ModelRestart(c)
    BY <1>3
  <2>2. model.at \in Dates /\ model.on
    BY <2>1, <1>m, <1>c, <1>x DEF ModelRestart, Dates, Models
  <2>3. model' \in Models /\ model'.at = model.at /\ model'.on
    BY <2>1, <1>m DEF ModelRestart, Models
  <2>4. run' \in Runs
    <3> DEFINE r == [run.r EXCEPT ![c] = run.r[c] \cup {model.at}]
               rp == [run.rp EXCEPT ![c] = model.at]
    <3>1. r \in [Comps -> SUBSET Dates] /\ rp \in [Comps -> 0..Days]
      BY <2>2, <1>r, <1>c DEF Runs, Dates
    <3>2. run' = [run EXCEPT !.r = r, !.rp = rp]
      BY <2>1, <1>r DEF ModelRestart, Runs
    <3> HIDE DEF r, rp
    <3> QED BY <3>1, <3>2, <1>r DEF Runs
  <2>5. TypeOK'
    BY <2>1, <2>3, <2>4, <1>t DEF TypeOK, ModelRestart
  <2> QED BY <2>1, <2>2, <2>3, <2>5, <1>x DEF Types, ArchiverOn, Looping, ModelRestart, Dates
<1>4. CASE ModelEnd
  <2>1. TypeOK'
    BY <1>4, <1>t, <1>i DEF TypeOK, ModelEnd
  <2> QED BY <1>4, <2>1, <1>x DEF ModelEnd, Types, ArchiverOn, Looping, Off
<1>5. CASE ModelKilled
  <2>0. kills' \in 0..MaxKills
    BY <1>5, <1>t, <1>c DEF ModelKilled
  <2>z. torn' \in BOOLEAN
    BY <1>5, <1>t DEF ModelKilled
  <2>1. TypeOK'
    BY <1>5, <2>0, <2>z, <1>t, <1>i DEF TypeOK, ModelKilled
  <2> QED BY <1>5, <2>1, <1>x DEF ModelKilled, Types, ArchiverOn, Looping, Off
<1>6. CASE \E last \in LastDates, copy \in CopyOnly : ArchiveBegin(last, copy)
  <2>1. PICK last \in LastDates, copy \in CopyOnly : ArchiveBegin(last, copy)
    BY <1>6
  <2> DEFINE dates == {d \in run.r[Cpl] : Within(d, last)}
  <2>2. dates \in SUBSET Dates /\ run.r[Cpl] \in SUBSET Dates
    BY <1>r, <1>n DEF Runs
  <2>3. Max({0} \cup run.r[Cpl]) \in 0..Days
    <3>1. {0} \cup run.r[Cpl] \in SUBSET (0..Days) /\ {0} \cup run.r[Cpl] # {}
      BY <2>2, <1>c DEF Dates
    <3> QED BY <3>1, <1>c, LastOfSome
  <2>4. job' = [at |-> IF dates = {} THEN "history" ELSE "rpointer", left |-> dates, i |-> 1,
                keep |-> Idle.keep, last |-> last, copy |-> copy,
                latest |-> Max({0} \cup run.r[Cpl]), done |-> FALSE]
        /\ ~model.on /\ UNCHANGED <<interim, run, rest, newest, hist, model, kills, torn, cut, spoiled>>
    BY <2>1 DEF ArchiveBegin
  <2> HIDE DEF dates
  <2>5. job' \in Jobs
    <3>1. last \in LastDates \cup {NoDate} /\ copy \in BOOLEAN
      BY <2>1, LastDatesAssumption
    <3>2. 1 \in 1..Len(Order) /\ Idle.keep \in [Comps -> SUBSET Starts]
      BY <1>n DEF N, Idle
    <3>3. (IF dates = {} THEN "history" ELSE "rpointer") \in {"off", "rpointer", "restart", "history"}
      OBVIOUS
    <3> HIDE DEF Idle
    <3> QED BY <3>1, <3>2, <3>3, <2>2, <2>3, <2>4 DEF Jobs
  <2>6. TypeOK'
    BY <2>4, <2>5, <1>t DEF TypeOK
  <2>7. Looping' <=> job.left' # {}
    BY <2>4 DEF Looping
  <2> QED BY <2>4, <2>6, <2>7 DEF Types
<1>7. CASE Rpointer
  <2>1. ThisDate \in Dates /\ ThisComp \in Comps /\ Looping
    <3>1. Looping /\ job.i \in 1..N
      BY <1>7, <1>j DEF Rpointer, Looping, Jobs, N
    <3> QED BY <3>1, <1>n, DateAtHand DEF ThisComp
  <2> DEFINE d == ThisDate
             c == ThisComp
             pointer == IF d # job.latest /\ ~PointersMoved(d, c) THEN InterimPointer(d, c)
                        ELSE IF run.rp[c] > 0 THEN run.rp[c] ELSE RestDir(d).rp[c]
             new == [RestDir(d) EXCEPT !.rp[c] = pointer]
  <2>2. new \in Sets
    <3>1. RestDir(d) \in Sets
      BY <2>1, <1>t, EmptyIsSet DEF RestDir
    <3>2. run.rp[c] \in 0..Days /\ InterimPointer(d, c) \in 0..Days /\ RestDir(d).rp[c] \in 0..Days
      BY <2>1, <3>1, <1>t DEF Runs, InterimPointer, Dates, Sets
    <3>3. pointer \in 0..Days
      BY <3>2
    <3> HIDE DEF pointer
    <3> QED BY <3>1, <3>3, <2>1 DEF Sets
  <2>3. \/ UNCHANGED <<rest, newest>>
        \/ rest' = [rest EXCEPT ![d] = new] /\ (newest' = d \/ (rest[d] # Absent /\ newest' = newest))
    BY <1>7 DEF Rpointer, Enter
  <2>4. /\ job' = [job EXCEPT !.at = "restart"]
        /\ UNCHANGED <<interim, hist, model, kills, torn, cut, spoiled>>
        /\ run' = run \/ run' = [run EXCEPT !.rp[c] = 0]
    BY <1>7 DEF Rpointer
  <2> HIDE DEF new
  <2>5. /\ rest' \in [Dates -> Sets \cup {Absent}]
        /\ newest' \in {0} \cup {e \in Dates : rest'[e] # Absent}
    BY <2>1, <2>2, <2>3, <1>t, AbsentIsNone
  <2>r. run' \in Runs
    BY <2>1, <2>4, <1>t, <1>c DEF Runs
  <2>6. job' \in Jobs /\ job'.at = "restart" /\ job'.left = job.left
    BY <2>4, <1>t DEF Jobs
  <2>7. TypeOK'
    BY <2>4, <2>5, <2>6, <2>r, <1>t DEF TypeOK
  <2> QED BY <1>7, <2>1, <2>4, <2>6, <2>7, <1>x DEF Types, Looping, ArchiverOn, Rpointer
<1>8. CASE Restart
  <2>1. ThisDate \in Dates /\ ThisComp \in Comps /\ Looping
    <3>1. Looping /\ job.i \in 1..N
      BY <1>8, <1>j DEF Restart, Looping, Jobs, N
    <3> QED BY <3>1, <1>n, DateAtHand DEF ThisComp
  <2> DEFINE d == ThisDate
             c == ThisComp
  <2>5. /\ rest' \in [Dates -> Sets \cup {Absent}] /\ run' \in Runs
        /\ newest' \in {0} \cup {e \in Dates : rest'[e] # Absent}
    <3>1. NeededHistory(c, d) \in SUBSET Starts /\ ToArchive(c, d, NeededHistory(c, d))
      BY <1>8 DEF Restart, NeededHistory, Open
    <3> QED BY <3>1, <2>1, ToArchiveTypes
  <2>7. job' \in Jobs /\ job'.at = NextTurn.at /\ job'.left = NextTurn.left
    <3>1. Kept(c, d) \subseteq Starts /\ job.keep[c] \subseteq Starts
      BY <2>1, <1>j DEF Kept, NeededHistory, Open, Jobs
    <3> DEFINE k == IF d = job.latest /\ d \in run.r[c] THEN job.keep[c] \cup Kept(c, d) ELSE job.keep[c]
    <3>2. k \in SUBSET Starts
      BY <3>1
    <3>3. job' = [job EXCEPT !.at = NextTurn.at, !.left = NextTurn.left, !.i = NextTurn.i, !.keep[c] = k]
      BY <1>8 DEF Restart
    <3>4. NextTurn.at \in {"rpointer", "history"} /\ NextTurn.left \in SUBSET Dates /\ NextTurn.i \in 1..Len(Order)
      BY <2>1, TurnTypes DEF N
    <3> HIDE DEF k, c
    <3> QED BY <3>2, <3>3, <3>4, <1>j DEF Jobs
  <2>9. UNCHANGED <<interim, hist, model, kills, torn, spoiled>> /\ cut' \subseteq Dates /\ job.at = "restart"
    BY <1>8, <1>t DEF Restart
  <2>10. TypeOK'
    BY <2>5, <2>7, <2>9, <1>t DEF TypeOK
  <2> QED BY <2>1, <2>7, <2>9, <2>10, <1>x, TurnTypes DEF Types, Looping, ArchiverOn
<1>9. CASE History
  <2>1. ThisComp \in Comps /\ job.at = "history" /\ UNCHANGED <<interim, rest, newest, model, kills, torn, cut, spoiled>>
    BY <1>9, <1>j, <1>n DEF History, ThisComp, Jobs, N
  <2>4. hist' \in HistFiles /\ run' \in Runs
    <3>1. Due(ThisComp) \in SUBSET Starts /\ ToHistory(ThisComp, Due(ThisComp))
      BY <1>9 DEF History, Due
    <3> QED BY <3>1, <2>1, ToHistoryTypes
  <2>5. job' \in Jobs /\ job'.left = job.left /\ job'.at \in {"history", "off"}
    <3>1. CASE job.i < Len(Order)
      BY <1>9, <2>1, <3>1, <1>j DEF History, Jobs
    <3>2. CASE ~(job.i < Len(Order))
      BY <1>9, <2>1, <3>2, <1>j DEF History, Jobs
    <3> QED BY <3>1, <3>2
  <2>6. TypeOK'
    BY <2>1, <2>4, <2>5, <1>t DEF TypeOK
  <2> QED BY <2>1, <2>5, <2>6, <1>x DEF Types, Looping, ArchiverOn
<1>10. CASE ArchiverKilled
  <2>1. cut' \subseteq Dates
    BY <1>10, <1>t, DateAtHand DEF ArchiverKilled, ArchiverOn, Looping, Jobs
  <2>0. kills' \in 0..MaxKills
    BY <1>10, <1>t, <1>c DEF ArchiverKilled
  <2>2. TypeOK'
    BY <1>10, <2>0, <2>1, <1>t, <1>i DEF TypeOK, ArchiverKilled
  <2> QED BY <1>10, <2>2, <1>x DEF ArchiverKilled, Types, ArchiverOn, Looping, Idle
<1>k. kills < MaxKills => kills + 1 \in 0..MaxKills
  BY <1>t, <1>c
<1>13. CASE RestartCut
  <2>1. ThisDate \in Dates /\ ThisComp \in Comps
    <3>1. Looping /\ job.i \in 1..N
      BY <1>13, <1>j DEF RestartCut, Looping, Jobs, N
    <3> QED BY <3>1, <1>n, DateAtHand DEF ThisComp
  <2>2. PICK copied \in SUBSET NeededHistory(ThisComp, ThisDate) :
             /\ ToArchive(ThisComp, ThisDate, copied)
             /\ spoiled' \in {spoiled, spoiled \cup {ThisDate}}
    BY <1>13 DEF RestartCut
  <2>3. copied \in SUBSET Starts
    BY DEF NeededHistory, Open
  <2>4. /\ run' \in Runs /\ rest' \in [Dates -> Sets \cup {Absent}]
        /\ newest' \in {0} \cup {e \in Dates : rest'[e] # Absent}
    BY <2>1, <2>2, <2>3, ToArchiveTypes
  <2>5. /\ UNCHANGED <<interim, hist, model, torn>> /\ job' = Idle /\ kills' \in 0..MaxKills
        /\ cut' \subseteq Dates /\ spoiled' \subseteq Dates
    BY <1>13, <1>k, <1>t, <2>1, <2>2 DEF RestartCut
  <2>6. TypeOK'
    BY <2>4, <2>5, <1>t, <1>i DEF TypeOK
  <2> QED BY <2>5, <2>6, <1>13, <1>x DEF RestartCut, Types, ArchiverOn, Looping, Idle
<1>14. CASE HistoryCut
  <2>1. ThisComp \in Comps
    BY <1>j, <1>n DEF ThisComp, Jobs, N
  <2>2. PICK done \in SUBSET Due(ThisComp) : ToHistory(ThisComp, done)
    BY <1>14 DEF HistoryCut
  <2>3. done \in SUBSET Starts
    BY DEF Due
  <2>4. hist' \in HistFiles /\ run' \in Runs
    BY <2>1, <2>2, <2>3, ToHistoryTypes
  <2>5. UNCHANGED <<interim, rest, newest, model, torn, cut, spoiled>> /\ job' = Idle /\ kills' \in 0..MaxKills
    BY <1>14, <1>k DEF HistoryCut
  <2>6. TypeOK'
    BY <2>4, <2>5, <1>t, <1>i DEF TypeOK
  <2> QED BY <2>5, <2>6, <1>14, <1>x DEF HistoryCut, Types, ArchiverOn, Looping, Idle
<1>11. CASE Restore
  <2>1. newest \in Dates /\ rest[newest] \in Sets
    BY <1>11, <1>t DEF Restore
  <2>2. run' \in Runs
    BY <1>11, <2>1, <1>t DEF Restore, Runs, Sets, HistFiles
  <2>3. TypeOK'
    BY <1>11, <2>2, <1>t DEF TypeOK, Restore
  <2> QED BY <1>11, <2>3, <1>x DEF Restore, Types, ArchiverOn, Looping
<1>12. CASE UNCHANGED vars
  BY <1>12, <1>t, <1>x DEF vars, TypeOK, Types, ArchiverOn, Looping
<1> QED BY <1>1, <1>2, <1>3, <1>4, <1>5, <1>6, <1>7, <1>8, <1>9, <1>10, <1>11, <1>12, <1>13, <1>14
        DEF Next

--------------------------------------------------------------------------------
(* The model *)

\* The types as the proofs below use them.
LEMMA Typed ==
  ASSUME Types
  PROVE  /\ Days \in Nat /\ Width \in Nat \ {0} /\ StopN \in Nat \ {0} /\ Dates = 1..Days
         /\ Starts \subseteq Dates /\ Cpl \in Comps
         /\ \A c \in Comps : run.r[c] \in SUBSET Dates /\ run.rp[c] \in 0..Days
         /\ \A c \in Comps : \A s \in Starts : run.h[c][s] \in 0..Days /\ hist[c][s] \in 0..Days
         /\ model.on \in BOOLEAN /\ model.at \in 0..Days /\ model.wrote \subseteq Comps
         /\ Now \in 0..Days
<1>1. run \in Runs /\ model \in Models /\ hist \in HistFiles
  BY DEF Types, TypeOK
<1>2. Days \in Nat /\ Width \in Nat \ {0} /\ StopN \in Nat \ {0} /\ Dates = 1..Days
      /\ Starts \subseteq Dates /\ Cpl \in Comps
  BY LengthAssumption, Components DEF Dates, Starts
<1>3. \A c \in Comps : run.r[c] \in SUBSET Dates /\ run.rp[c] \in 0..Days
  BY <1>1 DEF Runs
<1>4. \A c \in Comps : \A s \in Starts : run.h[c][s] \in 0..Days /\ hist[c][s] \in 0..Days
  BY <1>1 DEF Runs, HistFiles
<1>5. model.on \in BOOLEAN /\ model.at \in 0..Days /\ model.wrote \subseteq Comps
  BY <1>1 DEF Models
<1>6. Now \in 0..Days
  BY <1>2, <1>3, <1>5 DEF Now
<1> QED BY <1>2, <1>3, <1>4, <1>5, <1>6

\* What is saved is untouched by what the model does to history and pointers.
LEMMA SavedSame ==
  ASSUME UNCHANGED <<interim, rest, newest, cut, spoiled>>, run'.r = run.r, run'.rp[Cpl] = run.rp[Cpl],
         ~Looping, ~Looping', Moved, Ascending, SetsUsable
  PROVE  Moved' /\ Ascending' /\ SetsUsable' /\ Turn'
<1>1. Moved'
  BY DEF Moved, Part
<1>2. Ascending'
  BY DEF Ascending
<1>3. SetsUsable'
  BY DEF SetsUsable, SavedNow, Usable
<1>4. Turn'
  BY DEF Turn
<1> QED BY <1>1, <1>2, <1>3, <1>4

LEMMA StartInOrder ==
  ASSUME Types, InOrder, ModelStart
  PROVE  InOrder'
<1> DEFINE D == run.rp[Cpl]
<1>t. /\ Days \in Nat /\ D \in 0..Days /\ Dates = 1..Days /\ Starts \subseteq Dates /\ Cpl \in Comps
      /\ \A c \in Comps : run.r[c] \in SUBSET Dates /\ run.rp[c] \in 0..Days
  BY Typed
<1>1. /\ ~model.on /\ ~ArchiverOn /\ job' = Idle
      /\ model' = [on |-> TRUE, at |-> D, end |-> D + StopN, wrote |-> Comps]
      /\ UNCHANGED <<interim, rest, newest, hist, kills, torn, cut, spoiled>>
  BY DEF ModelStart
<1>2. /\ run'.r = run.r /\ run'.rp = run.rp
      /\ \A c \in Comps : \A s \in Starts :
           run'.h[c][s] = IF s \in Open(D) THEN D ELSE run.h[c][s]
  <2>1. run \in Runs
    BY DEF Types, TypeOK
  <2> DEFINE h == [c \in Comps |-> [s \in Starts |-> IF s \in Open(D) THEN D ELSE run.h[c][s]]]
  <2>2. run' = [run EXCEPT !.h = h]
    BY DEF ModelStart
  <2>3. \A c \in Comps : \A s \in Starts : h[c][s] = IF s \in Open(D) THEN D ELSE run.h[c][s]
    OBVIOUS
  <2> HIDE DEF h
  <2>4. run'.r = run.r /\ run'.rp = run.rp /\ run'.h = h
    BY <2>1, <2>2 DEF Runs
  <2> QED BY <2>3, <2>4
<1>3. Now = D /\ Now' = D
  BY <1>1, <1>2 DEF Now
<1>4. ~Looping /\ ~Looping'
  BY <1>1 DEF ArchiverOn, Looping, Idle
<1>5. Pointers'
  BY <1>1, <1>2, <1>3 DEF InOrder, Pointers
<1>6. Restarts'
  <2> SUFFICES ASSUME NEW c \in Comps
               PROVE  /\ \A d \in run'.r[c] : /\ d <= run'.rp[c]
                                              /\ d \in run'.r[Cpl] \/ d = run'.rp[c]
                                              /\ \A s \in Open(d) : run'.h[c][s] >= d
                      /\ run'.rp[c] > 0 => run'.rp[c] \in run'.r[c]
    BY DEF Restarts
  <2>1. run.rp[c] = D
    BY <1>1, <1>3 DEF InOrder, Pointers
  <2>2. ASSUME NEW d \in run.r[c], NEW s \in Open(d) PROVE run'.h[c][s] >= d
    <3>1. s \in Starts /\ run.h[c][s] >= d /\ d <= D /\ d \in Int
      BY <2>1, <1>t DEF InOrder, Restarts, Open
    <3> QED BY <3>1, <1>2, <1>t
  <2> QED BY <1>2, <2>2 DEF InOrder, Restarts
<1>7. Histories'
  <2>1. ASSUME NEW c \in Comps, NEW s \in Starts, s <= D
        PROVE  IF run'.h[c][s] > 0 THEN Whole(run'.h[c][s], s, Now') ELSE Whole(hist'[c][s], s, Now')
    <3>1. IF run.h[c][s] > 0 THEN Whole(run.h[c][s], s, Now) ELSE Whole(hist[c][s], s, Now)
      BY <2>1, <1>3 DEF InOrder, Histories
    <3>2. CASE s \in Open(D)
      BY <3>2, <2>1, <1>2, <1>3, <1>t DEF Whole
    <3>3. CASE s \notin Open(D)
      BY <3>1, <3>3, <1>1, <1>2, <1>3 DEF Whole
    <3> QED BY <3>2, <3>3
  <2>2. ASSUME NEW c \in Comps, NEW s \in Open(D) PROVE run'.h[c][s] >= D
    <3>1. s \in Starts
      BY DEF Open
    <3>2. run'.h[c][s] = D
      BY <3>1, <1>2
    <3> QED BY <3>2, <1>t
  <2> QED BY <2>1, <2>2, <1>1, <1>3 DEF Histories
<1>8. Moved' /\ Ascending' /\ SetsUsable' /\ Turn'
  BY <1>1, <1>2, <1>4, SavedSame DEF InOrder
<1>9. Archiving'
  BY <1>1 DEF Archiving, Idle, ArchiverOn
<1> QED BY <1>5, <1>6, <1>7, <1>8, <1>9 DEF InOrder

LEMMA DayInOrder ==
  ASSUME Types, InOrder, ModelDay
  PROVE  InOrder'
<1> DEFINE d == model.at + 1
<1>t. /\ Days \in Nat /\ Width \in Nat \ {0} /\ Dates = 1..Days /\ Starts \subseteq Dates /\ Cpl \in Comps
      /\ \A c \in Comps : run.r[c] \in SUBSET Dates /\ run.rp[c] \in 0..Days
      /\ \A c \in Comps : \A s \in Starts : run.h[c][s] \in 0..Days /\ hist[c][s] \in 0..Days
      /\ model.at \in 0..Days
  BY Typed
<1>1. /\ model.on /\ model.wrote = Comps /\ model.at < model.end
      /\ model' = [model EXCEPT !.at = d, !.wrote = {}]
      /\ UNCHANGED <<interim, rest, newest, hist, job, kills, torn, cut, spoiled>>
  BY DEF ModelDay
<1>2. d \in Dates /\ model'.on /\ model'.at = d /\ model'.wrote = {}
  <2>1. model \in Models
    BY DEF Types, TypeOK
  <2> QED BY <1>1, <1>t, <2>1 DEF Models
<1>3. /\ run'.r = run.r /\ run'.rp = run.rp
      /\ \A c \in Comps : \A s \in Starts : run'.h[c][s] = IF s = FileOf(d) THEN d ELSE run.h[c][s]
  <2>1. run \in Runs
    BY DEF Types, TypeOK
  <2> DEFINE h == [c \in Comps |-> [run.h[c] EXCEPT ![FileOf(d)] = d]]
  <2>2. run' = [run EXCEPT !.h = h]
    BY DEF ModelDay
  <2>3. \A c \in Comps : run.h[c] \in [Starts -> 0..Days]
    BY <2>1 DEF Runs, HistFiles
  <2>4. \A c \in Comps : \A s \in Starts : h[c][s] = IF s = FileOf(d) THEN d ELSE run.h[c][s]
    BY <2>3
  <2> HIDE DEF h
  <2>5. run'.r = run.r /\ run'.rp = run.rp /\ run'.h = h
    BY <2>1, <2>2 DEF Runs
  <2> QED BY <2>4, <2>5
<1>4. Now = model.at /\ Now' = d
  BY <1>1, <1>2 DEF Now
<1>5. ~Looping /\ ~Looping' /\ ~ArchiverOn
  BY <1>1 DEF Types, ArchiverOn, Looping
<1>f. /\ FileOf(d) \in Starts /\ FileOf(d) <= d /\ d < FileOf(d) + Width
      /\ \A s \in Starts : s <= d /\ s # FileOf(d) => s + Width <= d
  BY <1>2, FileOfDay
<1> HIDE DEF d
<1>d. d = model.at + 1
  BY DEF d
<1>6. Pointers'
  BY <1>1, <1>2, <1>3, <1>4, <1>d, <1>t DEF InOrder, Pointers
<1>7. Restarts'
  <2> SUFFICES ASSUME NEW c \in Comps
               PROVE  /\ \A e \in run'.r[c] : /\ e <= run'.rp[c]
                                              /\ e \in run'.r[Cpl] \/ e = run'.rp[c]
                                              /\ \A s \in Open(e) : run'.h[c][s] >= e
                      /\ run'.rp[c] > 0 => run'.rp[c] \in run'.r[c]
    BY DEF Restarts
  <2>1. run.rp[c] = model.at
    BY <1>1, <1>4 DEF InOrder, Pointers
  <2>2. ASSUME NEW e \in run.r[c], NEW s \in Open(e) PROVE run'.h[c][s] >= e
    <3>1. s \in Starts /\ run.h[c][s] >= e /\ e <= model.at /\ e \in Int
      BY <2>1, <1>t DEF InOrder, Restarts, Open
    <3> QED BY <3>1, <1>3, <1>t, <1>d
  <2> QED BY <1>3, <2>2 DEF InOrder, Restarts
<1>8. Histories'
  <2>1. ASSUME NEW c \in Comps, NEW s \in Starts, s <= d
        PROVE  IF run'.h[c][s] > 0 THEN Whole(run'.h[c][s], s, Now') ELSE Whole(hist'[c][s], s, Now')
    <3>1. CASE s = FileOf(d)
      BY <3>1, <1>2, <1>3, <1>4, <1>t DEF Whole
    <3>2. CASE s # FileOf(d)
      <4>1. s + Width <= d /\ s <= model.at /\ s \in Int
        BY <3>2, <2>1, <1>f, <1>d, <1>t
      <4>2. IF run.h[c][s] > 0 THEN Whole(run.h[c][s], s, Now) ELSE Whole(hist[c][s], s, Now)
        BY <4>1, <1>4 DEF InOrder, Histories
      <4>3. ASSUME NEW h \in 0..Days, Whole(h, s, Now) PROVE Whole(h, s, Now')
        <5>1. h >= model.at \/ h >= s + Width - 1
          BY <4>3, <1>4 DEF Whole
        <5>2. h >= s + Width - 1
          BY <5>1, <4>1, <1>d, <1>t
        <5> QED BY <5>2 DEF Whole
      <4>4. run'.h[c][s] = run.h[c][s] /\ hist' = hist
        BY <3>2, <1>1, <1>3
      <4> QED BY <4>2, <4>3, <4>4, <1>t
    <3> QED BY <3>1, <3>2
  <2>2. ASSUME NEW c \in Comps, NEW s \in Open(d) PROVE run'.h[c][s] >= d
    <3>1. s \in Starts /\ s <= d /\ d < s + Width - 1
      BY DEF Open
    <3>2. s = FileOf(d)
      BY <3>1, <1>f, <1>t, <1>2
    <3> QED BY <3>1, <3>2, <1>3, <1>2, <1>t
  <2> QED BY <2>1, <2>2, <1>2, <1>4 DEF Histories
<1>9. Moved' /\ Ascending' /\ SetsUsable' /\ Turn'
  BY <1>1, <1>3, <1>5, SavedSame DEF InOrder
<1>10. Archiving'
  BY <1>1, <1>5 DEF InOrder, Archiving, ArchiverOn
<1> QED BY <1>6, <1>7, <1>8, <1>9, <1>10 DEF InOrder

LEMMA RestartInOrder ==
  ASSUME Types, InOrder, NEW c \in Comps, ModelRestart(c)
  PROVE  InOrder'
<1> DEFINE d == model.at
<1>t. /\ Days \in Nat /\ Dates = 1..Days /\ Starts \subseteq Dates /\ Cpl \in Comps
      /\ \A b \in Comps : run.r[b] \in SUBSET Dates /\ run.rp[b] \in 0..Days
      /\ d \in 0..Days /\ model.wrote \subseteq Comps
  BY Typed
<1>1. /\ model.on /\ c \notin model.wrote /\ (c = Cpl => model.wrote = Comps \ {Cpl})
      /\ model' = [model EXCEPT !.wrote = @ \cup {c}]
      /\ UNCHANGED <<interim, rest, newest, hist, job, kills, torn, cut, spoiled>>
  BY DEF ModelRestart
<1>2. model'.on /\ model'.at = d /\ model'.wrote = model.wrote \cup {c}
  <2>1. model \in Models
    BY DEF Types, TypeOK
  <2> QED BY <1>1, <2>1 DEF Models
<1>3. /\ \A b \in Comps : run'.r[b] = IF b = c THEN run.r[b] \cup {d} ELSE run.r[b]
      /\ \A b \in Comps : run'.rp[b] = IF b = c THEN d ELSE run.rp[b]
      /\ run'.h = run.h
  <2>1. run \in Runs
    BY DEF Types, TypeOK
  <2> DEFINE r  == [run.r EXCEPT ![c] = run.r[c] \cup {d}]
             rp == [run.rp EXCEPT ![c] = d]
  <2>2. run' = [run EXCEPT !.r = r, !.rp = rp]
    BY <2>1 DEF ModelRestart, Runs
  <2>3. run.r \in [Comps -> SUBSET Dates] /\ run.rp \in [Comps -> 0..Days]
    BY <2>1 DEF Runs
  <2>4. \A b \in Comps : /\ r[b] = IF b = c THEN run.r[b] \cup {d} ELSE run.r[b]
                         /\ rp[b] = IF b = c THEN d ELSE run.rp[b]
    BY <2>3
  <2> HIDE DEF r, rp
  <2>5. run'.r = r /\ run'.rp = rp /\ run'.h = run.h
    BY <2>1, <2>2 DEF Runs
  <2> QED BY <2>4, <2>5
<1>4. Now = d /\ Now' = d /\ d > 0 /\ d \in Dates
  BY <1>1, <1>2, <1>t DEF Now, Types
<1>5. ~Looping /\ ~Looping' /\ ~ArchiverOn /\ ~ArchiverOn'
  BY <1>1 DEF Types, ArchiverOn, Looping
<1>6. /\ \A b \in Comps : run.rp[b] = IF b \notin model.wrote THEN d - 1 ELSE d
      /\ Cpl \notin model.wrote /\ run.rp[Cpl] = d - 1 /\ run.rp[c] = d - 1
  BY <1>1, <1>4, <1>t DEF InOrder, Pointers
<1>p. \A e \in Dates : e = d - 1 => e \in run.r[Cpl]
  BY <1>6, <1>t DEF InOrder, Restarts
<1> HIDE DEF d
<1>7. Pointers'
  BY <1>1, <1>2, <1>3, <1>4, <1>6, <1>t DEF Pointers
<1>8. Restarts'
  <2> SUFFICES ASSUME NEW b \in Comps
               PROVE  /\ \A e \in run'.r[b] : /\ e <= run'.rp[b]
                                              /\ e \in run'.r[Cpl] \/ e = run'.rp[b]
                                              /\ \A s \in Open(e) : run'.h[b][s] >= e
                      /\ run'.rp[b] > 0 => run'.rp[b] \in run'.r[b]
    BY DEF Restarts
  <2>1. ASSUME NEW e \in run.r[b]
        PROVE  /\ e <= run'.rp[b] /\ (e \in run'.r[Cpl] \/ e = run'.rp[b])
               /\ \A s \in Open(e) : run'.h[b][s] >= e
    <3>1. e <= run.rp[b] /\ (e \in run.r[Cpl] \/ e = run.rp[b]) /\ e \in Dates
          /\ \A s \in Open(e) : run.h[b][s] >= e
      BY <1>t DEF InOrder, Restarts
    <3>2. run.r[Cpl] \subseteq run'.r[Cpl]
      BY <1>3, <1>t
    <3>3. CASE b = c
      BY <3>1, <3>2, <3>3, <1>3, <1>4, <1>6, <1>p, <1>t
    <3>4. CASE b # c
      BY <3>1, <3>2, <3>4, <1>3
    <3> QED BY <3>3, <3>4
  <2>2. CASE b = c
    <3>1. \A s \in Open(d) : run.h[b][s] >= d
      BY <1>1 DEF InOrder, Histories, d
    <3>2. run'.rp[b] = d /\ run'.r[b] = run.r[b] \cup {d} /\ run'.h = run.h
      BY <2>2, <1>3
    <3>3. ASSUME NEW e \in run'.r[b]
          PROVE  /\ e <= run'.rp[b] /\ (e \in run'.r[Cpl] \/ e = run'.rp[b])
                 /\ \A s \in Open(e) : run'.h[b][s] >= e
      <4>1. CASE e \in run.r[b]
        BY <4>1, <2>1
      <4>2. CASE e = d
        BY <4>2, <3>1, <3>2, <1>4, <1>t
      <4> QED BY <4>1, <4>2, <3>2
    <3>4. run'.rp[b] \in run'.r[b]
      BY <3>2
    <3> QED BY <3>3, <3>4
  <2>3. CASE b # c
    <3>1. run'.rp[b] = run.rp[b] /\ run'.r[b] = run.r[b]
      BY <2>3, <1>3
    <3> QED BY <3>1, <2>1 DEF InOrder, Restarts
  <2> QED BY <2>2, <2>3
<1>9. Histories'
  BY <1>1, <1>2, <1>3, <1>4 DEF InOrder, Histories, d
<1>10. Moved'
  <2> SUFFICES ASSUME interim, NEW b \in Comps, NEW e \in run'.r[Cpl] \ run'.r[b]
               PROVE  rest'[e] # Absent /\ Part(b, e)'
    BY <1>1 DEF Moved
  <2>1. e \in run.r[Cpl] \ run.r[b]
    <3>1. CASE c = Cpl /\ e = d
      <4>1. b # c => b \in model.wrote /\ run.rp[b] = d /\ d \in run.r[b]
        BY <3>1, <1>1, <1>4, <1>6 DEF InOrder, Restarts
      <4> QED BY <4>1, <3>1, <1>3
    <3>2. CASE ~(c = Cpl /\ e = d)
      <4>1. e \notin run.r[b]
        BY <1>3
      <4>2. run'.r[Cpl] = IF c = Cpl THEN run.r[Cpl] \cup {d} ELSE run.r[Cpl]
        BY <1>3, <1>t
      <4> QED BY <4>1, <4>2, <3>2
    <3> QED BY <3>1, <3>2
  <2>2. rest[e] # Absent /\ Part(b, e)
    BY <2>1 DEF InOrder, Moved
  <2> QED BY <2>2, <1>1 DEF Part
<1>11. Ascending'
  <2> SUFFICES ASSUME NEW f \in Dates, rest[f] # Absent
               PROVE  /\ f <= newest /\ run'.rp[Cpl] > 0 /\ \A e \in run'.r[Cpl] : f <= e
                      /\ \A b \in Comps : \A s \in Starts : rest[f].h[b][s] > 0 => s \in Open(f)
    <3>1. \A f \in spoiled : f < run.rp[Cpl] /\ f \in Int
      BY <1>t DEF InOrder, Ascending, Types, TypeOK
    <3>2. run.rp[Cpl] <= run'.rp[Cpl] /\ run'.rp[Cpl] \in Int
      BY <1>3, <1>6, <1>t
    <3>3. \A f \in spoiled' : f < run'.rp[Cpl]
      BY <3>1, <3>2, <1>1, <1>t
    <3> QED BY <3>3, <1>1 DEF Ascending
  <2>1. /\ f <= newest /\ run.rp[Cpl] > 0 /\ \A e \in run.r[Cpl] : f <= e
        /\ \A b \in Comps : \A s \in Starts : rest[f].h[b][s] > 0 => s \in Open(f)
    BY DEF InOrder, Ascending
  <2>2. f <= d
    BY <2>1, <1>4, <1>6, <1>p, <1>t
  <2>3. run'.rp[Cpl] > 0 /\ run'.r[Cpl] \subseteq run.r[Cpl] \cup {d}
    BY <2>1, <1>3, <1>4, <1>t
  <2> QED BY <2>1, <2>2, <2>3
<1>12. SetsUsable' /\ Turn'
  BY <1>1, <1>5 DEF InOrder, SetsUsable, SavedNow, Usable, Turn
<1>13. Archiving'
  BY <1>1, <1>5 DEF InOrder, Archiving, ArchiverOn
<1> QED BY <1>7, <1>8, <1>9, <1>10, <1>11, <1>12, <1>13 DEF InOrder

\* The model ends, or is killed with no restart set half written.
LEMMA StopInOrder ==
  ASSUME Types, InOrder, model.on, model' = Off, model.wrote \in {{}, Comps},
         UNCHANGED <<interim, run, rest, newest, hist, job, cut, spoiled>>
  PROVE  InOrder'
<1>t. /\ Days \in Nat /\ Width \in Nat \ {0} /\ Dates = 1..Days /\ Starts \subseteq Dates /\ Cpl \in Comps
      /\ \A b \in Comps : run.rp[b] \in 0..Days
      /\ \A c \in Comps : \A s \in Starts : run.h[c][s] \in 0..Days /\ hist[c][s] \in 0..Days
      /\ Now \in 0..Days
  BY Typed
<1>1. ~Looping /\ ~Looping' /\ ~ArchiverOn /\ ~ArchiverOn' /\ ~model'.on
  BY DEF Types, ArchiverOn, Looping, Off
<1>2. Now' = run.rp[Cpl] /\ \A c \in Comps : run.rp[c] = run.rp[Cpl]
  BY <1>1, <1>t DEF InOrder, Pointers, Now
<1>3. run.rp[Cpl] <= Now
  BY <1>t DEF InOrder, Pointers
<1>4. Pointers'
  BY <1>1, <1>2 DEF Pointers
<1>5. Restarts'
  BY DEF InOrder, Restarts
<1>6. Histories'
  <2> SUFFICES ASSUME NEW c \in Comps, NEW s \in Starts, s <= Now'
               PROVE  IF run'.h[c][s] > 0 THEN Whole(run'.h[c][s], s, Now') ELSE Whole(hist'[c][s], s, Now')
    BY <1>1 DEF Histories
  <2>1. s <= Now /\ Now' \in Int /\ s \in Int /\ Now' <= Now
    BY <1>2, <1>3, <1>t
  <2>2. IF run.h[c][s] > 0 THEN Whole(run.h[c][s], s, Now) ELSE Whole(hist[c][s], s, Now)
    BY <2>1 DEF InOrder, Histories
  <2>3. ASSUME NEW h \in 0..Days, Whole(h, s, Now) PROVE Whole(h, s, Now')
    <3>1. h >= Now \/ h >= s + Width - 1
      BY <2>3 DEF Whole
    <3>2. h >= Now' \/ h >= s + Width - 1
      BY <3>1, <2>1, <1>t
    <3> QED BY <3>2 DEF Whole
  <2> QED BY <2>2, <2>3, <1>t
<1>7. Moved' /\ Ascending' /\ SetsUsable' /\ Turn'
  BY <1>1, SavedSame DEF InOrder
<1>8. Archiving'
  BY <1>1 DEF InOrder, Archiving, ArchiverOn
<1> QED BY <1>4, <1>5, <1>6, <1>7, <1>8 DEF InOrder

--------------------------------------------------------------------------------
(* The archiver *)

LEMMA BeginInOrder ==
  ASSUME Plain, Types, InOrder, NEW last \in LastDates, NEW copy \in CopyOnly, ArchiveBegin(last, copy)
  PROVE  InOrder'
<1> DEFINE D == run.rp[Cpl]
           dates == {d \in run.r[Cpl] : Within(d, last)}
           all == {0} \cup run.r[Cpl]
<1>t. /\ Days \in Nat /\ Dates = 1..Days /\ Cpl \in Comps
      /\ run.r[Cpl] \in SUBSET Dates /\ D \in 0..Days
  BY Typed
<1>1. last = NoDate /\ copy = FALSE
  BY DEF Plain
<1>2. dates = run.r[Cpl]
  BY <1>1 DEF Within
<1>3. Max(all) = D
  <2>1. \A e \in run.r[Cpl] : e <= D
    BY <1>t DEF InOrder, Restarts
  <2>2. D \in all
    BY <1>t DEF InOrder, Restarts
  <2>3. all \in SUBSET Int /\ \A y \in all : D >= y
    BY <2>1, <1>t
  <2> HIDE DEF all, D
  <2> QED BY <2>2, <2>3, LastOfDates
<1>4. /\ ~model.on /\ ~ArchiverOn
      /\ job' = [at |-> IF dates = {} THEN "history" ELSE "rpointer", left |-> dates, i |-> 1,
                 keep |-> Idle.keep, last |-> last, copy |-> copy, latest |-> Max(all), done |-> FALSE]
      /\ UNCHANGED <<interim, run, rest, newest, hist, model, kills, torn, cut, spoiled>>
  BY DEF ArchiveBegin
<1>5. /\ job'.at = (IF run.r[Cpl] = {} THEN "history" ELSE "rpointer") /\ job'.left = run.r[Cpl]
      /\ job'.i = 1 /\ job'.last = NoDate /\ ~job'.copy /\ job'.latest = D /\ ~job'.done
  BY <1>1, <1>2, <1>3, <1>4
<1>6. ~Looping
  BY <1>4 DEF ArchiverOn, Looping
<1>7. Pointers' /\ Restarts' /\ Histories' /\ Moved' /\ Ascending'
  <2>1. Now' = Now
    BY <1>4 DEF Now
  <2>2. Pointers' /\ Restarts'
    BY <2>1, <1>4 DEF InOrder, Pointers, Restarts
  <2>3. Histories'
    BY <2>1, <1>4 DEF InOrder, Histories
  <2>4. Moved' /\ Ascending'
    BY <1>4 DEF InOrder, Moved, Part, Ascending
  <2> QED BY <2>2, <2>3, <2>4
<1>8. SetsUsable'
  BY <1>4, <1>6 DEF InOrder, SetsUsable, SavedNow, Usable
<1>9. Turn'
  <2> SUFFICES ASSUME NEW j \in 1..N PROVE ~(j < job'.i \/ (j = job'.i /\ job'.at = "restart"))
    BY DEF Turn
  <2> QED BY <1>5
<1>10. Archiving'
  <2>1. run.r[Cpl] = {} => D = 0
    BY <1>t DEF InOrder, Restarts
  <2>2. run.r[Cpl] # {} => D \in run.r[Cpl]
    <3> SUFFICES ASSUME NEW e \in run.r[Cpl] PROVE D \in run.r[Cpl]
      OBVIOUS
    <3>1. e <= D /\ e > 0
      BY <1>t DEF InOrder, Restarts
    <3> QED BY <3>1, <1>t DEF InOrder, Restarts
  <2>3. run' = run
    BY <1>4
  <2> QED BY <2>1, <2>2, <2>3, <1>5, <1>t DEF Archiving, Looping
<1> QED BY <1>7, <1>8, <1>9, <1>10 DEF InOrder

\* Where the loops over dates and components are.
LEMMA AtTurn ==
  ASSUME Types, InOrder, Looping
  PROVE  /\ ~model.on /\ ThisDate \in Dates /\ ThisDate \in job.left /\ ThisDate \in run.r[Cpl]
         /\ \A e \in run.r[Cpl] : ThisDate <= e
         /\ job.latest = run.rp[Cpl] /\ \A b \in Comps : run.rp[b] = job.latest
         /\ job.latest \in run.r[Cpl] /\ \A e \in run.r[Cpl] : e <= job.latest
         /\ job.latest \in Dates /\ job.latest \in job.left
         /\ job.i \in 1..N /\ ThisComp \in Comps /\ ThisComp = Order[job.i] /\ ~job.copy /\ ~job.done
         /\ \A j \in 1..N : ThisComp = Order[j] => j = job.i
         /\ (ThisComp = Cpl) <=> (job.i = N)
<1>t. /\ Days \in Nat /\ Dates = 1..Days /\ Cpl \in Comps
      /\ run.r[Cpl] \in SUBSET Dates /\ run.rp[Cpl] \in 0..Days
  BY Typed
<1>1. ArchiverOn /\ ~model.on
  BY DEF ArchiverOn, Looping, Types
<1>2. /\ job.latest = run.rp[Cpl] /\ ~job.copy /\ ~job.done
      /\ job.left \subseteq run.r[Cpl] /\ run.r[Cpl] \subseteq job.left \cup {job.latest}
      /\ job.latest \in job.left
  BY <1>1 DEF InOrder, Archiving
<1>3. ThisDate \in job.left /\ ThisDate \in Dates /\ \A d \in job.left : ThisDate <= d
  BY DateAtHand
<1>4. \A b \in Comps : run.rp[b] = job.latest
  BY <1>1, <1>2 DEF InOrder, Pointers, Now
<1>5. \A e \in run.r[Cpl] : e <= job.latest
  BY <1>2, <1>t DEF InOrder, Restarts
<1>6. job.i \in 1..N
  BY DEF Types, TypeOK, Jobs, N
<1>7. ThisComp \in Comps /\ ThisComp = Order[job.i] /\ \A j \in 1..N : ThisComp = Order[j] => j = job.i
  BY <1>6, Components DEF ThisComp
<1>8. (ThisComp = Cpl) <=> (job.i = N)
  BY <1>6, <1>7, Components
<1>9. \A e \in run.r[Cpl] : ThisDate <= e
  BY <1>2, <1>3
<1>10. job.latest \in Dates
  BY <1>2, <1>t
<1> QED BY <1>1, <1>2, <1>3, <1>4, <1>5, <1>6, <1>7, <1>8, <1>9, <1>10

\* What does not touch the run directory keeps what is true of it.
LEMMA RunSame ==
  ASSUME UNCHANGED <<run, hist, model>>, InOrder
  PROVE  Pointers' /\ Restarts' /\ Histories'
<1>1. Now' = Now
  BY DEF Now
<1>2. Pointers' /\ Restarts'
  BY <1>1 DEF InOrder, Pointers, Restarts
<1>3. Histories'
  BY <1>1 DEF InOrder, Histories
<1> QED BY <1>2, <1>3

LEMMA PointerInOrder ==
  ASSUME Plain, Types, InOrder, Rpointer
  PROVE  InOrder'
<1>1. job.at = "rpointer" /\ Looping
  BY DEF Rpointer, Looping
<1> SUFFICES ASSUME NEW d \in Dates, d = ThisDate, NEW c \in Comps, c = ThisComp
             PROVE  InOrder'
  BY <1>1, AtTurn
<1> DEFINE set == RestDir(d)
           pointer == IF d # job.latest THEN InterimPointer(d, c)
                      ELSE IF run.rp[c] > 0 THEN run.rp[c] ELSE set.rp[c]
           new == [set EXCEPT !.rp[c] = pointer]
<1>a. /\ ~model.on /\ d \in Dates /\ d \in run.r[Cpl] /\ \A e \in run.r[Cpl] : d <= e
      /\ \A b \in Comps : run.rp[b] = job.latest
      /\ job.latest \in Dates /\ c \in Comps /\ c = Order[job.i] /\ Cpl \in Comps
  BY <1>1, AtTurn, Components
<1>d. \A e \in Dates : e \in Int /\ e > 0
  BY LengthAssumption DEF Dates
\* No pointer file leaves the run directory
<1>q. ~PointersMoved(d, c)
  BY DEF PointersMoved, Plain
<1>2. /\ job' = [job EXCEPT !.at = "restart"]
      /\ UNCHANGED <<interim, run, hist, model, kills, torn, cut, spoiled>>
  BY <1>q DEF Rpointer
<1>3. job'.at = "restart" /\ job'.left = job.left /\ job'.i = job.i /\ job'.keep = job.keep
      /\ job'.last = job.last /\ job'.copy = job.copy /\ job'.latest = job.latest /\ job'.done = job.done
  <2>1. job \in Jobs
    BY DEF Types, TypeOK
  <2> QED BY <1>2, <2>1 DEF Jobs
<1>4. Looping' /\ ThisDate' = d /\ (SavedNow' <=> SavedNow) /\ (SavedNow <=> (d = job.latest \/ interim))
  BY <1>1, <1>2, <1>3 DEF Looping, ThisDate, SavedNow
<1>5. set \in Sets /\ (rest[d] # Absent => set = rest[d]) /\ (rest[d] = Absent => set = EmptySet)
  <2>1. rest[d] \in Sets \cup {Absent}
    BY <1>a DEF Types, TypeOK
  <2> QED BY <2>1, EmptyIsSet DEF RestDir
\* What becomes of the directories under rest
<1>6. \A f \in Dates : f # d => rest'[f] = rest[f]
  <2>1. rest \in [Dates -> Sets \cup {Absent}]
    BY DEF Types, TypeOK
  <2> QED BY <2>1, <1>a DEF Rpointer, Enter
<1>7. newest' = d \/ newest' = newest
  BY DEF Rpointer, Enter
<1>8. CASE ~SavedNow
  <2>1. UNCHANGED <<rest, newest>>
    BY <1>4, <1>8 DEF Rpointer
  <2>2. Moved' /\ Ascending'
    BY <1>2, <2>1 DEF InOrder, Moved, Part, Ascending
  <2>3. SetsUsable'
    BY <1>2, <1>4, <1>8, <2>1 DEF InOrder, SetsUsable, Usable
  <2>4. Turn'
    BY <1>1, <1>2, <1>3, <1>4, <1>8 DEF InOrder, Turn
  <2>5. Archiving'
    <3>1. ArchiverOn /\ ~job.done
      BY <1>1, AtTurn DEF ArchiverOn
    <3>2. job'.at # "history" /\ run' = run
      BY <1>2, <1>3
    <3> QED BY <1>1, <1>3, <3>1, <3>2 DEF InOrder, Archiving
  <2> QED BY <1>2, <2>2, <2>3, <2>4, <2>5, RunSame DEF InOrder
<1>9. CASE SavedNow
  <2>1. /\ rest' = [rest EXCEPT ![d] = new]
        /\ newest' = d \/ (rest[d] # Absent /\ newest' = newest)
    BY <1>4, <1>9, <1>q DEF Rpointer, Enter
  <2>2. /\ rest'[d] = new /\ new \in Sets /\ new.r = set.r /\ new.h = set.h
        /\ \A b \in Comps : new.rp[b] = IF b = c THEN d ELSE set.rp[b]
    <3> DEFINE p == pointer
    <3>1. p = d
      BY <1>a, <1>d DEF InterimPointer
    <3>2. rest \in [Dates -> Sets \cup {Absent}]
      BY DEF Types, TypeOK
    <3>3. rest'[d] = new
      BY <2>1, <3>2, <1>a
    <3> DEFINE rp == [set.rp EXCEPT ![c] = p]
    <3>4. new = [set EXCEPT !.rp = rp]
      BY <1>5 DEF Sets
    <3>5. d \in 0..Days
      BY <1>a, LengthAssumption DEF Dates
    <3>6. rp \in [Comps -> 0..Days] /\ \A b \in Comps : rp[b] = IF b = c THEN d ELSE set.rp[b]
      BY <1>5, <1>a, <3>1, <3>5 DEF Sets
    <3> HIDE DEF set, rp, new, p
    <3>7. new \in Sets /\ new.r = set.r /\ new.h = set.h /\ new.rp = rp
      BY <3>4, <3>6, <1>5 DEF Sets
    <3> QED BY <3>3, <3>6, <3>7
  <2> HIDE DEF new, set
  <2>3. rest'[d] # Absent
    BY <2>2, AbsentIsNone
  <2>4. \A b \in Comps : rest[d] # Absent /\ Part(b, d) => Part(b, d)'
    BY <2>2, <1>2, <1>5 DEF Part
  <2>5. Moved'
    <3> SUFFICES ASSUME interim, NEW b \in Comps, NEW e \in run.r[Cpl] \ run.r[b]
                 PROVE  rest'[e] # Absent /\ Part(b, e)'
      BY <1>2 DEF Moved
    <3>1. rest[e] # Absent /\ Part(b, e) /\ e \in Dates
      BY <1>a, Typed DEF InOrder, Moved
    <3>2. CASE e = d
      BY <3>1, <3>2, <2>3, <2>4
    <3>3. CASE e # d
      BY <3>1, <3>3, <1>2, <1>6 DEF Part
    <3> QED BY <3>2, <3>3
  <2>6. Ascending'
    <3> SUFFICES ASSUME NEW f \in Dates, rest'[f] # Absent
                 PROVE  /\ f <= newest' /\ run.rp[Cpl] > 0 /\ \A e \in run.r[Cpl] : f <= e
                        /\ \A b \in Comps : \A s \in Starts : rest'[f].h[b][s] > 0 => s \in Open(f)
      BY <1>2 DEF InOrder, Ascending
    <3>1. rest[f] # Absent => /\ f <= newest /\ \A e \in run.r[Cpl] : f <= e
                              /\ \A b \in Comps : \A s \in Starts : rest[f].h[b][s] > 0 => s \in Open(f)
      BY DEF InOrder, Ascending
    <3>2. run.rp[Cpl] > 0
      BY <1>a, <1>d
    <3>3. CASE f = d
      <4>1. \A b \in Comps : \A s \in Starts : set.h[b][s] > 0 => s \in Open(d)
        <5>1. CASE rest[d] = Absent
          BY <5>1, <1>5 DEF EmptySet, NoHist
        <5>2. CASE rest[d] # Absent
          BY <5>2, <3>1, <3>3, <1>5
        <5> QED BY <5>1, <5>2
      <4>2. d <= newest'
        BY <2>1, <3>1, <3>3, <1>a, <1>d
      <4> QED BY <4>1, <4>2, <3>2, <3>3, <2>2, <1>a
    <3>4. CASE f # d
      <4>1. f <= d
        BY <3>1, <3>4, <1>6, <1>a
      <4> QED BY <4>1, <3>1, <3>2, <3>4, <1>6, <1>7
    <3> QED BY <3>3, <3>4
  <2>7. SetsUsable'
    <3> SUFFICES ASSUME NEW f \in Dates \ cut, f # d
                 PROVE  \/ rest'[f] = Absent
                        \/ rest'[f] # Absent /\ Usable(f)'
                        \/ ~interim /\ rest'[f] = EmptySet
      BY <1>2, <1>4, <1>9 DEF SetsUsable
    <3> QED BY <1>2, <1>6 DEF InOrder, SetsUsable, Usable
  <2>8. Turn'
    <3> SUFFICES ASSUME NEW j \in 1..N
                 PROVE  /\ j <= job.i => rest'[d] # Absent /\ rest'[d].rp[Order[j]] = d
                        /\ j < job.i => Part(Order[j], d)'
                        /\ j < job.i /\ d # job.latest => d \notin run.r[Order[j]]
                        /\ j < job.i /\ d = job.latest => Open(job.latest) \subseteq job.keep[Order[j]]
      <4>1. job.i \in 1..N /\ N \in Nat
        BY <1>1, AtTurn, Components
      <4> QED BY <1>2, <1>3, <1>4, <1>9, <4>1 DEF Turn
    <3>1. Order[j] \in Comps /\ job.i \in Nat
      BY Components, <1>1, AtTurn
    <3>2. j < job.i => rest[d] # Absent /\ rest[d].rp[Order[j]] = d /\ Part(Order[j], d)
      BY <1>1, <1>9 DEF InOrder, Turn
    <3>3. /\ j < job.i /\ d # job.latest => d \notin run.r[Order[j]]
          /\ j < job.i /\ d = job.latest => Open(job.latest) \subseteq job.keep[Order[j]]
      BY <1>1, <1>9 DEF InOrder, Turn
    <3>4. rest'[d].rp[Order[j]] = IF Order[j] = c THEN d ELSE set.rp[Order[j]]
      BY <2>2, <3>1
    <3>5. CASE j < job.i
      BY <3>1, <3>2, <3>3, <3>4, <3>5, <2>3, <2>4, <1>5
    <3>6. CASE j = job.i
      BY <3>4, <3>6, <2>3, <1>a
    <3>7. CASE j > job.i
      BY <3>7, <3>1
    <3> QED BY <3>1, <3>5, <3>6, <3>7
  <2>9. Archiving'
    <3>1. ArchiverOn /\ ~job.done
      BY <1>1, AtTurn DEF ArchiverOn
    <3>2. job'.at # "history" /\ run' = run
      BY <1>2, <1>3
    <3> QED BY <1>1, <1>3, <3>1, <3>2 DEF InOrder, Archiving
  <2> QED BY <1>2, <2>5, <2>6, <2>7, <2>8, <2>9, RunSame DEF InOrder
<1> QED BY <1>8, <1>9

\* What a component of a date, with some or all of its history, does to the
\* directories: what a turn of the loops and a kill amid it have in common.
LEMMA ArchivedPart ==
  ASSUME Types, InOrder, job.at = "restart",
         NEW d \in Dates, d = ThisDate, NEW c \in Comps, c = ThisComp,
         NEW copied \in SUBSET NeededHistory(c, d), ToArchive(c, d, copied),
         UNCHANGED <<interim, hist, model>>,
         spoiled' = IF interim /\ d # job.latest /\ d \in run.r[c] /\ copied # NeededHistory(c, d)
                    THEN spoiled \cup {d} ELSE spoiled
  PROVE  /\ run'.h = run.h /\ run'.rp = run.rp
         /\ \A b \in Comps : run'.r[b] = IF b = c /\ d # job.latest THEN run.r[b] \ {d} ELSE run.r[b]
         /\ \A f \in Dates : f # d => rest'[f] = rest[f]
         /\ d # job.latest /\ ~interim => rest'[d] = rest[d] \/ rest'[d] = EmptySet
         /\ d = job.latest \/ interim =>
              /\ rest'[d] # Absent /\ rest'[d].r \subseteq Comps
              /\ \A b \in Comps : rest[d] # Absent /\ Part(b, d) => Part(b, d)'
              /\ \A b \in Comps : rest[d] # Absent => rest'[d].rp[b] = rest[d].rp[b]
              /\ copied = NeededHistory(c, d) => Part(c, d)'
         /\ Pointers' /\ Restarts' /\ Histories' /\ Moved' /\ Ascending'
<1>1. job.at = "restart" /\ Looping
  BY DEF Looping
<1> DEFINE set == RestDir(d)
           saved == d = job.latest \/ interim
           k == [s \in Starts |-> IF s \in copied THEN run.h[c][s] ELSE set.h[c][s]]
           with == [set EXCEPT !.r = set.r \cup {c}, !.h[c] = k]
<1>a. /\ ~model.on /\ d \in job.left /\ d \in run.r[Cpl] /\ \A e \in run.r[Cpl] : d <= e
      /\ job.latest = run.rp[Cpl] /\ \A b \in Comps : run.rp[b] = job.latest
      /\ job.latest \in run.r[Cpl] /\ \A e \in run.r[Cpl] : e <= job.latest
      /\ job.latest \in Dates /\ job.latest \in job.left /\ Cpl \in Comps
      /\ job.i \in 1..N /\ c = Order[job.i] /\ ~job.copy /\ ~job.done
      /\ \A j \in 1..N : c = Order[j] => j = job.i
      /\ c = Cpl <=> job.i = N
  BY <1>1, AtTurn, Components
<1>d. \A e \in Dates : e \in Int /\ e > 0
  BY LengthAssumption DEF Dates
<1>s. set \in Sets /\ (rest[d] # Absent => set = rest[d]) /\ (rest[d] = Absent => set = EmptySet)
  <2>1. rest[d] \in Sets \cup {Absent}
    BY <1>a DEF Types, TypeOK
  <2> QED BY <2>1, EmptyIsSet DEF RestDir
\* The component has this date, unless it was moved before
<1>m. d \notin run.r[c] => d # job.latest /\ c # Cpl /\ (saved => rest[d] # Absent /\ Part(c, d))
  <2> SUFFICES ASSUME d \notin run.r[c]
               PROVE  d # job.latest /\ c # Cpl /\ (saved => rest[d] # Absent /\ Part(c, d))
    OBVIOUS
  <2>1. run.rp[c] \in run.r[c]
    BY <1>a, <1>d DEF InOrder, Restarts
  <2>2. d # job.latest
    BY <2>1, <1>a
  <2> QED BY <2>2, <1>a DEF InOrder, Moved
\* The history files it needs are there
<1>h. d \in run.r[c] => NeededHistory(c, d) = Open(d) /\ \A s \in Open(d) : run.h[c][s] >= d
  <2> SUFFICES ASSUME d \in run.r[c]
               PROVE  NeededHistory(c, d) = Open(d) /\ \A s \in Open(d) : run.h[c][s] >= d
    OBVIOUS
  <2>1. \A s \in Open(d) : run.h[c][s] >= d
    BY DEF InOrder, Restarts
  <2>2. \A s \in Open(d) : run.h[c][s] \in Int
    BY Typed DEF Open
  <2>3. \A s \in Open(d) : run.h[c][s] > 0
    BY <2>1, <2>2, <1>d
  <2> QED BY <2>1, <2>3 DEF NeededHistory
\* What becomes of the run directory
<1>r. /\ run'.h = run.h /\ run'.rp = run.rp
      /\ \A b \in Comps : run'.r[b] = IF b = c /\ d # job.latest THEN run.r[b] \ {d} ELSE run.r[b]
  <2>1. run \in Runs
    BY DEF Types, TypeOK
  <2>2. CASE d \notin run.r[c]
    <3>1. run' = run
      BY <2>2 DEF ToArchive
    <3> QED BY <3>1, <2>2
  <2>3. CASE d \in run.r[c]
    <3>1. run' = [run EXCEPT !.r[c] = Remaining(c, d)]
      BY <2>3 DEF ToArchive
    <3>2. Remaining(c, d) = IF d = job.latest THEN run.r[c] ELSE run.r[c] \ {d}
      BY <1>a DEF Remaining, Stays
    <3> DEFINE r == [run.r EXCEPT ![c] = Remaining(c, d)]
    <3>3. run' = [run EXCEPT !.r = r]
      BY <3>1
    <3>4. \A b \in Comps : r[b] = IF b = c THEN Remaining(c, d) ELSE run.r[b]
      BY <2>1 DEF Runs
    <3> HIDE DEF r
    <3>5. run'.r = r /\ run'.h = run.h /\ run'.rp = run.rp
      BY <2>1, <3>3 DEF Runs
    <3> QED BY <3>2, <3>4, <3>5
  <2> QED BY <2>2, <2>3
\* What becomes of the directories under rest
<1>e. \/ d \notin run.r[c] /\ UNCHANGED <<rest, newest>>
      \/ /\ d \in run.r[c]
         /\ rest' = [rest EXCEPT ![d] = IF saved THEN with ELSE set]
         /\ newest' = d \/ (rest[d] # Absent /\ newest' = newest)
  <2>1. WithHistory(set, c, copied) = with
    BY DEF WithHistory
  <2> QED BY <2>1 DEF ToArchive, Saved, Enter, Stays
<1>f. \A f \in Dates : f # d => rest'[f] = rest[f]
  <2>1. rest \in [Dates -> Sets \cup {Absent}]
    BY DEF Types, TypeOK
  <2> QED BY <2>1, <1>e
<1>g. newest' = d \/ newest' = newest
  BY <1>e
<1>w. /\ with \in Sets /\ with.r = set.r \cup {c} /\ with.rp = set.rp
      /\ \A b \in Comps : with.h[b] = IF b = c THEN k ELSE set.h[b]
  <2>1. run.h[c] \in [Starts -> 0..Days] /\ set.h[c] \in [Starts -> 0..Days]
    BY <1>s DEF Types, TypeOK, Runs, HistFiles, Sets
  <2>2. k \in [Starts -> 0..Days]
    BY <2>1
  <2> DEFINE h == [set.h EXCEPT ![c] = k]
  <2>3. with = [set EXCEPT !.r = set.r \cup {c}, !.h = h]
    BY <1>s DEF Sets
  <2> HIDE DEF k, set, with
  <2>4. h \in HistFiles /\ \A b \in Comps : h[b] = IF b = c THEN k ELSE set.h[b]
    BY <1>s, <2>2 DEF Sets, HistFiles
  <2> HIDE DEF h
  <2>5. with \in Sets /\ with.r = set.r \cup {c} /\ with.rp = set.rp /\ with.h = h
    BY <1>s, <2>3, <2>4 DEF Sets
  <2> QED BY <2>4, <2>5
<1>k. \A s \in Starts : k[s] = IF s \in copied THEN run.h[c][s] ELSE set.h[c][s]
  OBVIOUS
<1> HIDE DEF set, with, k
<1>2. d \in run.r[c] => rest'[d] = IF saved THEN with ELSE set
  <2>1. rest \in [Dates -> Sets \cup {Absent}]
    BY DEF Types, TypeOK
  <2> QED BY <2>1, <1>e
\* A set that is saved keeps the parts it has, and gets this one
<1>3. saved => /\ rest'[d] # Absent
               /\ \A b \in Comps : rest[d] # Absent /\ Part(b, d) => Part(b, d)'
               /\ \A b \in Comps : rest[d] # Absent => rest'[d].rp[b] = rest[d].rp[b]
               /\ (d \in run.r[c] => copied = NeededHistory(c, d) \/ d \in spoiled') => Part(c, d)'
  <2> SUFFICES ASSUME saved
               PROVE  /\ rest'[d] # Absent
                      /\ \A b \in Comps : rest[d] # Absent /\ Part(b, d) => Part(b, d)'
                      /\ \A b \in Comps : rest[d] # Absent => rest'[d].rp[b] = rest[d].rp[b]
                      /\ (d \in run.r[c] => copied = NeededHistory(c, d) \/ d \in spoiled') => Part(c, d)'
    OBVIOUS
  <2>0. spoiled \subseteq spoiled'
    OBVIOUS
  <2>1. CASE d \notin run.r[c]
    <3>1. rest' = rest
      BY <2>1, <1>e
    <3> QED BY <3>1, <2>0, <2>1, <1>m DEF Part
  <2>2. CASE d \in run.r[c]
    <3>1. rest'[d] = with
      BY <2>2, <1>2
    <3>2. with # Absent
      BY <1>w, AbsentIsNone
    <3>3. ASSUME NEW s \in copied PROVE with.h[c][s] >= d
      <4>1. s \in Starts /\ s \in Open(d) /\ run.h[c][s] >= d
        BY <2>2, <1>h DEF Open
      <4> QED BY <4>1, <1>w, <1>k
    <3>4. ASSUME copied = NeededHistory(c, d) \/ d \in spoiled' PROVE Part(c, d)'
      <4>1. d \notin spoiled' => \A s \in Open(d) : s \in copied
        BY <3>4, <2>2, <1>h
      <4> QED BY <4>1, <3>1, <3>3, <1>w DEF Part
    <3>5. ASSUME NEW b \in Comps, rest[d] # Absent, Part(b, d) PROVE Part(b, d)'
      <4>1. CASE b = c
        <5>1. ASSUME NEW s \in Open(d), d \notin spoiled' PROVE with.h[c][s] >= d
          <6>1. s \in Starts
            BY DEF Open
          <6>2. CASE s \in copied
            BY <6>2, <3>3
          <6>3. CASE s \notin copied
            <7>1. set.h[c][s] >= d
              BY <3>5, <4>1, <5>1, <2>0, <1>s DEF Part
            <7> QED BY <7>1, <6>1, <6>3, <1>w, <1>k
          <6> QED BY <6>2, <6>3
        <5> QED BY <5>1, <4>1, <3>1, <1>w DEF Part
      <4>2. CASE b # c
        BY <4>2, <3>1, <3>5, <2>0, <1>w, <1>s DEF Part
      <4> QED BY <4>1, <4>2
    <3> QED BY <3>1, <3>2, <3>4, <3>5, <2>2, <1>w, <1>s
  <2> QED BY <2>1, <2>2
<1>c. saved => rest'[d].r \subseteq Comps
  <2>1. rest[d] # Absent => rest[d].r \subseteq Comps
    BY DEF Types, TypeOK, Sets
  <2>2. with.r \subseteq Comps
    BY <1>w DEF Sets
  <2>3. CASE d \in run.r[c]
    BY <2>2, <2>3, <1>2
  <2>4. CASE d \notin run.r[c]
    BY <2>1, <2>4, <1>e, <1>m
  <2> QED BY <2>3, <2>4
\* Otherwise it is what it was, or was made empty
<1>4. ~saved => \/ rest'[d] = rest[d]
                \/ rest'[d] = EmptySet
  BY <1>2, <1>e, <1>s
<1>5. rest'[d] # Absent => \A b \in Comps : \A s \in Starts : rest'[d].h[b][s] > 0 => s \in Open(d)
  <2> SUFFICES ASSUME rest'[d] # Absent, NEW b \in Comps, NEW s \in Starts, rest'[d].h[b][s] > 0
               PROVE  s \in Open(d)
    OBVIOUS
  <2>1. rest[d] # Absent => (rest[d].h[b][s] > 0 => s \in Open(d))
    BY DEF InOrder, Ascending
  <2>2. set.h[b][s] > 0 => s \in Open(d)
    BY <2>1, <1>s DEF EmptySet, NoHist
  <2>3. with.h[b][s] > 0 => s \in Open(d)
    BY <2>2, <1>w, <1>k DEF NeededHistory
  <2> QED BY <2>1, <2>2, <2>3, <1>2, <1>e
<1>9. Pointers'
  <2>1. Now' = Now
    BY <1>r DEF Now
  <2> QED BY <2>1, <1>r DEF InOrder, Pointers
<1>10. Restarts'
  <2> SUFFICES ASSUME NEW b \in Comps
               PROVE  /\ \A e \in run'.r[b] : /\ e <= run'.rp[b]
                                              /\ e \in run'.r[Cpl] \/ e = run'.rp[b]
                                              /\ \A s \in Open(e) : run'.h[b][s] >= e
                      /\ run'.rp[b] > 0 => run'.rp[b] \in run'.r[b]
    BY DEF Restarts
  <2>1. ASSUME NEW e \in run'.r[b]
        PROVE  /\ e <= run'.rp[b] /\ (e \in run'.r[Cpl] \/ e = run'.rp[b])
               /\ \A s \in Open(e) : run'.h[b][s] >= e
    <3>1. e \in run.r[b]
      BY <1>r
    <3>2. /\ e <= run.rp[b] /\ (e \in run.r[Cpl] \/ e = run.rp[b])
          /\ \A s \in Open(e) : run.h[b][s] >= e
      BY <3>1 DEF InOrder, Restarts
    <3>3. e \in run.r[Cpl] \ run'.r[Cpl] => c = Cpl /\ e = d /\ d # job.latest
      BY <1>r, <1>a
    <3>4. e \notin run.r[Cpl] \ run'.r[Cpl]
      <4> SUFFICES ASSUME e \in run.r[Cpl], e \notin run'.r[Cpl] PROVE FALSE
        OBVIOUS
      <4>1. c = Cpl /\ e = d /\ d # job.latest /\ b # Cpl
        BY <3>3
      <4>2. PICK j \in 1..N : Order[j] = b
        BY Components
      <4>3. j < job.i
        BY <4>1, <4>2, <1>a, Components
      <4>4. d \notin run.r[b]
        BY <4>1, <4>2, <4>3, <1>1 DEF InOrder, Turn
      <4> QED BY <4>1, <4>4, <3>1
    <3> QED BY <3>2, <3>4, <1>r
  <2>2. run.rp[b] > 0 => run.rp[b] \in run.r[b]
    BY DEF InOrder, Restarts
  <2>3. run'.rp[b] > 0 => run'.rp[b] \in run'.r[b]
    <3>1. run.rp[b] = job.latest /\ run'.rp[b] = job.latest
      BY <1>r, <1>a
    <3>2. job.latest \in run.r[b] => job.latest \in run'.r[b]
      BY <1>r
    <3> QED BY <2>2, <3>1, <3>2
  <2> QED BY <2>1, <2>3
<1>11. Histories'
  <2>1. Now' = Now
    BY <1>r DEF Now
  <2> QED BY <2>1, <1>r DEF InOrder, Histories
<1>12. Moved'
  <2> SUFFICES ASSUME interim, NEW b \in Comps, NEW e \in run'.r[Cpl] \ run'.r[b]
               PROVE  rest'[e] # Absent /\ Part(b, e)'
    BY DEF Moved
  <2>1. e \in run.r[Cpl] /\ e \in Dates
    BY <1>r, <1>a, Typed
  <2>2. CASE e \notin run.r[b]
    <3>1. rest[e] # Absent /\ Part(b, e)
      BY <2>1, <2>2 DEF InOrder, Moved
    <3>2. CASE e = d
      BY <3>1, <3>2, <1>3
    <3>3. CASE e # d
      BY <3>1, <3>3, <2>1, <1>f DEF Part
    <3> QED BY <3>2, <3>3
  <2>3. CASE e \in run.r[b]
    <3>1. b = c /\ e = d /\ d # job.latest /\ d \in run.r[c]
      BY <2>3, <1>r
    <3> QED BY <3>1, <1>3
  <2> QED BY <2>2, <2>3
<1>13. Ascending'
  <2> SUFFICES ASSUME NEW f \in Dates, rest'[f] # Absent
               PROVE  /\ f <= newest' /\ run.rp[Cpl] > 0 /\ \A e \in run'.r[Cpl] : f <= e
                      /\ \A b \in Comps : \A s \in Starts : rest'[f].h[b][s] > 0 => s \in Open(f)
    <3>1. \A f \in spoiled' : f < run.rp[Cpl]
      <4>1. \A f \in spoiled : f < run.rp[Cpl]
        BY DEF InOrder, Ascending
      <4>2. d # job.latest => d < run.rp[Cpl]
        BY <1>a, <1>d
      <4> QED BY <4>1, <4>2
    <3> QED BY <3>1, <1>r DEF Ascending
  <2>1. rest[f] # Absent => /\ f <= newest /\ \A e \in run.r[Cpl] : f <= e
                            /\ \A b \in Comps : \A s \in Starts : rest[f].h[b][s] > 0 => s \in Open(f)
    BY DEF InOrder, Ascending
  <2>2. run.rp[Cpl] > 0
    BY <1>a, <1>d
  <2>3. run'.r[Cpl] \subseteq run.r[Cpl]
    BY <1>r, <1>a
  <2>4. CASE f = d
    <3>1. d <= newest'
      <4>1. CASE newest' = d
        BY <4>1, <1>d
      <4>2. CASE newest' # d
        BY <4>2, <2>1, <2>4, <1>e
      <4> QED BY <4>1, <4>2
    <3>2. \A e \in run'.r[Cpl] : d <= e
      BY <2>3, <1>a
    <3> QED BY <3>1, <3>2, <2>2, <2>4, <1>5
  <2>5. CASE f # d
    <3>1. rest'[f] = rest[f] /\ f <= d
      BY <2>1, <2>5, <1>f, <1>a
    <3> QED BY <3>1, <2>1, <2>2, <2>3, <1>g
  <2> QED BY <2>4, <2>5
<1> QED BY <1>r, <1>f, <1>3, <1>4, <1>c, <1>9, <1>10, <1>11, <1>12, <1>13

LEMMA RestartMoved ==
  ASSUME Types, InOrder, Restart
  PROVE  InOrder'
<1>1. job.at = "restart" /\ Looping
  BY DEF Restart, Looping
<1> SUFFICES ASSUME NEW d \in Dates, d = ThisDate, NEW c \in Comps, c = ThisComp
             PROVE  InOrder'
  BY <1>1, AtTurn
<1> DEFINE saved == d = job.latest \/ interim
<1>a. /\ ~model.on /\ d \in job.left /\ d \in run.r[Cpl] /\ \A e \in run.r[Cpl] : d <= e
      /\ job.latest = run.rp[Cpl] /\ \A b \in Comps : run.rp[b] = job.latest
      /\ job.latest \in run.r[Cpl] /\ \A e \in run.r[Cpl] : e <= job.latest
      /\ job.latest \in Dates /\ job.latest \in job.left /\ Cpl \in Comps
      /\ job.i \in 1..N /\ c = Order[job.i] /\ ~job.copy /\ ~job.done
      /\ \A j \in 1..N : c = Order[j] => j = job.i
      /\ c = Cpl <=> job.i = N
  BY <1>1, AtTurn, Components
<1>d. \A e \in Dates : e \in Int /\ e > 0
  BY LengthAssumption DEF Dates
<1>l. job.left \subseteq run.r[Cpl] /\ run.r[Cpl] \subseteq job.left \cup {job.latest} /\ job.last = NoDate
  BY <1>1 DEF InOrder, Archiving, ArchiverOn, Looping
<1>n. (SavedNow <=> saved) /\ (Saved(d) <=> saved)
  BY <1>1 DEF SavedNow, Saved, Stays
<1>u. /\ UNCHANGED <<interim, hist, model, kills, torn, spoiled>>
      /\ cut' = IF saved /\ c = Cpl THEN cut \ {d} ELSE cut
  BY <1>n DEF Restart
<1>p. /\ run'.h = run.h /\ run'.rp = run.rp
      /\ \A b \in Comps : run'.r[b] = IF b = c /\ d # job.latest THEN run.r[b] \ {d} ELSE run.r[b]
      /\ \A f \in Dates : f # d => rest'[f] = rest[f]
      /\ ~saved => rest'[d] = rest[d] \/ rest'[d] = EmptySet
      /\ saved => /\ rest'[d] # Absent /\ rest'[d].r \subseteq Comps /\ Part(c, d)'
                  /\ \A b \in Comps : rest[d] # Absent /\ Part(b, d) => Part(b, d)'
                  /\ \A b \in Comps : rest[d] # Absent => rest'[d].rp[b] = rest[d].rp[b]
      /\ Pointers' /\ Restarts' /\ Histories' /\ Moved' /\ Ascending'
  <2> DEFINE copied == NeededHistory(c, d)
  <2>1. ToArchive(c, d, copied)
    BY DEF Restart
  <2>2. copied \in SUBSET copied /\ copied = NeededHistory(c, d)
    OBVIOUS
  <2> HIDE DEF copied
  <2> QED BY <2>1, <2>2, <1>1, <1>u, ArchivedPart
\* The component has the last date, and the history files it needs
<1>h. d = job.latest => d \in run.r[c] /\ Open(d) \subseteq NeededHistory(c, d)
  <2> SUFFICES ASSUME d = job.latest
               PROVE  d \in run.r[c] /\ Open(d) \subseteq NeededHistory(c, d)
    OBVIOUS
  <2>1. d \in run.r[c]
    BY <1>a, <1>d DEF InOrder, Restarts
  <2>2. \A s \in Open(d) : run.h[c][s] >= d /\ run.h[c][s] \in Int
    BY <2>1, Typed DEF InOrder, Restarts, Open
  <2>3. \A s \in Open(d) : run.h[c][s] > 0
    BY <2>2, <1>d
  <2> QED BY <2>1, <2>3 DEF NeededHistory
\* The next turn
<1>6. /\ job'.latest = job.latest /\ job'.last = job.last /\ ~job'.copy /\ ~job'.done
      /\ \A b \in Comps : b # c => job'.keep[b] = job.keep[b]
      /\ d = job.latest => Open(d) \subseteq job'.keep[c]
      /\ job'.at = NextTurn.at /\ job'.left = NextTurn.left /\ job'.i = NextTurn.i
  <2>1. job \in Jobs
    BY DEF Types, TypeOK
  <2> DEFINE new == IF d = job.latest /\ d \in run.r[c] THEN job.keep[c] \cup Kept(c, d) ELSE job.keep[c]
             keep == [job.keep EXCEPT ![c] = new]
  <2>2. job' = [job EXCEPT !.at = NextTurn.at, !.left = NextTurn.left, !.i = NextTurn.i, !.keep = keep]
    BY DEF Restart
  <2>3. \A b \in Comps : keep[b] = IF b = c THEN new ELSE job.keep[b]
    BY <2>1 DEF Jobs
  <2>4. d = job.latest => Open(d) \subseteq new
    BY <1>h DEF Kept
  <2> HIDE DEF new, keep
  <2>5. /\ job'.latest = job.latest /\ job'.last = job.last /\ job'.copy = job.copy /\ job'.done = job.done
        /\ job'.keep = keep
        /\ job'.at = NextTurn.at /\ job'.left = NextTurn.left /\ job'.i = NextTurn.i
    BY <2>1, <2>2 DEF Jobs
  <2> QED BY <2>3, <2>4, <2>5, <1>a
<1>7. /\ job.i < N => job'.at = "rpointer" /\ job'.left = job.left /\ job'.i = job.i + 1
      /\ job.i = N => /\ job'.at = (IF job.left = {d} THEN "history" ELSE "rpointer")
                      /\ job'.left = job.left \ {d} /\ job'.i = 1
  BY <1>6, <1>a DEF NextTurn, N
<1>8. job.i < N => Looping' /\ ThisDate' = d /\ (SavedNow' <=> saved)
  BY <1>7, <1>6, <1>u DEF Looping, ThisDate, SavedNow
\* A date that is not saved
<1>14. ~saved /\ d \notin cut => \/ rest'[d] = Absent
                                 \/ rest'[d] # Absent /\ Usable(d)'
                                 \/ ~interim /\ rest'[d] = EmptySet
  <2> SUFFICES ASSUME ~saved, d \notin cut
               PROVE  \/ rest'[d] = Absent
                      \/ rest'[d] # Absent /\ Usable(d)'
                      \/ ~interim /\ rest'[d] = EmptySet
    OBVIOUS
  <2>1. rest[d] = Absent \/ (rest[d] # Absent /\ Usable(d)) \/ (~interim /\ rest[d] = EmptySet)
    BY <1>n DEF InOrder, SetsUsable
  <2>2. CASE rest'[d] = rest[d]
    BY <2>1, <2>2, <1>u DEF Usable
  <2>3. CASE rest'[d] = EmptySet
    BY <2>3
  <2> QED BY <2>2, <2>3, <1>p
\* A date whose last component has been saved
<1>15. saved /\ job.i = N => rest'[d] # Absent /\ Usable(d)'
  <2> SUFFICES ASSUME saved, job.i = N PROVE rest'[d] # Absent /\ Usable(d)'
    OBVIOUS
  <2>1. ASSUME NEW b \in Comps PROVE Part(b, d)' /\ rest'[d].rp[b] = d
    <3>1. PICK j \in 1..N : Order[j] = b
      BY Components
    <3>2. j < job.i \/ j = job.i
      BY <3>1, Components
    <3>3. rest[d] # Absent /\ rest[d].rp[b] = d
      BY <3>1, <3>2, <1>1, <1>n DEF InOrder, Turn
    <3>4. Part(b, d)'
      <4>1. CASE j = job.i
        BY <4>1, <3>1, <1>p, <1>a
      <4>2. CASE j < job.i
        <5>1. Part(b, d)
          BY <4>2, <3>1, <1>1, <1>n DEF InOrder, Turn
        <5> QED BY <5>1, <3>3, <1>p
      <4> QED BY <4>1, <4>2, <3>2
    <3> QED BY <3>3, <3>4, <1>p
  <2>2. rest'[d] # Absent
    BY <1>p
  <2>3. rest'[d].r \subseteq Comps
    BY <1>p
  <2>4. rest'[d].r = Comps
    BY <2>1, <2>3 DEF Part
  <2> QED BY <2>1, <2>2, <2>4 DEF Usable, Part
<1>16. SetsUsable'
  <2> SUFFICES ASSUME NEW f \in Dates \ cut'
               PROVE  \/ SavedNow' /\ f = ThisDate'
                      \/ rest'[f] = Absent
                      \/ rest'[f] # Absent /\ Usable(f)'
                      \/ ~interim /\ rest'[f] = EmptySet
    BY <1>u DEF SetsUsable
  <2>1. CASE f # d
    <3>1. rest'[f] = rest[f] /\ f \notin cut
      BY <2>1, <1>p, <1>u
    <3> QED BY <2>1, <3>1, <1>u DEF InOrder, SetsUsable, Usable
  <2>2. CASE f = d /\ ~saved
    BY <2>2, <1>14, <1>u
  <2>3. CASE f = d /\ saved
    BY <2>3, <1>8, <1>15, <1>a, Components
  <2> QED BY <2>1, <2>2, <2>3
<1>17. Turn'
  <2> SUFFICES ASSUME job.i < N, NEW j \in 1..N, j < job'.i
               PROVE  /\ saved => rest'[d] # Absent /\ rest'[d].rp[Order[j]] = d /\ Part(Order[j], d)'
                      /\ d # job.latest => d \notin run'.r[Order[j]]
                      /\ d = job.latest => Open(job.latest) \subseteq job'.keep[Order[j]]
    <3>1. job'.at # "restart"
      BY <1>7, <1>a, Components
    <3>2. job.i = N => \A j \in 1..N : ~(j < job'.i)
      BY <1>7
    <3>3. ~(job.i < N) => job.i = N
      BY <1>a, Components
    <3> QED BY <3>1, <3>2, <3>3, <1>6, <1>7, <1>8 DEF Turn
  <2>1. j < job.i \/ j = job.i
    BY <1>7, <1>a, Components
  <2>2. Order[j] \in Comps /\ (j # job.i => Order[j] # c) /\ (j = job.i => Order[j] = c)
    BY <1>a, Components
  <2>3. CASE j < job.i
    <3>1. /\ saved => rest[d] # Absent /\ rest[d].rp[Order[j]] = d /\ Part(Order[j], d)
          /\ d # job.latest => d \notin run.r[Order[j]]
          /\ d = job.latest => Open(job.latest) \subseteq job.keep[Order[j]]
      BY <2>3, <1>1, <1>n DEF InOrder, Turn
    <3>2. Order[j] # c
      BY <2>2, <2>3, <1>a
    <3> QED BY <3>1, <3>2, <2>2, <1>p, <1>6
  <2>4. CASE j = job.i
    <3>1. saved => rest[d] # Absent /\ rest[d].rp[c] = d
      BY <1>1, <1>n, <1>a DEF InOrder, Turn
    <3> QED BY <3>1, <2>2, <2>4, <1>p, <1>6
  <2> QED BY <2>1, <2>3, <2>4
<1>18. Archiving'
  <2>1. ArchiverOn' /\ ~job'.done
    <3>1. job'.at # "off"
      BY <1>7, <1>a, Components
    <3> QED BY <3>1, <1>6 DEF ArchiverOn
  <2>2. job'.latest = run'.rp[Cpl] /\ job'.last = NoDate /\ ~job'.copy
    BY <1>6, <1>l, <1>a, <1>p
  <2>i. job.i < N \/ job.i = N
    BY <1>a, Components
  <2>3. job'.left \subseteq run'.r[Cpl] /\ run'.r[Cpl] \subseteq job'.left \cup {job'.latest}
    <3>1. CASE job.i < N
      <4>1. c # Cpl /\ run'.r[Cpl] = run.r[Cpl]
        <5>1. job.i # N
          BY <3>1, Components
        <5>2. c # Cpl
          BY <5>1, <1>a
        <5> QED BY <5>2, <1>a, <1>p
      <4> QED BY <3>1, <4>1, <1>l, <1>6, <1>7
    <3>2. CASE job.i = N
      <4>1. run'.r[Cpl] = IF d = job.latest THEN run.r[Cpl] ELSE run.r[Cpl] \ {d}
        BY <3>2, <1>a, <1>p
      <4> QED BY <3>2, <4>1, <1>l, <1>6, <1>7
    <3> QED BY <2>i, <3>1, <3>2
\* The last date of the loop is the last of all
  <2>4. d = job.latest => job.left = {d}
    BY <1>a, <1>l, <1>d, Typed
  <2>5. Looping' => job'.latest \in job'.left
    BY <2>i, <2>4, <1>a, <1>6, <1>7 DEF Looping
  <2>6. job'.at = "history" => d = job.latest /\ job.i = N
    BY <2>i, <1>a, <1>7
  <2>7. ASSUME job'.at = "history", NEW b \in Comps PROVE Open(d) \subseteq job'.keep[b]
    <3>1. PICK j \in 1..N : Order[j] = b
      BY Components
    <3>2. CASE b = c
      BY <3>2, <2>6, <2>7, <1>6
    <3>3. CASE b # c
      <4>1. j < job.i
        BY <3>1, <3>3, <2>6, <2>7, <1>a, Components
      <4> QED BY <4>1, <3>1, <3>3, <2>6, <2>7, <1>1, <1>6 DEF InOrder, Turn
    <3> QED BY <3>2, <3>3
  <2>8. job'.at = "history" => /\ rest'[job'.latest] # Absent /\ Usable(job.latest)'
                               /\ \A b \in Comps : Open(job'.latest) \subseteq job'.keep[b]
    <3>1. job'.at = "history" => rest'[d] # Absent /\ Usable(d)' /\ job'.latest = d
      BY <2>6, <1>6, <1>15
    <3> QED BY <3>1, <2>7 DEF Usable
  <2> QED BY <2>1, <2>2, <2>3, <2>5, <2>8 DEF Archiving
<1> QED BY <1>p, <1>16, <1>17, <1>18 DEF InOrder

\* A kill between a restart file and the history files it lists.
LEMMA RestartCutInOrder ==
  ASSUME Plain, Types, InOrder, RestartCut
  PROVE  InOrder'
<1>1. job.at = "restart" /\ Looping
  BY DEF RestartCut, Looping
<1> SUFFICES ASSUME NEW d \in Dates, d = ThisDate, NEW c \in Comps, c = ThisComp
             PROVE  InOrder'
  BY <1>1, AtTurn
<1>2. PICK copied \in SUBSET NeededHistory(c, d) :
           /\ ToArchive(c, d, copied)
           /\ spoiled' = IF interim /\ d \notin Remaining(c, d) /\ copied # NeededHistory(c, d)
                         THEN spoiled \cup {d} ELSE spoiled
  BY DEF RestartCut
<1>3. /\ d \in run.r[c] /\ job' = Idle /\ cut' = cut \cup {d}
      /\ UNCHANGED <<interim, hist, model, torn>>
  BY DEF RestartCut
<1>4. d \notin Remaining(c, d) <=> d # job.latest
  BY <1>1, <1>3, AtTurn DEF Remaining, Stays
<1>5. spoiled' = IF interim /\ d # job.latest /\ d \in run.r[c] /\ copied # NeededHistory(c, d)
                 THEN spoiled \cup {d} ELSE spoiled
  BY <1>2, <1>3, <1>4
<1>6. /\ \A f \in Dates : f # d => rest'[f] = rest[f]
      /\ Pointers' /\ Restarts' /\ Histories' /\ Moved' /\ Ascending'
  BY <1>1, <1>2, <1>3, <1>5, ArchivedPart
<1>7. ~Looping' /\ ~ArchiverOn' /\ ~job'.done /\ job'.at # "history"
  BY <1>3 DEF Idle, Looping, ArchiverOn
<1>8. SetsUsable'
  <2> SUFFICES ASSUME NEW f \in Dates \ cut'
               PROVE  \/ rest'[f] = Absent
                      \/ rest'[f] # Absent /\ Usable(f)'
                      \/ ~interim /\ rest'[f] = EmptySet
    BY <1>3, <1>7 DEF SetsUsable
  <2>1. f \in Dates \ cut /\ f # d /\ rest'[f] = rest[f]
    BY <1>3, <1>6
  <2>2. f \in spoiled => f \in spoiled'
    BY <2>1, <1>5
  <2> QED BY <2>1, <2>2, <1>3 DEF InOrder, SetsUsable, Usable
<1>9. Turn' /\ Archiving'
  BY <1>7 DEF Turn, Archiving
<1> QED BY <1>6, <1>8, <1>9 DEF InOrder

\* What the history files of a component, or some of them, do to the directories
\* when they are archived.
LEMMA ArchivedHistory ==
  ASSUME Types, InOrder, job.at = "history", NEW c \in Comps, NEW done \in SUBSET Due(c),
         ToHistory(c, done), UNCHANGED model
  PROVE  /\ run'.r = run.r /\ run'.rp = run.rp
         /\ Pointers' /\ Restarts' /\ Histories'
<1>1. job.at = "history" /\ ArchiverOn /\ ~Looping
  BY DEF Looping, ArchiverOn
<1>t. /\ Days \in Nat /\ Width \in Nat \ {0} /\ Dates = 1..Days /\ Starts \subseteq Dates /\ Cpl \in Comps
      /\ \A b \in Comps : run.r[b] \in SUBSET Dates /\ run.rp[b] \in 0..Days
      /\ \A b \in Comps : \A s \in Starts : run.h[b][s] \in 0..Days /\ hist[b][s] \in 0..Days
  BY Typed
<1>a. /\ ~model.on /\ job.latest = run.rp[Cpl] /\ job.last = NoDate /\ ~job.copy /\ ~job.done
      /\ run.r[Cpl] \subseteq {job.latest} /\ \A b \in Comps : run.rp[b] = job.latest
      /\ job.latest > 0 => /\ rest[job.latest] # Absent /\ Usable(job.latest)
                           /\ \A b \in Comps : Open(job.latest) \subseteq job.keep[b]
  <2>1. ~model.on /\ job.left = {}
    BY <1>1 DEF Types
  <2>2. \A b \in Comps : run.rp[b] = run.rp[Cpl]
    BY <2>1 DEF InOrder, Pointers, Now
  <2> QED BY <1>1, <2>1, <2>2 DEF InOrder, Archiving
<1>3. /\ run'.r = run.r /\ run'.rp = run.rp
      /\ \A b \in Comps : \A s \in Starts :
           /\ hist'[b][s] = IF b = c /\ s \in done THEN run.h[b][s] ELSE hist[b][s]
           /\ run'.h[b][s] = IF b = c /\ s \in done /\ s \notin job.keep[b] THEN 0 ELSE run.h[b][s]
  <2> DEFINE new == [s \in Starts |-> IF s \in done THEN Archived(c, s) ELSE hist[c][s]]
             old == [s \in Starts |-> IF s \in done \ job.keep[c] /\ ~job.copy THEN 0 ELSE run.h[c][s]]
             h   == [run.h EXCEPT ![c] = old]
  <2>1. run \in Runs /\ hist \in HistFiles
    BY DEF Types, TypeOK
  <2>2. hist' = [hist EXCEPT ![c] = new] /\ run' = [run EXCEPT !.h = h]
    BY DEF ToHistory
  <2>3. \A s \in Starts : /\ new[s] = IF s \in done THEN run.h[c][s] ELSE hist[c][s]
                          /\ old[s] = IF s \in done /\ s \notin job.keep[c] THEN 0 ELSE run.h[c][s]
    BY <1>a DEF Archived
  <2> HIDE DEF new, old
  <2>4. \A b \in Comps : h[b] = IF b = c THEN old ELSE run.h[b]
    BY <2>1 DEF Runs, HistFiles
  <2> HIDE DEF h
  <2>5. run'.r = run.r /\ run'.rp = run.rp /\ run'.h = h
    BY <2>1, <2>2 DEF Runs
  <2>6. \A b \in Comps : hist'[b] = IF b = c THEN new ELSE hist[b]
    BY <2>1, <2>2 DEF HistFiles
  <2> QED BY <2>3, <2>4, <2>5, <2>6
<1>s. \A s \in done : s \in Starts /\ run.h[c][s] > 0
  BY DEF Due
<1>5. Now' = Now /\ Now = job.latest
  BY <1>3, <1>a DEF Now
<1>6. Pointers'
  BY <1>3, <1>5 DEF InOrder, Pointers
<1>7. Restarts'
  <2> SUFFICES ASSUME NEW b \in Comps, NEW e \in run.r[b], NEW s \in Open(e)
               PROVE  run'.h[b][s] >= e
    BY <1>3 DEF InOrder, Restarts
  <2>1. e = job.latest /\ e > 0
    BY <1>a, <1>t DEF InOrder, Restarts
  <2>2. s \in job.keep[b] /\ s \in Starts /\ run.h[b][s] >= e
    BY <2>1, <1>a DEF InOrder, Restarts, Open
  <2> QED BY <2>2, <1>3
<1>8. Histories'
  <2> SUFFICES ASSUME NEW b \in Comps, NEW s \in Starts, s <= Now
               PROVE  IF run'.h[b][s] > 0 THEN Whole(run'.h[b][s], s, Now) ELSE Whole(hist'[b][s], s, Now)
    BY <1>5, <1>a DEF Histories
  <2>1. IF run.h[b][s] > 0 THEN Whole(run.h[b][s], s, Now) ELSE Whole(hist[b][s], s, Now)
    BY DEF InOrder, Histories
  <2>2. /\ hist'[b][s] = IF b = c /\ s \in done THEN run.h[b][s] ELSE hist[b][s]
        /\ run'.h[b][s] = IF b = c /\ s \in done /\ s \notin job.keep[b] THEN 0 ELSE run.h[b][s]
    BY <1>3
  <2>3. CASE run'.h[b][s] = run.h[b][s]
    BY <2>1, <2>2, <2>3, <1>s
  <2>4. CASE run'.h[b][s] # run.h[b][s]
    BY <2>1, <2>2, <2>4, <1>s
  <2> QED BY <2>3, <2>4
<1> QED BY <1>3, <1>6, <1>7, <1>8

LEMMA HistoryInOrder ==
  ASSUME Types, InOrder, History
  PROVE  InOrder'
<1>1. job.at = "history" /\ ArchiverOn /\ ~Looping
  BY DEF History, Looping, ArchiverOn
<1>t. /\ Days \in Nat /\ Width \in Nat \ {0} /\ Dates = 1..Days /\ Starts \subseteq Dates /\ Cpl \in Comps
      /\ \A b \in Comps : run.r[b] \in SUBSET Dates /\ run.rp[b] \in 0..Days
      /\ \A b \in Comps : \A s \in Starts : run.h[b][s] \in 0..Days /\ hist[b][s] \in 0..Days
  BY Typed
<1>i. job.i \in 1..N /\ ThisComp \in Comps
  <2>1. job.i \in 1..N
    BY DEF Types, TypeOK, Jobs, N
  <2> QED BY <2>1, Components DEF ThisComp
<1> SUFFICES ASSUME NEW c \in Comps, c = ThisComp PROVE InOrder'
  BY <1>i
<1>a. /\ ~model.on /\ job.latest = run.rp[Cpl] /\ job.last = NoDate /\ ~job.copy /\ ~job.done
      /\ run.r[Cpl] \subseteq {job.latest} /\ \A b \in Comps : run.rp[b] = job.latest
      /\ job.latest > 0 => /\ rest[job.latest] # Absent /\ Usable(job.latest)
                           /\ \A b \in Comps : Open(job.latest) \subseteq job.keep[b]
  <2>1. ~model.on /\ job.left = {}
    BY <1>1 DEF Types
  <2>2. \A b \in Comps : run.rp[b] = run.rp[Cpl]
    BY <2>1 DEF InOrder, Pointers, Now
  <2> QED BY <1>1, <2>1, <2>2 DEF InOrder, Archiving
<1>2. /\ UNCHANGED <<interim, rest, newest, model, kills, torn, cut, spoiled>>
      /\ job' = IF job.i < N THEN [job EXCEPT !.i = @ + 1] ELSE [job EXCEPT !.at = "off", !.done = TRUE]
  BY DEF History, N
<1>3. run'.r = run.r /\ run'.rp = run.rp /\ Pointers' /\ Restarts' /\ Histories'
  <2>1. ToHistory(c, Due(c))
    BY DEF History
  <2> DEFINE done == Due(c)
  <2>2. done \in SUBSET Due(c) /\ ToHistory(c, done)
    BY <2>1
  <2> HIDE DEF done
  <2> QED BY <2>2, <1>1, <1>2, ArchivedHistory
<1>4. /\ job.i < N => job'.at = "history" /\ job'.done = job.done
      /\ ~(job.i < N) => job'.at = "off" /\ job'.done
      /\ job'.left = job.left /\ job'.keep = job.keep /\ job'.latest = job.latest
      /\ job'.last = job.last /\ job'.copy = job.copy
  <2>1. job \in Jobs
    BY DEF Types, TypeOK
  <2> QED BY <1>1, <1>2, <2>1 DEF Jobs
<1>5. ~Looping' /\ Now' = Now /\ Now = job.latest
  BY <1>4, <1>3, <1>2, <1>a DEF Looping, Now
<1>9. Moved' /\ Ascending' /\ SetsUsable' /\ Turn'
  BY <1>1, <1>2, <1>3, <1>5, SavedSame DEF InOrder
<1>10. Archiving'
  <2>1. CASE job.i < N
    <3>1. ArchiverOn'
      BY <2>1, <1>4 DEF ArchiverOn
    <3>2. job.left \subseteq run.r[Cpl] /\ run.r[Cpl] \subseteq job.left \cup {job.latest}
      BY <1>1 DEF InOrder, Archiving
    <3> QED BY <2>1, <3>1, <3>2, <1>a, <1>2, <1>3, <1>4, <1>5 DEF Archiving, Usable
  <2>2. CASE ~(job.i < N)
    <3>1. ~ArchiverOn'
      BY <2>2, <1>4 DEF ArchiverOn
    <3> QED BY <2>2, <3>1, <1>a, <1>2, <1>3, <1>4 DEF Archiving, Usable
  <2> QED BY <2>1, <2>2
<1> QED BY <1>3, <1>9, <1>10 DEF InOrder

\* A kill between two history files.
LEMMA HistoryCutInOrder ==
  ASSUME Types, InOrder, HistoryCut
  PROVE  InOrder'
<1>1. job.at = "history" /\ job' = Idle /\ UNCHANGED <<interim, rest, newest, model, torn, cut, spoiled>>
  BY DEF HistoryCut
<1>2. ThisComp \in Comps
  <2>1. job.i \in 1..N
    BY DEF Types, TypeOK, Jobs, N
  <2> QED BY <2>1, Components DEF ThisComp
<1>3. PICK done \in SUBSET Due(ThisComp) : ToHistory(ThisComp, done)
  BY DEF HistoryCut
<1>4. run'.r = run.r /\ run'.rp = run.rp /\ Pointers' /\ Restarts' /\ Histories'
  BY <1>1, <1>2, <1>3, ArchivedHistory
<1>5. ~Looping /\ ~Looping' /\ ~ArchiverOn' /\ ~job'.done /\ job'.at # "history"
  BY <1>1 DEF Looping, Idle, ArchiverOn
<1>6. Moved' /\ Ascending' /\ SetsUsable' /\ Turn'
  BY <1>1, <1>4, <1>5, SavedSame DEF InOrder
<1>7. Archiving'
  BY <1>5 DEF Archiving
<1> QED BY <1>4, <1>6, <1>7 DEF InOrder

LEMMA KilledInOrder ==
  ASSUME Types, InOrder, ArchiverKilled
  PROVE  InOrder'
<1>1. /\ job' = Idle /\ UNCHANGED <<interim, run, rest, newest, hist, model, torn, spoiled>>
      /\ cut' = cut \cup (IF job.at = "history" THEN {} ELSE {ThisDate})
  BY DEF ArchiverKilled
<1>2. ~Looping' /\ ~ArchiverOn' /\ ~job'.done /\ job'.at # "history"
  BY <1>1 DEF Idle, Looping, ArchiverOn
<1>3. Moved' /\ Ascending' /\ Turn'
  BY <1>1, <1>2 DEF InOrder, Moved, Part, Ascending, Turn
<1>4. SetsUsable'
  <2> SUFFICES ASSUME NEW f \in Dates \ cut'
               PROVE  \/ rest[f] = Absent
                      \/ rest[f] # Absent /\ Usable(f)
                      \/ ~interim /\ rest[f] = EmptySet
    BY <1>1, <1>2 DEF SetsUsable, Usable
  <2>1. f \in Dates \ cut /\ ~(SavedNow /\ f = ThisDate)
    BY <1>1 DEF SavedNow, Looping
  <2> QED BY <2>1 DEF InOrder, SetsUsable
<1>5. Archiving'
  BY <1>2 DEF Archiving
<1> QED BY <1>1, <1>3, <1>4, <1>5, RunSame DEF InOrder

LEMMA RestoreInOrder ==
  ASSUME Types, InOrder, Restore
  PROVE  InOrder'
<1> DEFINE D == run.rp[Cpl]
<1>t. /\ Days \in Nat /\ Width \in Nat \ {0} /\ Dates = 1..Days /\ Starts \subseteq Dates /\ Cpl \in Comps
      /\ \A b \in Comps : run.r[b] \in SUBSET Dates /\ run.rp[b] \in 0..Days
      /\ \A b \in Comps : \A s \in Starts : run.h[b][s] \in 0..Days
      /\ newest \in Dates /\ rest[newest] # Absent
  BY Typed DEF Restore, Types, TypeOK
<1>1. ~model.on /\ job.done /\ ~ArchiverOn /\ UNCHANGED <<interim, rest, newest, hist, model, job, kills, torn, cut, spoiled>>
  BY DEF Restore, InOrder, Archiving
\* The last modified set is the one the run directory has arrived at
<1>2. newest = D /\ D > 0 /\ Usable(D)
  <2>1. D > 0 /\ \A e \in run.r[Cpl] : newest <= e
    BY <1>t DEF InOrder, Ascending
  <2>2. D \in run.r[Cpl]
    BY <2>1, <1>t DEF InOrder, Restarts
  <2>3. rest[D] # Absent /\ Usable(D)
    BY <2>1, <1>1 DEF InOrder, Archiving
  <2>4. D <= newest
    BY <2>2, <2>3, <1>t DEF InOrder, Ascending
  <2> QED BY <2>1, <2>2, <2>3, <2>4, <1>t
<1>3. \A b \in Comps : run.rp[b] = D /\ D \in run.r[b]
  <2>1. \A b \in Comps : run.rp[b] = D
    BY <1>1 DEF InOrder, Pointers, Now
  <2> QED BY <2>1, <1>2 DEF InOrder, Restarts
<1> DEFINE set == rest[newest]
<1>4. /\ set.r = Comps /\ \A b \in Comps : set.rp[b] = D
      /\ \A b \in Comps : \A s \in Open(D) : set.h[b][s] >= D
  <2>1. D \notin spoiled
    BY <1>t DEF InOrder, Ascending
  <2> QED BY <2>1, <1>2 DEF Usable
<1>5. \A b \in Comps : \A s \in Starts : set.h[b][s] > 0 => s \in Open(D)
  BY <1>2, <1>t DEF InOrder, Ascending
<1>6. run' = [r  |-> [b \in Comps |-> IF b \in set.r THEN run.r[b] \cup {newest} ELSE run.r[b]],
              h  |-> [b \in Comps |-> [s \in Starts |->
                       IF set.h[b][s] > 0 THEN set.h[b][s] ELSE run.h[b][s]]],
              rp |-> [b \in Comps |-> IF set.rp[b] > 0 THEN set.rp[b] ELSE run.rp[b]]]
  BY DEF Restore
<1> HIDE DEF D, set
<1>7. run'.r = run.r
  <2>1. run \in Runs
    BY DEF Types, TypeOK
  <2>2. run.r \in [Comps -> SUBSET Dates]
    BY <2>1 DEF Runs
  <2>3. \A b \in Comps : run.r[b] \cup {newest} = run.r[b]
    BY <1>2, <1>3
  <2>4. run'.r = [b \in Comps |-> run.r[b]]
    BY <1>4, <1>6, <2>3
  <2> QED BY <2>2, <2>4
<1>8. \A b \in Comps : run'.rp[b] = D
  BY <1>2, <1>4, <1>6
<1>9. \A b \in Comps : \A s \in Starts : \/ run'.h[b][s] = run.h[b][s]
                                         \/ s \in Open(D) /\ run'.h[b][s] >= D
  <2> SUFFICES ASSUME NEW b \in Comps, NEW s \in Starts
               PROVE  \/ run'.h[b][s] = run.h[b][s]
                      \/ s \in Open(D) /\ run'.h[b][s] >= D
    OBVIOUS
  <2>1. run'.h[b][s] = IF set.h[b][s] > 0 THEN set.h[b][s] ELSE run.h[b][s]
    BY <1>6
  <2> QED BY <2>1, <1>4, <1>5
<1>10. Now = D /\ Now' = D
  BY <1>1, <1>8, <1>t DEF Now, D
<1>d. D \in 0..Days
  BY <1>t DEF D
<1>11. Pointers'
  BY <1>1, <1>8, <1>10 DEF Pointers
<1>12. Restarts'
  <2> SUFFICES ASSUME NEW b \in Comps, NEW e \in run.r[b]
               PROVE  /\ e <= D /\ (e \in run.r[Cpl] \/ e = D)
                      /\ \A s \in Open(e) : run'.h[b][s] >= e
    BY <1>3, <1>7, <1>8 DEF Restarts
  <2>1. e <= D /\ (e \in run.r[Cpl] \/ e = D) /\ e \in Dates
    BY <1>3, <1>t DEF InOrder, Restarts
  <2>2. ASSUME NEW s \in Open(e) PROVE run'.h[b][s] >= e
    <3>1. s \in Starts /\ run.h[b][s] >= e
      BY DEF InOrder, Restarts, Open
    <3>2. CASE run'.h[b][s] = run.h[b][s]
      BY <3>1, <3>2
    <3>3. CASE run'.h[b][s] # run.h[b][s]
      <4>1. run'.h[b][s] >= D
        BY <3>1, <3>3, <1>9
      <4>2. run'.h[b][s] \in 0..Days
        <5>1. Types'
          BY TypesNext DEF Next
        <5> QED BY <5>1, <3>1 DEF Types, TypeOK, Runs, HistFiles
      <4> QED BY <4>1, <4>2, <2>1, <1>d, <1>t
    <3> QED BY <3>2, <3>3
  <2> QED BY <2>1, <2>2
<1>13. Histories'
  <2> SUFFICES ASSUME NEW b \in Comps, NEW s \in Starts, s <= D
               PROVE  IF run'.h[b][s] > 0 THEN Whole(run'.h[b][s], s, D) ELSE Whole(hist[b][s], s, D)
    BY <1>1, <1>10 DEF Histories
  <2>1. IF run.h[b][s] > 0 THEN Whole(run.h[b][s], s, D) ELSE Whole(hist[b][s], s, D)
    BY <1>10 DEF InOrder, Histories
  <2>2. CASE run'.h[b][s] = run.h[b][s]
    BY <2>1, <2>2
  <2>3. CASE run'.h[b][s] # run.h[b][s]
    <3>1. run'.h[b][s] = set.h[b][s] /\ set.h[b][s] > 0 /\ set.h[b][s] >= D
      BY <2>3, <1>4, <1>5, <1>6
    <3> QED BY <3>1 DEF Whole
  <2> QED BY <2>2, <2>3
<1>14. Moved' /\ Ascending' /\ SetsUsable' /\ Turn'
  <2>1. ~Looping /\ ~Looping'
    BY <1>1 DEF ArchiverOn, Looping
  <2>2. run'.rp[Cpl] = run.rp[Cpl]
    BY <1>3, <1>8, <1>t
  <2> QED BY <1>1, <1>7, <2>1, <2>2, SavedSame DEF InOrder
<1>15. Archiving'
  <2>1. run'.rp[Cpl] = run.rp[Cpl]
    BY <1>3, <1>8, <1>t
  <2>2. ~ArchiverOn' /\ ~model'.on /\ job' = job /\ job.at # "history"
    BY <1>1 DEF ArchiverOn
  <2> QED BY <2>1, <2>2, <1>1, <1>2 DEF Archiving, InOrder, Usable
<1> QED BY <1>11, <1>12, <1>13, <1>14, <1>15 DEF InOrder

LEMMA InitInOrder == Init => InOrder
<1> SUFFICES ASSUME Init PROVE InOrder
  OBVIOUS
<1>1. /\ ~model.on /\ ~ArchiverOn /\ ~Looping /\ ~job.done /\ \A d \in Dates : rest[d] = Absent
      /\ spoiled = {}
      /\ \A c \in Comps : run.r[c] = {} /\ run.rp[c] = 0
  BY DEF Init, Off, Idle, ArchiverOn, Looping
<1>2. Cpl \in Comps
  BY Components
<1>3. Now = 0
  BY <1>1, <1>2 DEF Now
<1>4. Pointers /\ Restarts
  BY <1>1, <1>3 DEF Pointers, Restarts
<1>5. Histories
  <2>1. \A s \in Starts : ~(s <= Now)
    BY <1>3, LengthAssumption DEF Starts, Dates
  <2> QED BY <1>1, <2>1 DEF Histories
<1>6. Moved /\ Ascending /\ SetsUsable /\ Turn
  BY <1>1, <1>2 DEF Moved, Ascending, SetsUsable, Turn
<1>7. Archiving
  BY <1>1 DEF Archiving, ArchiverOn
<1> QED BY <1>4, <1>5, <1>6, <1>7 DEF InOrder

--------------------------------------------------------------------------------
(* Every step *)

LEMMA InOrderNext ==
  ASSUME Plain, Types, ~torn => InOrder, [Next]_vars, ~torn'
  PROVE  InOrder'
<1>0. ~torn => InOrder
  OBVIOUS
<1>1. CASE ModelStart
  BY <1>0, <1>1, StartInOrder DEF ModelStart
<1>2. CASE ModelDay
  BY <1>0, <1>2, DayInOrder DEF ModelDay
<1>3. CASE ModelEnd
  BY <1>0, <1>3, StopInOrder DEF ModelEnd
<1>4. CASE ModelKilled
  <2>1. ~torn /\ model.wrote \in {{}, Comps}
    BY <1>4 DEF ModelKilled, Types, TypeOK
  <2> QED BY <1>0, <1>4, <2>1, StopInOrder DEF ModelKilled
<1>5. CASE \E c \in Comps : ModelRestart(c)
  <2>1. PICK c \in Comps : ModelRestart(c)
    BY <1>5
  <2>2. ~torn
    BY <2>1 DEF ModelRestart
  <2> QED BY <1>0, <2>1, <2>2, RestartInOrder
<1>6. CASE \E last \in LastDates, copy \in CopyOnly : ArchiveBegin(last, copy)
  <2>1. PICK last \in LastDates, copy \in CopyOnly : ArchiveBegin(last, copy)
    BY <1>6
  <2> QED BY <1>0, <2>1, BeginInOrder DEF ArchiveBegin
<1>7. CASE Rpointer
  BY <1>0, <1>7, PointerInOrder DEF Rpointer
<1>8. CASE Restart
  BY <1>0, <1>8, RestartMoved DEF Restart
<1>9. CASE History
  BY <1>0, <1>9, HistoryInOrder DEF History
<1>10. CASE ArchiverKilled
  BY <1>0, <1>10, KilledInOrder DEF ArchiverKilled
<1>13. CASE RestartCut
  BY <1>0, <1>13, RestartCutInOrder DEF RestartCut
<1>14. CASE HistoryCut
  BY <1>0, <1>14, HistoryCutInOrder DEF HistoryCut
<1>11. CASE Restore
  BY <1>0, <1>11, RestoreInOrder DEF Restore
<1>12. CASE UNCHANGED vars
  <2>1. UNCHANGED <<interim, run, rest, newest, hist, model, job, kills, torn, cut, spoiled>> /\ InOrder
    BY <1>0, <1>12 DEF vars
  <2>2. Moved' /\ Ascending'
    BY <2>1 DEF InOrder, Moved, Part, Ascending
  <2>3. SetsUsable'
    BY <2>1 DEF InOrder, SetsUsable, SavedNow, Looping, ThisDate, Usable
  <2>4. Turn'
    BY <2>1 DEF InOrder, Turn, SavedNow, Looping, ThisDate, Part
  <2>5. Archiving'
    BY <2>1 DEF InOrder, Archiving, ArchiverOn, Looping, Usable
  <2> QED BY <2>1, <2>2, <2>3, <2>4, <2>5, RunSame DEF InOrder
<1> QED
  BY <1>1, <1>2, <1>3, <1>4, <1>5, <1>6, <1>7, <1>8, <1>9, <1>10, <1>11, <1>12, <1>13, <1>14 DEF Next

\* With default options, the inductive invariant holds in every reachable state.
LEMMA Invariant ==
  ASSUME Plain
  PROVE  Spec => []IInv
<1>1. Init => IInv
  BY TypesInit, InitInOrder DEF IInv
<1>2. IInv /\ [Next]_vars => IInv'
  BY TypesNext, InOrderNext DEF IInv
<1> QED BY <1>1, <1>2, PTL DEF Spec

--------------------------------------------------------------------------------
(* The theorems *)

\* Every variable keeps its type, whatever the options: the cursor of the
\* archiver stays in its loops, and what is saved are sets of files.
THEOREM TypesHold == Spec => []TypeOK
<1>1. Types => TypeOK
  BY DEF Types
<1> QED BY <1>1, TypesInit, TypesNext, PTL DEF Spec

\* "the only history files that kept in the run directory are those that are
\* needed for restarts": after an archiver that ended or was killed anywhere, and
\* after a restore, the model can go on from where its pointer files point.
THEOREM Continuable ==
  ASSUME Plain
  PROVE  Spec => []RunContinuable
<1>1. IInv => RunContinuable
  <2> SUFFICES ASSUME IInv, ~model.on, ~torn PROVE Consistent(run.rp[Cpl])
    BY DEF RunContinuable
  <2>1. InOrder
    BY DEF IInv
  <2>2. \A c \in Comps : run.rp[c] = run.rp[Cpl]
    BY <2>1 DEF InOrder, Pointers, Now
  <2>3. ASSUME NEW c \in Comps, run.rp[Cpl] > 0
        PROVE  run.rp[Cpl] \in run.r[c] /\ \A s \in Open(run.rp[Cpl]) : run.h[c][s] >= run.rp[Cpl]
    BY <2>1, <2>2, <2>3 DEF InOrder, Restarts
  <2> QED BY <2>2, <2>3 DEF Consistent
<1> QED BY <1>1, Invariant, PTL

\* No day of the simulation is lost: a history file that left the run directory
\* is in the archive, as long as the file of the run directory was.
THEOREM HistoryKept ==
  ASSUME Plain
  PROVE  Spec => []NoHistoryLost
<1>1. IInv => NoHistoryLost
  <2> SUFFICES ASSUME IInv, ~model.on, ~torn, NEW c \in Comps, NEW s \in Starts, s <= run.rp[Cpl]
               PROVE  Max({run.h[c][s], hist[c][s]}) >= Min({run.rp[Cpl], s + Width - 1})
    BY DEF NoHistoryLost
  <2> DEFINE a == run.h[c][s]
             b == hist[c][s]
             d == run.rp[Cpl]
             e == s + Width - 1
  <2>1. a \in Nat /\ b \in Nat /\ d \in Nat /\ e \in Nat
    BY Typed DEF IInv
  <2>2. Now = d
    BY DEF Now
  <2>3. IF a > 0 THEN Whole(a, s, d) ELSE Whole(b, s, d)
    BY <2>2 DEF IInv, InOrder, Histories
  <2>4. (a >= d \/ a >= e) \/ (b >= d \/ b >= e)
    BY <2>3 DEF Whole
  <2> HIDE DEF a, b, d, e
  <2>5. Max({a, b}) >= a /\ Max({a, b}) >= b /\ Max({a, b}) \in Int
    <3>1. Max({a, b}) \in {a, b}
      <4>1. CASE a >= b
        <5>1. \A y \in {a, b} : a >= y
          BY <4>1, <2>1
        <5> QED BY <5>1, <2>1, LastOfDates
      <4>2. CASE b >= a
        <5>1. \A y \in {a, b} : b >= y
          BY <4>2, <2>1
        <5> QED BY <5>1, <2>1, LastOfDates
      <4> QED BY <4>1, <4>2, <2>1
    <3> QED BY <3>1, <2>1, LastOfTwo
  <2>6. Min({d, e}) <= d /\ Min({d, e}) <= e /\ Min({d, e}) \in Int
    <3>1. Min({d, e}) \in {d, e}
      BY <2>1, FirstOfDates
    <3> QED BY <3>1, <2>1, FirstOfTwo
  <2>7. Max({a, b}) >= Min({d, e})
    BY <2>1, <2>4, <2>5, <2>6
  <2> QED BY <2>7 DEF a, b, d, e
<1> QED BY <1>1, Invariant, PTL

\* Every set under rest is one restart can be made from, and the last modified is
\* the latest, however often archivers were killed and run again.
THEOREM ArchiveUsable ==
  ASSUME Plain
  PROVE  Spec => []ArchiveInv
<1>1. IInv => ArchiveInv
  <2> SUFFICES ASSUME IInv PROVE ArchiveInv
    OBVIOUS
  <2>1. TypeOK
    BY DEF IInv, Types
  <2>2. RestSetsUsable
    <3> SUFFICES ASSUME ~ArchiverOn, ~torn, NEW d \in Dates \ cut
                 PROVE  Usable(d) \/ rest[d] \in {Absent} \cup (IF interim THEN {} ELSE {EmptySet})
      BY DEF RestSetsUsable
    <3>1. ~SavedNow
      BY DEF SavedNow, Looping, ArchiverOn
    <3> QED BY <3>1 DEF IInv, InOrder, SetsUsable
  <2>3. RestoresLatest
    BY DEF RestoresLatest, IInv, InOrder, Ascending
  <2> QED BY <2>1, <2>2, <2>3 DEF ArchiveInv
<1> QED BY <1>1, Invariant, PTL
=============================================================================
