----------------------------- MODULE InputDataProofs -----------------------------
(***************************************************************************)
(* What a successful check of the input data promises, for any number of   *)
(* cases, files and servers, any content of the servers and of             *)
(* DIN_LOC_ROOT, and any number of downloads that are killed.              *)
(***************************************************************************)
EXTENDS InputData, FiniteSetTheorems, SequenceTheorems, TLAPS

Pcs == {"idle", "look", "get", "getting", "stage", "done", "error", "killed"}

CaseRecords == [pc : Pcs, list : Seq(Paths), todo : Seq(Paths), srv : 0..Servers,
                missing : BOOLEAN, linked : BOOLEAN, hashes : SUBSET Paths]

Types ==
  /\ server \in [1..Servers -> Stored] /\ disk \in [Paths -> Content]
  /\ tmp \in {"absent", "part"}
  /\ case \in [Cases -> CaseRecords]
  /\ kills \in 0..MaxKills /\ raced \subseteq Paths /\ cut \subseteq Paths
  /\ old \in [Cases -> SUBSET Paths]

(***************************************************************************)
(* The inductive invariant                                                 *)
(***************************************************************************)
\* The paths nobody disturbed
Calm == Paths \ (raced \cup cut)

\* Where a case stands in its lists
Place(c) ==
  /\ case[c].list \in {Files, Append(Files, RefDir)}
  /\ case[c].pc \in {"get", "getting"} => case[c].todo # <<>> /\ case[c].srv > 0
  /\ case[c].pc \in {"stage", "done"} => case[c].todo = <<>> /\ ~case[c].missing
  /\ case[c].pc = "done" => disk[RefDir] # "absent"
  /\ case[c].pc = "idle" => old[c] = {}

\* What a pass has left behind without missing anything is there, unless it
\* lives outside
Passed(c) == ToSet(case[c].list) \ ToSet(case[c].todo)
Found(c) ==
  case[c].pc # "idle" /\ ~case[c].missing =>
    \A f \in (Passed(c) \cap Calm) \ Outside : disk[f] \in {"bad", "whole"}

\* What was there and was verified stays whole
Verified(c) ==
  case[c].pc # "error" => \A f \in old[c] \cap Calm : disk[f] = "whole"

\* A calm file is partial exactly while the one case that downloads it is at it
Partial ==
  \A f \in Calm \ {RefDir} :
    /\ \A c, d \in Writing(f) : c = d
    /\ disk[f] = "part" <=> Writing(f) # {}
    /\ \A c \in Writing(f) : case[c].linked

\* Who downloads the directory owns the .tmp, and the directory is not there yet
Directory ==
  /\ disk[RefDir] \in {"absent", "whole"}
  /\ \A c, d \in Writing(RefDir) : c = d
  /\ Writing(RefDir) # {} => tmp = "part" /\ disk[RefDir] = "absent"

IInv == /\ Types /\ Partial /\ Directory
        /\ \A c \in Cases : Place(c) /\ Found(c) /\ Verified(c)

--------------------------------------------------------------------------------
\* A member of a sequence without its head
LEMMA TailMembers ==
  ASSUME NEW S, NEW s \in Seq(S), s # <<>>
  PROVE  /\ Head(s) \in S /\ Tail(s) \in Seq(S)
         /\ ToSet(s) = {Head(s)} \cup ToSet(Tail(s))
<1>1. Len(s) \in Nat /\ Len(s) > 0 /\ Tail(s) \in Seq(S) /\ Head(s) = s[1] /\ Head(s) \in S
  OBVIOUS
<1>2. Len(Tail(s)) = Len(s) - 1 /\ \A i \in 1..(Len(s) - 1) : Tail(s)[i] = s[i + 1]
  OBVIOUS
<1>3. ToSet(s) \subseteq {Head(s)} \cup ToSet(Tail(s))
  <2> SUFFICES ASSUME NEW i \in 1..Len(s) PROVE s[i] \in {Head(s)} \cup ToSet(Tail(s))
    BY DEF ToSet
  <2>1. CASE i = 1
    BY <1>1, <2>1
  <2>2. CASE i > 1
    <3>1. i - 1 \in 1..(Len(s) - 1)
      BY <1>1, <2>2
    <3>2. Tail(s)[i - 1] = s[i]
      BY <1>2, <3>1
    <3>3. DOMAIN Tail(s) = 1..(Len(s) - 1)
      BY <1>1, <1>2
    <3>4. Tail(s)[i - 1] \in ToSet(Tail(s))
      BY <3>1, <3>3, Zenon DEF ToSet
    <3> QED BY <3>2, <3>4
  <2> QED BY <2>1, <2>2
<1>4. {Head(s)} \cup ToSet(Tail(s)) \subseteq ToSet(s)
  <2>1. Head(s) \in ToSet(s)
    BY <1>1 DEF ToSet
  <2>2. ASSUME NEW i \in 1..(Len(s) - 1) PROVE Tail(s)[i] \in ToSet(s)
    <3>1. i + 1 \in 1..Len(s) /\ Tail(s)[i] = s[i + 1]
      BY <1>1, <1>2
    <3> QED BY <3>1 DEF ToSet
  <2>3. ToSet(Tail(s)) \subseteq ToSet(s)
    BY <1>1, <1>2, <2>2 DEF ToSet
  <2> QED BY <2>1, <2>3
<1> QED BY <1>1, <1>3, <1>4

\* The paths of the lists
LEMMA Listed ==
  /\ Files \in Seq(Paths) /\ RefDir \in Paths /\ Append(Files, RefDir) \in Seq(Paths)
  /\ Append(Files, RefDir) # <<>> /\ ToSet(Files) \subseteq ToSet(Append(Files, RefDir))
  /\ ToSet(<<>>) = {} /\ Paths = ToSet(Files) \cup {RefDir}
<1>1. Files \in Seq(Paths) /\ RefDir \in Paths
  <2>1. ToSet(Files) \subseteq Paths
    BY DEF Paths
  <2>2. Files \in Seq(ToSet(Files))
    BY FilesAssumption
  <2> QED BY <2>1, <2>2 DEF Paths
<1>2. Append(Files, RefDir) \in Seq(Paths) /\ Append(Files, RefDir) # <<>>
  <2>1. Append(Files, RefDir) \in Seq(Paths) /\ Len(Append(Files, RefDir)) = Len(Files) + 1
    BY <1>1
  <2>2. Len(Files) + 1 # 0 /\ Len(<<>>) = 0
    BY <1>1
  <2> QED BY <2>1, <2>2
<1>3. ToSet(Files) \subseteq ToSet(Append(Files, RefDir))
  <2> SUFFICES ASSUME NEW i \in 1..Len(Files) PROVE Files[i] \in ToSet(Append(Files, RefDir))
    BY <1>1 DEF ToSet
  <2>1. Append(Files, RefDir)[i] = Files[i] /\ i \in 1..Len(Append(Files, RefDir))
    BY <1>1
  <2> QED BY <1>2, <2>1 DEF ToSet
<1>4. ToSet(<<>>) = {}
  BY DEF ToSet
<1> QED BY <1>1, <1>2, <1>3, <1>4 DEF Paths

\* Nothing lists a hash of the directory
LEMMA DirectoryUnhashed == \A s \in Stored : s[RefDir] # "bad"
BY FilesAssumption, PlacesAssumption DEF Stored, Paths

--------------------------------------------------------------------------------
(***************************************************************************)
(* What the helpers do to the records of the cases                         *)
(***************************************************************************)
Alone(c) == case' \in [Cases -> CaseRecords] /\ \A d \in Cases \ {c} : case'[d] = case[d]

LEMMA OneChanges ==
  ASSUME Types, NEW c \in Cases, NEW r \in CaseRecords, case' = [case EXCEPT ![c] = r]
  PROVE  Alone(c) /\ case'[c] = r
BY DEF Types, Alone

LEMMA GotoMoves ==
  ASSUME Types, NEW c \in Cases, NEW pc \in Pcs, Goto(c, pc)
  PROVE  /\ Alone(c)
         /\ case'[c].pc = pc /\ case'[c].list = case[c].list /\ case'[c].todo = case[c].todo
         /\ case'[c].srv = case[c].srv /\ case'[c].missing = case[c].missing
         /\ case'[c].linked = case[c].linked
<1> DEFINE r == [case[c] EXCEPT !.pc = pc]
<1>1. case[c] \in CaseRecords
  BY DEF Types
<1>2. r \in CaseRecords
  BY <1>1 DEF CaseRecords
<1>3. case' = [case EXCEPT ![c] = r]
  BY DEF Goto, Types
<1>4. Alone(c) /\ case'[c] = r
  BY <1>2, <1>3, OneChanges
<1>5. /\ r.pc = pc /\ r.list = case[c].list /\ r.todo = case[c].todo /\ r.srv = case[c].srv
      /\ r.missing = case[c].missing /\ r.linked = case[c].linked
  BY <1>1 DEF CaseRecords
<1> HIDE DEF r
<1> QED BY <1>4, <1>5

LEMMA PassMoves ==
  ASSUME Types, NEW c \in Cases, NEW srv \in 0..Servers, NEW pc \in Pcs, Pass(c, srv, pc)
  PROVE  /\ Alone(c)
         /\ case'[c].pc = pc /\ case'[c].list = case[c].list /\ case'[c].todo = case[c].list
         /\ case'[c].srv = srv /\ case'[c].missing = FALSE
<1> DEFINE r == [case[c] EXCEPT !.pc = pc, !.srv = srv, !.todo = case[c].list, !.missing = FALSE]
<1>1. case[c] \in CaseRecords
  BY DEF Types
<1>2. r \in CaseRecords
  BY <1>1 DEF CaseRecords
<1>3. case' = [case EXCEPT ![c] = r]
  BY DEF Pass, Types
<1>4. Alone(c) /\ case'[c] = r
  BY <1>2, <1>3, OneChanges
<1>5. r.pc = pc /\ r.list = case[c].list /\ r.todo = case[c].list /\ r.srv = srv /\ r.missing = FALSE
  BY <1>1 DEF CaseRecords
<1> HIDE DEF r
<1> QED BY <1>4, <1>5

LEMMA SkipMoves ==
  ASSUME Types, NEW c \in Cases, case[c].todo # <<>>, NEW missing \in BOOLEAN, Skip(c, missing)
  PROVE  /\ Alone(c)
         /\ case'[c].pc = "look" /\ case'[c].list = case[c].list
         /\ case'[c].todo = Tail(case[c].todo) /\ case'[c].srv = case[c].srv
         /\ case'[c].missing = missing
<1> DEFINE r == [case[c] EXCEPT !.pc = "look", !.todo = Tail(case[c].todo), !.linked = FALSE,
                                !.missing = missing]
<1>1. case[c] \in CaseRecords
  BY DEF Types
<1>2. Tail(case[c].todo) \in Seq(Paths)
  BY <1>1 DEF CaseRecords
<1>4. r \in CaseRecords
  BY <1>1, <1>2 DEF CaseRecords, Pcs
<1>5. case' = [case EXCEPT ![c] = r]
  BY DEF Skip, Types
<1>6. Alone(c) /\ case'[c] = r
  BY <1>4, <1>5, OneChanges
<1>7. /\ r.pc = "look" /\ r.list = case[c].list /\ r.todo = Tail(case[c].todo)
      /\ r.srv = case[c].srv
  BY <1>1 DEF CaseRecords
<1>8. r.missing = missing
  BY <1>1 DEF CaseRecords
<1> HIDE DEF r
<1> QED BY <1>6, <1>7, <1>8

\* os.remove takes the name away from whoever else writes the file
LEMMA RemovedMoves ==
  ASSUME Types, NEW c \in Cases, case[c].todo # <<>>, NEW f \in Paths, Removed(c, f, "look")
  PROVE  /\ case' \in [Cases -> CaseRecords]
         /\ \A d \in Cases \ {c} : d \notin Writing(f) => case'[d] = case[d]
         /\ \A d \in Cases \ {c} :
              /\ case'[d].pc = case[d].pc /\ case'[d].list = case[d].list
              /\ case'[d].todo = case[d].todo /\ case'[d].srv = case[d].srv
              /\ case'[d].missing = case[d].missing
         /\ case'[c].pc = "look" /\ case'[c].list = case[c].list
         /\ case'[c].todo = Tail(case[c].todo) /\ case'[c].srv = case[c].srv
         /\ case'[c].missing = TRUE
<1>1. \A d \in Cases : case[d] \in CaseRecords
  BY DEF Types
<1>2. Tail(case[c].todo) \in Seq(Paths)
  BY <1>1 DEF CaseRecords
<1> DEFINE p(d) == [case[d] EXCEPT !.pc = "look", !.todo = Tail(case[d].todo), !.missing = TRUE,
                                   !.linked = FALSE]
           r == p(c)
           u(d) == [case[d] EXCEPT !.linked = FALSE]
<1>3. r \in CaseRecords
  BY <1>1, <1>2 DEF CaseRecords, Pcs
<1>4. /\ r.pc = "look" /\ r.list = case[c].list /\ r.todo = Tail(case[c].todo)
      /\ r.srv = case[c].srv /\ r.missing = TRUE
  BY <1>1 DEF CaseRecords
<1>5. \A d \in Cases : u(d) \in CaseRecords
  BY <1>1 DEF CaseRecords
<1>6. \A d \in Cases : /\ u(d).pc = case[d].pc /\ u(d).list = case[d].list
                       /\ u(d).todo = case[d].todo /\ u(d).srv = case[d].srv
                       /\ u(d).missing = case[d].missing
  BY <1>1 DEF CaseRecords
<1>7. case' = [d \in Cases |-> IF d = c THEN p(d) ELSE IF d \in Writing(f) THEN u(d) ELSE case[d]]
  BY Zenon DEF Removed
<1>11. r = p(c)
  OBVIOUS
<1> HIDE DEF p, r, u
<1>8. case' \in [Cases -> CaseRecords]
  BY <1>1, <1>3, <1>5, <1>7, <1>11
<1>9. case'[c] = r
  BY <1>7, <1>11
<1>10. \A d \in Cases \ {c} : case'[d] = IF d \in Writing(f) THEN u(d) ELSE case[d]
  BY <1>7
<1> QED BY <1>4, <1>6, <1>8, <1>9, <1>10

\* A case starts to write its file
LEMMA StartMoves ==
  ASSUME Types, NEW c \in Cases, case' = [case EXCEPT ![c].pc = "getting", ![c].linked = TRUE]
  PROVE  /\ Alone(c)
         /\ case'[c].pc = "getting" /\ case'[c].list = case[c].list
         /\ case'[c].todo = case[c].todo /\ case'[c].srv = case[c].srv
         /\ case'[c].missing = case[c].missing /\ case'[c].linked = TRUE
<1> DEFINE r == [case[c] EXCEPT !.pc = "getting", !.linked = TRUE]
<1>1. case[c] \in CaseRecords
  BY DEF Types
<1>2. r \in CaseRecords
  BY <1>1 DEF CaseRecords, Pcs
<1>3. case' = [case EXCEPT ![c] = r]
  BY DEF Types
<1>4. Alone(c) /\ case'[c] = r
  BY <1>2, <1>3, OneChanges
<1>5. /\ r.pc = "getting" /\ r.list = case[c].list /\ r.todo = case[c].todo
      /\ r.srv = case[c].srv /\ r.missing = case[c].missing /\ r.linked = TRUE
  BY <1>1 DEF CaseRecords
<1> HIDE DEF r
<1> QED BY <1>4, <1>5

--------------------------------------------------------------------------------
(***************************************************************************)
(* What a step of one case leaves to the others                            *)
(***************************************************************************)
\* Disturbed paths stay so, and what is there and calm stays as it is
Settled ==
  /\ raced \subseteq raced' /\ cut \subseteq cut'
  /\ \A f \in Calm' : disk[f] \in {"bad", "whole"} => disk'[f] = disk[f]
  /\ disk[RefDir] # "absent" => disk'[RefDir] # "absent"

LEMMA Others ==
  ASSUME IInv, NEW d \in Cases, Settled, old'[d] = old[d],
         case'[d].pc = case[d].pc, case'[d].list = case[d].list, case'[d].todo = case[d].todo,
         case'[d].srv = case[d].srv, case'[d].missing = case[d].missing
  PROVE  (Place(d) /\ Found(d) /\ Verified(d))'
<1>1. Place(d) /\ Found(d) /\ Verified(d)
  BY DEF IInv
<1>2. Calm' \subseteq Calm
  BY DEF Settled, Calm
<1>3. Place(d)'
  BY <1>1 DEF Place, Settled
<1>4. Passed(d)' = Passed(d)
  BY DEF Passed
<1>5. Found(d)'
  BY <1>1, <1>2, <1>4 DEF Found, Settled
<1>6. Verified(d)'
  BY <1>1, <1>2 DEF Verified, Settled
<1> QED BY <1>3, <1>5, <1>6

LEMMA WritingAfter ==
  ASSUME NEW c \in Cases, NEW f,
         \A d \in Cases \ {c} : case'[d].pc = case[d].pc /\ case'[d].todo = case[d].todo
  PROVE  /\ \A d \in Cases \ {c} : d \in Writing(f)' <=> d \in Writing(f)
         /\ c \in Writing(f)' <=> case'[c].pc = "getting" /\ Head(case'[c].todo) = f
         /\ c \in Writing(f) <=> case[c].pc = "getting" /\ Head(case[c].todo) = f
         /\ Writing(f) \subseteq Cases /\ Writing(f)' \subseteq Cases
BY DEF Writing, At, File

\* A case that is not downloading, neither before nor after, and leaves the
\* files alone
LEMMA Quiet ==
  ASSUME IInv, NEW c \in Cases, Alone(c), case[c].pc # "getting", case'[c].pc # "getting",
         disk' = disk, tmp' = tmp, raced \subseteq raced', cut \subseteq cut'
  PROVE  Partial' /\ Directory'
<1>1. ASSUME NEW f PROVE Writing(f)' = Writing(f)
  BY WritingAfter DEF Alone
<1>2. Calm' \subseteq Calm
  BY DEF Calm
<1>3. Partial'
  <2> SUFFICES ASSUME NEW f \in Calm' \ {RefDir}
               PROVE  /\ \A e, d \in Writing(f)' : e = d
                      /\ disk'[f] = "part" <=> Writing(f)' # {}
                      /\ \A d \in Writing(f)' : case'[d].linked
    BY DEF Partial
  <2>1. /\ \A e, d \in Writing(f) : e = d
        /\ disk[f] = "part" <=> Writing(f) # {}
        /\ \A d \in Writing(f) : case[d].linked
    BY <1>2 DEF IInv, Partial
  <2>2. \A d \in Writing(f) : case'[d] = case[d]
    BY DEF Writing, At, Alone
  <2> QED BY <1>1, <2>1, <2>2
<1>4. Directory'
  BY <1>1 DEF IInv, Directory
<1> QED BY <1>3, <1>4

LEMMA OneWriter ==
  ASSUME IInv, NEW f \in Calm \cup {RefDir}, NEW c \in Writing(f)
  PROVE  Writing(f) = {c} /\ disk[f] \notin {"bad", "whole"}
BY DEF IInv, Partial, Directory, Calm

\* A successful look leaves one file behind, which is then not missing
LEMMA Advance ==
  ASSUME IInv, NEW c \in Cases, case[c].pc # "idle", case[c].todo # <<>>,
         case'[c].list = case[c].list, case'[c].todo = Tail(case[c].todo),
         \/ case[c].missing => case'[c].missing
         \/ \A f \in Passed(c) \cap Calm' : disk[f] \in {"bad", "whole"},
         Settled,
         case'[c].missing \/ File(c) \notin Calm' \ Outside \/ disk'[File(c)] \in {"bad", "whole"}
  PROVE  Found(c)'
<1>1. case[c].todo \in Seq(Paths)
  BY DEF IInv, Types, CaseRecords
<1>2. Passed(c)' \subseteq Passed(c) \cup {File(c)}
  BY <1>1, TailMembers DEF Passed, File
<1>3. Found(c)
  BY DEF IInv
<1>4. Calm' \subseteq Calm
  BY DEF Settled, Calm
<1> SUFFICES ASSUME ~case'[c].missing, NEW f \in (Passed(c)' \cap Calm') \ Outside
             PROVE  disk'[f] \in {"bad", "whole"}
  BY DEF Found
<1>5. CASE f = File(c)
  BY <1>5
<1>6. CASE f \in Passed(c)
  BY <1>3, <1>4, <1>6 DEF Found, Settled
<1> QED BY <1>2, <1>5, <1>6

\* A step of one case keeps the invariant when the case keeps its own part
LEMMA Combine ==
  ASSUME IInv, NEW c \in Cases, Settled, Types', Partial', Directory',
         \A d \in Cases \ {c} :
           /\ case'[d].pc = case[d].pc /\ case'[d].list = case[d].list
           /\ case'[d].todo = case[d].todo /\ case'[d].srv = case[d].srv
           /\ case'[d].missing = case[d].missing /\ old'[d] = old[d],
         (Place(c) /\ Found(c) /\ Verified(c))'
  PROVE  IInv'
<1>1. ASSUME NEW d \in Cases \ {c} PROVE (Place(d) /\ Found(d) /\ Verified(d))'
  BY Others
<1> QED BY <1>1 DEF IInv

\* Files as they are: nothing to settle
LEMMA SameFiles ==
  ASSUME disk' = disk, raced \subseteq raced', cut \subseteq cut'
  PROVE  Settled
BY DEF Settled

LEMMA SameVerified ==
  ASSUME IInv, NEW c \in Cases, Settled, old'[c] = old[c], case[c].pc # "error"
  PROVE  Verified(c)'
<1>1. Verified(c) /\ Calm' \subseteq Calm
  BY DEF IInv, Settled, Calm
<1> QED BY <1>1 DEF Verified, Settled

--------------------------------------------------------------------------------
(***************************************************************************)
(* The actions                                                             *)
(***************************************************************************)
LEMMA InitIInv == Init => IInv
<1> SUFFICES ASSUME Init PROVE IInv
  OBVIOUS
<1>1. Fresh \in CaseRecords
  BY Listed, BoundsAssumption DEF Fresh, CaseRecords, Pcs
<1>2. \A c \in Cases : case[c] = Fresh
  BY DEF Init
<1>3. Types
  <2>1. Stored \subseteq [Paths -> Content]
    BY DEF Stored
  <2> QED BY <1>1, <2>1, BoundsAssumption DEF Init, Types
<1>4. \A f : Writing(f) = {}
  BY <1>2 DEF Writing, At, Fresh
<1>5. RefDir \in Paths /\ disk \in Stored
  BY Listed DEF Init
<1>6. \A f \in Paths : disk[f] \in {"absent", "bad", "whole"}
  BY <1>5 DEF Stored, Content
<1>7. Partial
  BY <1>4, <1>6 DEF Partial, Calm
<1>8. Directory
  BY <1>4, <1>5, <1>6, DirectoryUnhashed DEF Directory
<1>9. ASSUME NEW c \in Cases PROVE Place(c) /\ Found(c) /\ Verified(c)
  <2>1. old[c] = {}
    BY DEF Init
  <2> QED BY <1>2, <2>1 DEF Place, Found, Verified, Fresh
<1> QED BY <1>3, <1>7, <1>8, <1>9 DEF IInv

LEMMA BeginKeeps == ASSUME IInv, NEW c \in Cases, Begin(c) PROVE IInv'
<1>1. Alone(c) /\ case'[c].pc = "look" /\ case'[c].list = case[c].list
      /\ case'[c].todo = case[c].list
  <2>1. PICK hashes \in {{}, Hashed} :
          case' = [case EXCEPT ![c] = [@ EXCEPT !.pc = "look", !.todo = case[c].list,
                                                 !.hashes = hashes]]
    BY DEF Begin
  <2> DEFINE q == [case[c] EXCEPT !.pc = "look", !.todo = case[c].list, !.hashes = hashes]
  <2>2. case[c] \in CaseRecords /\ hashes \subseteq Paths
    BY PlacesAssumption DEF IInv, Types, Paths
  <2>3. q \in CaseRecords
    BY <2>2 DEF CaseRecords, Pcs
  <2>4. q.pc = "look" /\ q.list = case[c].list /\ q.todo = case[c].list
    BY <2>2 DEF CaseRecords
  <2>5. case' = [case EXCEPT ![c] = q]
    BY <2>1 DEF IInv, Types
  <2> HIDE DEF q
  <2> QED BY <2>3, <2>4, <2>5, OneChanges DEF IInv
<1>2. Settled /\ Types' /\ old' = old /\ case[c].pc = "idle"
  BY <1>1, SameFiles DEF Begin, At, IInv, Types, Alone
<1>3. Partial' /\ Directory'
  BY <1>1, <1>2, Quiet DEF Begin
<1>4. Place(c)'
  BY <1>1 DEF IInv, Place
<1>5. Passed(c)' = {}
  BY <1>1 DEF Passed
<1>6. Found(c)' /\ Verified(c)'
  BY <1>2, <1>5, SameVerified DEF Found
<1> QED BY <1>1, <1>2, <1>3, <1>4, <1>6, Combine DEF Alone

LEMMA PassEndsKeeps == ASSUME IInv, NEW c \in Cases, PassEnds(c) PROVE IInv'
<1>1. Settled /\ old' = old /\ case[c].pc = "look" /\ disk' = disk /\ tmp' = tmp
      /\ raced' = raced /\ cut' = cut
  BY SameFiles DEF PassEnds, At
<1> DEFINE srv == NextServer(case[c].srv)
<1>2. srv \in 0..Servers /\ case[c].srv \in 0..Servers
  <2>1. case[c].srv \in 0..Servers
    BY DEF IInv, Types, CaseRecords
  <2> QED BY <2>1, BoundsAssumption DEF NextServer
<1>3. CASE case[c].todo = <<>> /\ PassSucceeds(c) /\ Goto(c, "stage")
  <2>1. Alone(c) /\ case'[c].pc = "stage" /\ case'[c].list = case[c].list
        /\ case'[c].todo = case[c].todo /\ case'[c].missing = case[c].missing
    BY <1>3, GotoMoves DEF IInv, Types, Pcs
  <2>2. Place(c)'
    BY <1>1, <1>3, <2>1 DEF IInv, Place, PassSucceeds
  <2>3. Found(c)' /\ Verified(c)'
    <3>1. Passed(c)' = Passed(c) /\ Calm' = Calm /\ Found(c)
      BY <1>1, <2>1 DEF Passed, Calm, IInv
    <3> QED BY <1>1, <2>1, <3>1, SameVerified DEF Found
  <2>4. Types'
    BY <1>1, <2>1 DEF PassEnds, IInv, Types, Alone
  <2>5. Partial' /\ Directory'
    BY <1>1, <2>1, Quiet
  <2> QED BY <1>1, <2>1, <2>2, <2>3, <2>4, <2>5, Combine DEF Alone
<1>4. CASE Goto(c, "error")
  <2>1. Alone(c) /\ case'[c].pc = "error" /\ case'[c].list = case[c].list
        /\ case'[c].todo = case[c].todo /\ case'[c].missing = case[c].missing
    BY <1>4, GotoMoves DEF IInv, Types, Pcs
  <2>2. Place(c)'
    BY <1>1, <2>1 DEF IInv, Place
  <2>3. Found(c)' /\ Verified(c)'
    <3>1. Passed(c)' = Passed(c) /\ Calm' = Calm /\ Found(c)
      BY <1>1, <2>1 DEF Passed, Calm, IInv
    <3> QED BY <1>1, <2>1, <3>1 DEF Found, Verified
  <2>4. Types'
    BY <1>1, <2>1 DEF PassEnds, IInv, Types, Alone
  <2>5. Partial' /\ Directory'
    BY <1>1, <2>1, Quiet
  <2> QED BY <1>1, <2>1, <2>2, <2>3, <2>4, <2>5, Combine DEF Alone
<1>5. CASE Pass(c, srv, "look")
  <2>1. Alone(c) /\ case'[c].pc = "look" /\ case'[c].list = case[c].list
        /\ case'[c].todo = case[c].list
    BY <1>2, <1>5, PassMoves DEF IInv, Types, Pcs
  <2>2. Place(c)'
    BY <1>1, <2>1 DEF IInv, Place
  <2>3. Found(c)' /\ Verified(c)'
    <3>1. Passed(c)' = {}
      BY <2>1 DEF Passed
    <3> QED BY <1>1, <3>1, SameVerified DEF Found
  <2>4. Types'
    BY <1>1, <2>1 DEF PassEnds, IInv, Types, Alone
  <2>5. Partial' /\ Directory'
    BY <1>1, <2>1, Quiet
  <2> QED BY <1>1, <2>1, <2>2, <2>3, <2>4, <2>5, Combine DEF Alone
<1> QED BY <1>3, <1>4, <1>5 DEF PassEnds

LEMMA StageKeeps == ASSUME IInv, NEW c \in Cases, Stage(c) PROVE IInv'
<1>1. Settled /\ old' = old /\ case[c].pc = "stage" /\ disk' = disk /\ tmp' = tmp
      /\ raced' = raced /\ cut' = cut
  BY SameFiles DEF Stage, At
<1>2. case[c].todo = <<>> /\ ~case[c].missing
  BY <1>1 DEF IInv, Place
<1>3. ASSUME NEW pc \in {"done", "error"}, Goto(c, pc), pc = "done" => disk[RefDir] # "absent"
      PROVE  IInv'
  <2>1. Alone(c) /\ case'[c].pc = pc /\ case'[c].list = case[c].list
        /\ case'[c].todo = case[c].todo /\ case'[c].missing = case[c].missing
    BY <1>3, GotoMoves DEF IInv, Types, Pcs
  <2>2. Place(c)'
    BY <1>1, <1>2, <1>3, <2>1 DEF IInv, Place
  <2>3. Found(c)' /\ Verified(c)'
    <3>1. Passed(c)' = Passed(c) /\ Calm' = Calm /\ Found(c)
      BY <1>1, <2>1 DEF Passed, Calm, IInv
    <3> QED BY <1>1, <2>1, <3>1, SameVerified DEF Found
  <2>4. Types'
    BY <1>1, <2>1 DEF Stage, IInv, Types, Alone
  <2>5. Partial' /\ Directory'
    BY <1>1, <1>3, <2>1, Quiet
  <2> QED BY <1>1, <2>1, <2>2, <2>3, <2>4, <2>5, Combine DEF Alone
<1>4. ASSUME Servers # 0,
             case' = [case EXCEPT ![c] = [@ EXCEPT !.pc = "look", !.srv = 1,
                     !.list = Append(Files, RefDir), !.todo = Append(Files, RefDir),
                     !.missing = FALSE]]
      PROVE  IInv'
  <2> DEFINE r == [case[c] EXCEPT !.pc = "look", !.srv = 1, !.list = Append(Files, RefDir),
                     !.todo = Append(Files, RefDir), !.missing = FALSE]
  <2>1. case[c] \in CaseRecords /\ 1 \in 0..Servers
    BY <1>4, BoundsAssumption DEF IInv, Types
  <2>2. r \in CaseRecords
    BY <2>1, Listed DEF CaseRecords, Pcs
  <2>3. r.pc = "look" /\ r.list = Append(Files, RefDir) /\ r.todo = Append(Files, RefDir)
    BY <2>1 DEF CaseRecords
  <2>4. case' = [case EXCEPT ![c] = r]
    BY <1>4 DEF IInv, Types
  <2> HIDE DEF r
  <2>5. Alone(c) /\ case'[c] = r
    BY <2>2, <2>4, OneChanges DEF IInv
  <2>6. Place(c)'
    BY <2>3, <2>5 DEF Place
  <2>7. Found(c)' /\ Verified(c)'
    <3>1. Passed(c)' = {}
      BY <2>3, <2>5 DEF Passed
    <3> QED BY <1>1, <3>1, SameVerified DEF Found
  <2>8. Types'
    BY <1>1, <2>5 DEF Stage, IInv, Types, Alone
  <2>9. Partial' /\ Directory'
    BY <1>1, <2>3, <2>5, Quiet
  <2> QED BY <1>1, <2>5, <2>6, <2>7, <2>8, <2>9, Combine DEF Alone
<1> QED BY <1>3, <1>4 DEF Stage

LEMMA LookKeeps == ASSUME IInv, NEW c \in Cases, Look(c) PROVE IInv'
<1> DEFINE f == File(c)
<1>1. /\ case[c].pc = "look" /\ case[c].todo # <<>> /\ disk' = disk /\ tmp' = tmp /\ cut' = cut
      /\ \A d \in Cases \ {c} : old'[d] = old[d]
      /\ raced \subseteq raced' /\ old' \in [Cases -> SUBSET Paths] /\ raced' \subseteq Paths
      /\ f \in Paths
  <2>1. f \in Paths
    BY TailMembers DEF IInv, Types, CaseRecords, File, Look
  <2> HIDE DEF f
  <2> USE DEF f
  <2>2. raced' \in {raced, raced \cup {f}}
    BY DEF Look, LookThere, LookAbsent
  <2>3. old' \in {old, [old EXCEPT ![c] = @ \cup ({f} \cap case[c].hashes)]}
    BY DEF Look, LookThere, LookAbsent
  <2>4. old \in [Cases -> SUBSET Paths] /\ raced \subseteq Paths
    BY DEF IInv, Types
  <2> QED BY <2>1, <2>2, <2>3, <2>4 DEF Look, At
<1>2. Settled
  BY <1>1, SameFiles DEF Look
<1>3. Types /\ \A d \in Cases : case[d].missing \in BOOLEAN
  BY DEF IInv, Types, CaseRecords
<1>4. ASSUME Alone(c), case'[c].pc \notin {"getting", "idle"}, (Place(c) /\ Found(c) /\ Verified(c))'
      PROVE  IInv'
  <2>1. Types'
    BY <1>1, <1>4 DEF Look, IInv, Types, Alone
  <2>2. Partial' /\ Directory'
    BY <1>1, <1>4, Quiet
  <2> QED BY <1>1, <1>2, <1>4, <2>1, <2>2, Combine DEF Alone
<1>5. CASE disk[f] # "absent" /\ Skip(c, case[c].missing) /\ ChksumOK(c, f) /\ LookThere(c)
  <2>1. /\ Alone(c)
        /\ case'[c].pc = "look" /\ case'[c].list = case[c].list
        /\ case'[c].todo = Tail(case[c].todo) /\ case'[c].srv = case[c].srv
        /\ case'[c].missing = case[c].missing
    BY <1>1, <1>3, <1>5, SkipMoves
  <2>2. f \notin Calm' \/ disk[f] \in {"bad", "whole"}
    <3>1. f = RefDir => disk[f] \in {"bad", "whole"}
      BY <1>5 DEF IInv, Directory
    <3>2. f \in Calm' => f \in Calm
      BY <1>1 DEF Calm
    <3>3. f \in Calm' => Writing(f) = {}
      BY <1>1, <1>5 DEF LookThere, Calm
    <3>4. f \in Calm' \ {RefDir} => disk[f] # "part"
      BY <3>2, <3>3 DEF IInv, Partial
    <3>5. disk[f] \in Content
      BY <1>1, <1>3 DEF Types
    <3> QED BY <1>5, <3>1, <3>4, <3>5 DEF Content
  <2>3. Found(c)'
    BY <1>1, <1>2, <2>1, <2>2, Advance
  <2>4. Place(c)'
    BY <2>1 DEF IInv, Place
  <2>5. Verified(c)'
    <3>1. Verified(c) /\ Calm' \subseteq Calm
      BY <1>2 DEF IInv, Settled, Calm
    <3>2. case[c].srv = 0 /\ f \in case[c].hashes => disk[f] = "whole"
      BY <1>5 DEF ChksumOK
    <3>3. old'[c] \subseteq old[c] \cup IF case[c].srv = 0 THEN {f} \cap case[c].hashes ELSE {}
      BY <1>3, <1>5 DEF LookThere, Types
    <3> QED BY <1>1, <1>2, <3>1, <3>2, <3>3 DEF Verified, Settled
  <2> QED BY <1>4, <2>1, <2>3, <2>4, <2>5
<1>6. CASE disk[f] # "absent" /\ Goto(c, "error")
  <2>1. /\ Alone(c) /\ case'[c].pc = "error" /\ case'[c].list = case[c].list
        /\ case'[c].todo = case[c].todo /\ case'[c].missing = case[c].missing
    BY <1>3, <1>6, GotoMoves DEF Pcs
  <2>2. Place(c)'
    BY <2>1 DEF IInv, Place
  <2>3. Found(c)' /\ Verified(c)'
    <3>1. Passed(c)' = Passed(c) /\ Calm' \subseteq Calm /\ Found(c)
      BY <1>1, <2>1 DEF Passed, Calm, IInv
    <3> QED BY <1>1, <2>1, <3>1 DEF Found, Verified
  <2> QED BY <1>4, <2>1, <2>2, <2>3
<1>7. CASE disk[f] = "absent" /\ case[c].srv = 0 /\ Skip(c, TRUE) /\ old' = old
  <2>1. /\ Alone(c)
        /\ case'[c].pc = "look" /\ case'[c].list = case[c].list
        /\ case'[c].todo = Tail(case[c].todo) /\ case'[c].srv = case[c].srv
        /\ case'[c].missing
    BY <1>1, <1>3, <1>7, SkipMoves
  <2>2. Place(c)' /\ Found(c)'
    BY <2>1 DEF IInv, Place, Found
  <2>3. Verified(c)'
    BY <1>1, <1>2, <1>7, SameVerified
  <2> QED BY <1>4, <2>1, <2>2, <2>3
<1>10. CASE disk[f] = "absent" /\ f \in Outside /\ Skip(c, case[c].missing) /\ old' = old
  <2>1. /\ Alone(c)
        /\ case'[c].pc = "look" /\ case'[c].list = case[c].list
        /\ case'[c].todo = Tail(case[c].todo) /\ case'[c].srv = case[c].srv
        /\ case'[c].missing = case[c].missing
    BY <1>1, <1>3, <1>10, SkipMoves
  <2>2. Found(c)'
    BY <1>1, <1>2, <1>10, <2>1, Advance
  <2>3. Place(c)'
    BY <2>1 DEF IInv, Place
  <2>4. Verified(c)'
    BY <1>1, <1>2, <1>10, SameVerified
  <2> QED BY <1>4, <2>1, <2>2, <2>3, <2>4
<1>8. CASE disk[f] = "absent" /\ case[c].srv # 0 /\ Goto(c, "get") /\ old' = old
  <2>1. /\ Alone(c) /\ case'[c].pc = "get" /\ case'[c].list = case[c].list
        /\ case'[c].todo = case[c].todo /\ case'[c].missing = case[c].missing
        /\ case'[c].srv = case[c].srv
    BY <1>3, <1>8, GotoMoves DEF Pcs
  <2>2. Place(c)'
    <3>1. case[c].srv > 0
      <4>1. case[c].srv \in Nat
        BY <1>3, BoundsAssumption DEF Types, CaseRecords
      <4> QED BY <1>8, <4>1
    <3> QED BY <1>1, <2>1, <3>1 DEF IInv, Place
  <2>3. Found(c)'
    <3>1. Passed(c)' = Passed(c) /\ Calm' \subseteq Calm /\ Found(c)
      BY <1>1, <2>1 DEF Passed, Calm, IInv
    <3> QED BY <1>1, <2>1, <3>1 DEF Found
  <2>4. Verified(c)'
    BY <1>1, <1>2, <1>8, SameVerified
  <2> QED BY <1>4, <2>1, <2>2, <2>3, <2>4
<1> HIDE DEF f
<1>9. \/ /\ LookThere(c) /\ disk[f] # "absent"
         /\ IF ChksumOK(c, f) THEN Skip(c, case[c].missing) ELSE Goto(c, "error")
      \/ /\ disk[f] = "absent" /\ old' = old
         /\ \/ case[c].srv = 0 /\ Skip(c, TRUE)
            \/ f \in Outside /\ Skip(c, case[c].missing)
            \/ case[c].srv # 0 /\ Goto(c, "get")
  BY DEF Look, LookThere, LookAbsent, f
<1> QED BY <1>5, <1>6, <1>7, <1>8, <1>9, <1>10

LEMMA KilledKeeps == ASSUME IInv, NEW c \in Cases, Killed(c) PROVE IInv'
<1> DEFINE f == File(c)
<1>1. /\ case[c].pc = "getting" /\ case[c].todo # <<>> /\ disk' = disk /\ tmp' = tmp
      /\ old' = old /\ raced' = raced /\ cut' = cut \cup {f}
  BY DEF Killed, At, IInv, Place
<1>2. f \in Paths /\ Settled
  <2>1. f \in Paths
    BY <1>1, TailMembers DEF IInv, Types, CaseRecords, File
  <2> QED BY <1>1, <2>1, SameFiles DEF Killed
<1>3. /\ Alone(c) /\ case'[c].pc = "killed" /\ case'[c].list = case[c].list
      /\ case'[c].todo = case[c].todo /\ case'[c].missing = case[c].missing
  BY GotoMoves DEF IInv, Types, Pcs, Killed
<1>4. Types'
  <2>1. kills' \in 0..MaxKills
    BY BoundsAssumption DEF Killed, IInv, Types
  <2> QED BY <1>1, <1>2, <1>3, <2>1 DEF Killed, IInv, Types, Alone
<1>5. ASSUME NEW g PROVE Writing(g)' = Writing(g) \ {c}
  BY <1>3, WritingAfter DEF Alone
<1>6. Partial'
  <2> SUFFICES ASSUME NEW g \in Calm' \ {RefDir}
               PROVE  /\ \A e, d \in Writing(g)' : e = d
                      /\ disk'[g] = "part" <=> Writing(g)' # {}
                      /\ \A d \in Writing(g)' : case'[d].linked
    BY DEF Partial
  <2>1. g \in Calm \ {RefDir} /\ g # f
    BY <1>1 DEF Calm
  <2>2. c \notin Writing(g)
    BY <2>1 DEF Writing
  <2>3. /\ \A e, d \in Writing(g) : e = d
        /\ disk[g] = "part" <=> Writing(g) # {}
        /\ \A d \in Writing(g) : case[d].linked
    BY <2>1 DEF IInv, Partial
  <2>4. \A d \in Writing(g) : case'[d] = case[d]
    BY <1>3, <2>2 DEF Writing, At, Alone
  <2> QED BY <1>1, <1>5, <2>2, <2>3, <2>4
<1>7. Directory'
  BY <1>1, <1>5 DEF IInv, Directory
<1>8. Place(c)'
  BY <1>3 DEF IInv, Place
<1>9. Found(c)' /\ Verified(c)'
  <2>1. Passed(c)' = Passed(c) /\ Calm' \subseteq Calm /\ Found(c)
    BY <1>1, <1>3 DEF Passed, Calm, IInv
  <2>2. Found(c)'
    BY <1>1, <1>3, <2>1 DEF Found
  <2>3. Verified(c)'
    BY <1>1, <1>2, SameVerified
  <2> QED BY <2>2, <2>3
<1> QED BY <1>1, <1>2, <1>3, <1>4, <1>6, <1>7, <1>8, <1>9, Combine DEF Alone

\* The file is there by now: wget -nc fails, and the file is removed; or the
\* server has not got it, and what was written is removed
LEMMA RemovedKeeps ==
  ASSUME IInv, NEW c \in Cases, case[c].todo # <<>>, case[c].pc \in {"get", "getting"},
         NEW f \in Paths \ {RefDir}, f = File(c), Removed(c, f, "look"),
         case[c].pc = "get" => f \in raced',
         raced \subseteq raced', raced' \subseteq Paths,
         server' = server, tmp' = tmp, kills' = kills, cut' = cut, old' = old
  PROVE  IInv'
<1>1. /\ case' \in [Cases -> CaseRecords]
      /\ \A d \in Cases \ {c} : d \notin Writing(f) => case'[d] = case[d]
      /\ \A d \in Cases \ {c} :
           /\ case'[d].pc = case[d].pc /\ case'[d].list = case[d].list
           /\ case'[d].todo = case[d].todo /\ case'[d].srv = case[d].srv
           /\ case'[d].missing = case[d].missing
      /\ case'[c].pc = "look" /\ case'[c].list = case[c].list
      /\ case'[c].todo = Tail(case[c].todo) /\ case'[c].srv = case[c].srv
      /\ case'[c].missing = TRUE
  <2>1. Types
    BY DEF IInv
  <2> QED BY <2>1, RemovedMoves
<1>2. disk' = [disk EXCEPT ![f] = "absent"] /\ disk \in [Paths -> Content]
  <2>1. disk' = [disk EXCEPT ![f] = "absent"]
    BY Zenon DEF Removed
  <2>2. disk \in [Paths -> Content]
    BY DEF IInv, Types
  <2> QED BY <2>1, <2>2
<1>3. ASSUME f \in Calm' PROVE Writing(f) = {c} /\ disk[f] = "part"
  <2>1. c \in Writing(f) /\ f \in Calm
    BY <1>3 DEF Calm, Writing, At
  <2> QED BY <2>1 DEF IInv, Partial
<1>4. Settled
  <2>1. ASSUME NEW g \in Calm', disk[g] \in {"bad", "whole"} PROVE disk'[g] = disk[g]
    BY <1>2, <1>3, <2>1 DEF Calm
  <2> QED BY <1>2, <2>1 DEF Settled
<1>5. Types'
  <2>1. disk' \in [Paths -> Content]
    BY <1>2 DEF Content
  <2> QED BY <1>1, <2>1 DEF IInv, Types
<1>6. ASSUME NEW g PROVE Writing(g)' = Writing(g) \ {c}
  BY <1>1, WritingAfter
<1>7. Partial'
  <2> SUFFICES ASSUME NEW g \in Calm' \ {RefDir}
               PROVE  /\ \A e, d \in Writing(g)' : e = d
                      /\ disk'[g] = "part" <=> Writing(g)' # {}
                      /\ \A d \in Writing(g)' : case'[d].linked
    BY DEF Partial
  <2>1. g \in Calm /\ g \in Paths
    BY DEF Calm
  <2>2. CASE g = f
    <3>1. Writing(g)' = {} /\ disk'[g] = "absent"
      BY <1>2, <1>3, <1>6, <2>2
    <3> QED BY <3>1
  <2>3. CASE g # f
    <3>1. c \notin Writing(g)
      BY <2>3 DEF Writing
    <3>2. \A d \in Writing(g) : d \in Cases \ {c} /\ d \notin Writing(f)
      BY <2>3, <3>1 DEF Writing
    <3>3. \A d \in Writing(g) : case'[d] = case[d]
      BY <1>1, <3>2
    <3>4. disk'[g] = disk[g]
      BY <1>2, <2>3
    <3>5. /\ \A e, d \in Writing(g) : e = d
          /\ disk[g] = "part" <=> Writing(g) # {}
          /\ \A d \in Writing(g) : case[d].linked
      BY <2>1 DEF IInv, Partial
    <3>6. Writing(g)' = Writing(g)
      BY <1>6, <3>1
    <3> QED BY <3>3, <3>4, <3>5, <3>6
  <2> QED BY <2>2, <2>3
<1>8. Directory'
  <2>1. disk'[RefDir] = disk[RefDir]
    BY <1>2
  <2> QED BY <1>6, <2>1 DEF IInv, Directory
<1>9. Place(c)' /\ Found(c)'
  BY <1>1 DEF IInv, Place, Found
<1>10. Verified(c)'
  BY <1>4, SameVerified
<1> QED BY <1>1, <1>4, <1>5, <1>7, <1>8, <1>9, <1>10, Combine

LEMMA GetFileKeeps == ASSUME IInv, NEW c \in Cases, GetFile(c) PROVE IInv'
<1> DEFINE f == File(c)
<1>1. /\ case[c].pc = "get" /\ case[c].todo # <<>> /\ f # RefDir
      /\ server' = server /\ tmp' = tmp /\ kills' = kills /\ cut' = cut
      /\ old' = old
  BY DEF GetFile, At, IInv, Place
<1>2. f \in Paths \ {RefDir} /\ disk \in [Paths -> Content] /\ raced \subseteq Paths
  BY <1>1, TailMembers DEF IInv, Types, CaseRecords, File
<1>3. CASE Removed(c, f, "look") /\ raced' = raced \cup {f}
  <2>1. raced \subseteq raced' /\ raced' \subseteq Paths /\ f \in raced'
    BY <1>2, <1>3
  <2> HIDE DEF f
  <2>2. f = File(c)
    BY DEF f
  <2> QED BY <1>1, <1>2, <1>3, <2>1, <2>2, RemovedKeeps
<1>4. CASE /\ disk[f] = "absent" /\ disk' = [disk EXCEPT ![f] = "part"] /\ raced' = raced
           /\ case' = [case EXCEPT ![c].pc = "getting", ![c].linked = TRUE]
  <2>1. /\ Alone(c)
        /\ case'[c].pc = "getting" /\ case'[c].list = case[c].list
        /\ case'[c].todo = case[c].todo /\ case'[c].srv = case[c].srv
        /\ case'[c].missing = case[c].missing /\ case'[c].linked = TRUE
    BY <1>4, StartMoves DEF IInv
  <2>2. Settled
    <3>1. ASSUME NEW g \in Calm', disk[g] \in {"bad", "whole"} PROVE disk'[g] = disk[g]
      BY <1>2, <1>4, <3>1 DEF Calm
    <3>2. disk'[RefDir] = disk[RefDir]
      BY <1>2, <1>4
    <3> QED BY <1>1, <1>4, <3>1, <3>2 DEF Settled
  <2>3. Types'
    <3>1. disk' \in [Paths -> Content]
      BY <1>2, <1>4 DEF Content
    <3> QED BY <1>1, <1>4, <2>1, <3>1 DEF IInv, Types, Alone
  <2>4. ASSUME NEW g PROVE Writing(g)' = IF g = f THEN Writing(g) \cup {c} ELSE Writing(g)
    <3>1. c \notin Writing(g) /\ (c \in Writing(g)' <=> g = f)
      BY <1>1, <2>1, WritingAfter DEF Alone, File
    <3>2. /\ \A d \in Cases \ {c} : d \in Writing(g)' <=> d \in Writing(g)
          /\ Writing(g) \subseteq Cases /\ Writing(g)' \subseteq Cases
      BY <2>1, WritingAfter DEF Alone
    <3> QED BY <3>1, <3>2
  <2>5. Partial'
    <3> SUFFICES ASSUME NEW g \in Calm' \ {RefDir}
                 PROVE  /\ \A e, d \in Writing(g)' : e = d
                        /\ disk'[g] = "part" <=> Writing(g)' # {}
                        /\ \A d \in Writing(g)' : case'[d].linked
      BY DEF Partial
    <3>1. g \in Calm /\ g \in Paths
      BY <1>1, <1>4 DEF Calm
    <3>2. /\ \A e, d \in Writing(g) : e = d
          /\ disk[g] = "part" <=> Writing(g) # {}
          /\ \A d \in Writing(g) : case[d].linked
      BY <3>1 DEF IInv, Partial
    <3>3. CASE g = f
      <4>1. Writing(g)' = {c} /\ disk'[g] = "part"
        BY <1>2, <1>4, <2>4, <3>2, <3>3
      <4> QED BY <2>1, <4>1
    <3>4. CASE g # f
      <4>3. Writing(g)' = Writing(g)
        BY <2>4, <3>4
      <4>4. disk'[g] = disk[g]
        BY <1>2, <1>4, <3>1, <3>4
      <4>1. Writing(g)' = Writing(g) /\ disk'[g] = disk[g] /\ c \notin Writing(g)
        BY <1>1, <4>3, <4>4 DEF Writing, At
      <4>2. \A d \in Writing(g) : case'[d] = case[d]
        BY <2>1, <4>1 DEF Writing, Alone
      <4> QED BY <3>2, <4>1, <4>2
    <3> QED BY <3>3, <3>4
  <2>6. Directory'
    <3>1. disk'[RefDir] = disk[RefDir] /\ Writing(RefDir)' = Writing(RefDir)
      BY <1>1, <1>2, <1>4, <2>4
    <3> QED BY <1>1, <3>1 DEF IInv, Directory
  <2>7. Place(c)'
    BY <1>1, <2>1 DEF IInv, Place
  <2>8. Found(c)'
    <3>1. Passed(c)' = Passed(c) /\ Calm' = Calm /\ Found(c)
      BY <1>1, <1>4, <2>1 DEF Passed, Calm, IInv
    <3> QED BY <1>1, <2>1, <2>2, <3>1 DEF Found, Settled
  <2>9. Verified(c)'
    BY <1>1, <2>2, SameVerified
  <2> QED BY <1>1, <2>1, <2>2, <2>3, <2>5, <2>6, <2>7, <2>8, <2>9, Combine DEF Alone
<1>5. \/ Removed(c, f, "look") /\ raced' = raced \cup {f}
      \/ /\ disk[f] = "absent" /\ disk' = [disk EXCEPT ![f] = "part"] /\ raced' = raced
         /\ case' = [case EXCEPT ![c].pc = "getting", ![c].linked = TRUE]
  BY Zenon DEF GetFile
<1> QED BY <1>3, <1>4, <1>5

LEMMA GotFileKeeps == ASSUME IInv, NEW c \in Cases, GotFile(c) PROVE IInv'
<1> DEFINE f == File(c)
           got == server[case[c].srv][f]
<1>1. /\ case[c].pc = "getting" /\ case[c].todo # <<>> /\ f # RefDir /\ case[c].srv > 0
      /\ server' = server /\ tmp' = tmp /\ kills' = kills
      /\ old' = old /\ raced' = raced
  BY DEF GotFile, At, IInv, Place
<1>2. f \in Paths \ {RefDir} /\ disk \in [Paths -> Content] /\ raced \subseteq Paths
  BY <1>1, TailMembers DEF IInv, Types, CaseRecords, File
<1>3. CASE Removed(c, f, "look") /\ cut' = cut
  <2> HIDE DEF f
  <2>2. f = File(c)
    BY DEF f
  <2> QED BY <1>1, <1>2, <1>3, <2>2, RemovedKeeps
<1>4. CASE /\ got # "absent" /\ Skip(c, case[c].missing /\ ~Forgets(c))
           /\ disk' = IF case[c].linked THEN [disk EXCEPT ![f] = got] ELSE disk
           /\ cut' = IF Forgets(c) THEN cut \cup LeftOut(c) ELSE cut
  <2>0. cut \subseteq cut' /\ cut' \subseteq Paths
    <3>1. ToSet(case[c].list) \subseteq Paths
      <4>1. case[c].list \in Seq(Paths)
        BY DEF IInv, Types, CaseRecords
      <4> QED BY <4>1 DEF ToSet
    <3> QED BY <1>4, <3>1 DEF IInv, Types, LeftOut
  <2>1. /\ Alone(c)
        /\ case'[c].pc = "look" /\ case'[c].list = case[c].list
        /\ case'[c].todo = Tail(case[c].todo) /\ case'[c].srv = case[c].srv
        /\ case'[c].missing = (case[c].missing /\ ~Forgets(c))
    <3>1. (case[c].missing /\ ~Forgets(c)) \in BOOLEAN
          /\ Skip(c, case[c].missing /\ ~Forgets(c)) /\ Types
      <4>1. (case[c].missing /\ ~Forgets(c)) \in BOOLEAN
        BY Zenon
      <4> QED BY <1>4, <4>1 DEF IInv
    <3>2. case'[c].missing = (case[c].missing /\ ~Forgets(c))
      BY <1>1, <3>1, SkipMoves
    <3>3. Alone(c) /\ case'[c].pc = "look" /\ case'[c].list = case[c].list
          /\ case'[c].todo = Tail(case[c].todo) /\ case'[c].srv = case[c].srv
      BY <1>1, <3>1, SkipMoves
    <3> QED BY <3>2, <3>3
  <2>2. got \in {"bad", "whole"}
    <3>1. case[c].srv \in 1..Servers
      BY <1>1, BoundsAssumption DEF IInv, Types, CaseRecords
    <3>2. server[case[c].srv] \in Stored
      BY <3>1 DEF IInv, Types
    <3> QED BY <1>2, <1>4, <3>2 DEF Stored, Content
  <2>3. ASSUME f \in Calm
        PROVE  Writing(f) = {c} /\ disk[f] = "part" /\ disk' = [disk EXCEPT ![f] = got]
    <3>1. c \in Writing(f)
      BY <1>1 DEF Writing, At
    <3>2. disk[f] = "part" /\ case[c].linked /\ Writing(f) = {c}
      BY <1>2, <2>3, <3>1 DEF IInv, Partial
    <3> QED BY <1>4, <3>2
  <2>4. \A g \in Paths \ {f} : disk'[g] = disk[g]
    BY <1>2, <1>4
  <2>5. Settled
    <3>1. Calm' \subseteq Calm /\ RefDir \in Paths
      BY <1>1, <2>0, Listed DEF Calm
    <3>2. ASSUME NEW g \in Calm', disk[g] \in {"bad", "whole"} PROVE disk'[g] = disk[g]
      BY <2>3, <2>4, <3>1, <3>2 DEF Calm
    <3> QED BY <1>1, <2>0, <2>4, <3>1, <3>2 DEF Settled
  <2>6. Types'
    <3>1. disk' \in [Paths -> Content]
      BY <1>2, <1>4, <2>2 DEF Content
    <3> QED BY <1>1, <2>0, <2>1, <3>1 DEF IInv, Types, Alone
  <2>7. ASSUME NEW g PROVE Writing(g)' = Writing(g) \ {c} /\ (c \in Writing(g) => g = f)
    BY <2>1, WritingAfter DEF Alone, File
  <2>8. Partial'
    <3> SUFFICES ASSUME NEW g \in Calm' \ {RefDir}
                 PROVE  /\ \A e, d \in Writing(g)' : e = d
                        /\ disk'[g] = "part" <=> Writing(g)' # {}
                        /\ \A d \in Writing(g)' : case'[d].linked
      BY DEF Partial
    <3>1. g \in Calm /\ g \in Paths
      BY <1>1, <2>0 DEF Calm
    <3>2. CASE g = f
      <4>1. disk'[g] = got /\ Writing(g)' = {}
        BY <1>2, <2>3, <2>7, <3>1, <3>2
      <4> QED BY <2>2, <4>1
    <3>3. CASE g # f
      <4>1. c \notin Writing(g) /\ Writing(g)' = Writing(g)
        BY <2>7, <3>3
      <4>2. disk'[g] = disk[g]
        BY <2>4, <3>1, <3>3
      <4>3. \A d \in Writing(g) : case'[d] = case[d]
        BY <2>1, <4>1 DEF Writing, Alone
      <4>4. /\ \A e, d \in Writing(g) : e = d
            /\ disk[g] = "part" <=> Writing(g) # {}
            /\ \A d \in Writing(g) : case[d].linked
        BY <3>1 DEF IInv, Partial
      <4> QED BY <4>1, <4>2, <4>3, <4>4
    <3> QED BY <3>2, <3>3
  <2>9. Directory'
    <3>1. disk'[RefDir] = disk[RefDir]
      BY <1>2, <2>4, Listed
    <3> QED BY <1>1, <2>7, <3>1 DEF IInv, Directory
  <2>10. Place(c)'
    BY <2>1 DEF IInv, Place
  <2>11. Found(c)'
    <3>1. f \in Calm' => disk'[f] \in {"bad", "whole"}
      <4>1. f \in Calm' => f \in Calm
        BY <1>1, <2>0 DEF Calm
      <4> QED BY <1>2, <2>2, <2>3, <4>1
    <3>2. CASE Forgets(c)
      <4>1. ASSUME NEW g \in Passed(c) \cap Calm' PROVE disk[g] \in {"bad", "whole"}
        BY <1>2, <1>4, <3>2, <4>1 DEF Passed, Calm, LeftOut, Content
      <4> QED BY <1>1, <2>1, <2>5, <3>1, <4>1, Advance
    <3>3. CASE ~Forgets(c)
      BY <1>1, <2>1, <2>5, <3>1, <3>3, Advance
    <3> QED BY <3>2, <3>3
  <2>12. Verified(c)'
    BY <1>1, <2>5, SameVerified
  <2> QED BY <1>1, <2>1, <2>5, <2>6, <2>8, <2>9, <2>10, <2>11, <2>12, Combine DEF Alone
<1>5. \/ Removed(c, f, "look") /\ cut' = cut
      \/ /\ got # "absent" /\ Skip(c, case[c].missing /\ ~Forgets(c))
         /\ disk' = IF case[c].linked THEN [disk EXCEPT ![f] = got] ELSE disk
         /\ cut' = IF Forgets(c) THEN cut \cup LeftOut(c) ELSE cut
  BY Zenon DEF GotFile
<1> QED BY <1>3, <1>4, <1>5

\* The case leaves the directory, or does not get it
LEMMA LeaveDir ==
  ASSUME IInv, NEW c \in Cases, case[c].pc \in {"get", "getting"}, File(c) = RefDir, Alone(c),
         case'[c].pc \in {"look", "error"}, case'[c].list = case[c].list,
         case'[c].srv = case[c].srv,
         disk' \in [Paths -> Content], \A f \in Paths \ {RefDir} : disk'[f] = disk[f],
         disk'[RefDir] \in {"absent", "whole"}, disk[RefDir] # "absent" => disk'[RefDir] = disk[RefDir],
         tmp' \in {"absent", "part"},
         Writing(RefDir) \ {c} # {} => tmp' = tmp /\ disk'[RefDir] = disk[RefDir],
         \/ case'[c].todo = case[c].todo /\ case'[c].missing = case[c].missing
         \/ case'[c].todo = Tail(case[c].todo) /\ (case[c].missing => case'[c].missing)
            /\ (case'[c].missing \/ disk'[RefDir] = "whole"),
         server' = server, kills' = kills, raced' = raced, cut' = cut, old' = old
  PROVE  IInv'
<1>1. Settled
  <2>1. \A f \in Calm' : disk[f] \in {"bad", "whole"} => disk'[f] = disk[f]
    BY DEF Calm
  <2> QED BY <2>1 DEF Settled
<1>2. Types'
  BY DEF IInv, Types, Alone
<1>3. ASSUME NEW g PROVE Writing(g)' = Writing(g) \ {c} /\ (c \in Writing(g) => g = RefDir)
  BY WritingAfter DEF Alone, File
<1>4. Partial'
  <2> SUFFICES ASSUME NEW g \in Calm' \ {RefDir}
               PROVE  /\ \A e, d \in Writing(g)' : e = d
                      /\ disk'[g] = "part" <=> Writing(g)' # {}
                      /\ \A d \in Writing(g)' : case'[d].linked
    BY DEF Partial
  <2>1. g \in Calm /\ g \in Paths
    BY DEF Calm
  <2>2. c \notin Writing(g) /\ Writing(g)' = Writing(g) /\ disk'[g] = disk[g]
    BY <1>3, <2>1
  <2>3. \A d \in Writing(g) : case'[d] = case[d]
    BY <2>2 DEF Writing, Alone
  <2>4. /\ \A e, d \in Writing(g) : e = d
        /\ disk[g] = "part" <=> Writing(g) # {}
        /\ \A d \in Writing(g) : case[d].linked
    BY <2>1 DEF IInv, Partial
  <2> QED BY <2>2, <2>3, <2>4
<1>5. Directory'
  BY <1>3 DEF IInv, Directory
<1>6. Place(c)'
  BY DEF IInv, Place
<1>7. Found(c)'
  <2>1. CASE case'[c].todo = case[c].todo /\ case'[c].missing = case[c].missing
    <3>1. Passed(c)' = Passed(c) /\ Calm' = Calm /\ Found(c)
      BY <2>1 DEF Passed, Calm, IInv
    <3> QED BY <1>1, <2>1, <3>1 DEF Found, Settled
  <2>2. CASE /\ case'[c].todo = Tail(case[c].todo) /\ (case[c].missing => case'[c].missing)
             /\ (case'[c].missing \/ disk'[RefDir] = "whole")
    <3>1. case[c].todo # <<>>
      BY DEF IInv, Place
    <3> QED BY <1>1, <2>2, <3>1, Advance
  <2> QED BY <2>1, <2>2
<1>8. Verified(c)'
  BY <1>1, SameVerified
<1> QED BY <1>1, <1>2, <1>4, <1>5, <1>6, <1>7, <1>8, Combine DEF Alone

LEMMA GetDirKeeps == ASSUME IInv, NEW c \in Cases, GetDir(c) PROVE IInv'
<1>1. /\ case[c].pc = "get" /\ case[c].todo # <<>> /\ File(c) = RefDir
      /\ server' = server /\ kills' = kills /\ cut' = cut
      /\ old' = old /\ raced' = raced
  BY DEF GetDir, At, IInv, Place
<1>2. Types /\ Directory /\ disk \in [Paths -> Content] /\ tmp \in {"absent", "part"}
  BY DEF IInv, Types
<1>3. CASE Goto(c, "error") /\ disk' = disk /\ tmp' = tmp
  <2>1. /\ Alone(c) /\ case'[c].pc = "error" /\ case'[c].list = case[c].list
        /\ case'[c].todo = case[c].todo /\ case'[c].missing = case[c].missing
        /\ case'[c].srv = case[c].srv
    BY <1>2, <1>3, GotoMoves DEF Pcs
  <2>2. disk[RefDir] \in {"absent", "whole"}
    BY <1>2 DEF Directory
  <2> QED BY <1>1, <1>2, <1>3, <2>1, <2>2, LeaveDir
<1>4. CASE /\ disk[RefDir] = "absent" /\ tmp = "absent"
           /\ Goto(c, "getting") /\ tmp' = "part" /\ disk' = disk
  <2>1. /\ Alone(c) /\ case'[c].pc = "getting" /\ case'[c].list = case[c].list
        /\ case'[c].todo = case[c].todo /\ case'[c].missing = case[c].missing
        /\ case'[c].srv = case[c].srv /\ case'[c].linked = case[c].linked
    BY <1>2, <1>4, GotoMoves DEF Pcs
  <2>2. Settled
    BY <1>1, <1>4, SameFiles
  <2>3. Types'
    BY <1>1, <1>4, <2>1 DEF IInv, Types, Alone
  <2>4. ASSUME NEW g PROVE Writing(g)' = IF g = RefDir THEN Writing(g) \cup {c} ELSE Writing(g)
    <3>1. c \notin Writing(g) /\ (c \in Writing(g)' <=> g = RefDir)
      BY <1>1, <2>1, WritingAfter DEF Alone, File
    <3>2. /\ \A d \in Cases \ {c} : d \in Writing(g)' <=> d \in Writing(g)
          /\ Writing(g) \subseteq Cases /\ Writing(g)' \subseteq Cases
      BY <2>1, WritingAfter DEF Alone
    <3> QED BY <3>1, <3>2
  <2>5. Partial'
    <3> SUFFICES ASSUME NEW g \in Calm' \ {RefDir}
                 PROVE  /\ \A e, d \in Writing(g)' : e = d
                        /\ disk'[g] = "part" <=> Writing(g)' # {}
                        /\ \A d \in Writing(g)' : case'[d].linked
      BY DEF Partial
    <3>1. g \in Calm
      BY <1>1 DEF Calm
    <3>2. c \notin Writing(g) /\ Writing(g)' = Writing(g)
      <4>1. Writing(g)' = Writing(g)
        BY <2>4
      <4> QED BY <1>1, <4>1 DEF Writing, At
    <3>3. \A d \in Writing(g) : case'[d] = case[d]
      BY <2>1, <3>2 DEF Writing, Alone
    <3>4. /\ \A e, d \in Writing(g) : e = d
          /\ disk[g] = "part" <=> Writing(g) # {}
          /\ \A d \in Writing(g) : case[d].linked
      BY <3>1 DEF IInv, Partial
    <3> QED BY <1>4, <3>2, <3>3, <3>4
  <2>6. Directory'
    <3>1. Writing(RefDir) = {}
      BY <1>4 DEF IInv, Directory
    <3>2. Writing(RefDir)' = {c}
      BY <2>4, <3>1
    <3> QED BY <1>4, <3>2 DEF Directory
  <2>7. Place(c)'
    BY <1>1, <1>4, <2>1 DEF IInv, Place
  <2>8. Found(c)'
    <3>1. Passed(c)' = Passed(c) /\ Calm' = Calm /\ Found(c)
      BY <1>1, <2>1 DEF Passed, Calm, IInv
    <3> QED BY <1>1, <1>4, <2>1, <3>1 DEF Found
  <2>9. Verified(c)'
    BY <1>1, <2>2, SameVerified
  <2> QED BY <1>1, <2>1, <2>2, <2>3, <2>5, <2>6, <2>7, <2>8, <2>9, Combine DEF Alone
<1> QED BY <1>3, <1>4 DEF GetDir, MakeTmp, Target

LEMMA GotDirKeeps == ASSUME IInv, NEW c \in Cases, GotDir(c) PROVE IInv'
<1> DEFINE got == server[case[c].srv][RefDir]
<1>1. /\ case[c].pc = "getting" /\ case[c].todo # <<>> /\ File(c) = RefDir /\ case[c].srv > 0
      /\ server' = server /\ kills' = kills /\ cut' = cut
      /\ old' = old /\ raced' = raced
  BY DEF GotDir, At, IInv, Place
<1>2. Types /\ Directory /\ disk \in [Paths -> Content] /\ tmp \in {"absent", "part"}
      /\ RefDir \in Paths
  BY Listed DEF IInv, Types
<1>3. got \in {"absent", "whole"}
  <2>1. case[c].srv \in 1..Servers
    BY <1>1, <1>2, BoundsAssumption DEF Types, CaseRecords
  <2>2. server[case[c].srv] \in Stored
    BY <1>2, <2>1 DEF Types
  <2>3. server[case[c].srv][RefDir] # "bad"
    BY <2>2, DirectoryUnhashed
  <2>4. server[case[c].srv] \in [Paths -> Content \ {"part"}]
    BY <2>2 DEF Stored
  <2> QED BY <1>2, <2>3, <2>4 DEF Content
<1>4. Writing(RefDir) \ {c} = {} /\ disk[RefDir] = "absent"
  <2>1. c \in Writing(RefDir)
    BY <1>1 DEF Writing, At
  <2> QED BY <1>2, <2>1 DEF Directory
<1>5. ASSUME NEW m \in BOOLEAN, Skip(c, m)
      PROVE  /\ Alone(c)
             /\ case'[c].pc = "look" /\ case'[c].list = case[c].list
             /\ case'[c].todo = Tail(case[c].todo) /\ case'[c].srv = case[c].srv
             /\ case'[c].missing = m
  BY <1>1, <1>2, <1>5, SkipMoves
<1>6. CASE /\ got # "absent" /\ Skip(c, case[c].missing)
           /\ disk' = [disk EXCEPT ![RefDir] = got] /\ tmp' = "absent"
  <2>1. /\ disk' \in [Paths -> Content] /\ \A f \in Paths \ {RefDir} : disk'[f] = disk[f]
        /\ disk'[RefDir] = "whole"
    BY <1>2, <1>3, <1>6 DEF Content
  <2>2. case[c].missing \in BOOLEAN
    BY <1>2 DEF Types, CaseRecords
  <2>3. /\ Alone(c) /\ case'[c].pc = "look" /\ case'[c].list = case[c].list
        /\ case'[c].todo = Tail(case[c].todo) /\ case'[c].srv = case[c].srv
        /\ case'[c].missing = case[c].missing
    BY <1>5, <1>6, <2>2
  <2> QED BY <1>1, <1>2, <1>4, <1>6, <2>1, <2>3, LeaveDir
<1>7. CASE Skip(c, TRUE) /\ tmp' = "absent" /\ disk' = disk
  BY <1>1, <1>2, <1>4, <1>5, <1>7, LeaveDir
<1>8. \/ /\ got # "absent" /\ Skip(c, case[c].missing)
         /\ disk' = [disk EXCEPT ![RefDir] = got] /\ tmp' = "absent"
      \/ Skip(c, TRUE) /\ tmp' = "absent" /\ disk' = disk
  BY <1>4 DEF GotDir, Target
<1> QED BY <1>6, <1>7, <1>8

LEMMA Invariance == Spec => []IInv
<1>1. Init => IInv
  BY InitIInv
<1>2. IInv /\ [Next]_vars => IInv'
  <2> SUFFICES ASSUME IInv, [Next]_vars PROVE IInv'
    OBVIOUS
  <2>1. ASSUME NEW c \in Cases, CaseStep(c) \/ Killed(c) PROVE IInv'
    BY <2>1, BeginKeeps, LookKeeps, PassEndsKeeps, StageKeeps, GetFileKeeps, GotFileKeeps,
       GetDirKeeps, GotDirKeeps, KilledKeeps DEF CaseStep
  <2>2. CASE UNCHANGED vars
    BY <2>2 DEF vars, IInv, Types, Partial, Directory, Place, Found, Verified, Calm, Passed,
       Writing, At, File
  <2> QED BY <2>1, <2>2 DEF Next
<1> QED BY <1>1, <1>2, PTL DEF Spec

--------------------------------------------------------------------------------
(***************************************************************************)
(* What the runs check                                                     *)
(***************************************************************************)
\* The directory of the reference case is never seen half downloaded and one
\* process at a time downloads it (_download_if_in_repo); and a file that a case
\* found and compared with its hash in the checksum file (verify_chksum) is still
\* the right one when its check ends, unless two processes were at it or a kill
\* cut its download.  For any number of cases, files, servers and kills; nothing
\* is said of files without a hash or of downloaded ones, which the code does
\* not verify
THEOREM InputIsSafe == Spec => []InputInv
<1>1. IInv => InputInv
  <2> SUFFICES ASSUME IInv PROVE InputInv
    OBVIOUS
  <2>1. TypeOK
    <3>1. server \in [1..Servers -> [Paths -> Content]]
      BY DEF IInv, Types, Stored
    <3>2. ASSUME NEW c \in Cases PROVE case[c].srv \in 0..Servers /\ ToSet(case[c].todo) \subseteq Paths
      BY DEF IInv, Types, CaseRecords, ToSet
    <3> QED BY <3>1, <3>2 DEF IInv, Types, TypeOK
  <2>2. DirectoryWhole
    BY DEF IInv, Directory, DirectoryWhole
  <2>3. TmpHasOneWriter
    <3>1. CASE Writing(RefDir) = {}
      BY <3>1, FS_EmptySet DEF TmpHasOneWriter
    <3>2. CASE Writing(RefDir) # {}
      <4>1. PICK c : Writing(RefDir) = {c}
        BY <3>2 DEF IInv, Directory
      <4>2. Cardinality({c}) = 1
        BY FS_Singleton
      <4> QED BY <4>1, <4>2 DEF TmpHasOneWriter
    <3> QED BY <3>1, <3>2
  <2>4. OldFilesVerified
    <3> SUFFICES ASSUME NEW c \in Cases, case[c].pc = "done", NEW f \in old[c] \ (raced \cup cut)
                 PROVE  disk[f] = "whole"
      BY DEF OldFilesVerified, At
    <3>1. Verified(c) /\ f \in Calm
      BY DEF IInv, Types, Calm
    <3> QED BY <3>1 DEF Verified
  <2> QED BY <2>1, <2>2, <2>3, <2>4 DEF InputInv
<1> QED BY <1>1, Invariance, PTL

\* A check that succeeds finds every file of its lists and the reference case in
\* place (check_input_data), except a file outside DIN_LOC_ROOT and RUNDIR, one
\* that two processes were at, one whose download a kill cut, and one that a pass
\* forgot for a file in RUNDIR; for any number of cases, files, servers and kills
THEOREM SuccessMeansThere == Spec => []InputIsThere
<1>1. IInv => InputIsThere
  <2> SUFFICES ASSUME IInv, NEW c \in Cases, case[c].pc = "done", NEW f \in Calm \ Outside
               PROVE  disk[f] \in {"bad", "whole"}
    BY DEF InputIsThere, At, Calm
  <2>1. Place(c) /\ Found(c)
    BY DEF IInv
  <2>2. ToSet(Files) \subseteq Passed(c)
    BY <2>1, Listed DEF Place, Passed
  <2>3. CASE f = RefDir
    BY <2>1, <2>3 DEF IInv, Directory, Place
  <2>4. CASE f \in ToSet(Files)
    BY <2>1, <2>2, <2>4 DEF Found, Place
  <2> QED BY <2>3, <2>4 DEF Calm, Paths
<1> QED BY <1>1, Invariance, PTL
====
