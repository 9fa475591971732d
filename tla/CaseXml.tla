------------------------------- MODULE CaseXml -------------------------------
(***************************************************************************)
(* The XML files of a case and the programs that change them: Case         *)
(* (case.py) and the file cache of GenericXML (generic_xml.py).  A program *)
(* keeps one cache, file name -> parsed tree and modification time, which  *)
(* its Case objects share; objects that read the same cached file share    *)
(* the tree.  There is no lock: a write first compares the modification    *)
(* time of the file with the cached one.  One env file is modelled.        *)
(***************************************************************************)
EXTENDS Naturals, FiniteSets

CONSTANTS
  Procs,  \* programs: case.build, xmlchange, a batch job...
  Objs,   \* Case objects of one program on this case
  Ids,    \* the values in the file
  MaxSets,  \* bound on the values set
  MaxWrites \* bound on the times of the file

ASSUME BoundsAssumption == MaxSets \in Nat \ {0} /\ MaxWrites \in Nat
ASSUME SetsAssumption == IsFiniteSet(Objs) /\ Ids # {}

VARIABLES
  whole,  \* no other program acts between the check of the time and the end of a write
  alone,  \* a program has one object on the case at a time
  disk,   \* the file: its text (Empty while a write is under way) and its time
  cache,  \* per program: the cached tree (0 for none) and its time
  tree,   \* per program and tree: the values in it
  obj,    \* per program and object: the tree, needsrewrite and the modes
  pc,     \* per program: the object that writes and how far; whether an error has been raised
  sets,   \* values set
  unsaved, \* history: per program and tree the variables set and not written
  given   \* history: the value a finished write last gave a variable set before it

vars == <<whole, alone, disk, cache, tree, obj, pc, sets, unsaved, given>>

Trees == 1 .. (Cardinality(Objs) + 1)
Empty == [v \in Ids |-> 0]

Closed  == [open |-> FALSE, tree |-> 1, dirty |-> FALSE, writable |-> FALSE, forced |-> FALSE]
Ready   == [step |-> "ready", obj |-> {}, failed |-> FALSE]
NoCache == [tree |-> 0, time |-> 0]

Init ==
  /\ whole \in BOOLEAN /\ alone \in BOOLEAN /\ TRUE \in {whole, alone}
  /\ disk = [text |-> [v \in Ids |-> 1], time |-> 1] /\ given = disk.text /\ sets = 1
  /\ cache = [p \in Procs |-> NoCache] /\ tree = [p \in Procs |-> [t \in Trees |-> Empty]]
  /\ obj = [p \in Procs |-> [o \in Objs |-> Closed]] /\ pc = [p \in Procs |-> Ready]
  /\ unsaved = [p \in Procs |-> [t \in Trees |-> {}]]

\* An error ends the program; the objects it has in a with are still flushed
Ends(p) == /\ pc' = [pc EXCEPT ![p].failed = TRUE]
           /\ UNCHANGED <<disk, cache, tree, obj, sets, unsaved, given>>
Settings == UNCHANGED <<whole, alone>>

(***************************************************************************)
(* Reading (GenericXML.__init__, read)                                     *)
(***************************************************************************)
\* A tree no object and no cache entry uses
Unused(p, o) == CHOOSE t \in Trees :
  t # cache[p].tree /\ \A q \in Objs \ {o} : obj[p][q].open => obj[p][q].tree # t

CachedIsCurrent(p) == cache[p].tree # 0 /\ cache[p].time = disk.time

\* Object o takes the cached tree of an unchanged file, or a new one.  A file
\* of size 0 is taken for a missing one by an object that may write: it gets a
\* new tree without values, with time 0 and marked for writing.  A file that
\* is partly written does not parse.
ReadFile(p, o, new) ==
  LET t == Unused(p, o)
      Take(values, time) ==
        /\ tree' = [tree EXCEPT ![p][t] = values]
        /\ cache' = [cache EXCEPT ![p] = [tree |-> t, time |-> time]]
        /\ unsaved' = [unsaved EXCEPT ![p][t] = {}]
        /\ UNCHANGED <<disk, pc, sets, given>>
  IN IF disk.text = Empty
     THEN \/ Ends(p)
          \/ /\ ~new.forced /\ Take(Empty, 0)
             /\ obj' = [obj EXCEPT ![p][o] = [new EXCEPT !.tree = t, !.dirty = TRUE]]
     ELSE IF CachedIsCurrent(p)
     THEN /\ obj' = [obj EXCEPT ![p][o] = [new EXCEPT !.tree = cache[p].tree]]
          /\ UNCHANGED <<disk, cache, tree, pc, sets, unsaved, given>>
     ELSE /\ Take(disk.text, disk.time)
          /\ obj' = [obj EXCEPT ![p][o] = [new EXCEPT !.tree = t]]

\* Case(caseroot, read_only=f)
Open(p, o) ==
  /\ pc[p] = Ready /\ ~obj[p][o].open /\ Settings
  /\ alone => \A q \in Objs : ~obj[p][q].open
  /\ \E f \in BOOLEAN : ReadFile(p, o, [Closed EXCEPT !.open = TRUE, !.forced = f])

Using(p, o) == pc[p] = Ready /\ obj[p][o].open /\ Settings

\* Mutant: reads over values that were set.
ReadOver(p, o) ==
  /\ Using(p, o)
  /\ ReadFile(p, o, [obj[p][o] EXCEPT !.dirty = FALSE])

\* read_xml refuses to lose unflushed changes of its own files
ReadXml(p, o) ==
  /\ Using(p, o)
  /\ IF obj[p][o].dirty THEN Ends(p) ELSE ReadFile(p, o, obj[p][o])

(***************************************************************************)
(* Changing and writing                                                    *)
(***************************************************************************)
\* Mutant: every with may write.
EnterWritable(p, o) ==
  /\ Using(p, o) /\ obj' = [obj EXCEPT ![p][o].writable = TRUE]
  /\ UNCHANGED <<disk, cache, tree, pc, sets, unsaved, given>>

\* "with case": an object opened read-only stays so
Enter(p, o) ==
  /\ Using(p, o) /\ ~obj[p][o].writable
  /\ obj' = [obj EXCEPT ![p][o].writable = ~obj[p][o].forced]
  /\ UNCHANGED <<disk, cache, tree, pc, sets, unsaved, given>>

SetValue(p, o) ==
  /\ Using(p, o) /\ sets < MaxSets
  /\ IF ~obj[p][o].writable THEN Ends(p)
     ELSE \E v \in Ids :
       LET t == obj[p][o].tree
       IN /\ tree' = [tree EXCEPT ![p][t][v] = sets + 1] /\ sets' = sets + 1
          /\ obj' = [obj EXCEPT ![p][o].dirty = TRUE]
          /\ unsaved' = [unsaved EXCEPT ![p][t] = @ \cup {v}]
          /\ UNCHANGED <<disk, cache, pc, given>>

\* Mutant: the time is not compared.
ValidAlways(p) == TRUE

\* check_timestamp: the cached time, which a read by any object renews
TimestampValid(p) == cache[p].time \in {0, disk.time}

\* The file holds the tree of object o
Saved(p, o, time) ==
  LET t == obj[p][o].tree
  IN /\ disk' = [text |-> tree[p][t], time |-> time]
     /\ obj' = [obj EXCEPT ![p][o].dirty = FALSE]
     /\ given' = [v \in Ids |-> IF v \in unsaved[p][t] THEN tree[p][t][v] ELSE given[v]]
     /\ unsaved' = [unsaved EXCEPT ![p][t] = {}]

\* Mutant: the tree that was read last stays in the cache.
TimeOnly(p, o, time) == cache' = [cache EXCEPT ![p].time = time]

\* The cache gets the tree that was written and the time the file has now
Remembered(p, o, time) == cache' = [cache EXCEPT ![p] = [tree |-> obj[p][o].tree, time |-> time]]

\* flush, also at the end of a with and of one an error leaves: nothing is
\* written when nothing was set
Flush(p, o) ==
  /\ pc[p].step = "ready" /\ obj[p][o].open /\ obj[p][o].dirty /\ Settings
  /\ disk.time < MaxWrites
  /\ pc[p].failed => obj[p][o].writable
  /\ IF ~TimestampValid(p) THEN Ends(p)
     ELSE IF whole
     THEN /\ Saved(p, o, disk.time + 1) /\ Remembered(p, o, disk.time + 1)
          /\ UNCHANGED <<tree, pc, sets>>
     ELSE /\ disk' = [text |-> Empty, time |-> disk.time + 1]
          /\ pc' = [pc EXCEPT ![p].step = "writing", ![p].obj = {o}]
          /\ UNCHANGED <<cache, tree, obj, sets, unsaved, given>>

WriteEnds(p) ==
  /\ pc[p].step = "writing" /\ Settings /\ \E o \in pc[p].obj : Saved(p, o, disk.time + 1)
  /\ pc' = [pc EXCEPT ![p].step = "written"] /\ UNCHANGED <<cache, tree, sets>>

Stamp(p) ==
  /\ pc[p].step = "written" /\ Settings /\ \E o \in pc[p].obj : Remembered(p, o, disk.time)
  /\ pc' = [pc EXCEPT ![p].step = "ready", ![p].obj = {}]
  /\ UNCHANGED <<disk, tree, obj, sets, unsaved, given>>

\* The end of the with, after its flush; the object is given up
Exit(p, o) ==
  /\ Using(p, o) /\ ~obj[p][o].dirty
  /\ obj' = [obj EXCEPT ![p][o] = Closed]
  /\ UNCHANGED <<disk, cache, tree, pc, sets, unsaved, given>>

\* The program ends or is killed, and another one starts
Restart(p) ==
  /\ Settings
  /\ obj' = [obj EXCEPT ![p] = [o \in Objs |-> Closed]] /\ cache' = [cache EXCEPT ![p] = NoCache]
  /\ tree' = [tree EXCEPT ![p] = [t \in Trees |-> Empty]] /\ pc' = [pc EXCEPT ![p] = Ready]
  /\ unsaved' = [unsaved EXCEPT ![p] = [t \in Trees |-> {}]]
  /\ UNCHANGED <<disk, sets, given>>

Next ==
  \E p \in Procs :
    \/ WriteEnds(p) \/ Stamp(p) \/ Restart(p)
    \/ \E o \in Objs : \/ Open(p, o) \/ ReadXml(p, o) \/ Enter(p, o) \/ SetValue(p, o)
                      \/ Flush(p, o) \/ Exit(p, o)

Spec == Init /\ [][Next]_vars

(***************************************************************************)
(* Properties                                                              *)
(***************************************************************************)
Texts == [Ids -> 0 .. MaxSets]

\* The files, caches and objects keep their shape.
TypeOK ==
  /\ disk.text \in Texts /\ disk.time \in Nat /\ given \in Texts /\ sets \in 1 .. MaxSets
  /\ cache \in [Procs -> [tree : Trees \cup {0}, time : 0 .. disk.time]]
  /\ tree \in [Procs -> [Trees -> Texts]] /\ unsaved \in [Procs -> [Trees -> SUBSET Ids]]
  /\ obj \in [Procs -> [Objs -> [open : BOOLEAN, tree : Trees, dirty : BOOLEAN,
                               writable : BOOLEAN, forced : BOOLEAN]]]
  /\ pc \in [Procs -> [step : {"ready", "writing", "written"}, obj : SUBSET Objs, failed : BOOLEAN]]
  /\ \A p \in Procs, o \in Objs : obj[p][o].forced => ~obj[p][o].dirty

\* No program undoes what another one saved: a write changes the variables that
\* were set before it and no other (the timestamp check of write).  It takes
\* that no program acts between the check and the end of the write, and that
\* the objects of one program do not overlap in time.
NoLostUpdate == whole /\ alone => disk.text = given

\* A program whose cache has the time of the file and that has set nothing
\* since sees what is in the file, whichever of its objects wrote last.
CacheIsTrue ==
  whole => \A p \in Procs :
    LET t == cache[p].tree
    IN t # 0 /\ cache[p].time = disk.time /\ unsaved[p][t] = {} => tree[p][t] = disk.text

\* What was set in an object is in the file or still to be written as long as
\* the object lives: neither a read nor another object's write drops it.
NothingDropped ==
  [][\A p \in Procs, o \in Objs :
       obj[p][o].dirty /\ obj'[p][o].open =>
         LET t == obj[p][o].tree
         IN \/ unsaved[p][t] \subseteq unsaved'[p][obj'[p][o].tree]
            \/ \A v \in unsaved[p][t] : disk'.text[v] = tree[p][t][v]]_vars

\* No program undoes what another has saved, or works on a file it believes current
FilesInv == TypeOK /\ NoLostUpdate /\ CacheIsTrue
=============================================================================
