---------------------------- MODULE CaseXmlProofs ----------------------------
(***************************************************************************)
(* What the timestamp check of the XML files guarantees, for any number of *)
(* programs, objects, values and writes.                                   *)
(***************************************************************************)
EXTENDS CaseXml, FiniteSetTheorems, TLAPS

ObjType == [open : BOOLEAN, tree : Trees, dirty : BOOLEAN, writable : BOOLEAN, forced : BOOLEAN]

(***************************************************************************)
(* The inductive invariant                                                 *)
(***************************************************************************)
Filled(p, t) == \A v \in Ids : tree[p][t][v] # 0

Modes ==
  \A p \in Procs, o \in Objs :
    /\ obj[p][o].forced => ~obj[p][o].writable
    /\ obj[p][o].open => cache[p].tree # 0
    /\ obj[p][o].dirty => obj[p][o].open

\* As long as writes are whole, no file and no tree in use is empty
Held ==
  whole =>
    /\ disk.time > 0 /\ \A v \in Ids : disk.text[v] # 0
    /\ \A p \in Procs :
         /\ pc[p].step = "ready"
         /\ cache[p].tree # 0 => cache[p].time > 0 /\ Filled(p, cache[p].tree)
         /\ \A o \in Objs : obj[p][o].open => Filled(p, obj[p][o].tree)

\* A tree with the time of the file has the file's text but for what was set
Agrees ==
  whole => \A p \in Procs :
    cache[p].tree # 0 /\ cache[p].time = disk.time =>
      \A v \in Ids \ unsaved[p][cache[p].tree] : tree[p][cache[p].tree][v] = disk.text[v]

OneObject ==
  whole /\ alone => \A p \in Procs, o \in Objs :
    obj[p][o].open =>
      obj[p][o].tree = cache[p].tree /\ \A q \in Objs : obj[p][q].open => q = o

DiskOK  == disk.text \in Texts /\ disk.time \in Nat /\ given \in Texts /\ sets \in 1 .. MaxSets
CacheOK == cache \in [Procs -> [tree : Trees \cup {0}, time : 0 .. disk.time]]
TreeOK  == tree \in [Procs -> [Trees -> Texts]] /\ unsaved \in [Procs -> [Trees -> SUBSET Ids]]
ObjOK   == /\ obj \in [Procs -> [Objs -> ObjType]]
           /\ \A p \in Procs, o \in Objs : obj[p][o].forced => ~obj[p][o].dirty
PcOK    == pc \in [Procs -> [step : {"ready", "writing", "written"}, obj : SUBSET Objs, failed : BOOLEAN]]

IInv == TypeOK /\ Modes /\ Held /\ Agrees /\ OneObject /\ NoLostUpdate

LEMMA TreesType ==
  /\ Cardinality(Objs) \in Nat /\ Trees \subseteq Nat \ {0} /\ 1 \in Trees
  /\ IsFiniteSet(Trees) /\ Cardinality(Trees) = Cardinality(Objs) + 1
<1>1. Cardinality(Objs) \in Nat
  BY SetsAssumption, FS_CardinalityType
<1>2. IsFiniteSet(Trees) /\ Cardinality(Trees) = Cardinality(Objs) + 1
  BY <1>1, FS_Interval DEF Trees
<1> QED BY <1>1, <1>2 DEF Trees

LEMMA TwoShareOne == \A f \in [Trees -> Objs] : \E x, y \in Trees : x # y /\ f[x] = f[y]
<1>1. IsFiniteSet(Trees) /\ IsFiniteSet(Objs) /\ Cardinality(Objs) < Cardinality(Trees)
  BY TreesType, SetsAssumption
<1> QED BY <1>1, FS_PigeonHole, Zenon

\* There is one tree more than there are objects: with the cached tree and
\* those of the other objects in use, one is left
LEMMA UnusedExists ==
  ASSUME NEW p \in Procs, NEW o \in Objs
  PROVE  /\ Unused(p, o) \in Trees /\ Unused(p, o) # cache[p].tree
         /\ \A q \in Objs \ {o} : obj[p][q].open => obj[p][q].tree # Unused(p, o)
<1> DEFINE Free(t) == t # cache[p].tree /\ \A q \in Objs \ {o} : obj[p][q].open => obj[p][q].tree # t
<1>1. \E t \in Trees : Free(t)
  <2> SUFFICES ASSUME \A t \in Trees : ~Free(t) PROVE FALSE
    OBVIOUS
  <2> DEFINE user == [t \in Trees |-> IF t = cache[p].tree THEN o
                                      ELSE CHOOSE q \in Objs \ {o} : obj[p][q].tree = t]
  <2>1. \A t \in Trees : t # cache[p].tree =>
          user[t] \in Objs \ {o} /\ obj[p][user[t]].tree = t
    OBVIOUS
  <2>2. user \in [Trees -> Objs]
    BY <2>1
  <2> HIDE DEF user
  <2>4. PICK x \in Trees, y \in Trees : x # y /\ user[x] = user[y]
    BY <2>2, TwoShareOne
  <2>5. \A t \in Trees : t = cache[p].tree => user[t] = o
    BY DEF user
  <2> QED BY <2>1, <2>4, <2>5
<1> QED BY <1>1 DEF Unused

LEMMA InitIInv == ASSUME Init PROVE IInv
<1>1. TypeOK
  BY BoundsAssumption, TreesType DEF Init, TypeOK, Texts, Empty, Closed, Ready, NoCache
<1>2. Modes /\ Held /\ Agrees /\ OneObject /\ NoLostUpdate
  BY TreesType DEF Init, Modes, Held, Agrees, OneObject, NoLostUpdate, Closed, Ready,
       NoCache, Empty
<1> QED BY <1>1, <1>2 DEF IInv

LEMMA ObjUpdate ==
  ASSUME NEW p \in Procs, NEW o \in Objs, NEW x \in ObjType, ObjOK, ~(x.forced /\ x.dirty),
         obj' = [obj EXCEPT ![p] = [obj[p] EXCEPT ![o] = x]]
  PROVE  ObjOK'
<1>1. obj' \in [Procs -> [Objs -> ObjType]]
  BY DEF ObjOK
<1>2. \A q \in Procs, b \in Objs : obj'[q][b] = (IF q = p /\ b = o THEN x ELSE obj[q][b])
  BY DEF ObjOK
<1> QED BY <1>1, <1>2 DEF ObjOK

\* The modes of an object
LEMMA ModesType ==
  ASSUME NEW x \in ObjType, NEW b \in BOOLEAN
  PROVE  /\ [x EXCEPT !.dirty = b] \in ObjType /\ [x EXCEPT !.dirty = b].dirty = b
         /\ [x EXCEPT !.dirty = b].forced = x.forced
         /\ [x EXCEPT !.writable = b] \in ObjType /\ [x EXCEPT !.writable = b].dirty = x.dirty
         /\ [x EXCEPT !.writable = b].forced = x.forced
BY DEF ObjType

\* An error changes nothing but the state of its program
LEMMA EndsKeeps ==
  ASSUME IInv, NEW p \in Procs, Settings, Ends(p) PROVE IInv'
<1>1. TypeOK'
  <2>1. DiskOK'
    BY TreesType DEF IInv, TypeOK, DiskOK, Texts, Ends, Settings
  <2>2. CacheOK'
    BY TreesType DEF IInv, TypeOK, CacheOK, Ends, Settings
  <2>3. TreeOK'
    BY TreesType DEF IInv, TypeOK, TreeOK, Texts, Ends, Settings
  <2>4. ObjOK'
    BY TreesType DEF IInv, TypeOK, ObjOK, ObjType, Modes, Ends, Settings
  <2>5. PcOK'
    BY TreesType DEF IInv, TypeOK, PcOK, Ends, Settings
  <2> QED BY <2>1, <2>2, <2>3, <2>4, <2>5 DEF TypeOK, DiskOK, CacheOK, TreeOK, ObjOK,
       PcOK, ObjType
<1>2. Modes'
  BY TreesType DEF IInv, TypeOK, Modes, Ends, Settings
<1>3. Held'
  BY TreesType DEF IInv, TypeOK, Held, Filled, Ends, Settings
<1>4. Agrees'
  BY TreesType DEF IInv, TypeOK, Agrees, Ends, Settings
<1>5. OneObject'
  BY TreesType DEF IInv, TypeOK, OneObject, Ends, Settings
<1>6. NoLostUpdate'
  BY TreesType DEF IInv, TypeOK, NoLostUpdate, Ends, Settings
<1> QED BY <1>1, <1>2, <1>3, <1>4, <1>5, <1>6 DEF IInv

\* Whatever way an object reads the file, it reads the text that is there
LEMMA ReadKeeps ==
  ASSUME NEW p \in Procs, NEW o \in Objs, NEW new \in ObjType, IInv, Settings,
         new.open, ~new.dirty, ~(new.forced /\ new.writable),
         whole /\ alone => \A q \in Objs \ {o} : ~obj[p][q].open,
         ReadFile(p, o, new)
  PROVE  IInv'
<1> DEFINE t == Unused(p, o)
<1>1. t \in Trees /\ t # 0 /\ t # cache[p].tree
         /\ \A q \in Objs \ {o} : obj[p][q].open => obj[p][q].tree # t
  BY UnusedExists, TreesType
<1> HIDE DEF t
<1>2. CASE Ends(p)
  BY <1>2, EndsKeeps
<1>3. ASSUME disk.text = Empty, ~new.forced, obj' = [obj EXCEPT ![p][o] = [new EXCEPT !.tree = t, !.dirty = TRUE]],
             tree' = [tree EXCEPT ![p][t] = Empty], cache' = [cache EXCEPT ![p] = [tree |-> t, time |-> 0]],
             unsaved' = [unsaved EXCEPT ![p][t] = {}], UNCHANGED <<disk, pc, sets, given>>
      PROVE  IInv'
  <2>0. ~whole
    BY <1>3, SetsAssumption DEF IInv, Held, Empty
  <2>1. TypeOK'
    <3>1. DiskOK'
      BY <1>1, <1>3, <2>0, TreesType, BoundsAssumption DEF IInv, TypeOK, DiskOK, Texts,
           Settings, ObjType, Empty
    <3>2. CacheOK'
      BY <1>1, <1>3, <2>0, TreesType, BoundsAssumption DEF IInv, TypeOK, CacheOK,
           Settings, ObjType, Empty
    <3>3. TreeOK'
      BY <1>1, <1>3, <2>0, TreesType, BoundsAssumption DEF IInv, TypeOK, TreeOK, Texts,
           Settings, ObjType, Empty
    <3>4. ObjOK'
      BY <1>1, <1>3, <2>0, TreesType, BoundsAssumption DEF IInv, TypeOK, ObjOK, ObjType,
           Modes, Settings, Empty
    <3>5. PcOK'
      BY <1>1, <1>3, <2>0, TreesType, BoundsAssumption DEF IInv, TypeOK, PcOK, Settings,
           ObjType, Empty
    <3> QED BY <3>1, <3>2, <3>3, <3>4, <3>5 DEF TypeOK, DiskOK, CacheOK, TreeOK, ObjOK,
         PcOK, ObjType
  <2>2. Modes'
    BY <1>1, <1>3, <2>0, TreesType, BoundsAssumption DEF IInv, TypeOK, Modes, Settings,
         ObjType, Empty
  <2>3. Held'
    BY <1>1, <1>3, <2>0, TreesType, BoundsAssumption DEF IInv, TypeOK, Held, Settings,
         ObjType, Empty
  <2>4. Agrees'
    BY <1>1, <1>3, <2>0, TreesType, BoundsAssumption DEF IInv, TypeOK, Agrees, Settings,
         ObjType, Empty
  <2>5. OneObject'
    BY <1>1, <1>3, <2>0, TreesType, BoundsAssumption DEF IInv, TypeOK, OneObject,
         Settings, ObjType, Empty
  <2>6. NoLostUpdate'
    BY <1>1, <1>3, <2>0, TreesType, BoundsAssumption DEF IInv, TypeOK, NoLostUpdate,
         Settings, ObjType, Empty
  <2> QED BY <2>1, <2>2, <2>3, <2>4, <2>5, <2>6 DEF IInv
<1>4. ASSUME CachedIsCurrent(p), obj' = [obj EXCEPT ![p][o] = [new EXCEPT !.tree = cache[p].tree]],
             UNCHANGED <<disk, cache, tree, pc, sets, unsaved, given>>
      PROVE  IInv'
  <2>1. TypeOK'
    <3>1. DiskOK'
      BY <1>4, TreesType DEF IInv, TypeOK, DiskOK, Texts, Settings, ObjType,
           CachedIsCurrent
    <3>2. CacheOK'
      BY <1>4, TreesType DEF IInv, TypeOK, CacheOK, Settings, ObjType, CachedIsCurrent
    <3>3. TreeOK'
      BY <1>4, TreesType DEF IInv, TypeOK, TreeOK, Texts, Settings, ObjType,
           CachedIsCurrent
    <3>4. ObjOK'
      <4>1. ObjOK /\ cache[p].tree \in Trees
        BY <1>4, TreesType DEF IInv, TypeOK, ObjOK, ObjType, CachedIsCurrent
      <4> DEFINE x == [new EXCEPT !.tree = cache[p].tree]
      <4>2. x \in ObjType /\ ~x.dirty
        BY <4>1 DEF ObjType
      <4>3. obj' = [obj EXCEPT ![p] = [obj[p] EXCEPT ![o] = x]]
        BY <1>4
      <4> HIDE DEF x
      <4> QED BY <4>1, <4>2, <4>3, ObjUpdate
    <3>5. PcOK'
      BY <1>4, TreesType DEF IInv, TypeOK, PcOK, Settings, ObjType, CachedIsCurrent
    <3> QED BY <3>1, <3>2, <3>3, <3>4, <3>5 DEF TypeOK, DiskOK, CacheOK, TreeOK, ObjOK,
         PcOK, ObjType
  <2>2. Modes'
    BY <1>4, TreesType DEF IInv, TypeOK, Modes, Settings, ObjType, CachedIsCurrent
  <2>3. Held'
    BY <1>4, TreesType DEF IInv, TypeOK, Held, Filled, Settings, ObjType, CachedIsCurrent
  <2>4. Agrees'
    BY <1>4 DEF IInv, Agrees, Settings
  <2>5. OneObject'
    BY <1>4, TreesType DEF IInv, TypeOK, OneObject, Settings, ObjType, CachedIsCurrent
  <2>6. NoLostUpdate'
    BY <1>4, TreesType DEF IInv, TypeOK, NoLostUpdate, Settings, ObjType, CachedIsCurrent
  <2> QED BY <2>1, <2>2, <2>3, <2>4, <2>5, <2>6 DEF IInv
<1>5. ASSUME obj' = [obj EXCEPT ![p][o] = [new EXCEPT !.tree = t]],
             tree' = [tree EXCEPT ![p][t] = disk.text], cache' = [cache EXCEPT ![p] = [tree |-> t, time |-> disk.time]],
             unsaved' = [unsaved EXCEPT ![p][t] = {}], UNCHANGED <<disk, pc, sets, given>>
      PROVE  IInv'
  <2>1. TypeOK'
    <3>1. DiskOK'
      BY <1>1, <1>5, TreesType DEF IInv, TypeOK, DiskOK, Texts, Settings, ObjType
    <3>2. CacheOK'
      BY <1>1, <1>5, TreesType DEF IInv, TypeOK, CacheOK, Settings, ObjType
    <3>3. TreeOK'
      BY <1>1, <1>5, TreesType DEF IInv, TypeOK, TreeOK, Texts, Settings, ObjType
    <3>4. ObjOK'
      BY <1>1, <1>5, TreesType DEF IInv, TypeOK, ObjOK, ObjType, Modes, Settings
    <3>5. PcOK'
      BY <1>1, <1>5, TreesType DEF IInv, TypeOK, PcOK, Settings, ObjType
    <3> QED BY <3>1, <3>2, <3>3, <3>4, <3>5 DEF TypeOK, DiskOK, CacheOK, TreeOK, ObjOK,
         PcOK, ObjType
  <2>2. Modes'
    BY <1>1, <1>5, TreesType DEF IInv, TypeOK, Modes, Settings, ObjType
  <2>3. Held'
    BY <1>1, <1>5, TreesType DEF IInv, TypeOK, Held, Filled, Settings, ObjType
  <2>4. Agrees'
    <3> SUFFICES ASSUME whole, NEW r \in Procs, cache'[r].tree # 0, cache'[r].time = disk.time,
                        NEW v \in Ids, v \notin unsaved'[r][cache'[r].tree]
                 PROVE  tree'[r][cache'[r].tree][v] = disk.text[v]
      BY <1>5 DEF Agrees, Settings
    <3>1. CASE r = p
      BY <1>1, <1>5, <3>1 DEF IInv, TypeOK
    <3>2. CASE r # p
      BY <1>5, <3>2 DEF IInv, TypeOK, Agrees
    <3> QED BY <3>1, <3>2
  <2>5. OneObject'
    BY <1>1, <1>5, TreesType DEF IInv, TypeOK, OneObject, Settings, ObjType
  <2>6. NoLostUpdate'
    BY <1>1, <1>5, TreesType DEF IInv, TypeOK, NoLostUpdate, Settings, ObjType
  <2> QED BY <2>1, <2>2, <2>3, <2>4, <2>5, <2>6 DEF IInv
<1> QED BY <1>2, <1>3, <1>4, <1>5 DEF ReadFile, t

LEMMA RestartKeeps ==
  ASSUME IInv, NEW p \in Procs, Restart(p) PROVE IInv'
<1>1. TypeOK'
  <2>1. DiskOK'
    BY TreesType, BoundsAssumption DEF IInv, TypeOK, DiskOK, Texts, Restart, Settings,
         Closed, NoCache, Empty, Ready
  <2>2. CacheOK'
    BY TreesType, BoundsAssumption DEF IInv, TypeOK, CacheOK, Restart, Settings, Closed,
         NoCache, Empty, Ready
  <2>3. TreeOK'
    BY TreesType, BoundsAssumption DEF IInv, TypeOK, TreeOK, Texts, Restart, Settings,
         Closed, NoCache, Empty, Ready
  <2>4. ObjOK'
    BY TreesType, BoundsAssumption DEF IInv, TypeOK, ObjOK, ObjType, Modes, Restart,
         Settings, Closed, NoCache, Empty, Ready
  <2>5. PcOK'
    BY TreesType, BoundsAssumption DEF IInv, TypeOK, PcOK, Restart, Settings, Closed,
         NoCache, Empty, Ready
  <2> QED BY <2>1, <2>2, <2>3, <2>4, <2>5 DEF TypeOK, DiskOK, CacheOK, TreeOK, ObjOK,
       PcOK, ObjType
<1>2. Modes'
  BY TreesType, BoundsAssumption DEF IInv, TypeOK, Modes, Restart, Settings, Closed,
       NoCache, Empty, Ready
<1>3. Held'
  BY TreesType, BoundsAssumption DEF IInv, TypeOK, Held, Filled, Modes, Restart, Settings,
       Closed, NoCache, Empty, Ready
<1>4. Agrees'
  BY TreesType, BoundsAssumption DEF IInv, TypeOK, Agrees, Restart, Settings, Closed,
       NoCache, Empty, Ready
<1>5. OneObject'
  BY TreesType, BoundsAssumption DEF IInv, TypeOK, OneObject, Restart, Settings, Closed,
       NoCache, Empty, Ready
<1>6. NoLostUpdate'
  BY TreesType, BoundsAssumption DEF IInv, TypeOK, NoLostUpdate, Restart, Settings,
       Closed, NoCache, Empty, Ready
<1> QED BY <1>1, <1>2, <1>3, <1>4, <1>5, <1>6 DEF IInv

LEMMA EnterKeeps ==
  ASSUME IInv, NEW p \in Procs, NEW o \in Objs, Enter(p, o) PROVE IInv'
<1>1. TypeOK'
  <2>1. DiskOK'
    BY TreesType, BoundsAssumption DEF IInv, TypeOK, DiskOK, Texts, Enter, Using,
         Settings, Ready
  <2>2. CacheOK'
    BY TreesType, BoundsAssumption DEF IInv, TypeOK, CacheOK, Enter, Using, Settings,
         Ready
  <2>3. TreeOK'
    BY TreesType, BoundsAssumption DEF IInv, TypeOK, TreeOK, Texts, Enter, Using,
         Settings, Ready
  <2>4. ObjOK'
    <3>1. ObjOK
      BY DEF IInv, TypeOK, ObjOK, ObjType
    <3>2. obj[p][o] \in ObjType /\ (~obj[p][o].forced) \in BOOLEAN
      BY <3>1 DEF ObjOK
    <3>3. obj' = [obj EXCEPT ![p] = [obj[p] EXCEPT ![o] = [obj[p][o] EXCEPT !.writable = ~obj[p][o].forced]]]
      BY DEF Enter
    <3>4. ~([obj[p][o] EXCEPT !.writable = ~obj[p][o].forced].forced
              /\ [obj[p][o] EXCEPT !.writable = ~obj[p][o].forced].dirty)
      BY <3>1, <3>2, ModesType DEF ObjOK
    <3> QED BY <3>1, <3>2, <3>3, <3>4, ModesType, ObjUpdate
  <2>5. PcOK'
    BY TreesType, BoundsAssumption DEF IInv, TypeOK, PcOK, Enter, Using, Settings, Ready
  <2> QED BY <2>1, <2>2, <2>3, <2>4, <2>5 DEF TypeOK, DiskOK, CacheOK, TreeOK, ObjOK,
       PcOK, ObjType
<1>2. Modes'
  BY TreesType, BoundsAssumption DEF IInv, TypeOK, Modes, Enter, Using, Settings, Ready
<1>3. Held'
  BY TreesType, BoundsAssumption DEF IInv, TypeOK, Held, Filled, Modes, Enter, Using,
       Settings, Ready
<1>4. Agrees'
  BY TreesType, BoundsAssumption DEF IInv, TypeOK, Agrees, Enter, Using, Settings, Ready
<1>5. OneObject'
  BY TreesType, BoundsAssumption DEF IInv, TypeOK, OneObject, Enter, Using, Settings,
       Ready
<1>6. NoLostUpdate'
  BY TreesType, BoundsAssumption DEF IInv, TypeOK, NoLostUpdate, Enter, Using, Settings,
       Ready
<1> QED BY <1>1, <1>2, <1>3, <1>4, <1>5, <1>6 DEF IInv

LEMMA ExitKeeps ==
  ASSUME IInv, NEW p \in Procs, NEW o \in Objs, Exit(p, o) PROVE IInv'
<1>1. TypeOK'
  <2>1. DiskOK'
    BY TreesType, BoundsAssumption DEF IInv, TypeOK, DiskOK, Texts, Exit, Using, Settings,
         Closed
  <2>2. CacheOK'
    BY TreesType, BoundsAssumption DEF IInv, TypeOK, CacheOK, Exit, Using, Settings,
         Closed
  <2>3. TreeOK'
    BY TreesType, BoundsAssumption DEF IInv, TypeOK, TreeOK, Texts, Exit, Using, Settings,
         Closed
  <2>4. ObjOK'
    BY TreesType, BoundsAssumption DEF IInv, TypeOK, ObjOK, ObjType, Modes, Exit, Using,
         Settings, Closed
  <2>5. PcOK'
    BY TreesType, BoundsAssumption DEF IInv, TypeOK, PcOK, Exit, Using, Settings, Closed
  <2> QED BY <2>1, <2>2, <2>3, <2>4, <2>5 DEF TypeOK, DiskOK, CacheOK, TreeOK, ObjOK,
       PcOK, ObjType
<1>2. Modes'
  BY TreesType, BoundsAssumption DEF IInv, TypeOK, Modes, Exit, Using, Settings, Closed
<1>3. Held'
  BY TreesType, BoundsAssumption DEF IInv, TypeOK, Held, Filled, Modes, Exit, Using,
       Settings, Closed
<1>4. Agrees'
  BY TreesType, BoundsAssumption DEF IInv, TypeOK, Agrees, Exit, Using, Settings, Closed
<1>5. OneObject'
  BY TreesType, BoundsAssumption DEF IInv, TypeOK, OneObject, Exit, Using, Settings,
       Closed
<1>6. NoLostUpdate'
  BY TreesType, BoundsAssumption DEF IInv, TypeOK, NoLostUpdate, Exit, Using, Settings,
       Closed
<1> QED BY <1>1, <1>2, <1>3, <1>4, <1>5, <1>6 DEF IInv

LEMMA SetValueKeeps ==
  ASSUME IInv, NEW p \in Procs, NEW o \in Objs, SetValue(p, o) PROVE IInv'
<1>1. CASE Ends(p)
  BY <1>1, EndsKeeps DEF SetValue, Using
<1>2. ASSUME NEW v \in Ids, obj[p][o].open, obj[p][o].writable, sets < MaxSets,
             tree' = [tree EXCEPT ![p][obj[p][o].tree][v] = sets + 1], sets' = sets + 1,
             obj' = [obj EXCEPT ![p][o].dirty = TRUE],
             unsaved' = [unsaved EXCEPT ![p][obj[p][o].tree] = @ \cup {v}],
             UNCHANGED <<whole, alone, disk, cache, pc, given>>
      PROVE  IInv'
  <2>1. TypeOK'
    <3>1. DiskOK'
      BY <1>2, BoundsAssumption DEF IInv, TypeOK, DiskOK, Texts
    <3>2. CacheOK'
      BY <1>2, BoundsAssumption DEF IInv, TypeOK, CacheOK
    <3>3. TreeOK'
      BY <1>2, BoundsAssumption DEF IInv, TypeOK, TreeOK, Texts
    <3>4. ObjOK'
      <4>1. ObjOK
        BY DEF IInv, TypeOK, ObjOK, ObjType
      <4>2. obj[p][o] \in ObjType
        BY <4>1 DEF ObjOK
      <4>3. obj' = [obj EXCEPT ![p] = [obj[p] EXCEPT ![o] = [obj[p][o] EXCEPT !.dirty = TRUE]]]
        BY <1>2
      <4>4. ~([obj[p][o] EXCEPT !.dirty = TRUE].forced /\ [obj[p][o] EXCEPT !.dirty = TRUE].dirty)
        BY <1>2, <4>2, ModesType DEF IInv, Modes
      <4> QED BY <4>1, <4>2, <4>3, <4>4, ModesType, ObjUpdate
    <3>5. PcOK'
      BY <1>2, BoundsAssumption DEF IInv, TypeOK, PcOK
    <3> QED BY <3>1, <3>2, <3>3, <3>4, <3>5 DEF TypeOK, DiskOK, CacheOK, TreeOK, ObjOK,
         PcOK, ObjType
  <2>2. Modes'
    BY <1>2, TreesType DEF IInv, TypeOK, Modes, ObjType
  <2>3. Held'
    BY <1>2, TreesType DEF IInv, TypeOK, Held, Filled, ObjType
  <2>4. Agrees'
    <3> SUFFICES ASSUME whole, NEW r \in Procs, cache[r].tree # 0, cache[r].time = disk.time,
                        NEW w \in Ids, w \notin unsaved'[r][cache[r].tree]
                 PROVE  tree'[r][cache[r].tree][w] = disk.text[w]
      BY <1>2 DEF Agrees
    <3>1. CASE r = p /\ cache[r].tree = obj[p][o].tree
      <4>1. w # v /\ w \notin unsaved[r][cache[r].tree]
        BY <1>2, <3>1, TreesType DEF IInv, TypeOK
      <4>2. tree'[r][cache[r].tree][w] = tree[r][cache[r].tree][w]
        BY <1>2, <3>1, <4>1, TreesType DEF IInv, TypeOK, Texts
      <4> QED BY <4>1, <4>2 DEF IInv, Agrees
    <3>2. CASE ~(r = p /\ cache[r].tree = obj[p][o].tree)
      <4>1. unsaved'[r][cache[r].tree] = unsaved[r][cache[r].tree]
        BY <1>2, <3>2, TreesType DEF IInv, TypeOK
      <4>2. tree'[r][cache[r].tree] = tree[r][cache[r].tree]
        BY <1>2, <3>2, TreesType DEF IInv, TypeOK
      <4> QED BY <4>1, <4>2 DEF IInv, Agrees
    <3> QED BY <3>1, <3>2
  <2>5. OneObject'
    BY <1>2, TreesType DEF IInv, TypeOK, OneObject, ObjType
  <2>6. NoLostUpdate'
    BY <1>2, TreesType DEF IInv, TypeOK, NoLostUpdate, ObjType
  <2> QED BY <2>1, <2>2, <2>3, <2>4, <2>5, <2>6 DEF IInv
<1> QED BY <1>1, <1>2 DEF SetValue, Using, Settings

\* The two steps that end a write which others may interrupt
LEMMA WriteEndsKeeps ==
  ASSUME IInv, NEW p \in Procs, WriteEnds(p) PROVE IInv'
<1>0. ~whole
  BY DEF WriteEnds, IInv, Held
<1>7. PICK o \in Objs : Saved(p, o, disk.time + 1)
  BY DEF WriteEnds, IInv, TypeOK
<1>1. TypeOK'
  <2>1. DiskOK'
    BY <1>7 DEF IInv, TypeOK, DiskOK, Texts, WriteEnds, Settings, Saved
  <2>2. CacheOK'
    BY <1>7 DEF IInv, TypeOK, CacheOK, WriteEnds, Settings, Saved
  <2>3. TreeOK'
    BY <1>7 DEF IInv, TypeOK, TreeOK, Texts, WriteEnds, Settings, Saved
  <2>4. ObjOK'
    <3>1. ObjOK
      BY DEF IInv, TypeOK, ObjOK, ObjType
    <3>2. obj[p][o] \in ObjType
      BY <3>1 DEF ObjOK
    <3>3. obj' = [obj EXCEPT ![p] = [obj[p] EXCEPT ![o] = [obj[p][o] EXCEPT !.dirty = FALSE]]]
      BY <1>7 DEF Saved
    <3>4. ~([obj[p][o] EXCEPT !.dirty = FALSE].forced /\ [obj[p][o] EXCEPT !.dirty = FALSE].dirty)
      BY <3>2, ModesType DEF IInv, Modes
    <3> QED BY <3>1, <3>2, <3>3, <3>4, ModesType, ObjUpdate
  <2>5. PcOK'
    BY DEF IInv, TypeOK, PcOK, WriteEnds
  <2> QED BY <2>1, <2>2, <2>3, <2>4, <2>5 DEF TypeOK, DiskOK, CacheOK, TreeOK, ObjOK,
       PcOK, ObjType
<1>2. Modes'
  BY <1>0, <1>7 DEF IInv, TypeOK, Modes, WriteEnds, Settings, Saved
<1>3. Held'
  BY <1>0, <1>7 DEF IInv, TypeOK, Held, Filled, WriteEnds, Settings, Saved
<1>4. Agrees'
  BY <1>0, <1>7 DEF IInv, TypeOK, Agrees, WriteEnds, Settings, Saved
<1>5. OneObject'
  BY <1>0, <1>7 DEF IInv, TypeOK, OneObject, WriteEnds, Settings, Saved
<1>6. NoLostUpdate'
  BY <1>0, <1>7 DEF IInv, TypeOK, NoLostUpdate, WriteEnds, Settings, Saved
<1> QED BY <1>1, <1>2, <1>3, <1>4, <1>5, <1>6 DEF IInv

LEMMA StampKeeps ==
  ASSUME IInv, NEW p \in Procs, Stamp(p) PROVE IInv'
<1>0. ~whole
  BY DEF Stamp, IInv, Held
<1>7. PICK o \in Objs : Remembered(p, o, disk.time)
  BY DEF Stamp, IInv, TypeOK
<1>1. TypeOK'
  <2>1. DiskOK'
    BY <1>7, TreesType DEF IInv, TypeOK, DiskOK, Texts, Stamp, Settings, Remembered
  <2>2. CacheOK'
    BY <1>7, TreesType DEF IInv, TypeOK, CacheOK, Stamp, Settings, Remembered
  <2>3. TreeOK'
    BY <1>7, TreesType DEF IInv, TypeOK, TreeOK, Texts, Stamp, Settings, Remembered
  <2>4. ObjOK'
    BY <1>7, TreesType DEF IInv, TypeOK, ObjOK, ObjType, Modes, Stamp, Settings,
         Remembered
  <2>5. PcOK'
    BY <1>7, TreesType DEF IInv, TypeOK, PcOK, Stamp, Settings, Remembered
  <2> QED BY <2>1, <2>2, <2>3, <2>4, <2>5 DEF TypeOK, DiskOK, CacheOK, TreeOK, ObjOK,
       PcOK, ObjType
<1>2. Modes'
  BY <1>0, <1>7, TreesType DEF IInv, TypeOK, Modes, Stamp, Settings, Remembered
<1>3. Held'
  BY <1>0, <1>7, TreesType DEF IInv, TypeOK, Held, Filled, Stamp, Settings, Remembered
<1>4. Agrees'
  BY <1>0, <1>7, TreesType DEF IInv, TypeOK, Agrees, Stamp, Settings, Remembered
<1>5. OneObject'
  BY <1>0, <1>7, TreesType DEF IInv, TypeOK, OneObject, Stamp, Settings, Remembered
<1>6. NoLostUpdate'
  BY <1>0, <1>7, TreesType DEF IInv, TypeOK, NoLostUpdate, Stamp, Settings, Remembered
<1> QED BY <1>1, <1>2, <1>3, <1>4, <1>5, <1>6 DEF IInv

\* A write that is whole changes the variables that were set: the tree agrees
\* with the file in all others
LEMMA WriteKeeps ==
  ASSUME IInv, NEW p \in Procs, NEW o \in Objs, obj[p][o].open, TimestampValid(p), whole, Settings,
         Saved(p, o, disk.time + 1), Remembered(p, o, disk.time + 1), UNCHANGED <<tree, pc, sets>>
  PROVE  IInv'
<1> DEFINE t == obj[p][o].tree
<1>1. TypeOK'
  <2>1. DiskOK'
    BY TreesType DEF IInv, TypeOK, DiskOK, Texts, Settings, Saved, Remembered
  <2>2. CacheOK'
    BY TreesType DEF IInv, TypeOK, CacheOK, Settings, Saved, Remembered
  <2>3. TreeOK'
    BY TreesType DEF IInv, TypeOK, TreeOK, Texts, Settings, Saved, Remembered
  <2>4. ObjOK'
    <3>1. ObjOK
      BY DEF IInv, TypeOK, ObjOK, ObjType
    <3>2. obj[p][o] \in ObjType
      BY <3>1 DEF ObjOK
    <3>3. obj' = [obj EXCEPT ![p] = [obj[p] EXCEPT ![o] = [obj[p][o] EXCEPT !.dirty = FALSE]]]
      BY DEF Saved
    <3>4. ~([obj[p][o] EXCEPT !.dirty = FALSE].forced /\ [obj[p][o] EXCEPT !.dirty = FALSE].dirty)
      BY <3>2, ModesType DEF IInv, Modes
    <3> QED BY <3>1, <3>2, <3>3, <3>4, ModesType, ObjUpdate
  <2>5. PcOK'
    BY TreesType DEF IInv, TypeOK, PcOK, Settings, Saved, Remembered
  <2> QED BY <2>1, <2>2, <2>3, <2>4, <2>5 DEF TypeOK, DiskOK, CacheOK, TreeOK, ObjOK,
       PcOK, ObjType
<1>2. Modes'
  BY TreesType DEF IInv, TypeOK, Modes, Settings, Saved, Remembered
<1>3. Held'
  BY TreesType DEF IInv, TypeOK, Held, Filled, Settings, Saved, Remembered
<1>4. Agrees'
  BY TreesType DEF IInv, TypeOK, Agrees, Settings, Saved, Remembered
<1>5. OneObject'
  BY TreesType DEF IInv, TypeOK, OneObject, Settings, Saved, Remembered
<1>6. NoLostUpdate'
  <2> SUFFICES ASSUME whole, alone PROVE disk'.text = given'
    BY DEF NoLostUpdate, Settings
  <2>1. t \in Trees /\ t # 0 /\ t = cache[p].tree
    BY TreesType DEF IInv, TypeOK, OneObject
  <2>2. cache[p].time = disk.time
    BY <2>1 DEF TimestampValid, IInv, Held
  <2>3. \A v \in Ids \ unsaved[p][t] : tree[p][t][v] = given[v]
    BY <2>1, <2>2 DEF IInv, Agrees, NoLostUpdate
  <2>4. given' = [v \in Ids |-> tree[p][t][v]]
    BY <2>3 DEF Saved
  <2> QED BY <2>1, <2>4 DEF IInv, TypeOK, Texts, Saved
<1> QED BY <1>1, <1>2, <1>3, <1>4, <1>5, <1>6 DEF IInv

LEMMA FlushKeeps ==
  ASSUME IInv, NEW p \in Procs, NEW o \in Objs, Flush(p, o) PROVE IInv'
<1>1. CASE Ends(p)
  BY <1>1, EndsKeeps DEF Flush
<1>2. CASE TimestampValid(p) /\ whole
  BY <1>2, WriteKeeps DEF Flush
<1>3. ASSUME ~whole, disk' = [text |-> Empty, time |-> disk.time + 1],
             pc' = [pc EXCEPT ![p].step = "writing", ![p].obj = {o}],
             UNCHANGED <<whole, alone, cache, tree, obj, sets, unsaved, given>>
      PROVE  IInv'
  <2>1. TypeOK'
    <3>1. DiskOK'
      BY <1>3, BoundsAssumption DEF IInv, TypeOK, DiskOK, Texts, Empty
    <3>2. CacheOK'
      BY <1>3, BoundsAssumption DEF IInv, TypeOK, CacheOK
    <3>3. TreeOK'
      BY <1>3, BoundsAssumption DEF IInv, TypeOK, TreeOK, Texts
    <3>4. ObjOK'
      BY <1>3, BoundsAssumption DEF IInv, TypeOK, ObjOK, ObjType, Modes
    <3>5. PcOK'
      BY <1>3, BoundsAssumption DEF IInv, TypeOK, PcOK
    <3> QED BY <3>1, <3>2, <3>3, <3>4, <3>5 DEF TypeOK, DiskOK, CacheOK, TreeOK, ObjOK,
         PcOK, ObjType
  <2>2. Modes'
    BY <1>3 DEF IInv, TypeOK, Modes
  <2>3. Held'
    BY <1>3 DEF IInv, TypeOK, Held, Filled
  <2>4. Agrees'
    BY <1>3 DEF IInv, TypeOK, Agrees
  <2>5. OneObject'
    BY <1>3 DEF IInv, TypeOK, OneObject
  <2>6. NoLostUpdate'
    BY <1>3 DEF IInv, TypeOK, NoLostUpdate
  <2> QED BY <2>1, <2>2, <2>3, <2>4, <2>5, <2>6 DEF IInv
<1> QED BY <1>1, <1>2, <1>3 DEF Flush, Settings

LEMMA NextKeeps == ASSUME IInv, [Next]_vars PROVE IInv'
<1>1. ASSUME NEW p \in Procs, NEW o \in Objs, Open(p, o) PROVE IInv'
  <2>1. PICK f \in BOOLEAN : ReadFile(p, o, [Closed EXCEPT !.open = TRUE, !.forced = f])
    BY <1>1 DEF Open
  <2> DEFINE new == [Closed EXCEPT !.open = TRUE, !.forced = f]
  <2>2. ReadFile(p, o, new)
    BY <2>1
  <2>3. new \in ObjType
    BY TreesType DEF ObjType, Closed
  <2>4. Settings /\ (whole /\ alone => \A q \in Objs \ {o} : ~obj[p][q].open)
    BY <1>1 DEF Open
  <2>5. new.open /\ ~new.dirty /\ ~new.writable
    BY DEF Closed
  <2> HIDE DEF new
  <2> QED BY <2>2, <2>3, <2>4, <2>5, ReadKeeps
<1>2. ASSUME NEW p \in Procs, NEW o \in Objs, ReadXml(p, o) PROVE IInv'
  <2>1. CASE Ends(p)
    BY <1>2, <2>1, EndsKeeps DEF ReadXml, Using
  <2>2. CASE ~obj[p][o].dirty /\ ReadFile(p, o, obj[p][o])
    <3>1. obj[p][o] \in ObjType /\ ~(obj[p][o].forced /\ obj[p][o].writable)
      BY DEF IInv, TypeOK, ObjType, Modes
    <3>2. Settings /\ obj[p][o].open
      BY <1>2 DEF ReadXml, Using
    <3>3. whole /\ alone => \A q \in Objs \ {o} : ~obj[p][q].open
      BY <3>2 DEF IInv, OneObject
    <3> QED BY <2>2, <3>1, <3>2, <3>3, ReadKeeps
  <2> QED BY <1>2, <2>1, <2>2 DEF ReadXml
<1>3. CASE UNCHANGED vars
  BY <1>3 DEF vars, IInv, TypeOK, Texts, Modes, Held, Filled, Agrees, OneObject,
       NoLostUpdate
<1> QED BY <1>1, <1>2, <1>3, RestartKeeps, EnterKeeps, ExitKeeps, SetValueKeeps,
     WriteEndsKeeps,
          StampKeeps, FlushKeeps DEF Next

\* The files of a case hold what was set last, and an unchanged file is in the
\* cache as it is (write, check_timestamp, read), when writes are whole and the
\* objects of a program do not overlap
THEOREM FilesHold == Spec => []FilesInv
<1>1. Init => IInv
  BY InitIInv
<1>2. IInv /\ [Next]_vars => IInv'
  BY NextKeeps
<1>3. IInv => FilesInv
  <2> SUFFICES ASSUME IInv PROVE CacheIsTrue
    BY DEF IInv, FilesInv
  <2> SUFFICES ASSUME whole, NEW p \in Procs, cache[p].tree # 0, cache[p].time = disk.time,
                      unsaved[p][cache[p].tree] = {}
               PROVE  tree[p][cache[p].tree] = disk.text
    BY DEF CacheIsTrue
  <2>1. tree[p][cache[p].tree] \in Texts /\ disk.text \in Texts
    BY DEF IInv, TypeOK
  <2>2. \A v \in Ids : tree[p][cache[p].tree][v] = disk.text[v]
    BY DEF IInv, Agrees
  <2> QED BY <2>1, <2>2 DEF Texts
<1> QED BY <1>1, <1>2, <1>3, PTL DEF Spec

(***************************************************************************)
(* Nothing that was set is dropped.  Of object o of program p one step     *)
(* says: what is set and not written stays so, or is in the file.          *)
(***************************************************************************)
Kept(p, o) ==
  obj[p][o].dirty /\ obj'[p][o].open =>
    LET t == obj[p][o].tree
    IN \/ unsaved[p][t] \subseteq unsaved'[p][obj'[p][o].tree]
       \/ \A v \in unsaved[p][t] : disk'.text[v] = tree[p][t][v]

LEMMA ReadDropsNothing ==
  ASSUME IInv, NEW p \in Procs, NEW o \in Objs, NEW new \in ObjType, ~obj[p][o].dirty,
         ReadFile(p, o, new), NEW r \in Procs, NEW b \in Objs
  PROVE  Kept(r, b)
<1> DEFINE t == Unused(p, o)
<1>1. t \in Trees /\ \A q \in Objs \ {o} : obj[p][q].open => obj[p][q].tree # t
  BY UnusedExists
<1> HIDE DEF t
<1>2. CASE Ends(p)
  BY <1>2 DEF Ends, Kept
<1>3. ASSUME NEW x, obj' = [obj EXCEPT ![p][o] = x],
             unsaved' = unsaved \/ unsaved' = [unsaved EXCEPT ![p][t] = {}]
      PROVE  Kept(r, b)
  <2> SUFFICES ASSUME obj[r][b].dirty PROVE unsaved[r][obj[r][b].tree] \subseteq unsaved'[r][obj'[r][b].tree]
    BY DEF Kept
  <2>1. ~(r = p /\ b = o) /\ obj[r][b].open
    BY DEF IInv, Modes
  <2>2. obj'[r][b] = obj[r][b]
    BY <1>3, <2>1 DEF IInv, TypeOK
  <2>3. ~(r = p /\ obj[r][b].tree = t)
    BY <1>1, <2>1
  <2>4. unsaved'[r][obj[r][b].tree] = unsaved[r][obj[r][b].tree]
    BY <1>1, <1>3, <2>3 DEF IInv, TypeOK
  <2> QED BY <2>2, <2>4
<1> QED BY <1>2, <1>3 DEF ReadFile, t

LEMMA SavedDropsNothing ==
  ASSUME IInv, NEW p \in Procs, NEW o \in Objs, NEW time, Saved(p, o, time), UNCHANGED tree,
         NEW r \in Procs, NEW b \in Objs
  PROVE  Kept(r, b)
<1>1. obj'[r][b].tree = obj[r][b].tree
  BY DEF Saved, IInv, TypeOK
<1>2. CASE r = p /\ obj[r][b].tree = obj[p][o].tree
  BY <1>2 DEF Saved, Kept
<1>3. CASE ~(r = p /\ obj[r][b].tree = obj[p][o].tree)
  <2>1. unsaved'[r][obj[r][b].tree] = unsaved[r][obj[r][b].tree]
    BY <1>3 DEF Saved, IInv, TypeOK
  <2> QED BY <1>1, <2>1 DEF Kept
<1> QED BY <1>2, <1>3

LEMMA StepDropsNothing ==
  ASSUME IInv, [Next]_vars, NEW r \in Procs, NEW b \in Objs PROVE Kept(r, b)
<1>1. ASSUME NEW p \in Procs, NEW o \in Objs, Open(p, o) PROVE Kept(r, b)
  <2>1. PICK f \in BOOLEAN : ReadFile(p, o, [Closed EXCEPT !.open = TRUE, !.forced = f])
    BY <1>1 DEF Open
  <2>2. [Closed EXCEPT !.open = TRUE, !.forced = f] \in ObjType
    BY TreesType DEF ObjType, Closed
  <2>3. ~obj[p][o].dirty
    BY <1>1 DEF Open, IInv, Modes
  <2> QED BY <2>1, <2>2, <2>3, ReadDropsNothing
<1>2. ASSUME NEW p \in Procs, NEW o \in Objs, ReadXml(p, o) PROVE Kept(r, b)
  <2>1. CASE Ends(p)
    BY <2>1 DEF Ends, Kept
  <2>2. CASE ~obj[p][o].dirty /\ ReadFile(p, o, obj[p][o])
    <3>1. obj[p][o] \in ObjType
      BY DEF IInv, TypeOK, ObjType
    <3> QED BY <2>2, <3>1, ReadDropsNothing
  <2> QED BY <1>2, <2>1, <2>2 DEF ReadXml
<1>3. ASSUME NEW p \in Procs, NEW o \in Objs, Enter(p, o) PROVE Kept(r, b)
  <2>1. obj'[r][b].tree = obj[r][b].tree /\ UNCHANGED unsaved
    BY <1>3 DEF Enter, IInv, TypeOK
  <2> QED BY <2>1 DEF Kept
<1>4. ASSUME NEW p \in Procs, NEW o \in Objs, SetValue(p, o) PROVE Kept(r, b)
  <2>1. CASE Ends(p)
    BY <2>1 DEF Ends, Kept
  <2>2. ASSUME NEW v \in Ids, obj' = [obj EXCEPT ![p][o].dirty = TRUE],
               unsaved' = [unsaved EXCEPT ![p][obj[p][o].tree] = @ \cup {v}]
        PROVE  Kept(r, b)
    <3>1. obj'[r][b].tree = obj[r][b].tree
      BY <2>2 DEF IInv, TypeOK
    <3>2. unsaved[r][obj[r][b].tree] \subseteq unsaved'[r][obj[r][b].tree]
      BY <2>2 DEF IInv, TypeOK
    <3> QED BY <3>1, <3>2 DEF Kept
  <2> QED BY <1>4, <2>1, <2>2 DEF SetValue
<1>5. ASSUME NEW p \in Procs, NEW o \in Objs, Flush(p, o) PROVE Kept(r, b)
  <2>1. CASE Saved(p, o, disk.time + 1) /\ UNCHANGED tree
    BY <2>1, SavedDropsNothing
  <2>2. CASE UNCHANGED <<obj, unsaved>>
    BY <2>2 DEF Kept
  <2> QED BY <1>5, <2>1, <2>2 DEF Flush, Ends
<1>6. ASSUME NEW p \in Procs, NEW o \in Objs, Exit(p, o) PROVE Kept(r, b)
  <2>1. obj[r][b].dirty => obj'[r][b] = obj[r][b] /\ UNCHANGED unsaved
    BY <1>6 DEF Exit, IInv, TypeOK
  <2> QED BY <2>1 DEF Kept
<1>7. ASSUME NEW p \in Procs, WriteEnds(p) PROVE Kept(r, b)
  <2>1. PICK o \in Objs : Saved(p, o, disk.time + 1)
    BY <1>7 DEF WriteEnds, IInv, TypeOK
  <2> QED BY <1>7, <2>1, SavedDropsNothing DEF WriteEnds
<1>8. ASSUME NEW p \in Procs, Stamp(p) PROVE Kept(r, b)
  BY <1>8 DEF Stamp, Kept
<1>9. ASSUME NEW p \in Procs, Restart(p) PROVE Kept(r, b)
  <2>1. CASE r = p
    <3>1. ~obj'[r][b].open
      BY <1>9, <2>1 DEF Restart, Closed, IInv, TypeOK
    <3> QED BY <3>1 DEF Kept
  <2>2. CASE r # p
    <3>1. obj'[r][b] = obj[r][b] /\ unsaved'[r] = unsaved[r]
      BY <1>9, <2>2 DEF Restart, IInv, TypeOK
    <3> QED BY <3>1 DEF Kept
  <2> QED BY <2>1, <2>2
<1>10. CASE UNCHANGED vars
  BY <1>10 DEF vars, Kept
<1> QED BY <1>1, <1>2, <1>3, <1>4, <1>5, <1>6, <1>7, <1>8, <1>9, <1>10 DEF Next

\* Whatever the objects and programs do, what was set in an object that lives
\* is in the file or still to be written (read_xml, flush)
THEOREM NothingDroppedHolds == Spec => NothingDropped
<1>1. Init => IInv
  BY InitIInv
<1>2. IInv /\ [Next]_vars => IInv'
  BY NextKeeps
<1>3. IInv /\ [Next]_vars => [\A p \in Procs, o \in Objs : Kept(p, o)]_vars
  BY StepDropsNothing
<1>4. (\A p \in Procs, o \in Objs : Kept(p, o)) <=>
      (\A p \in Procs, o \in Objs :
         obj[p][o].dirty /\ obj'[p][o].open =>
           LET t == obj[p][o].tree
           IN \/ unsaved[p][t] \subseteq unsaved'[p][obj'[p][o].tree]
              \/ \A v \in unsaved[p][t] : disk'.text[v] = tree[p][t][v])
  BY DEF Kept
<1> QED BY <1>1, <1>2, <1>3, <1>4, PTL DEF Spec, NothingDropped
===============================================================================
