----------------------------- MODULE RestartTests -----------------------------
(***************************************************************************)
(* The tests that stop and restart the model (SystemTests/ers.py, erio.py, *)
(* eri.py, restart_tests.py, irt.py, err.py, erp.py, dae.py).  A test is a *)
(* sequence of model runs, its legs; a leg sets values of env_run.xml,     *)
(* which stay for the next leg, and begins from the start or from restart  *)
(* files an earlier leg left.  Times are in units of STOP_OPTION since the *)
(* start of the run the leg is compared with.  A leg may be killed, and    *)
(* the test submitted again over whatever is left.                         *)
(***************************************************************************)
EXTENDS RestartDates, Sequences

CONSTANTS
  Tests,      \* the tests, see TestAssumption
  MaxTries    \* bound on the submissions of a test

\* kind, STOP_N, STOP_OPTION and what the restart interval depends on; start;
\* named: the driver has DRV_RESTART_POINTER; parts: the types of PIO of an
\* ERIO or the assimilation cycles of a DAE
ASSUME TestAssumption == \A t \in Tests :
  /\ t.kind \in {"ERS", "ERIO", "ERI", "IRT", "ERR", "ERP", "DAE"}
  /\ t.stop \in Nat \ {0} /\ t.rest \in Nat /\ t.parts \in Nat \ {0}
  /\ t.option \in {"nsteps", "nminutes", "nhours", "ndays", "nyears"}
  /\ t.cal \in {"NO_LEAP", "GREGORIAN"} /\ t.named \in BOOLEAN /\ t.mct \in BOOLEAN
  /\ t.base \in {"hour", "day", "year", "decade"}
  /\ t.most \in 1..Secs[t.base] /\ t.least \in 1..Secs[t.base]
  /\ t.start \in StartTimes

\* What a test must respect for its legs to fit: an interval given in
\* shell_commands leaves as many restarts in the first run as are looked for
Fits(t) ==
  /\ t.rest # 0 => \/ t.kind \in {"ERIO", "DAE"}
                   \/ (t.kind = "ERS" /\ t.named)
                   \/ (t.kind = "IRT" /\ 2 * t.rest <= t.stop)
                   \/ (t.kind \in {"ERS", "ERR", "ERP"} /\ 2 * t.rest > t.stop)
  /\ t.kind = "ERIO" => t.parts <= 2
  /\ t.kind = "DAE" => t.parts >= 2

\* The time computed with python's dates is that of the model
DatesAgree(t) ==
  LET half == RestartInterval(t, t.stop)
      stop2 == t.stop - t.stop \div 6
      rest2 == RestartInterval(t, stop2)
      rest3 == RestartInterval(t, stop2 - rest2)
      later == [t.start EXCEPT !.date.y = @ + 4]
  IN /\ t.kind \in {"ERS", "IRT", "ERP"} => RestTime(t, t.start, half) = ModelTime(t, t.start, half)
     /\ t.kind = "ERI" =>
          /\ RestTime(t, later, rest2) = ModelTime(t, later, rest2)
          /\ RestTime(t, ModelTime(t, later, rest2), rest3) = ModelTime(t, later, rest2 + rest3)

ASSUME MaxTriesAssumption == MaxTries \in Nat

VARIABLES
  test,     \* the test
  leg,      \* the next leg
  i, j,     \* the types of PIO of an ERIO, the cycle of a DAE
  env,      \* values of env_run.xml of the first and the second case
  dir,      \* per run directory its restarts, and the one its rpointers name
  arch,     \* the restart the leg began from, in the archive
  runs,     \* history: the runs of this submission, by name
  pairs,    \* history: the runs compared
  tries

legVars == <<test, leg, i, j, env, dir, arch, runs, pairs, tries>>

Origin(by) == [by |-> by, at |-> 0, try |-> 0, time |-> [date |-> [y |-> 1, m |-> 1, d |-> 1], tod |-> 0]]
None  == Origin(<<"none", 0, 0>>)
Start == Origin(<<"start", 0, 0>>)

Base == <<"base", 0, 0>>
Rest == <<"rest", 0, 0>>

RestartInit ==
  /\ test \in Tests /\ i = 1 /\ j = 1 /\ tries = 0
  /\ leg = (IF test.kind \in {"IRT", "ERR", "ERP", "DAE"} THEN "setup" ELSE "idle")
  /\ env = [c \in 1..3 |-> [stop |-> test.stop, rest |-> test.stop, cont |-> FALSE, pointer |-> None.time]]
  /\ dir = [c \in 1..3 |-> [files |-> {}, last |-> None]] /\ arch = {}
  /\ runs = {} /\ pairs = {}

(***************************************************************************)
(* A run of the model: run_indv, case_run and, outside the sources, the    *)
(* model.  Case c runs with the values e in its run directory, which holds *)
(* d; o is the start of the time axis.  A continued run reads the restart  *)
(* DRV_RESTART_POINTER names, or where the driver has none the one of the  *)
(* rpointer files.  Restarts are written every e.rest units; 0 is never.   *)
(***************************************************************************)
\* A leg sets STOP_N, REST_N and CONTINUE_RUN; DRV_RESTART_POINTER stays.
Sets(e, stop, rest, cont) == [stop |-> stop, rest |-> rest, cont |-> cont, pointer |-> e.pointer]

Read(d, e) == IF test.named THEN {r \in d.files : r.time = e.pointer} ELSE {d.last} \ {None}

Written(name, o, from, to, every) ==
  {[by |-> name, at |-> from + k * every, try |-> tries, time |-> ModelTime(test, o, from + k * every)]
     : k \in IF every = 0 THEN {} ELSE {l \in 1 .. (to - from) : l * every <= to - from}}

Newest(S) == CHOOSE r \in S : \A q \in S : q.at <= r.at
Oldest(S) == CHOOSE r \in S : \A q \in S : r.at <= q.at

\* New restarts in a directory; one of the same time replaces the one there
Put(d, new) ==
  [files |-> {r \in d.files : \A n \in new : n.time # r.time} \cup new,
   last  |-> IF new = {} THEN d.last ELSE Newest(new)]

\* After the run DRV_RESTART_POINTER is set to the newest pointer file
Repoint(e, d) == IF d.last = None THEN e ELSE [e EXCEPT !.pointer = d.last.time]

\* The leg runs from one of the restarts in from to its end, is killed on the
\* way, or does not find what it begins from; compared is what a whole leg adds
Run(name, c, e, d, from, o, next, compared) ==
  \/ /\ from = {} /\ leg' = "lost"
     /\ env' = [env EXCEPT ![c] = e] /\ dir' = [dir EXCEPT ![c] = d] /\ UNCHANGED <<runs, pairs>>
  \/ \E r \in from : \E to \in r.at .. (r.at + e.stop) :
       LET after == Put(d, Written(name, o, r.at, to, e.rest))
           whole == to = r.at + e.stop
       IN /\ dir' = [dir EXCEPT ![c] = after]
          /\ env' = [env EXCEPT ![c] = IF whole THEN Repoint(e, after) ELSE e]
          /\ leg' = (IF whole THEN next ELSE "failed")
          /\ runs' = runs \cup {[name |-> name, from |-> r, to |-> to]}
          /\ pairs' = IF whole THEN pairs \cup compared ELSE pairs

TooShort == leg' = "short" /\ UNCHANGED <<env, dir, arch, runs, pairs>>

(***************************************************************************)
(* Submission: case.submit sets the values of env_test.xml again.  That of *)
(* an ERI has no CONTINUE_RUN; the second case is not touched.             *)
(***************************************************************************)
\* Mutant: the values the last leg left stay.
SubmitAsLeft ==
  /\ leg \in {"idle", "failed", "ended"} /\ tries < MaxTries
  /\ tries' = tries + 1 /\ leg' = "first" /\ i' = 1 /\ j' = 1 /\ runs' = {} /\ pairs' = {}
  /\ env' = [env EXCEPT ![1] = Sets(env[1], env[1].stop, env[1].rest, env[1].cont /\ test.kind = "ERI")]
  /\ UNCHANGED <<test, dir, arch>>

Submit ==
  /\ leg \in {"idle", "failed", "ended"} /\ tries < MaxTries
  /\ tries' = tries + 1 /\ leg' = "first" /\ i' = 1 /\ j' = 1 /\ runs' = {} /\ pairs' = {}
  /\ env' = [env EXCEPT ![1] = Sets(env[1], test.stop, env[1].rest, env[1].cont /\ test.kind = "ERI")]
  /\ UNCHANGED <<test, dir, arch>>

At(place, kinds) == leg = place /\ test.kind \in kinds /\ UNCHANGED <<test, tries>>

(***************************************************************************)
(* ERS: the case itself runs on from its restart.                          *)
(***************************************************************************)
ErsFirst ==
  /\ At("first", {"ERS"}) /\ UNCHANGED <<i, j, arch>>
  /\ IF ~LongEnough(test, env[1].stop) THEN TooShort
     ELSE Run(Base, 1, Sets(env[1], env[1].stop, RestartInterval(test, env[1].stop), env[1].cont),
              dir[1], {Start}, test.start, "second", {})

ErsSecond ==
  /\ At("second", {"ERS"}) /\ UNCHANGED <<i, j, arch>>
  /\ LET e == [stop |-> env[1].stop - env[1].rest, rest |-> 0, cont |-> TRUE,
               pointer |-> RestTime(test, test.start, env[1].rest)]
     IN Run(Rest, 1, e, dir[1], Read(dir[1], e), test.start, "ended", {<<Base, Rest>>})

(***************************************************************************)
(* ERIO: a whole run with each type of PIO, continued with each later one. *)
(***************************************************************************)
ErioRest == test.stop \div 2 + 1

\* Only the restarted runs set STOP_N
ErioFull ==
  /\ At("first", {"ERIO"}) /\ UNCHANGED <<i, arch>>
  /\ IF test.stop <= 2 THEN TooShort /\ UNCHANGED j
     ELSE /\ Run(<<"full", i, 0>>, 1, Sets(env[1], env[1].stop, ErioRest, FALSE),
                 dir[1], {Start}, test.start, IF i = test.parts THEN "ended" ELSE "second", {})
          /\ j' = i + 1

ErioRestart ==
  /\ At("second", {"ERIO"}) /\ UNCHANGED arch
  /\ LET e    == Sets(env[1], test.stop - ErioRest, 0, TRUE)
         name == <<"restart", i, j>>
     IN Run(name, 1, e, dir[1], Read(dir[1], e), test.start,
            IF j < test.parts THEN "second" ELSE "first", {<<<<"full", i, 0>>, name>>})
  /\ IF j < test.parts THEN j' = j + 1 /\ UNCHANGED i ELSE i' = i + 1 /\ UNCHANGED j

(***************************************************************************)
(* ERI: a startup run (case 3), a hybrid run of a clone from its restart   *)
(* four years later (case 2), a branch from the hybrid's restart and a     *)
(* continuation of the branch (case 1).                                    *)
(***************************************************************************)
Stop1 == test.stop \div 6
Stop2 == test.stop - Stop1
Rest2 == RestartInterval(test, Stop2)
Stop3 == Stop2 - Rest2
Rest3 == RestartInterval(test, Stop3)
Start2 == [test.start EXCEPT !.date.y = @ + 4]

EriRef1 ==
  /\ At("first", {"ERI"}) /\ UNCHANGED <<i, j, arch>>
  /\ IF \/ ~LongEnough(test, Stop2) \/ ~LongEnough(test, Stop3)
        \/ Stop3 - Rest3 < 1 \/ Stop1 < 1
     THEN TooShort
     ELSE Run(<<"ref1", 0, 0>>, 3, Sets(env[3], Stop1, Stop1, FALSE),
              dir[3], {Start}, test.start, "hybrid", {})

\* The archiver has put the last restart of the run of case c aside
Archived(c) == {dir[c].last} \ {None}

EriHybrid ==
  /\ At("hybrid", {"ERI"}) /\ UNCHANGED <<i, j>> /\ arch' = Archived(3)
  /\ Run(<<"hybrid", 0, 0>>, 2, Sets(env[2], Stop2, Rest2, FALSE),
         dir[2], {[r EXCEPT !.at = 0] : r \in Archived(3)}, Start2, "branch", {})

\* The pointer was computed from the start of the hybrid run before it ran
EriBranch ==
  /\ At("branch", {"ERI"}) /\ UNCHANGED <<i, j>> /\ arch' = Archived(2)
  /\ LET e == [stop |-> Stop3, rest |-> Rest3, cont |-> FALSE, pointer |-> RestTime(test, Start2, Rest2)]
         d == Put(dir[1], Archived(2))
     IN Run(<<"branch", 0, 0>>, 1, e, d, Read(d, e), Start2, "second", {<<<<"hybrid", 0, 0>>, <<"branch", 0, 0>>>>})

EriRest ==
  /\ At("second", {"ERI"}) /\ UNCHANGED <<i, j, arch>>
  /\ LET e == [stop |-> Stop3 - Rest3, rest |-> 0, cont |-> TRUE,
               pointer |-> RestTime(test, Newest(arch).time, Rest3)]
     IN Run(Rest, 1, e, dir[1], Read(dir[1], e), Start2, "ended", {<<<<"branch", 0, 0>>, Rest>>})

(***************************************************************************)
(* The tests with a second case (CompareTwo has the two cases).            *)
(***************************************************************************)
\* The build: _case_one_setup and _case_two_setup
SetupCases ==
  /\ At("setup", {"IRT", "ERR", "ERP"}) /\ UNCHANGED <<i, j>>
  /\ IF test.stop < 3 \/ ~LongEnough(test, test.stop) THEN TooShort
     ELSE LET every == RestartInterval(test, test.stop)
          IN /\ env' = [env EXCEPT ![1] = Sets(env[1], env[1].stop, every, env[1].cont),
                          ![2] = [stop |-> test.stop - every, rest |-> 0, cont |-> TRUE,
                                  pointer |-> RestTime(test, test.start, every)]]
             /\ leg' = "idle" /\ UNCHANGED <<dir, arch, runs, pairs>>

SetupDae ==
  /\ At("setup", {"DAE"}) /\ UNCHANGED <<i, j>>
  /\ IF test.stop % test.parts # 0 THEN TooShort
     ELSE LET stop == test.stop \div test.parts
          IN /\ env' = [env EXCEPT ![2] = Sets(env[2], stop, stop, env[2].cont)]
             /\ leg' = "idle" /\ UNCHANGED <<dir, arch, runs, pairs>>

\* The first case; a DAE begins by setting CONTINUE_RUN of the second back
CaseOne ==
  /\ At("first", {"IRT", "ERR", "ERP", "DAE"}) /\ UNCHANGED <<i, j, arch>>
  /\ Run(Base, 1, env[1], dir[1], {Start}, test.start, IF test.kind = "DAE" THEN "reset" ELSE "second", {})

ResetDae ==
  /\ At("reset", {"DAE"}) /\ leg' = "second" /\ env' = [env EXCEPT ![2] = Sets(env[2], env[2].stop, env[2].rest, FALSE)]
  /\ UNCHANGED <<i, j, dir, arch, runs, pairs>>

\* What is restored into the second case's run directory: the oldest of at
\* least two archived restarts, the one in the middle, or the last one
Restored ==
  LET kept == dir[1].files
  IN IF test.kind = "IRT" THEN IF Cardinality(kept) < 2 THEN {} ELSE {Oldest(kept)}
     ELSE IF test.kind = "ERR"
     THEN {r \in kept : Cardinality({q \in kept : q.at < r.at}) = Cardinality(kept) \div 2}
     ELSE Archived(1)

CaseTwo ==
  /\ At("second", {"IRT", "ERR", "ERP"}) /\ UNCHANGED <<i, j>> /\ arch' = Restored
  /\ LET d == Put(dir[2], Restored)
         e == IF test.kind = "ERR" THEN Repoint(env[2], d) ELSE env[2]
     IN Run(Rest, 2, e, d, Read(d, e), test.start, "ended", {<<Base, Rest>>})

\* A data assimilation cycle; all but the first continue
DaeCycle ==
  /\ At("second", {"DAE"}) /\ UNCHANGED <<i, arch>>
  /\ LET e    == Sets(env[2], env[2].stop, env[2].rest, env[2].cont \/ j > 1)
         name == <<"da", j, 0>>
         last == j = test.parts
     IN /\ Run(name, 2, e, dir[2], IF e.cont THEN Read(dir[2], e) ELSE {Start}, test.start,
               IF last THEN "ended" ELSE "second", IF last THEN {<<Base, name>>} ELSE {})
        /\ j' = j + 1

RestartNext ==
  \/ Submit \/ ErsFirst \/ ErsSecond \/ ErioFull \/ ErioRestart
  \/ EriRef1 \/ EriHybrid \/ EriBranch \/ EriRest
  \/ SetupCases \/ SetupDae \/ CaseOne \/ ResetDae \/ CaseTwo \/ DaeCycle

RestartSpec == RestartInit /\ [][RestartNext]_legVars
-----------------------------------------------------------------------------
RunOf(name) == CHOOSE r \in runs : r.name = name

\* The variables keep their types and STOP_N stays positive.
LegTypes ==
  /\ test \in Tests
  /\ leg \in {"setup", "idle", "first", "hybrid", "branch", "reset", "second", "ended", "failed", "short", "lost"}
  /\ \A c \in 1..3 : env[c].stop \in 1..test.stop /\ env[c].rest \in 0..test.stop /\ env[c].cont \in BOOLEAN
  /\ \A c \in 1..3 : dir[c].last = None \/ dir[c].last \in dir[c].files
  /\ tries \in 0..MaxTries

\* A leg that begins from a restart finds it: the time computed for
\* DRV_RESTART_POINTER from python's dates (_set_restart_interval) is the one
\* the model wrote, and the directory holds it.
FindsItsRestart == leg # "lost"

\* Two runs are compared only at the same model time, the end of the length
\* the test was created with: what legs left in env_run.xml does not change it.
EndTogether == \A p \in pairs :
  RunOf(p[1]).to = RunOf(p[2]).to
  /\ RunOf(p[1]).to = IF test.kind = "ERI" THEN Stop2 ELSE test.stop

\* A continued run begins strictly inside the run it is compared with, from a
\* restart of this submission that this run wrote: the comparison is about the
\* restart.  (The cycles of a DAE continue each other.)
FromReference == \A p \in pairs :
  LET a == RunOf(p[1])
      b == RunOf(p[2])
  IN /\ a.from.at < b.from.at /\ b.from.at < a.to
     /\ b.from.try = tries /\ (b.from.by = p[1] \/ test.kind = "DAE")

\* Compared runs end together, and the later one restarts inside the other
RestartInv == LegTypes /\ EndTogether /\ FromReference
===============================================================================
