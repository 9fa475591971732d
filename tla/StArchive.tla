------------------------------- MODULE StArchive -------------------------------
(***************************************************************************)
(* The short-term archiver (case_st_archive.py): which restart sets,       *)
(* pointer files and history files it copies, moves, removes or leaves in  *)
(* the run directory, and what can be continued afterwards, when the model *)
(* and the archiver may both be killed.  Only a kill comes between two     *)
(* calls of the archiver, which runs alone: what it does to one component  *)
(* is an action, and RestartCut and HistoryCut are what a kill amid leaves.*)
(*                                                                         *)
(* A file name carries a date.  Dates are days 1..Days; the model writes   *)
(* a restart set every day and, per component, history files that hold     *)
(* Width days and are named by their first.  A restart file lists the      *)
(* history file that is still open (rest_history_varname).  Pointer files  *)
(* carry no date, and there is a content to write them from.               *)
(***************************************************************************)
EXTENDS Integers, Sequences, FiniteSets, SequencesExt, FiniteSetsExt

CONSTANTS
  Order,      \* the components in archiving order, as a sequence; "cpl" is last
  Days,       \* bound on the simulated time
  StopN,      \* days of one run
  Width,      \* days of a history file
  LastDates,  \* values of --last-date the user may give, NoDate among them
  CopyOnly,   \* values of copy_only
  Many,       \* components with several pointer files (NINST > 1), not the coupler
  MaxKills,   \* bound on kills of the model or the archiver
  NoDate

Comps == ToSet(Order)
Cpl   == Order[Len(Order)]
Dates == 1..Days
Starts == {s \in Dates : (s - 1) % Width = 0}

ASSUME OrderAssumption == Order \in Seq(Comps) /\ Len(Order) > 0 /\ IsInjective(Order)
ASSUME LengthAssumption == {Days, MaxKills} \subseteq Nat /\ {StopN, Width} \subseteq Nat \ {0}
ASSUME ManyAssumption == Many \subseteq Comps \ {Cpl}
ASSUME LastDatesAssumption == LastDates \subseteq Dates \cup {NoDate} /\ CopyOnly \subseteq BOOLEAN

VARIABLES
  interim,  \* DOUT_S_SAVE_INTERIM_RESTART_FILES
  run,      \* RUNDIR: restart files r, history files h, pointer files rp
  rest,     \* DOUT_S_ROOT/rest: the set saved for a date, or Absent
  newest,   \* the directory under rest last modified, 0 if there is none
  hist,     \* DOUT_S_ROOT/*/hist
  model,    \* the running model: the day it is at, the end, who wrote restarts
  job,      \* the archiver: where it is in its loops, what to keep, whether it ended
  kills,    \* how many kills so far
  torn,     \* history: the model was killed while it wrote a restart set
  cut,      \* history: dates whose archiving was cut short and not made up for
  spoiled   \* history: dates with a restart moved, but not the history it lists

vars == <<interim, run, rest, newest, hist, model, job, kills, torn, cut, spoiled>>

\* A history file is its last recorded day, 0 when there is none
HistFiles == [Comps -> [Starts -> 0..Days]]
Sets      == [r : SUBSET Comps, h : HistFiles, rp : [Comps -> 0..Days]]
Runs      == [r : [Comps -> SUBSET Dates], h : HistFiles, rp : [Comps -> 0..Days]]
Absent    == [r |-> {"absent"}]
NoHist    == [c \in Comps |-> [s \in Starts |-> 0]]
EmptySet  == [r |-> {}, h |-> NoHist, rp |-> [c \in Comps |-> 0]]

Models == [on : BOOLEAN, at : 0..Days, end : 0..Days, wrote : SUBSET Comps]
Jobs   == [at : {"off", "rpointer", "restart", "history"}, left : SUBSET Dates, i : 1..Len(Order),
           keep : [Comps -> SUBSET Starts], last : LastDates \cup {NoDate}, copy : BOOLEAN,
           latest : 0..Days, done : BOOLEAN]
Off  == [on |-> FALSE, at |-> 0, end |-> 0, wrote |-> {}]
Idle == [at |-> "off", left |-> {}, i |-> 1, keep |-> [c \in Comps |-> {}], last |-> NoDate,
         copy |-> FALSE, latest |-> 0, done |-> FALSE]
ArchiverOn == job.at # "off"

Init ==
  /\ interim \in BOOLEAN
  /\ run = [r |-> [c \in Comps |-> {}], h |-> NoHist, rp |-> [c \in Comps |-> 0]]
  /\ rest = [d \in Dates |-> Absent] /\ newest = 0 /\ hist = NoHist
  /\ model = Off /\ job = Idle /\ kills = 0 /\ torn = FALSE /\ cut = {} /\ spoiled = {}

(***************************************************************************)
(* The model (external)                                                    *)
(***************************************************************************)
\* The history file open after day d, which the restart of day d lists
Open(d) == {s \in Starts : s <= d /\ d < s + Width - 1}
FileOf(d) == CHOOSE s \in Starts : s <= d /\ d < s + Width

\* A restart needs one date in every pointer file, and the files it names
Consistent(d) ==
  \A c \in Comps : /\ run.rp[c] = d
                   /\ d > 0 => /\ d \in run.r[c]
                               /\ \A s \in Open(d) : run.h[c][s] >= d

\* The model starts or continues, from where the pointer files point, and
\* rewinds the open history file to that day
ModelStart ==
  LET d == run.rp[Cpl]
  IN  /\ ~model.on /\ ~ArchiverOn /\ Consistent(d) /\ d + StopN <= Days
      /\ model' = [on |-> TRUE, at |-> d, end |-> d + StopN, wrote |-> Comps]
      /\ run' = [run EXCEPT !.h = [c \in Comps |-> [s \in Starts |->
                   IF s \in Open(d) THEN d ELSE run.h[c][s]]]]
      /\ job' = Idle
      /\ UNCHANGED <<interim, rest, newest, hist, kills, torn, cut, spoiled>>

ModelDay ==
  LET d == model.at + 1
  IN  /\ model.on /\ model.wrote = Comps /\ model.at < model.end
      /\ model' = [model EXCEPT !.at = d, !.wrote = {}]
      /\ run' = [run EXCEPT !.h = [c \in Comps |-> [run.h[c] EXCEPT ![FileOf(d)] = d]]]
      /\ UNCHANGED <<interim, rest, newest, hist, job, kills, torn, cut, spoiled>>

\* A component writes its restart and its pointer file, the coupler last:
\* "we are assuming that the coupler restart files exist and are consistent
\* with other component datenames" (_get_datenames)
ModelRestart(c) ==
  /\ model.on /\ c \notin model.wrote /\ (c = Cpl => model.wrote = Comps \ {Cpl})
  /\ model' = [model EXCEPT !.wrote = @ \cup {c}]
  /\ run' = [run EXCEPT !.r[c] = @ \cup {model.at}, !.rp[c] = model.at]
  /\ UNCHANGED <<interim, rest, newest, hist, job, kills, torn, cut, spoiled>>

ModelEnd ==
  /\ model.on /\ model.at = model.end /\ model.wrote = Comps
  /\ model' = Off
  /\ UNCHANGED <<interim, run, rest, newest, hist, job, kills, torn, cut, spoiled>>

ModelKilled ==
  /\ model.on /\ kills < MaxKills
  /\ kills' = kills + 1
  /\ torn' = (torn \/ model.wrote \notin {{}, Comps})
  /\ model' = Off
  /\ UNCHANGED <<interim, run, rest, newest, hist, job, cut, spoiled>>

(***************************************************************************)
(* The archiver                                                            *)
(***************************************************************************)
Within(d, last) == last = NoDate \/ d <= last

\* The dates are those of the coupler's restart files; for each, every component's
\* pointer files and then its restart files; at the end the history files
ArchiveBegin(last, copy) ==
  LET dates == {d \in run.r[Cpl] : Within(d, last)}
  IN  /\ ~model.on /\ ~ArchiverOn
      /\ job' = [at |-> IF dates = {} THEN "history" ELSE "rpointer", left |-> dates, i |-> 1,
                 keep |-> Idle.keep, last |-> last, copy |-> copy,
                 latest |-> Max({0} \cup run.r[Cpl]), done |-> FALSE]
      /\ UNCHANGED <<interim, run, rest, newest, hist, model, kills, torn, cut, spoiled>>

\* Mutant: the dates are taken from the last to the first.
LastDateFirst(dates) == Max(dates)
\* _get_datenames sorts the files by name
FirstDate(dates) == Min(dates)
ThisDate == FirstDate(job.left)
ThisComp == Order[job.i]

\* The next turn of the loops over the dates and the components
NextTurn ==
  IF job.i < Len(Order) THEN [at |-> "rpointer", left |-> job.left, i |-> job.i + 1]
  ELSE [at |-> IF job.left = {ThisDate} THEN "history" ELSE "rpointer",
        left |-> job.left \ {ThisDate}, i |-> 1]

\* Directory of date d, made if need be
RestDir(d) == IF rest[d] = Absent THEN EmptySet ELSE rest[d]
\* A new entry, or a file renamed over an old one, makes the directory the
\* last modified; a file copied over an old one does not
Enter(d, new, touch) ==
  /\ rest' = [rest EXCEPT ![d] = new]
  /\ newest' = IF touch \/ rest[d] = Absent THEN d ELSE newest

\* Mutant: the pointer file of an interim set is the one of the run directory.
InterimPointerCopied(d, c) == run.rp[c]
\* The pointer file of an interim set is written from rpointer_content
InterimPointer(d, c) == d

\* Several pointer files are taken for the ones of this date ("If timestamped
\* rpointers exist use them") and leave the run directory with the first set
PointersMoved(d, c) == d # job.latest /\ interim /\ c \in Many /\ run.rp[c] > 0

\* _archive_rpointer_files: those of the run directory for the last date
Rpointer ==
  LET d == ThisDate
      c == ThisComp
      pointer == IF d # job.latest /\ ~PointersMoved(d, c) THEN InterimPointer(d, c)
                 ELSE IF run.rp[c] > 0 THEN run.rp[c] ELSE RestDir(d).rp[c]
  IN  /\ job.at = "rpointer"
      /\ IF d = job.latest \/ interim
         THEN Enter(d, [RestDir(d) EXCEPT !.rp[c] = pointer],
                    RestDir(d).rp[c] = 0 \/ PointersMoved(d, c))
         ELSE UNCHANGED <<rest, newest>>
      /\ run' = IF PointersMoved(d, c) THEN [run EXCEPT !.rp[c] = 0] ELSE run
      /\ job' = [job EXCEPT !.at = "restart"]
      /\ UNCHANGED <<interim, hist, model, kills, torn, cut, spoiled>>

\* get_histfiles_for_restarts: those that exist in the run directory
NeededHistory(c, d) == {s \in Open(d) : run.h[c][s] > 0}
\* Mutant: the history files of the last restart set are not kept.
KeptNothing(c, d) == {}
Kept(c, d) == NeededHistory(c, d)

\* A restart file in a set, and the history files copied along with it
WithHistory(set, c, copied) ==
  [set EXCEPT !.r = @ \cup {c},
              !.h[c] = [s \in Starts |-> IF s \in copied THEN run.h[c][s] ELSE @[s]]]

\* Mutant: the last set is moved like the others.
LastStays(d) == FALSE
\* The last restart set stays in the run directory
Stays(d) == d = job.latest

\* An interim set is moved, copied, or removed if it is not to be saved: then
\* also when copy_only is given
Remaining(c, d) == IF Stays(d) \/ (interim /\ job.copy) THEN run.r[c] ELSE run.r[c] \ {d}

Saved(d) == Stays(d) \/ interim

\* _archive_restarts_date_comp, one component of one date, with `copied` of the
\* history files it lists.  A directory is made for every date that has a file,
\* also when the file is then removed.
ToArchive(c, d, copied) ==
  IF d \notin run.r[c] THEN UNCHANGED <<run, rest, newest>>
  ELSE /\ Enter(d, IF Saved(d) THEN WithHistory(RestDir(d), c, copied) ELSE RestDir(d),
                Saved(d) /\ (c \notin RestDir(d).r \/ (~Stays(d) /\ ~job.copy)))
       /\ run' = [run EXCEPT !.r[c] = Remaining(c, d)]

Restart ==
  LET d == ThisDate
      c == ThisComp
  IN  /\ job.at = "restart"
      /\ ToArchive(c, d, NeededHistory(c, d))
      /\ job' = [job EXCEPT !.at = NextTurn.at, !.left = NextTurn.left, !.i = NextTurn.i,
                            !.keep[c] = IF d = job.latest /\ d \in run.r[c]
                                        THEN @ \cup Kept(c, d) ELSE @]
      /\ cut' = IF Saved(d) /\ c = Cpl THEN cut \ {d} ELSE cut
      /\ UNCHANGED <<interim, hist, model, kills, torn, spoiled>>

\* A kill once the restart file is in the archive, with some or all of the history
\* files it lists.  No later archiver finds a file that was moved, nor its history.
RestartCut ==
  LET d == ThisDate
      c == ThisComp
  IN  /\ job.at = "restart" /\ d \in run.r[c] /\ kills < MaxKills
      /\ \E copied \in SUBSET NeededHistory(c, d) :
           /\ ToArchive(c, d, copied)
           /\ spoiled' = IF interim /\ d \notin Remaining(c, d) /\ copied # NeededHistory(c, d)
                         THEN spoiled \cup {d} ELSE spoiled
      /\ kills' = kills + 1 /\ job' = Idle /\ cut' = cut \cup {d}
      /\ UNCHANGED <<interim, hist, model, torn>>

\* Mutant: a file that is already in the archive is not copied again.
ArchivedOnce(c, s) == IF hist[c][s] > 0 THEN hist[c][s] ELSE run.h[c][s]
Archived(c, s) == run.h[c][s]

\* _archive_history_files: the history files of a component, `done` of those due
Due(c) == {s \in Starts : run.h[c][s] > 0 /\ Within(s, job.last)}
ToHistory(c, done) ==
  /\ hist' = [hist EXCEPT ![c] = [s \in Starts |-> IF s \in done THEN Archived(c, s) ELSE @[s]]]
  /\ run' = [run EXCEPT !.h[c] = [s \in Starts |->
               IF s \in done \ job.keep[c] /\ ~job.copy THEN 0 ELSE @[s]]]

History ==
  /\ job.at = "history"
  /\ ToHistory(ThisComp, Due(ThisComp))
  /\ job' = IF job.i < Len(Order) THEN [job EXCEPT !.i = @ + 1]
            ELSE [job EXCEPT !.at = "off", !.done = TRUE]
  /\ UNCHANGED <<interim, rest, newest, model, kills, torn, cut, spoiled>>

\* A kill between two files
HistoryCut ==
  /\ job.at = "history" /\ kills < MaxKills
  /\ \E done \in SUBSET Due(ThisComp) : ToHistory(ThisComp, done)
  /\ kills' = kills + 1 /\ job' = Idle
  /\ UNCHANGED <<interim, rest, newest, model, torn, cut, spoiled>>

\* The batch system kills the archiver between two components
ArchiverKilled ==
  /\ ArchiverOn /\ kills < MaxKills
  /\ kills' = kills + 1
  /\ job' = Idle
  /\ cut' = cut \cup (IF job.at = "history" THEN {} ELSE {ThisDate})
  /\ UNCHANGED <<interim, run, rest, newest, hist, model, torn, spoiled>>

\* restore_from_archive: the files of the latest set replace those of the same
\* name in the run directory.  The code calls it after an archiver has ended.
Restore ==
  LET d == newest       \* ls_sorted_by_mtime(rest)[-1]
      set == rest[d]
  IN  /\ ~model.on /\ job.done /\ newest # 0
      /\ run' = [r  |-> [c \in Comps |-> IF c \in set.r THEN run.r[c] \cup {d} ELSE run.r[c]],
                 h  |-> [c \in Comps |-> [s \in Starts |->
                           IF set.h[c][s] > 0 THEN set.h[c][s] ELSE run.h[c][s]]],
                 rp |-> [c \in Comps |-> IF set.rp[c] > 0 THEN set.rp[c] ELSE run.rp[c]]]
      /\ UNCHANGED <<interim, rest, newest, hist, model, job, kills, torn, cut, spoiled>>

Next ==
  \/ ModelStart \/ ModelDay \/ ModelEnd \/ ModelKilled
  \/ \E c \in Comps : ModelRestart(c)
  \/ \E last \in LastDates, copy \in CopyOnly : ArchiveBegin(last, copy)
  \/ Rpointer \/ Restart \/ History
  \/ RestartCut \/ HistoryCut \/ ArchiverKilled
  \/ Restore

Spec == Init /\ [][Next]_vars

--------------------------------------------------------------------------------
\* The type of every variable
TypeOK ==
  /\ interim \in BOOLEAN /\ torn \in BOOLEAN /\ kills \in 0..MaxKills
  /\ run \in Runs /\ rest \in [Dates -> Sets \cup {Absent}]
  /\ newest \in {0} \cup {d \in Dates : rest[d] # Absent}
  /\ hist \in HistFiles /\ cut \subseteq Dates /\ spoiled \subseteq Dates
  /\ model \in Models /\ job \in Jobs

\* "the only history files that kept in the run directory are those that are
\* needed for restarts" (_archive_history_files): whatever was archived, also
\* when the archiver was killed, the model can go on from its last restart set:
\* archiving "has no impact on the production run except to clean up disk space"
\* (running-a-case.rst:415)
RunContinuable == ~model.on /\ ~torn => Consistent(run.rp[Cpl])

\* Where the simulation stands, every day has its history in the run directory
\* or in the archive: the copies of an open file are replaced by the whole one
NoHistoryLost ==
  ~model.on /\ ~torn =>
    \A c \in Comps : \A s \in {t \in Starts : t <= run.rp[Cpl]} :
      Max({run.h[c][s], hist[c][s]}) >= Min({run.rp[Cpl], s + Width - 1})

\* A saved set holds the restart of every component, pointer files of its own
\* date and, if it is not spoiled, the history files it needs
Usable(d) ==
  /\ rest[d].r = Comps
  /\ \A c \in Comps : /\ rest[d].rp[c] = d
                      /\ d \notin spoiled => \A s \in Open(d) : rest[d].h[c][s] >= d

\* "The rest/ subdirectory contains a subset of directories that each contains
\* a consistent set of restart files" (running-a-case.rst:492): so it is once
\* an archiver has ended, with interim sets saved; without, the directories of
\* the removed sets are there, and empty.  A set of a date that was cut short is
\* made whole by the next archiver, but for the history files of one spoiled.
RestSetsUsable ==
  ~ArchiverOn /\ ~torn =>
    \A d \in Dates \ cut : Usable(d) \/ rest[d] \in {Absent} \cup (IF interim THEN {} ELSE {EmptySet})

\* What restore_from_archive takes for the most recent set is never older than
\* another complete one (mtime of the directories against their dates)
RestoresLatest ==
  ~ArchiverOn /\ ~torn => \A d \in Dates : rest[d] # Absent => d <= newest

\* What is in the archive can be continued from, and the latest is taken
ArchiveInv == TypeOK /\ RestSetsUsable /\ RestoresLatest
=============================================================================
