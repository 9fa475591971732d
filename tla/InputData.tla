------------------------------- MODULE InputData -------------------------------
(***************************************************************************)
(* Checking and downloading input data (case/check_input_data.py,          *)
(* Servers/wget.py, XML/inputdata.py), with download.  Several cases share *)
(* DIN_LOC_ROOT; each looks for the files of its lists, asks the servers   *)
(* in order for those that are missing and then stages the reference case, *)
(* the one directory that is downloaded.                                   *)
(***************************************************************************)
EXTENDS Naturals, Sequences, FiniteSets, SequencesExt

CONSTANTS
  Cases,      \* the cases (processes)
  Files,      \* the files of the input data lists, as a sequence
  Outside,    \* those that are missing and neither in DIN_LOC_ROOT nor in RUNDIR
  RunFiles,   \* those in RUNDIR (the processes are then of one case)
  Hashed,     \* those in DIN_LOC_ROOT that the checksum file of a server lists
  RefDir,     \* the directory of the reference case
  Servers,    \* number of servers in config_inputdata.xml
  MaxKills    \* bound on the downloads that are killed

ASSUME FilesAssumption ==
  Files \in Seq(ToSet(Files)) /\ IsInjective(Files) /\ RefDir \notin ToSet(Files)
ASSUME PlacesAssumption ==
  /\ Outside \subseteq ToSet(Files) /\ RunFiles \subseteq ToSet(Files) \ Outside
  /\ Hashed \subseteq ToSet(Files) \ (Outside \cup RunFiles)
ASSUME BoundsAssumption == Servers \in Nat /\ MaxKills \in Nat

Paths   == ToSet(Files) \cup {RefDir}
Content == {"absent", "part", "bad", "whole"}

VARIABLES
  server,   \* what each server delivers for a path: "absent", "bad" or "whole"
  disk,     \* what is there of the files
  tmp,      \* the directory RefDir.tmp
  case,     \* where each case is
  kills,    \* how many downloads were killed
  raced,    \* history: paths written by a case while another wanted them
  cut,      \* history: paths whose download was killed, or that a pass forgot
  old       \* history: what each case found on disk and compared with its hash

vars == <<server, disk, tmp, case, kills, raced, cut, old>>

\* list: the lists in Buildconf; todo: what is left of this pass over them;
\* srv: the server, 0 for the pass without download; missing: the negation of
\* no_files_missing; linked: the file being written still has its name; hashes:
\* the files in chksum_hash
Fresh == [pc |-> "idle", list |-> Files, todo |-> <<>>, srv |-> 0, missing |-> FALSE,
          linked |-> FALSE, hashes |-> {}]

\* The content of what has no hash, as a directory, is not told apart
Stored ==
  {s \in [Paths -> Content \ {"part"}] :
     (\A f \in Paths \ Hashed : s[f] # "bad") /\ (\A f \in Outside : s[f] = "absent")}

Init ==
  /\ server \in [1..Servers -> Stored] /\ disk \in Stored /\ tmp = "absent"
  /\ case = [c \in Cases |-> Fresh]
  /\ kills = 0 /\ raced = {} /\ cut = {} /\ old = [c \in Cases |-> {}]

At(c, pc) == case[c].pc = pc
File(c)   == Head(case[c].todo)
Goto(c, pc) == case' = [case EXCEPT ![c].pc = pc]
Pass(c, srv, pc) ==
  case' = [case EXCEPT ![c] = [@ EXCEPT !.pc = pc, !.srv = srv, !.todo = case[c].list,
                                         !.missing = FALSE]]
Skip(c, missing) ==
  case' = [case EXCEPT ![c] = [@ EXCEPT !.pc = "look", !.todo = Tail(case[c].todo),
                                         !.linked = FALSE, !.missing = missing]]
Writing(f) == {c \in Cases : At(c, "getting") /\ File(c) = f}

\* check_all_input_data: without the option chksum, or when no server has a
\* checksum file, there are no hashes; then the pass without download
Begin(c) ==
  /\ At(c, "idle")
  /\ \E hashes \in {{}, Hashed} :
       case' = [case EXCEPT ![c] = [@ EXCEPT !.pc = "look", !.todo = case[c].list,
                                              !.hashes = hashes]]
  /\ UNCHANGED <<server, disk, tmp, kills, raced, cut, old>>

\* Mutant: the checksum is not compared.
ChksumIgnored(c, f) == TRUE
\* verify_chksum: a file without a hash passes.  Only in the pass without
\* download: _downloadfromserver does not hand the option on
ChksumOK(c, f) == case[c].srv = 0 /\ f \in case[c].hashes => disk[f] = "whole"

\* os.path.exists(full_path)
LookThere(c) ==
  /\ disk[File(c)] # "absent"
  /\ IF ChksumOK(c, File(c)) THEN Skip(c, case[c].missing) ELSE Goto(c, "error")
  /\ old' = IF case[c].srv = 0 THEN [old EXCEPT ![c] = @ \cup ({File(c)} \cap case[c].hashes)]
            ELSE old
  /\ raced' = IF Writing(File(c)) # {} THEN raced \cup {File(c)} ELSE raced

\* "Cannot download file since it lives outside of the input_data_root" is only
\* a warning: the pass goes on as if the file were there
LookAbsent(c) ==
  /\ disk[File(c)] = "absent"
  /\ IF case[c].srv = 0 THEN Skip(c, TRUE)
     ELSE IF File(c) \in Outside THEN Skip(c, case[c].missing)
     ELSE Goto(c, "get")
  /\ UNCHANGED <<old, raced>>

Look(c) ==
  /\ At(c, "look") /\ case[c].todo # <<>>
  /\ LookThere(c) \/ LookAbsent(c)
  /\ UNCHANGED <<server, disk, tmp, kills, cut>>

\* Mutant: the last server is asked again.
NextServerSame(srv) == IF srv < Servers THEN srv + 1 ELSE srv
\* Mutant: the end of the list is not noticed.
NextServerPast(srv) == srv + 1
\* Inputdata.get_next_server; 0 for none
NextServer(srv) == IF srv < Servers THEN srv + 1 ELSE 0

\* Mutant: what one server lacks is forgotten for the next.
PassSucceedsAlways(c) == TRUE
PassSucceeds(c) == ~case[c].missing

\* A pass is over, or the server cannot be reached: the next server, or the end
PassEnds(c) ==
  LET srv == NextServer(case[c].srv)
  IN  /\ \/ At(c, "look") /\ case[c].todo = <<>>
         \/ At(c, "look") /\ case[c].srv > 0 /\ case[c].todo = case[c].list
      /\ IF case[c].todo = <<>> /\ PassSucceeds(c) THEN Goto(c, "stage")
         ELSE IF srv = 0 THEN Goto(c, "error")
         ELSE Pass(c, srv, "look")
      /\ UNCHANGED <<server, disk, tmp, kills, raced, cut, old>>

\* stage_refcase: the directory is added to the lists and downloaded
Stage(c) ==
  /\ At(c, "stage")
  /\ IF disk[RefDir] # "absent" THEN Goto(c, "done")
     ELSE IF Servers = 0 THEN Goto(c, "error")
     ELSE case' = [case EXCEPT ![c] = [@ EXCEPT !.pc = "look", !.srv = 1,
                     !.list = Append(Files, RefDir), !.todo = Append(Files, RefDir),
                     !.missing = FALSE]]
  /\ UNCHANGED <<server, disk, tmp, kills, raced, cut, old>>

\* os.remove(full_path): whoever else is writing loses the name of its file
Removed(c, f, pc) ==
  /\ disk' = [disk EXCEPT ![f] = "absent"]
  /\ case' = [d \in Cases |->
       IF d = c THEN [case[d] EXCEPT !.pc = pc, !.todo = Tail(case[d].todo), !.missing = TRUE,
                                            !.linked = FALSE]
       ELSE IF d \in Writing(f) THEN [case[d] EXCEPT !.linked = FALSE]
       ELSE case[d]]

\* WGET.getfile: wget -nc refuses a file that is there by now, and the code
\* takes the failure for an empty file left behind, which it removes
GetFile(c) ==
  LET f == File(c)
  IN  /\ At(c, "get") /\ f # RefDir
      /\ IF disk[f] = "absent"
         THEN /\ disk' = [disk EXCEPT ![f] = "part"]
              /\ case' = [case EXCEPT ![c].pc = "getting", ![c].linked = TRUE]
              /\ UNCHANGED raced
         ELSE /\ Removed(c, f, "look")
              /\ raced' = raced \cup {f}
      /\ UNCHANGED <<server, tmp, kills, cut, old>>

\* What the pass has left behind and is not there
LeftOut(c) == {f \in ToSet(case[c].list) \ ToSet(case[c].todo) : disk[f] \in {"absent", "part"}}

\* For a file in RUNDIR "no_files_missing = success" forgets what was missing
\* before it in this pass
Forgets(c) == File(c) \in RunFiles /\ case[c].missing

GotFile(c) ==
  LET f   == File(c)
      got == server[case[c].srv][f]
  IN  /\ At(c, "getting") /\ f # RefDir
      /\ IF got = "absent" THEN Removed(c, f, "look") /\ UNCHANGED cut
         ELSE /\ Skip(c, case[c].missing /\ ~Forgets(c))
              /\ disk' = IF case[c].linked THEN [disk EXCEPT ![f] = got] ELSE disk
              /\ cut' = IF Forgets(c) THEN cut \cup LeftOut(c) ELSE cut
      /\ UNCHANGED <<server, tmp, kills, raced, old>>

\* Mutant: os.makedirs with exist_ok.
MakeTmpAnyway == TRUE
\* os.makedirs(full_path + ".tmp")
MakeTmp == tmp = "absent"

\* Mutant: the directory is downloaded in place.
TargetInPlace(content) == disk' = [disk EXCEPT ![RefDir] = content] /\ UNCHANGED tmp
Target(content) == tmp' = content /\ UNCHANGED disk

\* _download_if_in_repo for a directory: when it, or the .tmp, has appeared
\* since the case looked, makedirs or the run in .tmp raises
GetDir(c) ==
  /\ At(c, "get") /\ File(c) = RefDir
  /\ IF disk[RefDir] = "absent" /\ MakeTmp
     THEN Goto(c, "getting") /\ Target("part")
     ELSE Goto(c, "error") /\ UNCHANGED <<disk, tmp>>
  /\ UNCHANGED <<server, kills, raced, cut, old>>

\* "this is intended to prevent a race condition in which one case attempts to
\* use a refdir before another one has completed the download"
GotDir(c) ==
  LET got == server[case[c].srv][RefDir]
  IN  /\ At(c, "getting") /\ File(c) = RefDir
      /\ \/ got # "absent" /\ disk[RefDir] \in {"absent", "part"} /\ Skip(c, case[c].missing)
            /\ disk' = [disk EXCEPT ![RefDir] = got] /\ tmp' = "absent"
         \/ got # "absent" /\ disk[RefDir] \notin {"absent", "part"} /\ Goto(c, "error")
            /\ UNCHANGED <<disk, tmp>>
         \/ got = "absent" /\ Skip(c, TRUE) /\ Target("absent")
      /\ UNCHANGED <<server, kills, raced, cut, old>>

\* The process is killed during a download; a partial file, or the .tmp, stays
Killed(c) ==
  /\ At(c, "getting") /\ kills < MaxKills
  /\ kills' = kills + 1
  /\ cut' = cut \cup {File(c)}
  /\ Goto(c, "killed")
  /\ UNCHANGED <<server, disk, tmp, raced, old>>

CaseStep(c) ==
  \/ Begin(c) \/ Look(c) \/ PassEnds(c) \/ Stage(c)
  \/ GetFile(c) \/ GotFile(c) \/ GetDir(c) \/ GotDir(c)

Next == \E c \in Cases : CaseStep(c) \/ Killed(c)

\* A process that is not killed goes on, and a download ends
Spec == Init /\ [][Next]_vars /\ \A c \in Cases : WF_vars(CaseStep(c))

--------------------------------------------------------------------------------
\* The type of every variable
TypeOK ==
  /\ server \in [1..Servers -> [Paths -> Content]] /\ disk \in [Paths -> Content]
  /\ tmp \in {"absent", "part"}
  /\ \A c \in Cases : case[c].srv \in 0..Servers /\ ToSet(case[c].todo) \subseteq Paths
  /\ kills \in 0..MaxKills /\ raced \subseteq Paths /\ cut \subseteq Paths

\* "Return True if no files missing" (check_input_data), as far as it goes: when
\* the check of a case succeeds every file of its lists is there, whole or not
\* (what is downloaded is not verified), whatever the servers lack.  Not
\* promised: a file outside DIN_LOC_ROOT and RUNDIR, which only gives a warning,
\* one that two cases downloaded at the same time (wget -nc fails and the file
\* of the other is removed) or that one took while another was still writing it,
\* one whose download was killed, and one that was missing before a file in
\* RUNDIR was downloaded in the same pass
InputIsThere ==
  \A c \in Cases : At(c, "done") =>
    \A f \in Paths \ (raced \cup cut \cup Outside) : disk[f] # "absent"

\* The directory of a reference case is never seen half downloaded, whatever
\* case is killed or late (_download_if_in_repo's .tmp and rename)
DirectoryWhole == disk[RefDir] # "part"

\* One case at a time downloads into the .tmp directory
TmpHasOneWriter == Cardinality(Writing(RefDir)) <= 1

\* A file that was there in the first pass, has a hash in the checksum file and
\* is wrong stops the case; nothing overwrites the right one afterwards
OldFilesVerified ==
  \A c \in Cases : At(c, "done") =>
    \A f \in old[c] \ (raced \cup cut) : disk[f] = "whole"

\* The check of a case ends, with an answer or an error, however many servers
\* lack a file
CheckEnds == \A c \in Cases : ~At(c, "idle") ~> case[c].pc \in {"done", "error", "killed"}

\* Cases that download the same directory do not disturb each other, and the
\* hashed files that were there are still the right ones
InputInv == TypeOK /\ DirectoryWhole /\ TmpHasOneWriter /\ OldFilesVerified
=============================================================================
