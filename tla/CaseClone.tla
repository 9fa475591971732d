------------------------------- MODULE CaseClone -------------------------------
(***************************************************************************)
(* A case made from another one (create_clone), several of them (the       *)
(* script's --ensemble), and the user mods that a new case or a clone      *)
(* applies (user_mod_support.py).  A directory of a case is its root, its  *)
(* name and a last part: <<"CASE", part>> stands for                       *)
(* $CIME_OUTPUT_ROOT/$CASE/part and a path of three parts for itself.      *)
(* D gives every mods directory that exists the directories it includes,   *)
(* the lines of its user_nl files, the files of its SourceMods (its own    *)
(* name has no "src" in it), whether it has such a directory, and the      *)
(* settings of its shell_commands and of its xmlchange_cmnds.              *)
(***************************************************************************)
EXTENDS Integers, Sequences, FiniteSets, SequencesExt, Functions

(***************************************************************************)
(* build_include_dirs_list: a directory met again moves to the end         *)
(***************************************************************************)
NoDirs == [failed |-> FALSE, dirs |-> <<>>]

\* Mutant: a directory met again keeps its place.
AddOnce(dirs, d) == IF d \in Range(dirs) THEN dirs ELSE Append(dirs, d)

AddDir(dirs, d) == Append(SelectSeq(dirs, LAMBDA x : x # d), d)

RECURSIVE IncludeDirs(_, _, _)
IncludeDirs(D, d, found) ==
  IF found.failed \/ d \notin DOMAIN D THEN [found EXCEPT !.failed = TRUE]
  ELSE FoldLeft(LAMBDA f, e : IncludeDirs(D, e, f), [found EXCEPT !.dirs = AddDir(@, d)], D[d].include)

(***************************************************************************)
(* apply_user_mods: keepexe is "none" for a new case, "yes" or "no" for a  *)
(* clone.  A case's user_nl, SourceMods and settings are functions.        *)
(***************************************************************************)
Joined(f, g) == [x \in DOMAIN f \cup DOMAIN g |-> (IF x \in DOMAIN f THEN f[x] ELSE <<>>)
                                                  \o (IF x \in DOMAIN g THEN g[x] ELSE <<>>)]
Set(settings, s) == (s[1] :> s[2]) @@ settings

\* A source mod <<component, file>> is refused for a clone, and cannot be
\* written where the case has no directory for the component
RefusesSrc(D, d, keepexe, case) ==
  \/ keepexe # "none" /\ D[d].src_dir
  \/ \E f \in DOMAIN D[d].src : f[1] \notin case.src_dirs

\* One directory: its lines go to the end, its files over those there; the
\* lines stay when a source mod is refused
ApplyDir(D, d, keepexe, case) ==
  LET listed == [case EXCEPT !.user_nl = Joined(@, D[d].user_nl)]
  IN IF case.failed THEN case
     ELSE IF RefusesSrc(D, d, keepexe, case) THEN [listed EXCEPT !.failed = TRUE]
     ELSE [listed EXCEPT !.src = D[d].src @@ @,
                         !.commands = @ \o D[d].commands \o D[d].xmlchange]

\* The shell_commands of this call only, run once all directories are applied
ApplyUserMods(D, path, keepexe, case) ==
  LET found == IF path = "UNSET" THEN NoDirs ELSE IncludeDirs(D, path, NoDirs)
      start == [case EXCEPT !.commands = <<>>, !.failed = @ \/ found.failed]
      done == FoldLeft(LAMBDA c, d : ApplyDir(D, d, keepexe, c), start, Reverse(found.dirs))
  IN IF case.failed THEN case
     ELSE IF done.failed THEN done
     ELSE [done EXCEPT !.settings = FoldLeft(Set, @, done.commands)]

\* Mutant: the mods of the primary component come in the order of its class.
PrimaryInOrder(classes, mods, primary) == SelectSeq(classes, LAMBDA c : c \in DOMAIN mods)

\* The components with mods, the primary one last (Case.apply_user_mods)
ModOrder(classes, mods, primary) ==
  SelectSeq(classes, LAMBDA c : c # primary /\ c \in DOMAIN mods)
    \o (IF primary \in DOMAIN mods THEN <<primary>> ELSE <<>>)

AllUserMods(classes, mods, primary, given) ==
  LET order == ModOrder(classes, mods, primary) IN [i \in DOMAIN order |-> mods[order[i]]] \o given

ApplyAll(D, paths, keepexe, case) == FoldLeft(LAMBDA c, p : ApplyUserMods(D, p, keepexe, c), case, paths)

(***************************************************************************)
(* create_caseroot                                                         *)
(***************************************************************************)
CaserootDirs(clone) == {"LockedFiles", "Tools"} \cup IF clone THEN {} ELSE {"SourceMods", "Buildconf"}

Stubs == {"satm", "slnd", "sice", "socn", "sesp", "sglc", "swav"}

SourceModDirs(models, nuopc) ==
  (models \cup {"share", "drv"} \cup (IF nuopc THEN {"cdeps"} ELSE {})) \ Stubs

(***************************************************************************)
(* create_clone.  A case has its name, user, output root, directories,     *)
(* settings and the like; w is the world: the case roots that exist, the   *)
(* user, the output roots that cannot be written and the settings that     *)
(* are in env_build.xml.                                                   *)
(***************************************************************************)
Resolve(case, dir) == IF dir[1] = "CASE" THEN <<case.output_root, case.name, dir[2]>> ELSE dir

OutputRoot(w, case, args) ==
  LET root == IF args.output_root = <<>> THEN case.output_root ELSE args.output_root
  IN IF w.user # case.user THEN [i \in DOMAIN root |-> IF root[i] = case.user THEN w.user ELSE root[i]] ELSE root

\* Case.copy: the same values but for these
Copy(case, name) == [case EXCEPT !.name = name, !.continue_run = FALSE, !.resubmit = 0]

\* Mutant: a directory that is the original's is kept.
KeptDir(case, new, old, part, given) == IF given = <<>> THEN new ELSE given

\* The clone's own directory where it would have the original's, or the one
\* that is given, or the original's text
OwnDir(case, new, old, part, given) ==
  IF Resolve(case, new) = old THEN <<"CASE", part>> ELSE IF given = <<>> THEN new ELSE given

Directories(case, copy, args) ==
  IF args.keepexe
  THEN [exe |-> Resolve(case, case.exeroot), run |-> IF args.rundir = <<>> THEN copy.rundir ELSE args.rundir]
  ELSE [exe |-> OwnDir(copy, copy.exeroot, Resolve(case, case.exeroot), "bld", args.exeroot),
        run |-> OwnDir(copy, copy.rundir, Resolve(case, case.rundir), "run", args.rundir)]

\* The user's own version of a tool is copied where the clone has a link
OwnTools(case, tools) == [t \in tools |-> IF t \in DOMAIN case.tools THEN case.tools[t] ELSE "link"]

\* Nothing is made in these cases
RefusesClone(w, case, args) ==
  \/ args.root \in w.exists \/ ~args.valid_name
  \/ OutputRoot(w, case, args) \in w.not_writable
  \/ args.keepexe /\ args.exeroot # <<>>

\* The clone before user mods: everything but the locks is the original's
Cloned(w, case, args) ==
  LET copy == [Copy(case, args.name) EXCEPT !.user = w.user, !.output_root = OutputRoot(w, case, args)]
      dirs == Directories(case, copy, args)
  IN [copy EXCEPT !.exeroot = dirs.exe, !.rundir = dirs.run, !.build_complete = args.keepexe,
                  !.project = IF args.project = "" THEN @ ELSE args.project,
                  !.tools = OwnTools(case, w.tools), !.locked = {"env_case.xml"},
                  !.dirs = CaserootDirs(TRUE) \cup {"SourceMods", "Buildconf"}]

\* The settings that are in env_build.xml
BuildOf(case, build) == Restrict(case.settings, DOMAIN case.settings \cap build)

LockBuild(case, args) ==
  IF args.keepexe /\ args.mods # <<>> THEN [case EXCEPT !.locked = @ \cup {"env_build.xml"}] ELSE case

\* made: whether the directory of the clone is there in the end; it is removed
\* when its mods change the build of an executable that is kept
Finished(w, case, args, modded) ==
  LET rebuilt == args.keepexe /\ ~modded.failed /\ BuildOf(modded, w.build) # BuildOf(case, w.build)
  IN [failed |-> modded.failed \/ rebuilt, made |-> ~rebuilt,
      case |-> [modded EXCEPT !.src_link = args.keepexe /\ ~modded.failed]]

CreateClone(D, w, case, args) ==
  IF RefusesClone(w, case, args) THEN [failed |-> TRUE, made |-> FALSE, case |-> case]
  ELSE LET new == LockBuild(Cloned(w, case, args), args)
       IN Finished(w, case, args, ApplyAll(D, args.mods, IF args.keepexe THEN "yes" ELSE "no", new))

(***************************************************************************)
(* The script's ensemble: a name is a text and the digits it ends in, and  *)
(* the next number takes the place of as many digits as the first one has  *)
(***************************************************************************)
DigitsOf(n) == LET d[k \in Nat] == IF k < 10 THEN <<k>> ELSE Append(d[k \div 10], k % 10) IN d[n]

\* Mutant: a number is written without the zeros before it.
Unpadded(n, width) == DigitsOf(n)

Padded(n, width) == LET d == DigitsOf(n) IN [i \in 1 .. (width - Len(d)) |-> 0] \o d

MemberName(path, n, width) ==
  [path EXCEPT !.digits = SubSeq(@, 1, Len(@) - width) \o Padded(n, width)]

\* The number a name ends in; more than one member need one (parse_command_line)
StartOf(path) == FoldLeft(LAMBDA n, d : 10 * n + d, 0, path.digits)
NoStart(path, size) == size > 1 /\ path.digits = <<>>

Members(path, size) ==
  LET name[i \in 0 .. (size - 1)] ==
        MemberName(IF i = 0 THEN path ELSE name[i - 1], StartOf(path) + i, Len(path.digits))
  IN IF size = 1 THEN <<path>> ELSE [i \in 1 .. size |-> name[i - 1]]

\* The first member that fails ends it
Ensemble(D, w, case, args, names) ==
  LET Member(e, name) ==
        LET there == [w EXCEPT !.exists = @ \cup {c.name : c \in Range(e.made)}]
            clone == CreateClone(D, there, case, [args EXCEPT !.root = name, !.name = name])
        IN IF e.failed THEN e
           ELSE [failed |-> clone.failed, made |-> IF clone.failed THEN e.made ELSE Append(e.made, clone.case)]
  IN FoldLeft(Member, [failed |-> FALSE, made |-> <<>>], names)
=============================================================================
