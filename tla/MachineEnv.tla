------------------------------ MODULE MachineEnv ------------------------------
(***************************************************************************)
(* The machine of a case and the environment of its programs: which        *)
(* machine this host is and what it supports (machines.py), the modules    *)
(* and variables that every program of the case loads and that the file    *)
(* .env_mach_specific.sh holds for the user, and the command that starts   *)
(* the model (env_mach_specific.py).  A regular expression is the set of   *)
(* the texts it matches.                                                   *)
(***************************************************************************)
EXTENDS Integers, Sequences, FiniteSets, SequencesExt

(***************************************************************************)
(* Machines.probe_machine_name.  A node is [mach, regex, env]: env is <<>> *)
(* or the name of an environment variable and the value it should have.    *)
(***************************************************************************)
\* A variable that is not set does not match
NodeMatches(node, host, env) ==
  IF node.env # <<>> THEN node.env[1] \in DOMAIN env /\ env[node.env[1]] = node.env[2]
  ELSE host \in node.regex

OneGuess(nodes, host, env) ==
  LET fit == SelectSeq(nodes, LAMBDA n : NodeMatches(n, host, env))
  IN IF fit = <<>> THEN "none" ELSE fit[1].mach

\* First by the full name of the host, then by its short name
Probe(nodes, fqdn, hostname, env) ==
  IF OneGuess(nodes, fqdn, env) # "none" THEN OneGuess(nodes, fqdn, env) ELSE OneGuess(nodes, hostname, env)

\* __init__: what the caller, the environment and the user's file say first
MachineOf(given, env, config, nodes, fqdn, hostname) ==
  CASE given # "none" -> given
    [] "CIME_MACHINE" \in DOMAIN env -> env["CIME_MACHINE"]
    [] config # "none" -> config
    [] OTHER -> Probe(nodes, fqdn, hostname, env)

(***************************************************************************)
(* Lists of a machine (get_field_from_list, is_valid_MPIlib).  lists are   *)
(* [compiler, values]: "" for a list without attributes.                   *)
(***************************************************************************)
\* The list of the compiler, or else the one for all; an only list is for all
ListFor(lists, compiler) ==
  LET own == SelectSeq(lists, LAMBDA l : compiler # "" /\ l.compiler = compiler)
      plain == IF Len(lists) = 1 THEN lists ELSE SelectSeq(lists, LAMBDA l : l.compiler = "")
  IN IF own # <<>> THEN own[1].values ELSE IF plain # <<>> THEN plain[1].values ELSE <<>>

FieldFromList(values, wanted) ==
  CASE wanted \in {"none", "UNSET"} -> values[1]
    [] wanted \in Range(values) -> wanted
    [] OTHER -> "none"

DefaultCompiler(lists, config) ==
  FieldFromList(ListFor(lists, ""), config)

ValidMpilib(lists, mpilib, compiler) ==
  mpilib = "mpi-serial" \/ FieldFromList(ListFor(lists, compiler), mpilib) # "none"

(***************************************************************************)
(* _compute_actions.  A group has attributes attrs and children; a child   *)
(* has attributes, a name, "source" for a file that is sourced, and a      *)
(* value, <<>> for none.  attrs are a sequence of [name, not, matches];    *)
(* not says that the expression begins with "!".                           *)
(***************************************************************************)
\* queue is asked only for a job; the case has a value for every other name
AttrFits(a, case, job) ==
  CASE a.name = "queue" -> job = "none" \/ (case.queue[job] \in a.matches) # a.not
    [] OTHER -> (case.values[a.name] \in a.matches) # a.not

MatchAttribs(attrs, case, job) == \A i \in DOMAIN attrs : AttrFits(attrs[i], case, job)

Actions(groups, case, job) ==
  LET Of(g) ==
        IF ~MatchAttribs(g.attrs, case, job) THEN <<>>
        ELSE LET fit == SelectSeq(g.children, LAMBDA c : MatchAttribs(c.attrs, case, job))
             IN [i \in DOMAIN fit |-> <<fit[i].name, fit[i].value>>]
  IN FlattenSeq([i \in DOMAIN groups |-> Of(groups[i])])

(***************************************************************************)
(* Loading (load_env).  An environment has loaded modules, in the order of *)
(* loading, and variables.                                                 *)
(***************************************************************************)
\* The module program (external) on one action: "load" and "unload" take
\* several modules, "swap" and "switch" exactly two
ModuleDoes(env, action, args) ==
  LET Drop(mods, m) == SelectSeq(mods, LAMBDA x : x # m)
      Load(mods, m) == Append(Drop(mods, m), m)
  IN CASE action = "load" -> [env EXCEPT !.modules = FoldLeft(Load, @, args)]
       [] action = "unload" -> [env EXCEPT !.modules = FoldLeft(Drop, @, args)]
       [] action \in {"swap", "switch"} -> [env EXCEPT !.modules = Load(Drop(@, args[1]), args[2])]
       [] action = "purge" -> [env EXCEPT !.modules = <<>>]

\* Mutant: a swap is joined to the one before.
AlwaysBatched(action, last) == action = last

\* What comes twice in a row goes into one command
Batched(action, last) == action = last /\ action \notin {"swap", "switch"}

\* _get_module_commands: commands are [action, args]
ModuleCommands(actions) ==
  LET Add(cmds, a) ==
        IF cmds # <<>> /\ Batched(a[1], Last(cmds).action)
        THEN [cmds EXCEPT ![Len(cmds)].args = @ \o a[2]]
        ELSE Append(cmds, [action |-> a[1], args |-> a[2]])
  IN FoldLeft(Add, <<>>, actions)

LoadModules(env, actions) ==
  FoldLeft(LAMBDA e, c : ModuleDoes(e, c.action, c.args), env, ModuleCommands(actions))

\* _load_modules_generic: one action at a time, in one shell
LoadGeneric(env, actions) == FoldLeft(LAMBDA e, a : ModuleDoes(e, a[1], a[2]), env, actions)

\* With no module system there must be no modules to load
LoadFails(kind, actions) == kind = "none" /\ actions # <<>>

SetVar(vars, name, value) == [n \in DOMAIN vars \cup {name} |-> IF n = name THEN value ELSE vars[n]]
UnsetVar(vars, name) == [n \in DOMAIN vars \ {name} |-> vars[n]]

\* _source_shell_file: the environment is the one the shell has in the end;
\* a file is a function from names to values
Sourced(vars, file) == [n \in DOMAIN vars \cup DOMAIN file |-> IF n \in DOMAIN file THEN file[n] ELSE vars[n]]

\* _load_envs: a variable without a value is unset
LoadEnvs(env, actions, files) ==
  LET Do(e, a) ==
        CASE a[1] = "source" -> [e EXCEPT !.vars = Sourced(@, files[a[2][1]])]
          [] a[2] = <<>> -> [e EXCEPT !.vars = UnsetVar(@, a[1])]
          [] OTHER -> [e EXCEPT !.vars = SetVar(@, a[1], a[2][1])]
  IN FoldLeft(Do, env, actions)

\* The modules are those of no job, the variables those of the job
LoadEnv(spec, env, case, job, files) ==
  LET modules == Actions(spec.modules, case, "none")
      loaded == IF spec.kind = "module" THEN LoadModules(env, modules) ELSE LoadGeneric(env, modules)
  IN LoadEnvs(loaded, Actions(spec.envs, case, job), files)

(***************************************************************************)
(* The file for the user's shell (_make_env_mach_specific_file_impl)       *)
(***************************************************************************)
\* Lines are [do, name, args]; a file to source gives a line without its name
EnvLine(a) ==
  CASE a[1] = "source" -> [do |-> "word", name |-> "source", args |-> <<>>]
    [] a[2] = <<>> -> [do |-> "unset", name |-> a[1], args |-> <<>>]
    [] OTHER -> [do |-> "export", name |-> a[1], args |-> a[2]]

ShellFile(spec, case, job) ==
  LET modules == Actions(spec.modules, case, job)
      envs == Actions(spec.envs, case, job)
      cmds == IF spec.kind = "module" THEN ModuleCommands(modules)
              ELSE [i \in DOMAIN modules |-> [action |-> modules[i][1], args |-> modules[i][2]]]
  IN [i \in DOMAIN cmds |-> [do |-> "module", name |-> cmds[i].action, args |-> cmds[i].args]]
     \o [i \in DOMAIN envs |-> EnvLine(envs[i])]

\* A shell that reads it
ShellReads(env, lines) ==
  LET Do(e, l) ==
        CASE l.do = "module" -> ModuleDoes(e, l.name, l.args)
          [] l.do = "unset"  -> [e EXCEPT !.vars = UnsetVar(@, l.name)]
          [] l.do = "export" -> [e EXCEPT !.vars = SetVar(@, l.name, l.args[1])]
          [] OTHER -> e
  IN FoldLeft(Do, env, lines)

(***************************************************************************)
(* The mpirun of a case (_find_best_mpirun_match, get_mpirun).  A node has *)
(* attributes attrs, a function; asked are those of the case.              *)
(***************************************************************************)
ByDefault(node, asked, a) == a = "mpilib" /\ asked[a] # "mpi-serial" /\ node.attrs[a] = "default"

Shared(node, asked) == DOMAIN node.attrs \cap DOMAIN asked

AllMatch(node, asked) == \A a \in Shared(node, asked) : node.attrs[a] = asked[a] \/ ByDefault(node, asked, a)

IsDefault(node, asked) == \E a \in Shared(node, asked) : node.attrs[a] # asked[a] /\ ByDefault(node, asked, a)

MpiScore(node, asked) == Cardinality({a \in Shared(node, asked) : node.attrs[a] = asked[a]})

\* The first of those with the most matches
FirstBest(nodes, asked) ==
  SelectSeq(nodes, LAMBDA n : \A i \in DOMAIN nodes : MpiScore(nodes[i], asked) <= MpiScore(n, asked))

\* Mutant: a default is as good as a match.
AnyMatch(nodes, asked) == SelectSeq(nodes, LAMBDA n : AllMatch(n, asked))

\* Those for the library itself come before the defaults
Candidates(nodes, asked) ==
  LET exact == SelectSeq(nodes, LAMBDA n : AllMatch(n, asked) /\ ~IsDefault(n, asked))
  IN IF exact # <<>> \/ asked["mpilib"] = "mpi-serial" THEN exact
     ELSE SelectSeq(nodes, LAMBDA n : AllMatch(n, asked) /\ IsDefault(n, asked))

\* A serial case without an entry needs no command, any other is an error
Mpirun(nodes, asked) ==
  LET fit == Candidates(nodes, asked)
  IN IF fit # <<>> THEN FirstBest(fit, asked)[1].executable
     ELSE IF asked["mpilib"] = "mpi-serial" THEN "" ELSE "error"
=============================================================================
