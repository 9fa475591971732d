------------------------------ MODULE Namelists ------------------------------
(***************************************************************************)
(* Fortran namelists: how values are merged (namelist.py), how the         *)
(* namelist of a component comes about (nmlgen.py,                         *)
(* namelist_definition.py), how the namelists, run configurations and      *)
(* other documents of two cases are compared (compare_namelists.py,        *)
(* simple_compare.py), and the parameters of a component that is           *)
(* configured with ParamGen.  A namelist is a function from groups to      *)
(* functions from variables to sequences of texts; the null value has text *)
(* "".                                                                     *)
(***************************************************************************)
EXTENDS Integers, Sequences, FiniteSets, SequencesExt

CONSTANTS
    InRoot(_),   \* the file below DIN_LOC_ROOT
    IsFile(_)    \* whether a text names a file, and not "UNSET", "idmap" or null

Max2(a, b) == IF a > b THEN a ELSE b

(***************************************************************************)
(* Values (merge_literal_lists)                                            *)
(***************************************************************************)
\* Mutant: what the shorter list does not reach is dropped.
MergeShort(default, overwrite) ==
  [i \in DOMAIN overwrite |-> IF overwrite[i] = "" /\ i \in DOMAIN default THEN default[i] ELSE overwrite[i]]

\* overwrite wins where it has a value
MergeValues(default, overwrite) ==
  [i \in 1 .. Max2(Len(default), Len(overwrite)) |->
     IF i \notin DOMAIN overwrite \/ (overwrite[i] = "" /\ i \in DOMAIN default) THEN default[i] ELSE overwrite[i]]

(***************************************************************************)
(* Namelist: get_variable_value, set_variable_value, merge_nl              *)
(***************************************************************************)
NoVars == [v \in {} |-> <<>>]
Vars(nl, g) == IF g \in DOMAIN nl THEN nl[g] ELSE NoVars

VariableValue(nl, g, v) == IF v \in DOMAIN Vars(nl, g) THEN nl[g][v] ELSE <<"">>

With(nl, g, v, value) ==
  [h \in DOMAIN nl \cup {g} |->
     IF h # g THEN nl[h]
     ELSE [w \in DOMAIN Vars(nl, g) \cup {v} |-> IF w = v THEN value ELSE nl[g][w]]]

\* The elements first, first + step, ... get the values in turn, up to one step
\* behind the last one; what is left over is dropped, and a tail that is not
\* reached stays.
SetValue(nl, g, v, at, values) ==
  LET old == VariableValue(nl, g, v)
      room == (at.last + at.step - at.first) \div at.step + 1
      used == IF Len(values) < room THEN Len(values) ELSE room
      Index(k) == at.first + (k - 1) * at.step
      size == Max2(Len(old), Index(used))
      given(i) == {k \in 1 .. used : Index(k) = i}
  IN With(nl, g, v, [i \in 1 .. size |->
       IF given(i) # {} THEN values[CHOOSE k \in given(i) : TRUE] ELSE IF i \in DOMAIN old THEN old[i] ELSE ""])

Whole(n) == [first |-> 1, last |-> n, step |-> 1]

\* Every variable of other is merged into nl
MergeNl(nl, other, overwrite) ==
  LET vars == UNION {{<<g, v>> : v \in DOMAIN other[g]} : g \in DOMAIN other}
      Merged(n, x) ==
        LET mine == VariableValue(nl, x[1], x[2])  theirs == other[x[1]][x[2]]
            value == IF overwrite THEN MergeValues(mine, theirs) ELSE MergeValues(theirs, mine)
        IN SetValue(n, x[1], x[2], Whole(Len(value)), value)
  IN FoldLeft(Merged, nl, SetToSeq(vars))

(***************************************************************************)
(* user_nl files (dict_to_namelist, validate, init_defaults).  A           *)
(* definition D is a function from variables to [group, size, default,     *)
(* valid, path, locked, per_stream]: default is <<>> or the texts for this *)
(* case, path is "abs" for the name of an input file or "" (names relative *)
(* to another variable are left out), locked says that user_nl may not set *)
(* it.                                                                     *)
(***************************************************************************)
\* The variables of a groupless file in the groups of the definition
Grouped(D, dict) ==
  [g \in {D[v].group : v \in DOMAIN dict} |-> [v \in {w \in DOMAIN dict : D[w].group = g} |-> dict[v]]]

Known(D, dict) == DOMAIN dict \subseteq DOMAIN D

\* is_valid_value: nulls are always valid
ValidValue(D, v, value) ==
  /\ Len(value) <= D[v].size
  /\ D[v].valid = {} \/ \A i \in DOMAIN value : value[i] \in D[v].valid \cup {""}

\* validate; a user_nl file may not set every variable
Valid(D, nl, from_user) ==
  \A g \in DOMAIN nl : \A v \in DOMAIN nl[g] :
    /\ v \in DOMAIN D /\ D[v].group = g /\ ValidValue(D, v, nl[g][v])
    /\ from_user => ~D[v].locked

UserFails(D, infiles) ==
  \E i \in DOMAIN infiles : ~Known(D, infiles[i]) \/ ~Valid(D, Grouped(D, infiles[i]), TRUE)

\* What an earlier file sets stays
UserNamelist(D, infiles) ==
  FoldLeft(LAMBDA nl, f : MergeNl(nl, Grouped(D, f), FALSE), [g \in {} |-> NoVars], infiles)

(***************************************************************************)
(* Defaults (add_default).  value is <<>> when the script gives none.      *)
(***************************************************************************)
Current(D, nl, v) == VariableValue(nl, D[v].group, v)

HasNoValue(D, nl, v, value) == Current(D, nl, v) = <<"">> /\ value = <<>> /\ D[v].default = <<>>

\* _convert_to_abs_file_path
Absolute(D, v, texts) ==
  [i \in DOMAIN texts |-> IF D[v].path = "abs" /\ texts[i] # "" /\ IsFile(texts[i]) THEN InRoot(texts[i]) ELSE texts[i]]

\* Mutant: the default outweighs the user.
DefaultFirst(D, nl, v, value) == MergeValues(Current(D, nl, v), D[v].default)

\* The user's value, then the script's, then the default, element by element
Chosen(D, nl, v, value) ==
  MergeValues(D[v].default, MergeValues(value, Current(D, nl, v)))

AddDefault(D, nl, v, value) ==
  SetValue(nl, D[v].group, v, Whole(D[v].size), Absolute(D, v, Chosen(D, nl, v, value)))

\* init_defaults; skip are the groups without defaults
Defaulted(D, skip) == {v \in DOMAIN D : ~D[v].per_stream /\ D[v].group \notin skip}

InitFails(D, infiles, skip) ==
  UserFails(D, infiles) \/ \E v \in Defaulted(D, skip) : HasNoValue(D, UserNamelist(D, infiles), v, <<>>)

InitDefaults(D, infiles, skip) ==
  FoldLeft(LAMBDA nl, v : AddDefault(D, nl, v, <<>>), UserNamelist(D, infiles), SetToSeq(Defaulted(D, skip)))

(***************************************************************************)
(* The list of input files (_write_input_files); it is appended to         *)
(***************************************************************************)
\* A file that is listed is not listed again; those of one call are not compared
ListInput(list, entries) == list \o SelectSeq(entries, LAMBDA e : e \notin Range(list))

\* The absolute paths, which those of the variables with a default are made
InputEntries(D, nl) ==
  LET vars == SetToSeq({v \in Defaulted(D, {}) : D[v].path = "abs" /\ v \in DOMAIN Vars(nl, D[v].group)})
      Of(v) == SelectSeq(nl[D[v].group][v], IsFile)
  IN FlattenSeq([i \in DOMAIN vars |-> [k \in DOMAIN Of(vars[i]) |-> <<vars[i], Of(vars[i])[k]>>]])

\* Mutant: what is written is not validated.
WriteAnyway(D, nl, list) ==
  [failed |-> FALSE, groups |-> DOMAIN nl \ {"modelio", "seq_maps"}, list |-> ListInput(list, InputEntries(D, nl))]

\* write_output_file: nothing is written when a value is not valid
WriteOutput(D, nl, list) ==
  IF ~Valid(D, nl, FALSE) THEN [failed |-> TRUE, groups |-> {}, list |-> list]
  ELSE [failed |-> FALSE, groups |-> DOMAIN nl \ {"modelio", "seq_maps"}, list |-> ListInput(list, InputEntries(D, nl))]

(***************************************************************************)
(* Comparing namelists (compare_namelists.py).  A string is [base, dir,    *)
(* run]: its last component, the directories before it and the part that   *)
(* names the session of a test.  A value is [type, items]: items are a     *)
(* sequence of strings for "str" and "list", a function for "dict".        *)
(***************************************************************************)
Unstable == {"runid", "model_version", "username", "logfile"}
MapNames == {"mapname", "maptype"}

\* _normalize_string_value: a path is its last component, but for a map
Normal(name, s) == [base |-> s.base, dir |-> IF name \in MapNames THEN s.dir ELSE ""]

\* _compare_values: a list by position, a dictionary by key.  Their items have
\* names of their own, which are not Unstable.
SameValue(name, a, b) ==
  /\ a.type = b.type
  /\ \/ a.type = "str" /\ name \in Unstable
     \/ /\ DOMAIN a.items = DOMAIN b.items
        /\ \A k \in DOMAIN a.items : Normal(name, a.items[k]) = Normal(name, b.items[k])

\* Mutant: what only the case has is not seen.
DiffGroupsGold(gold, comp) ==
  {g \in DOMAIN gold : g \notin DOMAIN comp \/ \E v \in DOMAIN gold[g] :
     v \notin DOMAIN comp[g] \/ ~SameValue(v, gold[g][v], comp[g][v])}

\* _compare_namelists: the groups in which something differs
DiffGroups(gold, comp) ==
  {g \in DOMAIN gold \cup DOMAIN comp :
     \/ g \notin DOMAIN gold \/ g \notin DOMAIN comp
     \/ DOMAIN gold[g] # DOMAIN comp[g]
     \/ \E v \in DOMAIN gold[g] \cap DOMAIN comp[g] : ~SameValue(v, gold[g][v], comp[g][v])}

(***************************************************************************)
(* Reading the lines of a file (_parse_namelists).  A line is "open" with  *)
(* a group, "close", "set" with a variable and its value, "rc" with a      *)
(* variable and its value, or "more" with a value; goes says that it ends  *)
(* with a comma.  What follows a comma is a value, "open" lines too.       *)
(***************************************************************************)
Blank == [ok |-> TRUE, groups |-> [g \in {} |-> NoVars], group |-> "", var |-> ""]
Stop(s) == [s EXCEPT !.ok = FALSE]
SeqMaps == "seq_maps.rc"

Extended(old, new) ==
  CASE old.type = "list" /\ new.type # "dict" -> <<[old EXCEPT !.items = @ \o new.items]>>
    [] old.type = "dict" /\ new.type = "dict" ->
         <<[old EXCEPT !.items = [k \in DOMAIN @ \cup DOMAIN new.items |->
              IF k \in DOMAIN new.items THEN new.items[k] ELSE @[k]]]>>
    [] OTHER -> <<>>

ReadLine(s, l) ==
  LET vars == Vars(s.groups, s.group)
      after == IF l.goes THEN l.name ELSE ""
  IN CASE ~s.ok -> s
       [] l.kind = "rc" -> IF l.name \in DOMAIN Vars(s.groups, SeqMaps) THEN Stop(s)
                           ELSE [s EXCEPT !.groups = With(@, SeqMaps, l.name, l.value)]
       [] l.kind = "open" /\ s.group = "" ->
            IF s.var # "" \/ l.name \in DOMAIN s.groups THEN Stop(s)
            ELSE [s EXCEPT !.group = l.name, !.groups = [g \in DOMAIN @ \cup {l.name} |-> Vars(@, g)]]
       [] l.kind = "close" /\ s.group # "" -> IF s.var # "" THEN Stop(s) ELSE [s EXCEPT !.group = ""]
       [] l.kind = "set" /\ s.group # "" ->
            IF s.var # "" \/ l.name \in DOMAIN vars THEN Stop(s)
            ELSE [s EXCEPT !.groups = With(@, s.group, l.name, l.value), !.var = after]
       [] l.kind \in {"more", "open"} /\ s.group # "" /\ s.var # "" ->
            LET joined == Extended(vars[s.var], l.value)
            IN IF joined = <<>> THEN Stop(s)
               ELSE [s EXCEPT !.groups = With(@, s.group, s.var, joined[1]), !.var = IF l.goes THEN @ ELSE ""]
       [] OTHER -> Stop(s)

\* A group left open at the end of the file is not noticed
ReadFile(lines) == FoldLeft(ReadLine, Blank, lines)

CompareFiles(gold, comp) ==
  LET a == ReadFile(gold)  b == ReadFile(comp)
  IN [failed |-> ~a.ok \/ ~b.ok, same |-> DiffGroups(a.groups, b.groups) = {}]

(***************************************************************************)
(* Run configurations (findDiff): a function from sections to functions    *)
(* from keys to [text, names_case]                                         *)
(***************************************************************************)
Skipped(k, x) == x.names_case \/ k \in {"username", "logfile", "model_version"}

\* The keys of d1 that d2 lacks or has with another value
FindDiff(d1, d2) ==
  {<<s, k>> \in UNION {{<<s, k>> : k \in DOMAIN d1[s]} : s \in DOMAIN d1} :
     \/ s \notin DOMAIN d2 \/ k \notin DOMAIN d2[s]
     \/ ~Skipped(k, d1[s][k]) /\ d1[s][k].text # d2[s][k].text}
  \cup {<<s, "">> : s \in DOMAIN d1 \ DOMAIN d2}

BackDiff(d1, d2) == FindDiff(d2, d1)

RunconfigsMatch(gold, comp) == FindDiff(gold, comp) = {} /\ BackDiff(gold, comp) = {}

(***************************************************************************)
(* Other files (simple_compare.compare_files): lines are [base, dir, run], *)
(* "" a comment or a blank line                                            *)
(***************************************************************************)
\* _compare_data: the lines that do not match, and whether one file has lines
\* left; with offset only the longer file moves on after such a line
Content(lines) == SelectSeq(lines, LAMBDA l : l.base # "")

CompareData(gold, comp, offset) ==
  LET g == Content(gold)  c == Content(comp)
      Same(i, j) == g[i].base = c[j].base
      Move(at) ==
        IF at.i > Len(g) \/ at.j > Len(c) THEN at
        ELSE LET same == Same(at.i, at.j)
             IN [i |-> IF same \/ ~offset \/ Len(gold) > Len(comp) THEN at.i + 1 ELSE at.i,
                 j |-> IF same \/ ~offset \/ Len(gold) <= Len(comp) THEN at.j + 1 ELSE at.j,
                 count |-> at.count + (IF same THEN 0 ELSE 1)]
      step[n \in 0 .. (Len(g) + Len(c))] == IF n = 0 THEN [i |-> 1, j |-> 1, count |-> 0] ELSE Move(step[n - 1])
      end == step[Len(g) + Len(c)]
  IN [count |-> end.count, rest |-> end.i <= Len(g) \/ end.j <= Len(c)]

\* The second way is taken when it reports less
DocsMatch(gold, comp) ==
  LET first == CompareData(gold, comp, FALSE)
      second == CompareData(gold, comp, TRUE)
      told == IF first.count > 0 /\ second.count < first.count THEN second ELSE first
  IN told.count = 0 /\ ~told.rest

(***************************************************************************)
(* Parameters with guards (paramgen.py): trees whose dictionaries may have *)
(* logical expressions as keys.  A tree is [kind, items, text]: "dict"     *)
(* with items a sequence of [key, tree], "text" with a text.  A key is     *)
(* [guard, var, is]: a plain name in var (guard = "no"), "else", or a      *)
(* condition: a variable and the value it is compared with ("if"), which   *)
(* after expansion is "true" or "false".  A text that is an expression     *)
(* names the variable it expands to in var.                                *)
(***************************************************************************)
Nothing == [kind |-> "None", items |-> <<>>, text |-> "", var |-> ""]
Text(t) == [Nothing EXCEPT !.kind = "text", !.text = t]
Dict(items) == [Nothing EXCEPT !.kind = "dict", !.items = items]
Item(key, tree) == [key |-> key, tree |-> tree]
Name(n) == [guard |-> "no", var |-> n, is |-> ""]
Else == [guard |-> "else", var |-> "", is |-> ""]
When(var, is) == [guard |-> "if", var |-> var, is |-> is]

IsGuard(key) == key.guard # "no"

\* is_guarded_dict: all keys are guards, or none is
Guarded(items) == \A i \in DOMAIN items : IsGuard(items[i].key)
Mixed(items) == ~Guarded(items) /\ \E i \in DOMAIN items : IsGuard(items[i].key)

\* A key again takes the value of the earlier one and leaves it in its place
Assign(items, key, tree) ==
  LET at == {i \in DOMAIN items : items[i].key = key}
  IN IF at = {} THEN Append(items, Item(key, tree))
     ELSE [i \in DOMAIN items |-> IF i \in at THEN Item(key, tree) ELSE items[i]]

(***************************************************************************)
(* _expand_vars: a variable without a value is an error                    *)
(***************************************************************************)
ExpandKey(key, env) ==
  IF key.guard # "if" THEN key ELSE [guard |-> IF env[key.var] = key.is THEN "true" ELSE "false", var |-> key.is,
                                     is |-> env[key.var]]

Unknown(items, env) == \E i \in DOMAIN items : items[i].key.guard = "if" /\ items[i].key.var \notin DOMAIN env

ExpandKeys(items, env) == FoldLeft(LAMBDA new, it : Assign(new, ExpandKey(it.key, env), it.tree), <<>>, items)

(***************************************************************************)
(* _impose_guards                                                          *)
(***************************************************************************)
\* Mutant: else counts as any other guard.
ElseCounts(items) == SelectSeq(items, LAMBDA it : it.key.guard \in {"true", "else"})

\* The values whose guards hold; else only when no other does
Holding(items) ==
  LET true == SelectSeq(items, LAMBDA it : it.key.guard = "true")
  IN IF true = <<>> THEN SelectSeq(items, LAMBDA it : it.key = Else) ELSE true

Impose(items, match) ==
  LET hold == Holding(items)
  IN IF hold = <<>> THEN Nothing ELSE IF match = "first" THEN hold[1].tree ELSE Last(hold).tree

(***************************************************************************)
(* _reduce_recursive: the tree without guards, or Error                    *)
(***************************************************************************)
Error == [Nothing EXCEPT !.kind = "error"]

RECURSIVE Reduce(_, _, _)
Reduce(tree, env, match) ==
  IF tree.kind = "text" THEN IF tree.var = "" THEN tree
                             ELSE IF tree.var \in DOMAIN env THEN Text(env[tree.var]) ELSE Error
  ELSE IF tree.kind # "dict" THEN tree
  ELSE LET items == ExpandKeys(tree.items, env)
       IN CASE Unknown(tree.items, env) \/ Mixed(tree.items) -> Error
            [] Guarded(tree.items) -> Reduce(Impose(items, match), env, match)
            [] OTHER -> LET new == [i \in DOMAIN items |-> Item(items[i].key, Reduce(items[i].tree, env, match))]
                        IN IF \E i \in DOMAIN new : new[i].tree = Error THEN Error ELSE Dict(new)

(***************************************************************************)
(* append: dictionaries are joined, anything else is replaced              *)
(***************************************************************************)
RECURSIVE Joined(_, _)
Joined(old, new) ==
  LET Of(items, key) == SelectSeq(items, LAMBDA it : it.key = key)
      Put(items, it) ==
        LET mine == Of(items, it.key)
        IN Assign(items, it.key, IF mine # <<>> /\ mine[1].tree.kind = "dict" /\ it.tree.kind = "dict"
                                 THEN Joined(mine[1].tree, it.tree) ELSE it.tree)
  IN Dict(FoldLeft(Put, old.items, new.items))

(***************************************************************************)
(* from_xml_nml: an entry with values becomes a guarded dictionary; a      *)
(* value is [attrs, text], attrs the variable and value it asks for        *)
(***************************************************************************)
FromValues(values) ==
  IF Len(values) = 1 /\ values[1].attrs = <<>> THEN Text(values[1].text)
  ELSE Dict(FoldLeft(LAMBDA items, v :
              Assign(items, IF v.attrs = <<>> THEN Else ELSE When(v.attrs[1], v.attrs[2]), Text(v.text)), <<>>, values))

\* Two values without attributes are an error
ElseTwice(values) == Cardinality({i \in DOMAIN values : values[i].attrs = <<>>}) > 1

FromXml(entries) ==
  LET Group(items, e) ==
        LET mine == SelectSeq(items, LAMBDA it : it.key = Name(e.group))
            entry == Item(Name(e.id), Dict(<<Item(Name("values"), FromValues(e.values))>>))
        IN Assign(items, Name(e.group),
                  Dict(Assign(IF mine = <<>> THEN <<>> ELSE mine[1].tree.items, entry.key, entry.tree)))
  IN Dict(FoldLeft(Group, <<>>, entries))
=============================================================================
