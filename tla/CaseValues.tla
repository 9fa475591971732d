------------------------------ MODULE CaseValues ------------------------------
(***************************************************************************)
(* The values of a case: variables in several files, some with one value   *)
(* per component, whose texts refer to each other (Case.get_value and      *)
(* set_value, EnvBase, EntryID, GenericXML.get_resolved_value), and the    *)
(* comparison of a file with its locked copy (EntryID.compare_xml).        *)
(*   name   a sequence of words, e.g. <<"NTASKS", "ATM">>                  *)
(*   text   a sequence of atoms: a literal, or a reference to a name with  *)
(*          a component ("" for none)                                      *)
(*   file   its components and its entries, each with a text or, per       *)
(*          component, a function to texts                                 *)
(* A variable is in one file of a case.                                    *)
(***************************************************************************)
EXTENDS Integers, Sequences, FiniteSets, FiniteSetsExt, SequencesExt

Lit(x) == [ref |-> FALSE, x |-> x, comp |-> ""]
Ref(name, comp) == [ref |-> TRUE, x |-> name, comp |-> comp]
Loop == [ref |-> FALSE, x |-> <<"RecursionError">>, comp |-> ""]

HasRefs(text) == \E i \in DOMAIN text : text[i].ref

(***************************************************************************)
(* Names (EnvBase.check_if_comp_var): NTASKS_ATM is NTASKS of ATM          *)
(***************************************************************************)
Named(name, c) == Len(name) > 1 /\ c \in Range(name)

\* The name without the component: the one at the end if there is one (and
\* then the first after the first word), or else the first
Without(name, c) ==
  LET at == {i \in DOMAIN name : name[i] = c}
  IN RemoveAt(name, Min(IF Last(name) = c THEN at \ {1} ELSE at))

\* The entry a name stands for in a file, its component and whether it has one
\* value per component.  A name that is no entry is taken for a component's
\* when a component is in it.
CompVar(file, name) ==
  IF name \in DOMAIN file.entries
  THEN [name |-> name, comp |-> "", per |-> file.entries[name].per]
  ELSE LET in == SelectSeq(file.comps, LAMBDA c : Named(name, c))
       IN IF in = <<>> THEN [name |-> name, comp |-> "", per |-> FALSE]
          ELSE [name |-> Without(name, in[1]), comp |-> in[1], per |-> TRUE]

(***************************************************************************)
(* One file (EnvBase.get_value, set_value): <<>> when it has no value      *)
(***************************************************************************)
CompOf(k, comp) == IF k.comp # "" THEN k.comp ELSE comp

GetIn(file, name, comp) ==
  LET k == CompVar(file, name)
  IN IF k.name \notin DOMAIN file.entries THEN <<>>
     ELSE LET e == file.entries[k.name]
          IN IF ~k.per THEN <<e.text>>
             ELSE IF CompOf(k, comp) = "" \/ ~e.per THEN <<>>
             ELSE <<e.text[CompOf(k, comp)]>>

\* A name without a component sets every component's value; a plain entry is set
\* even when the name has a component that it has not
SetIn(file, name, text) ==
  LET k == CompVar(file, name)
      e == file.entries[k.name]
      changed == IF ~e.per THEN text
                 ELSE IF k.comp = "" THEN [c \in DOMAIN e.text |-> text]
                 ELSE [e.text EXCEPT ![k.comp] = text]
  IN [file EXCEPT !.entries[k.name].text = changed]

Settable(file, name) == CompVar(file, name).name \in DOMAIN file.entries

\* get_valid_value_string: a reference is always valid
ValidIn(file, name, text) ==
  LET valid == file.entries[CompVar(file, name).name].valid
  IN valid = {} \/ text \in valid \/ (text # <<>> /\ text[1].ref)

(***************************************************************************)
(* References                                                              *)
(***************************************************************************)
\* Every reference the file can resolve, in depth; without end when its
\* variables refer to each other in a circle
RECURSIVE InFile(_, _, _, _)
InFile(file, text, comp, seen) ==
  LET Resolved(a) ==
        LET of == IF a.comp # "" THEN a.comp ELSE comp
            found == GetIn(file, a.x, of)
            inner == IF CompVar(file, a.x).per THEN "" ELSE of
        IN IF ~a.ref \/ found = <<>> THEN <<a>>
           ELSE IF <<a.x, of>> \in seen THEN <<Loop>>
           ELSE InFile(file, found[1], inner, seen \cup {<<a.x, of>>})
  IN FlattenSeq([i \in DOMAIN text |-> Resolved(text[i])])

AllFiles(files, text, comp) == FoldLeft(LAMBDA t, f : InFile(f, t, comp, {}), text, files)

RecurseLimit == 10

\* Mutant: each file is asked once.
OneRound(files, text, comp) == AllFiles(files, text, comp)

\* Case.get_resolved_value: all files, again while references are left
Resolve(files, text, comp) ==
  LET Round(t, n) == IF HasRefs(t) THEN AllFiles(files, t, comp) ELSE t
  IN FoldLeft(Round, text, [n \in 1 .. RecurseLimit |-> n])

\* Case.get_value: the first file that has the variable; what is still
\* unresolved is tried again without the component, and is then an error
Holder(files, name, comp) == SelectSeq(files, LAMBDA f : GetIn(f, name, comp) # <<>>)

GetValue(files, name, comp) ==
  IF Holder(files, name, comp) = <<>> THEN [found |-> FALSE, failed |-> FALSE, text |-> <<>>]
  ELSE LET raw == GetIn(Holder(files, name, comp)[1], name, comp)[1]
           text == Resolve(files, Resolve(files, raw, comp), "")
       IN [found |-> TRUE, failed |-> HasRefs(text) \/ Loop \in Range(text), text |-> text]

\* Case.set_value: the first file that has the entry
SetValueIn(files, name, text) ==
  LET at == {i \in DOMAIN files : Settable(files[i], name)}
  IN IF at = {} \/ ~ValidIn(files[Min(at)], name, text) THEN [failed |-> TRUE, files |-> files]
     ELSE [failed |-> FALSE, files |-> [files EXCEPT ![Min(at)] = SetIn(@, name, text)]]

(***************************************************************************)
(* EntryID.compare_xml: the names whose values differ from the locked copy *)
(***************************************************************************)
\* Mutant: only entries with one value are compared.
PlainNames(file, name) == {name}

\* An entry without a value of its own is compared component by component
ComparedNames(file, name) ==
  IF GetIn(file, name, "") # <<>> THEN {name}
  ELSE {Append(name, c) : c \in Range(file.comps)}

Differences(file, locked) ==
  {name \in UNION {ComparedNames(file, n) : n \in DOMAIN file.entries} :
     GetIn(file, name, "") # <<>> /\ GetIn(file, name, "") # GetIn(locked, name, "")}
=============================================================================
