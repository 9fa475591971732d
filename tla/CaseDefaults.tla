----------------------------- MODULE CaseDefaults -----------------------------
(***************************************************************************)
(* How a new case is configured: the value an entry of a configuration     *)
(* file gives a case (EntryID, Component), the layout of processors for a  *)
(* grid, a machine and a compset (Pes), and the full name of a compset     *)
(* (Case).  A regular expression that is searched in an attribute of the   *)
(* case is the set of the values it matches.  A case's attributes A are a  *)
(* function from names to values.                                          *)
(***************************************************************************)
EXTENDS Integers, Sequences, FiniteSets, SequencesExt

\* One <value> element: its attributes in the order of the file, each a name
\* and the values it matches, and its text
Value(attrs, text) == [attrs |-> attrs, text |-> text]

Known(A, a) == a.name \in DOMAIN A
Agrees(A, a) == Known(A, a) /\ A[a.name] \in a.matches
Contradicts(A, a) == Known(A, a) /\ A[a.name] \notin a.matches

(***************************************************************************)
(* EntryID._get_value_match                                                *)
(***************************************************************************)
\* Every attribute of the element must be known and agree
Fits(A, v) == DOMAIN A = {} \/ \A i \in DOMAIN v.attrs : Agrees(A, v.attrs[i])

Score(A, v) == IF DOMAIN A = {} THEN 0 ELSE Len(v.attrs)

\* The elements that fit with the most attributes; of these the first or the last
ValueMatch(entry, A) ==
  LET fit == {i \in DOMAIN entry.values : Fits(A, entry.values[i])}
      top == Max({Score(A, entry.values[i]) : i \in fit})
      best == {i \in fit : Score(A, entry.values[i]) = top}
  IN IF fit = {} THEN <<>>
     ELSE <<entry.values[IF entry.match = "last" THEN Max(best) ELSE Min(best)].text>>

\* get_default_value
DefaultValue(entry, A) ==
  IF ValueMatch(entry, A) # <<>> THEN ValueMatch(entry, A) ELSE entry.default

(***************************************************************************)
(* Component._get_value_match                                              *)
(***************************************************************************)
\* Mutant: a later attribute that agrees outweighs one that does not.
LastAttribute(A, v, before) ==
  IF v.attrs = <<>> THEN before ELSE Agrees(A, Last(v.attrs))

\* An element counts when no attribute disagrees and its last one is known; one
\* without attributes counts when the element before it did
Counts(A, v, before) ==
  IF v.attrs = <<>> THEN before
  ELSE /\ \A i \in DOMAIN v.attrs : ~Contradicts(A, v.attrs[i])
       /\ Known(A, Last(v.attrs))

Counted(entry, A) ==
  LET count[i \in 0 .. Len(entry.values)] ==
        i > 0 /\ Counts(A, entry.values[i], IF i = 1 THEN FALSE ELSE count[i - 1])
  IN {i \in DOMAIN entry.values : count[i]}

\* The texts that are joined to the value: the default first, unless an element
\* replaces it
ComponentMatch(entry, A) ==
  LET picked == Counted(entry, A)
      InOrder == SetToSortSeq(picked, <)
      Merge(texts, i) ==
        LET t == entry.values[i].text IN IF t \in Range(texts) THEN <<t>> ELSE Append(texts, t)
  IN CASE entry.modifier = "additive" -> entry.default \o [i \in DOMAIN InOrder |-> entry.values[InOrder[i]].text]
       [] entry.modifier = "merge" -> FoldLeft(Merge, entry.default, InOrder)
       [] OTHER -> IF picked = {} THEN entry.default
                   ELSE <<entry.values[IF entry.match = "first" THEN Min(picked) ELSE Max(picked)].text>>

(***************************************************************************)
(* Pes.find_pes_layout                                                     *)
(***************************************************************************)
Anything == {"any"}
Matches(set, x) == set = Anything \/ x \in set
Weight(set, n) == IF set = Anything THEN 0 ELSE n

PesFits(node, spec) ==
  /\ Matches(node.grid, spec.grid) /\ Matches(node.mach, spec.mach)
  /\ Matches(node.compset, spec.compset) /\ Matches(node.pesize, spec.pesize)

Points(node) ==
  Weight(node.grid, 3) + Weight(node.mach, 7) + Weight(node.compset, 2) + Weight(node.pesize, 1)

NoPes == [points |-> -1, pes |-> <<>>, failed |-> FALSE]

\* Mutant: a tie is left to the order of the file.
FirstOfTie(best, node) ==
  IF Points(node) > best.points THEN [best EXCEPT !.points = Points(node), !.pes = node.pes] ELSE best

\* The layout with the most points; a tie with the best so far is an error
Better(best, node) ==
  IF best.failed THEN best
  ELSE IF Points(node) > best.points THEN [best EXCEPT !.points = Points(node), !.pes = node.pes]
  ELSE [best EXCEPT !.failed = Points(node) = best.points]

\* Settings of the later one win
Over(old, new) == [k \in DOMAIN old \cup DOMAIN new |-> IF k \in DOMAIN new THEN new[k] ELSE old[k]]

\* The overrides of every entry that fits and says more than "any", in order
Overrides(overrides, spec) ==
  LET fit == SelectSeq(overrides, LAMBDA n : PesFits(n, spec) /\ Points(n) > 0)
  IN FoldLeft(LAMBDA pes, n : Over(pes, n.pes), <<>>, fit)

\* A layout is a function from a table and a component to a number
Serial(pes) ==
  [k \in DOMAIN pes |-> IF k[1] = "ntasks" THEN 1
                        ELSE IF k[1] \in {"rootpe", "pstrid"} THEN 0 ELSE pes[k]]

PesChoice(nodes, overrides, spec) ==
  LET chosen == FoldLeft(Better, NoPes, SelectSeq(nodes, LAMBDA n : PesFits(n, spec)))
      pes == Over(chosen.pes, Overrides(overrides, spec))
      blank == SelectSeq(overrides, LAMBDA n : PesFits(n, spec) /\ Points(n) = 0)
  IN [failed |-> chosen.failed \/ Len(blank) > 1,
      pes |-> IF spec.mpilib = "mpi-serial" THEN Serial(pes) ELSE pes]

(***************************************************************************)
(* Case._setup_mach_pes.  The user asks for tasks, threads ("4x2", "4"), a *)
(* size with threads ("Mx2"), a size or nothing: p.tasks and p.threads are *)
(* 0 where none are given.  A component that a table leaves out has the    *)
(* default, and so has every component in a table that is not read.        *)
(***************************************************************************)
PesDefault == [ntasks |-> 1, nthrds |-> 1, rootpe |-> 0, pstrid |-> 1, excl_stride |-> 0]
Tables == DOMAIN PesDefault

Forced(p) == p.tasks > 0 \/ p.threads > 0

\* Mutant: the table of tasks is taken where that of threads is meant.
TasksForThreads(p) == IF Forced(p) THEN {"ntasks"} ELSE Tables

\* The tables of the file that are used
FromFile(p) ==
  IF ~Forced(p) THEN Tables
  ELSE (IF p.tasks = 0 THEN {"ntasks"} ELSE {}) \cup (IF p.threads = 0 THEN {"nthrds"} ELSE {})

\* What the user forces for every component, and the roots with it
ForcedValues(p) ==
  IF ~Forced(p) THEN <<>>
  ELSE [t \in {"rootpe", "ntasks", "nthrds"} \ FromFile(p) |->
          CASE t = "rootpe" -> 0 [] t = "ntasks" -> p.tasks [] t = "nthrds" -> p.threads]

\* The file is asked for the size "M" when only the tasks are forced, and not
\* at all when the threads are forced too
MachPes(p, nodes, overrides, spec, classes) ==
  LET choice == PesChoice(nodes, overrides, [spec EXCEPT !.pesize = IF p.tasks > 0 THEN "M" ELSE p.size])
      asked == p.tasks = 0 \/ p.threads = 0
      Number(t, c) ==
        CASE t \in DOMAIN ForcedValues(p) -> ForcedValues(p)[t]
          [] asked /\ t \in FromFile(p) /\ <<t, c>> \in DOMAIN choice.pes -> choice.pes[<<t, c>>]
          [] OTHER -> PesDefault[t]
  IN [failed |-> asked /\ choice.failed, pes |-> [k \in Tables \X classes |-> Number(k[1], k[2])]]

(***************************************************************************)
(* Case._valid_compset_impl: an element names the scenario (class "scn"),  *)
(* a model of a component class, or an extra such as BGC or TEST; tagged   *)
(* ones ("atm:DATM") come in any order.                                    *)
(***************************************************************************)
Stub(class) == [class |-> class, name |-> "stub", tagged |-> FALSE]
Untagged(e) == [e EXCEPT !.tagged = FALSE]

\* Mutant: the scenario stays where it was written.
AsWritten(elems) == elems

\* The tagged scenario changes places with the first element
ScenarioFirst(elems) ==
  LET at == {i \in 2 .. Len(elems) : elems[i].class = "scn" /\ elems[i].tagged}
  IN IF at = {} THEN elems
     ELSE [i \in DOMAIN elems |-> elems[CASE i = 1 -> Min(at) [] i = Min(at) -> 1 [] OTHER -> i]]

\* The last element of each class, a stub for a class without one, then the extras
FullCompset(written, classes) ==
  LET elems == ScenarioFirst(written)
      of(c) == {i \in 2 .. Len(elems) : elems[i].class = c}
      model(c) == IF of(c) = {} THEN Stub(c) ELSE Untagged(elems[Max(of(c))])
  IN <<Untagged(elems[1])>> \o [i \in DOMAIN classes |-> model(classes[i])]
     \o SelectSeq(Tail(elems), LAMBDA e : e.class = "extra")

\* Without an alias a compset of stubs is an error
AllStubs(compset) == \A i \in 2 .. Len(compset) : compset[i].class # "extra" => compset[i].name = "stub"

(***************************************************************************)
(* Case._find_primary_component; prog are the classes with a prognostic    *)
(* model, som whether the ocean is a slab ocean (DOCN%SOM)                 *)
(***************************************************************************)
Primary(prog, som) ==
  CASE {"OCN", "ICE"} \subseteq prog /\ prog \cap {"ATM", "LND"} # {} -> "allactive"
    [] "ATM" \in prog /\ som /\ "LND" \in prog -> "allactive"
    [] OTHER ->
       LET order == SelectSeq(<<"ATM", "LND", "OCN", "ICE", "GLC", "ROF", "WAV">>, LAMBDA c : c \in prog)
       IN IF order = <<>> THEN "drv" ELSE order[1]
=============================================================================
