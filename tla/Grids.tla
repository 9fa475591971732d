-------------------------------- MODULE Grids --------------------------------
(***************************************************************************)
(* The grids of a case (grids.py): from an alias and a compset to the grid *)
(* of every component, its domain and the maps between the grids.  A grid  *)
(* is [name, lev], lev its levels or 0; a component has a sequence of      *)
(* grids (grids joined by ":"), as ice sheets do.  A regular expression on *)
(* the compset is the set of the compsets it matches.                      *)
(***************************************************************************)
EXTENDS Integers, Sequences, FiniteSets, SequencesExt

Grid(name) == [name |-> name, lev |-> 0]
Null == <<Grid("null")>>

(***************************************************************************)
(* _read_config_grids, get_grid_longname.  A model_grid M is [alias,       *)
(* compset, not_compset, grids, mask]; grids and mask give what it has.    *)
(***************************************************************************)
FitsCompset(M, compset) == compset \in M.compset /\ compset \notin M.not_compset

\* The first one of that alias for the compset
ModelGrid(models, alias, compset) ==
  LET fit == SelectSeq(models, LAMBDA M : M.alias = alias /\ FitsCompset(M, compset))
  IN IF fit = <<>> THEN <<>> ELSE <<fit[1]>>

\* The last default of the component for this compset
Default(defaults, comp, compset) ==
  LET fit == SelectSeq(defaults, LAMBDA d : d.comp = comp /\ compset \in d.compset)
  IN IF fit = <<>> THEN <<>> ELSE Last(fit).grids

\* Mutant: what the model grid says outweighs the defaults.
GivenFirst(M, default, comp) == IF comp \in DOMAIN M.grids THEN M.grids[comp] ELSE default

\* A component whose default is "null" has no grid
ChosenGrid(M, default, comp) ==
  IF default # Null /\ comp \in DOMAIN M.grids THEN M.grids[comp] ELSE default

\* The levels are added to whatever the name is, "null" too
WithLevel(grids, lev) == IF lev = 0 THEN grids ELSE [grids EXCEPT ![Len(grids)].lev = lev]

Classes == {"atm", "lnd", "ocnice", "rof", "glc", "wav"}

\* The mask is that of the model grid or the ocean's
LongName(defaults, M, compset, atmlev, lndlev) ==
  LET grid(c) == ChosenGrid(M, Default(defaults, c, compset), c)
      mask == IF M.mask # <<>> THEN M.mask ELSE grid("ocnice")
      named(c) ==
        LET g == IF c = "mask" THEN mask ELSE grid(c)
        IN IF g = <<>> THEN Null
           ELSE CASE c = "atm" -> WithLevel(g, atmlev) [] c = "lnd" -> WithLevel(g, lndlev) [] OTHER -> g
  IN [c \in Classes \cup {"mask"} |-> named(c)]

(***************************************************************************)
(* _ComponentGrids                                                         *)
(***************************************************************************)
CompNames == <<"atm", "lnd", "ocn", "ice", "rof", "glc", "wav">>

ComponentGrids(long) ==
  [c \in Range(CompNames) \cup {"mask"} |-> IF c \in {"ocn", "ice"} THEN long["ocnice"] ELSE long[c]]

NumGrids(C, c) == Len(C[c])

(***************************************************************************)
(* Domains (_get_domains_for_one_grid).  A domain is [nx, ny, pts, files,  *)
(* mesh]: nx is 0 and pts holds a point or nothing; a file is              *)
(* [grid, mask, file], "" for an attribute it has not; mesh is "" or the   *)
(* last mesh.  A domain is looked up without the levels.                   *)
(***************************************************************************)
AddInfo(info, key, value) ==
  [k \in DOMAIN info \cup {key} |->
     IF k # key THEN info[k] ELSE IF key \in DOMAIN info THEN info[key] \o <<value>> ELSE <<value>>]

\* A number stands for 1 when there are several
AddNumber(info, key, n) ==
  [k \in DOMAIN info \cup {key} |-> IF k # key THEN info[k] ELSE IF key \in DOMAIN info THEN <<1>> ELSE <<n>>]

Put(info, key, value) == [k \in DOMAIN info \cup {key} |-> IF k = key THEN <<value>> ELSE info[k]]

\* The last file whose attributes fit
DomainFile(dom, comp, mask) ==
  LET fit == SelectSeq(dom.files, LAMBDA f : /\ f.grid # "" \/ f.mask # <<>>
                                            /\ f.grid \in {"", comp} /\ f.mask \in {<<>>, mask})
  IN IF fit = <<>> THEN "" ELSE Last(fit).file

Sizes(info, dom, comp) ==
  IF comp = "mask" THEN info
  ELSE IF dom.nx > 0 THEN AddNumber(AddNumber(info, <<comp, "NX">>, dom.nx), <<comp, "NY">>, dom.ny)
  ELSE LET one == Put(Put(info, <<comp, "NX">>, 1), <<comp, "NY">>, 1)
       IN IF dom.pts = <<>> THEN one ELSE Put(one, <<"PTS">>, dom.pts)

OneDomain(domains, info, comp, grid, mask, driver) ==
  LET known == grid.name \in DOMAIN domains
      dom == domains[grid.name]
      points == IF <<"PTS">> \in DOMAIN info THEN info ELSE Put(info, <<"PTS">>, <<>>)
      sized == Sizes(points, dom, comp)
      file == DomainFile(dom, comp, mask)
      placed == CASE driver = "mct" /\ file # "" -> AddInfo(sized, <<comp, "DOMAIN_FILE">>, file)
                  [] driver = "nuopc" /\ comp # "mask" /\ dom.mesh # "" ->
                       AddInfo(sized, <<comp, "DOMAIN_MESH">>, dom.mesh)
                  [] OTHER -> sized
  IN AddInfo(IF known THEN placed ELSE info, <<comp, "GRID">>, grid)

Domains(domains, C, driver) ==
  LET Of(info, c) == FoldLeft(LAMBDA i, g : OneDomain(domains, i, c, g, C["mask"], driver), info, C[c])
      all == FoldLeft(Of, [k \in {} |-> <<>>], CompNames \o <<"mask">>)
  IN IF driver = "nuopc" /\ C["mask"] # Null /\ Len(C["mask"]) = 1 /\ C["mask"][1].name \in DOMAIN domains
     THEN Put(all, <<"mask", "MESH">>, domains[C["mask"][1].name].mesh) ELSE all

(***************************************************************************)
(* Maps (_get_gridmaps).  maps is a sequence of [comp1, grid1, comp2,      *)
(* grid2, name, value]; the name of a map is <<from, to, kind>>.  required *)
(* is a sequence of [name, comp1, comp2, compset, not_compset].            *)
(***************************************************************************)
\* Pairs of components in their order, the ice left out
MapComps == SelectSeq(CompNames, LAMBDA c : c # "ice")
CompPairs ==
  FlattenSeq([i \in DOMAIN MapComps |-> [k \in 1 .. (Len(MapComps) - i) |-> <<MapComps[i], MapComps[i + k]>>]])

\* The maps of one pair of grids, the last of each name
PairMaps(maps, c1, g1, c2, g2) ==
  LET here == SelectSeq(maps, LAMBDA m : m.comp1 = c1 /\ m.grid1 = g1 /\ m.comp2 = c2 /\ m.grid2 = g2)
  IN [n \in {m.name : m \in Range(here)} |-> Last(SelectSeq(here, LAMBDA m : m.name = n)).value]

GridPairs(C, p) ==
  FlattenSeq([i \in DOMAIN C[p[1]] |-> [k \in DOMAIN C[p[2]] |-> <<C[p[1]][i], C[p[2]][k]>>]])

\* The values of a map over all pairs of grids
Collected(maps, C) ==
  LET AddAll(info, new) == FoldLeft(LAMBDA i, n : AddInfo(i, n, new[n]), info, SetToSeq(DOMAIN new))
      OfPair(info, p) ==
        FoldLeft(LAMBDA i, g : AddAll(i, PairMaps(maps, p[1], g[1], p[2], g[2])), info, GridPairs(C, p))
  IN FoldLeft(OfPair, [n \in {} |-> <<>>], CompPairs)

\* Mutant: a map that is missing is taken for the identity.
UnsetIdentity(C, name, driver) == "idmap"

\* _get_unset_gridmap_value
UnsetMap(C, name, driver) ==
  IF driver # "nuopc" \/ (C[name[1]] = C[name[2]] /\ C[name[1]] # Null) THEN "idmap" ELSE "unset"

Wanted(required, compset) ==
  SelectSeq(required, LAMBDA r : compset \in r.compset /\ compset \notin r.not_compset)

\* An identity between two grids that differ is taken back with nuopc, unless
\* the first is the ocean's and equal to the atmosphere's
Checked(C, r, value, driver) ==
  LET apart == C[r.comp1] # C[r.comp2] /\ Null \notin {C[r.comp1], C[r.comp2]}
      ocean == r.comp1 = "ocn" /\ C["ocn"] = C["atm"]
  IN IF apart /\ value = <<"idmap">> /\ driver = "nuopc" /\ ~ocean THEN <<"unset">> ELSE value

Gridmaps(maps, required, C, compset, driver) ==
  LET found == Collected(maps, C)
      wanted == Wanted(required, compset)
      all == [n \in DOMAIN found \cup {r.name : r \in Range(wanted)} |->
                IF n \in DOMAIN found THEN found[n] ELSE <<UnsetMap(C, n, driver)>>]
  IN FoldLeft(LAMBDA info, r : [info EXCEPT ![r.name] = Checked(C, r, @, driver)], all, wanted)

\* check_num_elements: as many maps as pairs of grids, or "unset"
RightNumber(C, name, value) ==
  value = <<"unset">> \/ Len(value) = NumGrids(C, name[1]) * NumGrids(C, name[2])

(***************************************************************************)
(* get_grid_info; F has the defaults, models, domains, maps and required   *)
(***************************************************************************)
GridInfo(F, alias, compset, atmlev, lndlev, driver) ==
  LET M == ModelGrid(F.models, alias, compset)
      C == ComponentGrids(LongName(F.defaults, M[1], compset, atmlev, lndlev))
      gridmaps == Gridmaps(F.maps, F.required, C, compset, driver)
  IN IF M = <<>> THEN [failed |-> TRUE]
     ELSE [failed |-> \E n \in DOMAIN gridmaps : ~RightNumber(C, n, gridmaps[n]),
           grids |-> C, domains |-> Domains(F.domains, C, driver), maps |-> gridmaps]
=============================================================================
