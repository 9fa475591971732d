---------------------------- MODULE MCRestartTests ----------------------------
(* Tests of each kind on calendars and dates the correction is right for. *)
EXTENDS RestartTests

At0(y, m, d) == [date |-> [y |-> y, m |-> m, d |-> d], tod |-> 0]

Test(kind, stop, option, parts) ==
  [kind |-> kind, stop |-> stop, option |-> option, parts |-> parts, rest |-> 0, cal |-> "NO_LEAP",
   base |-> "day", most |-> 48, least |-> 24, mct |-> FALSE, named |-> TRUE, start |-> At0(1, 1, 1)]

Starts == {At0(1, 1, 1), At0(2001, 12, 29), [At0(2003, 12, 30) EXCEPT !.tod = 43200]}

Few == {Test("ERS", s, "ndays", 1) : s \in {1, 4, 11}} \cup {Test("ERS", 9, "nsteps", 1), Test("ERS", 3, "nyears", 1)}
  \cup {Test(k, s, "ndays", 1) : k \in {"IRT", "ERR", "ERP"}, s \in {2, 3, 7}}
  \cup {Test("ERI", s, "ndays", 1) : s \in {5, 9, 12}} \cup {Test("ERI", 14, "nhours", 1)}
  \cup {Test("ERIO", s, "ndays", 2) : s \in {2, 5}}
  \cup {Test("DAE", 4, "ndays", 2), Test("DAE", 6, "ndays", 3), Test("DAE", 4, "ndays", 3)}

\* Restarts after the leap day of the first year, where a correction is due
Leaping == {[Test(k, 11, "ndays", 1) EXCEPT !.start = At0(2000, 2, 24)] : k \in {"ERS", "ERP"}}
  \cup {[Test("ERS", 3, "nyears", 1) EXCEPT !.start = At0(2000, 2, 1)]}

\* An interval given in shell_commands
Given == {[Test("ERS", 11, "ndays", 1) EXCEPT !.rest = 4], [Test("IRT", 7, "ndays", 1) EXCEPT !.rest = 3]}

MCTests ==
  {[t EXCEPT !.start = s] : t \in Few, s \in Starts} \cup Leaping \cup Given
    \cup {[t EXCEPT !.named = FALSE] : t \in Few}
    \cup {[t EXCEPT !.cal = "GREGORIAN", !.start = At0(2000, 2, 25)] : t \in {x \in Few : x.option # "nyears"}}
    \cup {[t EXCEPT !.mct = TRUE, !.most = 24] : t \in Few}

\* The lengths of these tests fit, as the theorems suppose
ASSUME Fitting == \A t \in MCTests : Fits(t)

\* A restart test about the end of February of a leap year
LateFebruary == {[Test("ERP", 7, "ndays", 1) EXCEPT !.start = At0(2000, 2, 25)]}

===============================================================================
