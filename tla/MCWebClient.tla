---------------------------- MODULE MCWebClient ----------------------------
(***************************************************************************)
(* Instances of the web page for TLC.                                      *)
(***************************************************************************)
EXTENDS WebClient, TLC

\* A theme leaves out what the user may do besides, so that a run can afford
\* more of the rest.  Two sessions in a row tell what is left of the first in
\* the second; an operation that outlives its session meets its like in a third.
VARIABLE theme

ThemesInit == Init /\ theme \in {"search", "form", "operations"}

ThemesNext ==
    /\ UNCHANGED theme
    /\ \/ SessionNext \/ LoadNext
       \/ theme = "search" /\ SearchNext
       \/ theme = "form" /\ FormNext
       \/ theme = "operations" /\ OperationNext
    /\ theme # "operations" => sessionVersion' <= 2

ThemesSpec == ThemesInit /\ [][ThemesNext]_<<vars, theme>>

\* Sessions are only compared with the present one: of an older session a
\* view keeps that it is older.
Present(r) == [r EXCEPT !.session = IF @ = sessionVersion THEN 1 ELSE 0]
PageView ==
    <<theme, pageVars, [c \in Calls |-> Present(call[c])], latest, [l \in Lists |-> Present(shown[l])],
      selected, Present(search.timer), search.query, dataStale, operationVars, height>>

PageSymmetry == Permutations(Users) \cup Permutations(Projects) \cup Permutations(Calls)
============================================================================
