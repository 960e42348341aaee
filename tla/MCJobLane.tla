----------------------------- MODULE MCJobLane -----------------------------
(* Model values and symmetries for the runs of JobLane. *)
EXTENDS JobLane, TLC
CONSTANTS j1, j2, p1, p2, p3, t1, t2
None == {}
OneJob == {j1}
TwoJobs == {j1, j2}
SecondJob == {j2}
OnePrompt == {p1}
TwoPrompts == {p1, p2}
ThreePrompts == {p1, p2, p3}
OneTab == {t1}
TwoTabs == {t1, t2}
Syms == Permutations(TwoPrompts)
Syms3 == Permutations(ThreePrompts)
=============================================================================
