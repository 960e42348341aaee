-------------------------- MODULE MCManagedEngine --------------------------
(* Bounds for the runs of ManagedEngine. *)
EXTENDS ManagedEngine
Unreachable  == {2}
Unverifiable == {1}
OnlyOne      == {1}
Nothing      == {}
=============================================================================
