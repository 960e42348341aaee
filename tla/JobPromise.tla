----------------------------- MODULE JobPromise -----------------------------
(***************************************************************************)
(* What the canvas lane promises of a job: the engine is asked to render   *)
(* it at most MaxAsks times and never again once it has landed, and what   *)
(* was rendered lands as a take at most once.                              *)
(***************************************************************************)
EXTENDS Naturals

CONSTANTS Jobs,
          MaxAsks    \* a submission and its one automatic retry: 2

VARIABLES asked,     \* asked[j]: the renders asked of the engine
          landed     \* landed[j]: the takes made of them

vars == <<asked, landed>>

Init == /\ asked = [j \in Jobs |-> 0]
        /\ landed = [j \in Jobs |-> 0]

Ask(j) == /\ asked[j] < MaxAsks
          /\ landed[j] = 0
          /\ asked' = [asked EXCEPT ![j] = @ + 1]
          /\ UNCHANGED landed

Land(j) == /\ asked[j] > 0
           /\ landed[j] = 0
           /\ landed' = [landed EXCEPT ![j] = 1]
           /\ UNCHANGED asked

Next == \E j \in Jobs : Ask(j) \/ Land(j)

Spec == Init /\ [][Next]_vars
=============================================================================
