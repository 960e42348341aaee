----------------------------- MODULE MCAuthoring -----------------------------
(* The authored document for TLC.  A session says how many calls of each lane *)
(* a behaviour makes, so that the lanes meet in the pairs that share state    *)
(* while every behaviour stays short.                                         *)
EXTENDS Authoring

CONSTANTS take0, take1, take2, take3, key1, key2, drawing1, drawing2,
          span1, span2, slow, fast

Calls(few) == [lane \in Lanes |-> IF lane \in DOMAIN few THEN few[lane] ELSE 0]

AllSessions ==
    {Calls([key |-> 1, span |-> 2, step |-> 2]),
     Calls([span |-> 3, step |-> 1]),
     Calls([key |-> 2, step |-> 1]),
     Calls([chain |-> 5, extend |-> 3]),
     Calls([document |-> 1, key |-> 1, lock |-> 1, chain |-> 2, extend |-> 2]),
     Calls([span |-> 1, chain |-> 2, editorial |-> 1, extend |-> 2]),
     Calls([editorial |-> 2, hero |-> 1, sequence |-> 1, span |-> 1])}

WindowSession == {Calls([key |-> 2, chain |-> 1, extend |-> 1])}

Syms == Permutations(Attempts \ {FirstTake})
=============================================================================
