---------------------------- MODULE OwnerClaims ----------------------------
(***************************************************************************)
(* What comments say of the attempts, as properties of CompletionOwner.    *)
(* TLC refutes them on the code as it is; README.md retells the            *)
(* behaviours.                                                             *)
(***************************************************************************)
EXTENDS CompletionOwner

(* completion-owner.ts:50, "Terminal execution states - no event, poll, or *)
(* cancel moves them", and rendering.ts:1620-1622, of every await of the   *)
(* dispatch: "a terminal row aborts without engine contact, keeps its      *)
(* terminal state".  It fails where a request throws after the row settled *)
(* during its await: the dispatch's catch arms, and those of a poll and a  *)
(* cancel, write without reading the row again.                            *)
TerminalIsFinal ==
    [][\A a \in Attempts :
          Terminal(row[a]) => row'[a].state = row[a].state]_vars

(* completion-owner.ts:592, "NEVER an automatic repeat of work that may    *)
(* already have run": nothing but the user's own retry (a new attempt)     *)
(* sends an attempt's prompt to the engine again.  It fails where a        *)
(* redispatch keeps the verdict never-delivered while its own send is on   *)
(* the way, and the server crashes before the answer.                      *)
PromptIsNotRepeated ==
    \A a \in Attempts : Cardinality(PromptsOf(a)) <= 1
=============================================================================
