------------------------------ MODULE Authoring ------------------------------
(* The authored animation document and the attempts rendered for it           *)
(* (server/animation/store.ts with the submission routes).  The document is   *)
(* one JSON body under one revision: every command reads it, checks the       *)
(* revision the tab sent, changes it, validates it again and writes it with   *)
(* the next revision, in one transaction.  Attempts are rows of their own:    *)
(* what a submission froze never changes, and a landing attaches the clip to  *)
(* its target without touching the revision.                                  *)
(*                                                                            *)
(* A window of an extension chain is identified by its id and carries the     *)
(* root of its chain and its place in it, so a chain is the set of windows    *)
(* with one root.  An attempt is named by its idempotency key: the unique     *)
(* index on that column makes the two the same.  Texts, frames and drawings   *)
(* are members of small sets.                                                 *)
EXTENDS Integers, FiniteSets, Sequences, FiniteSetsExt, SequencesExt

CONSTANTS
    Attempts,     \* idempotency keys, one per deliberate submission
    Keys,         \* ids of key slots
    Drawings,     \* ids of image candidates
    Spans,        \* ids of spans
    Windows,      \* ids of extension windows, a set of numbers
    Frames,       \* frames of a clip a step may continue from
    Texts,        \* what an intent, a setting or an annotation may say
    None,         \* no selection, no source
    FirstTake,    \* the take the document starts with
    Sessions,     \* bound: how many calls of each lane one behaviour makes
    MaxSteps,     \* bound: step slots of one span
    MaxRequests   \* bound: submissions that wait for the engine at once

(* The kinds of calls that a session counts. *)
Lanes == {"key", "span", "document", "editorial", "chain", "lock",
          "step", "hero", "sequence", "extend"}

(* A clip and a drawing have ids of their own, and no id stands for nothing.  *)
ASSUME IdsAssumption ==
    /\ IsFiniteSet(Attempts) /\ Windows \subseteq Nat
    /\ Attempts \cap Drawings = {}
    /\ None \notin Attempts \cup Drawings \cup Spans \cup Windows

(* What the document starts with is there.                                    *)
ASSUME StartAssumption ==
    /\ FirstTake \in Attempts
    /\ \E k, l \in Keys : k # l
    /\ Spans # {} /\ Texts # {} /\ Drawings # {}
    /\ Sessions \subseteq [Lanes -> Nat]

VARIABLES
    revision,     \* authored_revision of the document row
    body,         \* body_json
    rows,         \* the attempt rows, by idempotency key
    requests,     \* submissions between their freeze and their insert
    accepted,     \* the submissions answered 200, with what they had frozen
    gateFailed,   \* a change was refused because its body does not parse
    left          \* of the session's calls, those not made yet

vars == <<revision, body, rows, requests, accepted, gateFailed, left>>
-----------------------------------------------------------------------------
(* The body *)

(* A new entry under its id. *)
Put(f, x, entry) == [y \in DOMAIN f \cup {x} |-> IF y = x THEN entry ELSE f[y]]

Reasons == {"binding", "pose", "intent", "settings"}
WindowReasons == {"ancestry", "intent", "binding", "settings"}

Step(s, i) == [kind |-> "step", span |-> s, step |-> i]
Window(w) == [kind |-> "window", window |-> w]
Key(k) == [kind |-> "key", key |-> k]

EmptyStep == [takes |-> {}, ref |-> None]

(* The annotation of a fresh rolling reference: none yet. *)
Reference(a, f) == [take |-> a, frame |-> f, note |-> None]

SpanTakes(s) == UNION {s.steps[i].takes : i \in DOMAIN s.steps}
Roots(b) == {b.windows[w].root : w \in DOMAIN b.windows}
InChain(b, root) == {w \in DOMAIN b.windows : b.windows[w].root = root}

(* parseAnimationDocumentBody: what the body must satisfy to be written. *)
WellFormed(b) ==
    /\ \A k \in DOMAIN b.keys : b.keys[k].selected \in b.keys[k].held \cup {None}
    /\ \A s \in DOMAIN b.spans :
        /\ {b.spans[s].from, b.spans[s].to} \subseteq DOMAIN b.keys
        /\ \A i \in DOMAIN b.spans[s].steps :
            LET step == b.spans[s].steps[i] IN
            step.ref # None => step.ref.take \in step.takes
    /\ \A w \in DOMAIN b.windows :
        /\ b.windows[w].selected \in b.windows[w].takes \cup {None}
        /\ \A v \in InChain(b, b.windows[w].root) \ {w} :
            /\ b.windows[v].order # b.windows[w].order
            /\ b.windows[v].takes \cap b.windows[w].takes = {}
    /\ \A e \in ToSet(b.editorial) :
        /\ e.span # None => e.span \in DOMAIN b.spans
        /\ e.window # None => e.window \in DOMAIN b.windows
        /\ e.span = None \/ e.window = None

(* The part of the body that commands write and landings do not. *)
Authored(b) ==
    [keys |-> [k \in {j \in DOMAIN b.keys : b.keys[j].held \cap Drawings # {}} |->
                  [b.keys[k] EXCEPT !.held = @ \cap Drawings]],
     spans |-> [s \in DOMAIN b.spans |->
                  [b.spans[s] EXCEPT !.steps = [i \in DOMAIN @ |-> @[i].ref]]],
     windows |-> [w \in DOMAIN b.windows |-> [b.windows[w] EXCEPT !.takes = {}]],
     editorial |-> b.editorial, binding |-> b.binding, settings |-> b.settings]
-----------------------------------------------------------------------------
(* Staleness: marks are added, never taken away *)

MarkSpans(b, spans, reason) ==
    [b EXCEPT !.spans = [s \in DOMAIN b.spans |->
        IF s \in spans THEN [b.spans[s] EXCEPT !.marks = @ \cup {reason}] ELSE b.spans[s]]]

MarkWindows(b, windows, reason) ==
    [b EXCEPT !.windows = [w \in DOMAIN b.windows |->
        IF w \in windows THEN [b.windows[w] EXCEPT !.marks = @ \cup {reason}]
                         ELSE b.windows[w]]]

MarkEverything(b, reason) ==
    MarkWindows(MarkSpans(b, DOMAIN b.spans, reason), DOMAIN b.windows, reason)

(* Mutant: the span that ends in the key is forgotten. *)
spansLeavingKey(b, k) == {s \in DOMAIN b.spans : b.spans[s].from = k}

spansTouchingKey(b, k) ==
    {s \in DOMAIN b.spans : k \in {b.spans[s].from, b.spans[s].to}}

(* The span and every span that departs, in the end, from the key it ends in. *)
spanAndDescendants(b, span) ==
    LET grown[n \in 0 .. Cardinality(DOMAIN b.spans)] ==
            IF n = 0 THEN {span}
            ELSE grown[n - 1] \cup {s \in DOMAIN b.spans :
                     \E r \in grown[n - 1] : b.spans[s].from = b.spans[r].to}
    IN grown[Cardinality(DOMAIN b.spans)]

(* The binding source an attempt froze: none for a plain take. *)
bindingSourceOf(a) == IF a \in DOMAIN rows THEN rows[a].frozen.source ELSE None

(* The attempts a take was conditioned on, from source to source. *)
Ancestry(a) ==
    LET up[n \in 0 .. Cardinality(Attempts)] ==
            IF n = 0 THEN {bindingSourceOf(a)}
            ELSE up[n - 1] \cup {bindingSourceOf(x) : x \in up[n - 1]}
    IN up[Cardinality(Attempts)] \ {None}

(* Mutant: the walk stops at the root of the window's own chain. *)
markOwnChain(b, seeds) ==
    MarkWindows(b, {w \in DOMAIN b.windows :
                       /\ b.windows[w].selected # None
                       /\ (Ancestry(b.windows[w].selected) \ {b.windows[w].root})
                            \cap seeds # {}}, "ancestry")

(* Windows of every chain whose selected take descends from one of seeds. *)
markAncestryDescendants(b, seeds) ==
    MarkWindows(b, {w \in DOMAIN b.windows :
                       /\ b.windows[w].selected # None
                       /\ Ancestry(b.windows[w].selected) \cap seeds # {}}, "ancestry")
-----------------------------------------------------------------------------
(* What a submission freezes *)

SelectedIn(b, k) == k \in DOMAIN b.keys /\ b.keys[k].selected # None

(* The reference a step departs from: the nearest earlier step's selected     *)
(* frame, or else the drawing the span starts with.                           *)
NearOf(b, s, i) ==
    LET chosen == {j \in 1 .. i - 1 : b.spans[s].steps[j].ref # None}
    IN IF chosen = {} THEN b.keys[b.spans[s].from].selected
       ELSE b.spans[s].steps[Max(chosen)].ref

Resolvable(b, s) == SelectedIn(b, b.spans[s].from) /\ SelectedIn(b, b.spans[s].to)

(* The intent of a step is the span's.  The code takes the part of it that is *)
(* preserved from the span and the movement from the client's draft, which    *)
(* the client flushes before it submits: that they agree is assumed here.     *)
StepInputs(b, s, i) ==
    [near |-> NearOf(b, s, i), far |-> b.keys[b.spans[s].to].selected,
     intent |-> b.spans[s].intent, binding |-> b.binding, settings |-> b.settings]

(* The span that holds the take a lineage starts from, if it is still there. *)
RootSpans(b, a) ==
    {s \in DOMAIN b.spans : \E r \in Ancestry(a) \cup {a} :
        /\ bindingSourceOf(r) = None
        /\ rows[r].frozen.target.kind = "step"
        /\ rows[r].frozen.target.span = s}

(* An extension takes its identity from the two drawings of the root's span.  *)
WindowInputs(b, source) ==
    LET s == CHOOSE x \in RootSpans(b, source) : TRUE
    IN [near |-> b.keys[b.spans[s].from].selected, far |-> b.keys[b.spans[s].to].selected,
        binding |-> b.binding, settings |-> b.settings]

(* Of the two drawings of a sequence window only the first is kept.           *)
KeyInputs(b, from) ==
    [near |-> b.keys[from].selected, binding |-> b.binding, settings |-> b.settings]

(* Mutant: the record is stamped with the revision to come. *)
FrozenAhead(tool, target, source, inputs) ==
    [tool |-> tool, target |-> target, source |-> source, inputs |-> inputs,
     revision |-> revision + 1]

Frozen(tool, target, source, inputs) ==
    [tool |-> tool, target |-> target, source |-> source, inputs |-> inputs,
     revision |-> revision]
-----------------------------------------------------------------------------
(* Authoring commands.  A tab's command is only applied at the revision it    *)
(* names: one that names an older revision is refused, which is no step here, *)
(* so no property sees this gate.  A command that changes nothing leaves the  *)
(* revision alone.                                                            *)

Spend(lane) ==
    /\ left[lane] > 0
    /\ left' = [left EXCEPT ![lane] = @ - 1]

Author(lane, b) ==
    /\ Spend(lane)
    /\ gateFailed' = (gateFailed \/ ~WellFormed(b))
    /\ revision' = IF WellFormed(b) THEN revision + 1 ELSE revision
    /\ body' = IF WellFormed(b) THEN b ELSE body
    /\ UNCHANGED <<rows, requests, accepted>>

updateBinding == Author("document", MarkEverything([body EXCEPT !.binding = @ + 1], "binding"))

updateDocumentSettings(text) ==
    Author("document", MarkEverything([body EXCEPT !.settings = text], "settings"))

(* A candidate joins its slot, or a new slot that nothing is selected in.     *)
addKeyCandidate(k, d) ==
    IF k \in DOMAIN body.keys
      THEN /\ d \notin body.keys[k].held
           /\ Author("key", [body EXCEPT !.keys[k].held = @ \cup {d}])
      ELSE Author("key", [body EXCEPT !.keys =
               Put(@, k, [held |-> {d}, selected |-> None, lock |-> FALSE])])

(* Only a drawing can be selected: a clip is kept as an alternative. *)
selectKeyCandidate(k, d) ==
    /\ k \in DOMAIN body.keys
    /\ d \in body.keys[k].held \cap Drawings
    /\ ~body.keys[k].lock
    /\ Author("key", IF body.keys[k].selected = d THEN body
              ELSE MarkSpans([body EXCEPT !.keys[k].selected = d],
                             spansTouchingKey(body, k), "pose"))

setKeyLock(k, locked) ==
    /\ k \in DOMAIN body.keys
    /\ Author("lock", [body EXCEPT !.keys[k].lock = locked])

(* A new id is one that neither the document nor a row ever named. *)
FreshSpans ==
    Spans \ (DOMAIN body.spans \cup
        {r.target.span : r \in {q \in {rows[a].frozen : a \in DOMAIN rows}
                                      \cup {p.frozen : p \in requests} : q.target.kind = "step"}})

insertSpan(from, to, text) ==
    /\ {from, to} \subseteq DOMAIN body.keys
    /\ FreshSpans # {}
    /\ LET s == CHOOSE x \in FreshSpans : TRUE IN
       Author("span", [body EXCEPT !.spans =
           Put(@, s, [from |-> from, to |-> to, intent |-> text,
                      steps |-> <<EmptyStep>>, marks |-> {}])])

appendStepSlot(s) ==
    /\ Len(body.spans[s].steps) < MaxSteps
    /\ Author("span", [body EXCEPT !.spans[s].steps = Append(@, EmptyStep)])

(* The chains rooted at a take of an affected span are marked with it. *)
updateSpanIntent(s, text) ==
    LET affected == spanAndDescendants(body, s)
        rootedHere == {w \in DOMAIN body.windows :
                          LET r == body.windows[w].root IN
                          /\ r \in DOMAIN rows
                          /\ rows[r].frozen.target.kind = "step"
                          /\ rows[r].frozen.target.span \in affected}
    IN Author("span", MarkWindows(MarkSpans([body EXCEPT !.spans[s].intent = text],
                                    affected, "intent"), rootedHere, "intent"))

(* A different frame starts without an annotation and marks the span; the     *)
(* frame already selected is no change at all.                                *)
selectRollingReference(s, i, a, f) ==
    LET current == body.spans[s].steps[i].ref IN
    /\ a \in body.spans[s].steps[i].takes
    /\ ~(current # None /\ current.take = a /\ current.frame = f)
    /\ Author("span", MarkSpans([body EXCEPT !.spans[s].steps[i].ref = Reference(a, f)], {s}, "pose"))

annotateRollingReference(s, i, note) ==
    LET current == body.spans[s].steps[i].ref IN
    /\ current # None
    /\ current.note # note
    /\ Author("span", MarkSpans([body EXCEPT !.spans[s].steps[i].ref.note = note], {s}, "pose"))

(* Mutant: the span leaves, its contributions stay. *)
removeSpanOnly(s) ==
    Author("span", [body EXCEPT !.spans = [x \in DOMAIN @ \ {s} |-> @[x]]])

(* The contributions of everything but the span, in their order. *)
ContributionsWithout(s) ==
    LET kept[n \in 0 .. Len(body.editorial)] ==
            IF n = 0 THEN <<>>
            ELSE IF body.editorial[n].span = s THEN kept[n - 1]
            ELSE Append(kept[n - 1], body.editorial[n])
    IN kept[Len(body.editorial)]

removeSpan(s) ==
    Author("span", [body EXCEPT
        !.spans = [x \in DOMAIN @ \ {s} |-> @[x]],
        !.editorial = ContributionsWithout(s)])
-----------------------------------------------------------------------------
(* The editorial list: one contribution per lane and attempt *)

Entry(s, w, a) == [span |-> s, window |-> w, take |-> a]

(* Mutant: choosing a portion again contributes the clip again. *)
contributeAgain(s, w, a) ==
    /\ a \in DOMAIN rows
    /\ \/ s # None /\ w = None /\ a \in SpanTakes(body.spans[s])
       \/ s = None /\ w # None /\ a \in body.windows[w].takes
       \/ s = None /\ w = None /\ rows[a].frozen.tool = "sequence"
    /\ Author("editorial", [body EXCEPT !.editorial = Append(@, Entry(s, w, a))])

selectClipContribution(s, w, a) ==
    /\ a \in DOMAIN rows
    /\ \/ s # None /\ w = None /\ a \in SpanTakes(body.spans[s])
       \/ s = None /\ w # None /\ a \in body.windows[w].takes
       \/ s = None /\ w = None /\ rows[a].frozen.tool = "sequence"
    /\ Author("editorial", IF Entry(s, w, a) \in ToSet(body.editorial) THEN body
              ELSE [body EXCEPT !.editorial = Append(@, Entry(s, w, a))])

(* Any permutation of the list. *)
reorderEditorial ==
    \E p \in Bijection(DOMAIN body.editorial, DOMAIN body.editorial) :
        Author("editorial", [body EXCEPT !.editorial = [i \in DOMAIN @ |-> @[p[i]]]])

removeContribution(i) ==
    Author("editorial", [body EXCEPT !.editorial = RemoveAt(@, i)])
-----------------------------------------------------------------------------
(* Extension chains *)

Landed(a) == a \in DOMAIN rows /\ rows[a].landed

requireExtendSource(a) == Landed(a) /\ rows[a].frozen.tool = "tween"

(* The chain a take continues: the one it roots, else the one it is selected  *)
(* in, else a new one rooted at it.                                           *)
ChainOf(a) ==
    LET selecting == {w \in DOMAIN body.windows : body.windows[w].selected = a}
    IN IF a \in Roots(body) \/ selecting = {} THEN a
       ELSE body.windows[CHOOSE w \in selecting : TRUE].root

NextOrder(root) == Max({-1} \cup {body.windows[w].order : w \in InChain(body, root)}) + 1

createWindowSlot(a) ==
    /\ requireExtendSource(a)
    /\ Windows \ DOMAIN body.windows # {}
    /\ LET w == Min(Windows \ DOMAIN body.windows) IN
       Author("chain", [body EXCEPT !.windows =
           Put(@, w, [root |-> ChainOf(a), order |-> NextOrder(ChainOf(a)), takes |-> {},
                      selected |-> None, lock |-> FALSE, source |-> a, marks |-> {}])])

(* A displaced take puts its mark on every window that descends from it. *)
selectWindowCandidate(w, a) ==
    LET displaced == body.windows[w].selected
        chosen == [body EXCEPT !.windows[w].selected = a]
    IN /\ a \in body.windows[w].takes
       /\ ~body.windows[w].lock
       /\ displaced # a
       /\ Author("chain", IF displaced = None THEN chosen
                 ELSE markAncestryDescendants(chosen, {displaced}))

setWindowLock(w, locked) == Author("lock", [body EXCEPT !.windows[w].lock = locked])

(* In its chain, and before the window. *)
Precedes(b, a, w) ==
    \/ a = b.windows[w].root
    \/ \E v \in InChain(b, b.windows[w].root) :
          a \in b.windows[v].takes /\ b.windows[v].order < b.windows[w].order

(* Mutant: any take of the chain may become the source. *)
rebindAnywhere(w, a) ==
    /\ requireExtendSource(a)
    /\ a \in UNION {body.windows[v].takes : v \in InChain(body, body.windows[w].root)}
    /\ body.windows[w].source # a
    /\ Author("chain", markAncestryDescendants(
           MarkWindows([body EXCEPT !.windows[w].source = a], {w}, "ancestry"),
           body.windows[w].takes))

(* The window's next take will have another source; what it holds keeps its.  *)
rebindContinuation(w, a) ==
    /\ requireExtendSource(a)
    /\ Precedes(body, a, w)
    /\ body.windows[w].source # a
    /\ Author("chain", markAncestryDescendants(
           MarkWindows([body EXCEPT !.windows[w].source = a], {w}, "ancestry"),
           body.windows[w].takes))

(* Mutant: a source that landed in the chain is enough, selected or not. *)
MismatchedUnheld(b, w) ==
    LET source == bindingSourceOf(b.windows[w].selected)
        chain == InChain(b, b.windows[w].root)
    IN /\ b.windows[w].selected # None
       /\ source \notin {None, b.windows[w].root}
       /\ ~\E v \in chain : source \in b.windows[v].takes

(* chainMismatch: a window whose take was conditioned on something else than  *)
(* the chain's root or what the window before it now selects.                 *)
Mismatched(b, w) ==
    LET source == bindingSourceOf(b.windows[w].selected)
        chain == InChain(b, b.windows[w].root)
    IN /\ b.windows[w].selected # None
       /\ source \notin {None, b.windows[w].root}
       /\ ~\E v \in chain : source \in b.windows[v].takes /\ b.windows[v].selected = source

chainMismatch(b, root) == {w \in InChain(b, root) : Mismatched(b, w)}
-----------------------------------------------------------------------------
(* Submissions *)

Request(a, frozen) == [attempt |-> a, frozen |-> frozen]

(* The peek: a key that holds a row is answered at once -- with the row when  *)
(* the frozen record is the same, else refused.  A new key goes on to wait    *)
(* for the engine, with what it froze.                                        *)
Submit(lane, a, frozen) ==
    /\ Spend(lane)
    /\ IF a \in DOMAIN rows
         THEN /\ rows[a].frozen = frozen
              /\ accepted' = accepted \cup {Request(a, frozen)}
              /\ UNCHANGED requests
         ELSE /\ requests' = requests \cup {Request(a, frozen)}
              /\ UNCHANGED accepted
    /\ UNCHANGED <<revision, body, rows, gateFailed>>

SubmitStep(a, s, i) ==
    /\ Resolvable(body, s)
    /\ Submit("step", a, Frozen("tween", Step(s, i), None, StepInputs(body, s, i)))

SubmitHero(a, from, k) ==
    /\ from # k /\ SelectedIn(body, from)
    /\ Submit("hero", a, Frozen("hero", Key(k), None, KeyInputs(body, from)))

SubmitSequence(a, from, to) ==
    /\ from # to /\ SelectedIn(body, from) /\ SelectedIn(body, to)
    /\ Submit("sequence", a, Frozen("sequence", Key(from), None, KeyInputs(body, from)))

(* The source is the one the window records; it and the span its lineage      *)
(* starts from must still be there.                                           *)
Extend(a, w) ==
    LET source == body.windows[w].source IN
    /\ requireExtendSource(source)
    /\ Precedes(body, source, w)
    /\ \E s \in RootSpans(body, source) : Resolvable(body, s)
    /\ Submit("extend", a, Frozen("tween", Window(w), source, WindowInputs(body, source)))

(* The insert of a row. *)
Inserted(a, frozen) ==
    Put(rows, a, [frozen |-> frozen, landed |-> FALSE, earlier |-> FALSE])

(* Mutant: the loser of the insert race is answered with the winner's row. *)
RecordUnchecked(r) ==
    /\ r \in requests
    /\ requests' = requests \ {r}
    /\ accepted' = accepted \cup {r}
    /\ rows' = IF r.attempt \in DOMAIN rows THEN rows
                                           ELSE Inserted(r.attempt, r.frozen)
    /\ UNCHANGED <<revision, body, gateFailed, left>>

(* recordAttempt.  The loser of an insert race is answered with the winner's  *)
(* row only when it froze the same.                                           *)
Record(r) ==
    /\ r \in requests
    /\ requests' = requests \ {r}
    /\ IF r.attempt \in DOMAIN rows
         THEN /\ accepted' = IF rows[r.attempt].frozen = r.frozen
                               THEN accepted \cup {r} ELSE accepted
              /\ UNCHANGED rows
         ELSE /\ rows' = Inserted(r.attempt, r.frozen)
              /\ accepted' = accepted \cup {r}
    /\ UNCHANGED <<revision, body, gateFailed, left>>

(* Refused before the insert, or the server died: nothing was persisted. *)
Drop(r) ==
    /\ r \in requests
    /\ requests' = requests \ {r}
    /\ UNCHANGED <<revision, body, rows, accepted, gateFailed, left>>
-----------------------------------------------------------------------------
(* Landing: the clip joins its target; the revision and every selection stay. *)

TargetThere(b, t) ==
    CASE t.kind = "step"   -> t.span \in DOMAIN b.spans
      [] t.kind = "window" -> t.window \in DOMAIN b.windows
      [] t.kind = "key"    -> TRUE

(* Mutant: the first take of a window is selected as it lands. *)
AttachedSelected(b, a) ==
    LET frozen == rows[a].frozen
        t == frozen.target
    IN CASE frozen.tool = "hero" /\ t.key \in DOMAIN b.keys ->
              [b EXCEPT !.keys[t.key].held = @ \cup {a}]
         [] frozen.tool = "tween" /\ t.kind = "step" ->
              [b EXCEPT !.spans[t.span].steps[t.step].takes = @ \cup {a}]
         [] frozen.tool = "tween" /\ t.kind = "window" ->
              [b EXCEPT !.windows[t.window].takes = @ \cup {a},
                        !.windows[t.window].selected = IF @ = None THEN a ELSE @]
         [] OTHER -> b

Attached(b, a) ==
    LET frozen == rows[a].frozen
        t == frozen.target
    IN CASE frozen.tool = "hero" /\ t.key \in DOMAIN b.keys ->
              [b EXCEPT !.keys[t.key].held = @ \cup {a}]
         [] frozen.tool = "hero" /\ t.key \notin DOMAIN b.keys ->
              [b EXCEPT !.keys = Put(@, t.key, [held |-> {a}, selected |-> None, lock |-> FALSE])]
         [] frozen.tool = "tween" /\ t.kind = "step" ->
              [b EXCEPT !.spans[t.span].steps[t.step].takes = @ \cup {a}]
         [] frozen.tool = "tween" /\ t.kind = "window" ->
              [b EXCEPT !.windows[t.window].takes = @ \cup {a}]
         [] frozen.tool = "sequence" -> b

landCandidate(a) ==
    /\ a \in DOMAIN rows /\ ~rows[a].landed
    /\ TargetThere(body, rows[a].frozen.target)
    /\ LET b == Attached(body, a)
           landed == [rows EXCEPT ![a].landed = TRUE,
                                  ![a].earlier = rows[a].frozen.revision < revision]
       IN /\ gateFailed' = (gateFailed \/ ~WellFormed(b))
          /\ body' = IF WellFormed(b) THEN b ELSE body
          /\ rows' = IF WellFormed(b) THEN landed ELSE rows
    /\ UNCHANGED <<revision, requests, accepted, left>>
-----------------------------------------------------------------------------
(* The document as the tabs find it: two drawn keys, a span between them and  *)
(* one take of its first step.                                                *)
FirstKey == CHOOSE k \in Keys : TRUE
SecondKey == CHOOSE k \in Keys \ {FirstKey} : TRUE
FirstSpan == CHOOSE s \in Spans : TRUE
FirstText == CHOOSE t \in Texts : TRUE
FirstDrawing == CHOOSE d \in Drawings : TRUE

FirstBody ==
    [keys |-> [k \in {FirstKey, SecondKey} |->
                 [held |-> {FirstDrawing}, selected |-> FirstDrawing, lock |-> FALSE]],
     spans |-> [s \in {FirstSpan} |->
                  [from |-> FirstKey, to |-> SecondKey, intent |-> FirstText,
                   steps |-> << [takes |-> {FirstTake}, ref |-> None] >>, marks |-> {}]],
     windows |-> <<>>, editorial |-> <<>>, binding |-> 1, settings |-> FirstText]

Init ==
    /\ revision = 0
    /\ body = FirstBody
    /\ requests = {}
    /\ accepted = {}
    /\ gateFailed = FALSE
    /\ left \in Sessions
    /\ rows = [a \in {FirstTake} |->
          [frozen |-> [tool |-> "tween", target |-> Step(FirstSpan, 1), source |-> None,
                       inputs |-> StepInputs(FirstBody, FirstSpan, 1), revision |-> 0],
           landed |-> TRUE, earlier |-> FALSE]]

KeyCommands ==
    \E k \in Keys :
        \/ \E d \in Drawings : addKeyCandidate(k, d) \/ selectKeyCandidate(k, d)
        \/ \E locked \in BOOLEAN : setKeyLock(k, locked)

SpanCommands ==
    \/ \E from, to \in Keys, text \in Texts : insertSpan(from, to, text)
    \/ \E s \in DOMAIN body.spans :
        \/ appendStepSlot(s)
        \/ removeSpan(s)
        \/ \E text \in Texts : updateSpanIntent(s, text)
        \/ \E i \in DOMAIN body.spans[s].steps :
            \/ \E a \in Attempts, f \in Frames : selectRollingReference(s, i, a, f)
            \/ \E note \in Texts \cup {None} : annotateRollingReference(s, i, note)

DocumentCommands ==
    updateBinding \/ \E text \in Texts : updateDocumentSettings(text)

EditorialCommands ==
    \/ reorderEditorial
    \/ \E i \in DOMAIN body.editorial : removeContribution(i)
    \/ \E a \in Attempts :
        \/ selectClipContribution(None, None, a)
        \/ \E s \in DOMAIN body.spans : selectClipContribution(s, None, a)
        \/ \E w \in DOMAIN body.windows : selectClipContribution(None, w, a)

ChainCommands ==
    \E a \in Attempts :
        \/ createWindowSlot(a)
        \/ \E w \in DOMAIN body.windows :
            \/ selectWindowCandidate(w, a)
            \/ rebindContinuation(w, a)

WindowLocks == \E w \in DOMAIN body.windows, locked \in BOOLEAN : setWindowLock(w, locked)

Submissions ==
    /\ Cardinality(requests) < MaxRequests
    /\ \E a \in Attempts :
        \/ \E s \in DOMAIN body.spans : \E i \in DOMAIN body.spans[s].steps : SubmitStep(a, s, i)
        \/ \E k, l \in Keys : SubmitHero(a, k, l) \/ SubmitSequence(a, k, l)
        \/ \E w \in DOMAIN body.windows : Extend(a, w)

Next ==
    \/ KeyCommands \/ SpanCommands \/ DocumentCommands \/ EditorialCommands
    \/ ChainCommands \/ WindowLocks \/ Submissions
    \/ \E r \in requests : Record(r) \/ Drop(r)
    \/ \E a \in Attempts : landCandidate(a)

Spec == Init /\ [][Next]_vars
-----------------------------------------------------------------------------
(* Correctness *)

(* Every variable holds what the column or the answer it stands for can hold. *)
TypeOK ==
    /\ revision \in Nat
    /\ DOMAIN body.keys \subseteq Keys
    /\ DOMAIN body.spans \subseteq Spans
    /\ DOMAIN body.windows \subseteq Windows
    /\ \A s \in DOMAIN body.spans : body.spans[s].marks \subseteq Reasons
    /\ \A w \in DOMAIN body.windows : body.windows[w].marks \subseteq WindowReasons
    /\ DOMAIN rows \subseteq Attempts
    /\ \A a \in DOMAIN rows :
        /\ rows[a].frozen.tool \in {"hero", "tween", "sequence"}
        /\ rows[a].frozen.revision <= revision
        /\ rows[a].landed \in BOOLEAN /\ rows[a].earlier \in BOOLEAN
    /\ {r.attempt : r \in requests \cup accepted} \subseteq Attempts
    /\ gateFailed \in BOOLEAN
    /\ left \in [Lanes -> Nat]

(* The validation before every write (parseAnimationDocumentBody) is a last   *)
(* line of defence: no sequence of commands, submissions and landings leads   *)
(* to a body it has to refuse, so nobody is ever answered its internal error  *)
(* and no rendered clip is turned away by it.                                 *)
GateNeverRefuses == ~gateFailed

(* What a window records as its source, and what each of its takes was really *)
(* conditioned on, is the root of its chain or an alternative of an earlier   *)
(* window of the same chain -- whatever was selected, branched or rebound     *)
(* while the take was rendered.  The ancestry walks rely on it.               *)
LineageStaysInChain ==
    \A w \in DOMAIN body.windows :
        /\ Precedes(body, body.windows[w].source, w)
        /\ \A a \in body.windows[w].takes : Precedes(body, bindingSourceOf(a), w)

(* Every ancestor of the window's take is what its own window selects. *)
LineageHolds(b, w) ==
    \A x \in Ancestry(b.windows[w].selected) : \A v \in DOMAIN b.windows :
        x \in b.windows[v].takes => b.windows[v].selected = x

(* chainMismatch only compares neighbours.  That is enough: in a chain where  *)
(* it reports nothing, the whole lineage of every selected take lies on the   *)
(* selected path, so the preview never joins clips of unrelated ancestry.     *)
PreviewIsCoherent ==
    \A root \in Roots(body) : chainMismatch(body, root) = {} =>
        \A w \in InChain(body, root) : body.windows[w].selected # None =>
            \A x \in Ancestry(body.windows[w].selected) :
                \A v \in InChain(body, root) :
                    x \in body.windows[v].takes => body.windows[v].selected = x

(* A step of an outdated span is never shown as current: a take whose frozen  *)
(* inputs -- drawings, rolling reference, intent, binding, settings -- are no *)
(* longer what its step would render from is in a marked span, or was flagged *)
(* when it landed.                                                            *)
OutdatedIsShown ==
    \A s \in DOMAIN body.spans : \A i \in DOMAIN body.spans[s].steps :
        \A a \in body.spans[s].steps[i].takes :
            rows[a].frozen.inputs # StepInputs(body, s, i) =>
                body.spans[s].marks # {} \/ rows[a].earlier

(* The same for the takes of extension windows, which freeze the drawings of  *)
(* the span their chain starts from (routes.ts, the references in force).     *)
OutdatedWindowIsShown ==
    \A w \in DOMAIN body.windows : \A a \in body.windows[w].takes :
        RootSpans(body, a) # {} =>
        (rows[a].frozen.inputs # WindowInputs(body, a) =>
            body.windows[w].marks # {} \/ rows[a].earlier)

(* Nobody is told that a submission was accepted while the row under its key  *)
(* renders something else, also when two submissions with one key both found  *)
(* no row and waited for the engine together.                                 *)
AnswerIsTheirs ==
    \A r \in accepted : r.attempt \in DOMAIN rows /\ rows[r.attempt].frozen = r.frozen

(* The editorial list names each take at most once per lane, and only takes   *)
(* the lane still holds.                                                      *)
EditorialIsBacked ==
    /\ \A i, j \in DOMAIN body.editorial : body.editorial[i] = body.editorial[j] => i = j
    /\ \A e \in ToSet(body.editorial) :
        /\ e.span # None => e.take \in SpanTakes(body.spans[e.span])
        /\ e.window # None => e.take \in body.windows[e.window].takes

(* The revision names the authored content: nothing a command may write ever  *)
(* changes under an unchanged revision, so a tab whose revision is accepted   *)
(* has seen everything it overwrites.                                         *)
RevisionNamesContent ==
    [][Authored(body') # Authored(body) => revision' = revision + 1]_vars

(* A window that is left alone while the lineage of its take is broken        *)
(* elsewhere -- in its chain or in the chain it branches from -- is marked by *)
(* the very step that breaks it.                                              *)
BrokenLineageIsMarked ==
    [][\A w \in DOMAIN body.windows :
        /\ body.windows[w].selected # None
        /\ body'.windows[w].selected = body.windows[w].selected
        /\ LineageHolds(body, w) /\ ~LineageHolds(body', w)
        => "ancestry" \in body'.windows[w].marks]_vars
=============================================================================
