--------------------------- MODULE AuthoringProofs ---------------------------
(* What Authoring guarantees for any document, any number of attempts and of  *)
(* calls, and any number of submissions that wait for the engine: first what  *)
(* an accepted submission is told, then the document.  DocInv says what every *)
(* command finds and leaves: the shape of the body, what refers to what in    *)
(* it, and how it relates to what the rows and the waiting submissions froze. *)
(* A command is shown to write a body in good order (Commanded), a submission *)
(* to freeze what the document says (FrozenNow) and a landing to add its clip *)
(* to the target it was rendered for (Joined).                                *)
EXTENDS Authoring, FiniteSetTheorems, SequenceTheorems, FunctionTheorems,
        WellFoundedInduction, TLAPS

(* Every row says what it froze, and every accepted submission is that of the *)
(* row under its key.                                                         *)
RowsFroze == \A a \in DOMAIN rows : "frozen" \in DOMAIN rows[a]
AnswerInv == RowsFroze /\ AnswerIsTheirs

(* A step that leaves no row out, changes what none of them froze and accepts *)
(* nobody else keeps the answers.                                             *)
LEMMA RowsKept ==
    ASSUME AnswerInv, accepted' = accepted,
           DOMAIN rows \subseteq DOMAIN rows',
           \A a \in DOMAIN rows : rows'[a].frozen = rows[a].frozen,
           \A a \in DOMAIN rows' : "frozen" \in DOMAIN rows'[a]
    PROVE  AnswerInv'
BY DEF AnswerInv, RowsFroze, AnswerIsTheirs

LEMMA SameRows ==
    ASSUME AnswerInv, rows' = rows, accepted' = accepted
    PROVE  AnswerInv'
BY DEF AnswerInv, RowsFroze, AnswerIsTheirs

(* The peek accepts a key that holds a row only for what the row froze. *)
LEMMA SubmitAnswers ==
    ASSUME AnswerInv, NEW lane, NEW a, NEW frozen, Submit(lane, a, frozen)
    PROVE  AnswerInv'
<1>1. CASE a \in DOMAIN rows
    BY <1>1 DEF Submit, Request, AnswerInv, RowsFroze, AnswerIsTheirs
<1>2. CASE a \notin DOMAIN rows
    BY <1>2, SameRows DEF Submit
<1> QED
    BY <1>1, <1>2

LEMMA SubmissionAnswers ==
    ASSUME AnswerInv, Submissions
    PROVE  AnswerInv'
BY SubmitAnswers DEF Submissions, SubmitStep, SubmitHero, SubmitSequence, Extend

(* The insert: a new key gets the row of its submission, and the loser of a   *)
(* race is only accepted when the winner froze the same.                      *)
LEMMA RecordAnswers ==
    ASSUME AnswerInv, NEW r \in requests, Record(r)
    PROVE  AnswerInv'
<1>1. CASE r.attempt \in DOMAIN rows
    <2>1. /\ rows' = rows
          /\ accepted' \subseteq accepted \cup {r}
          /\ r \in accepted' => r \in accepted \/ rows[r.attempt].frozen = r.frozen
        BY <1>1 DEF Record
    <2> QED
        BY <1>1, <2>1 DEF AnswerInv, RowsFroze, AnswerIsTheirs
<1>2. CASE r.attempt \notin DOMAIN rows
    <2> DEFINE new == [frozen |-> r.frozen, landed |-> FALSE, earlier |-> FALSE]
    <2>1. /\ rows' = [x \in DOMAIN rows \cup {r.attempt} |->
                         IF x = r.attempt THEN new ELSE rows[x]]
          /\ accepted' = accepted \cup {r}
        BY <1>2 DEF Record, Inserted, Put
    <2>2. /\ DOMAIN rows' = DOMAIN rows \cup {r.attempt}
          /\ rows'[r.attempt] = new
          /\ \A a \in DOMAIN rows : rows'[a] = rows[a]
        BY <1>2, <2>1
    <2>3. "frozen" \in DOMAIN new /\ new.frozen = r.frozen
        OBVIOUS
    <2> HIDE DEF new
    <2> QED
        BY <1>2, <2>1, <2>2, <2>3 DEF AnswerInv, RowsFroze, AnswerIsTheirs
<1> QED
    BY <1>1, <1>2

(* A landing writes the landed and the earlier field of one row. *)
LEMMA LandingKeeps ==
    ASSUME AnswerInv, NEW a, landCandidate(a)
    PROVE  AnswerInv'
<1> DEFINE landed == [rows EXCEPT ![a].landed = TRUE,
                                  ![a].earlier = rows[a].frozen.revision < revision]
<1>1. a \in DOMAIN rows /\ accepted' = accepted /\ rows' \in {rows, landed}
    BY DEF landCandidate
<1>2. CASE rows' = landed
    <2>1. DOMAIN rows' = DOMAIN rows
        BY <1>2
    <2>2. \A x \in DOMAIN rows : DOMAIN rows'[x] = DOMAIN rows[x]
                                 /\ rows'[x].frozen = rows[x].frozen
        BY <1>1, <1>2 DEF AnswerInv, RowsFroze
    <2> QED
        BY <1>1, <2>1, <2>2, RowsKept DEF AnswerInv, RowsFroze
<1> QED
    BY <1>1, <1>2, SameRows

LEMMA CommandKeeps ==
    ASSUME AnswerInv, NEW lane, NEW b, Author(lane, b)
    PROVE  AnswerInv'
BY SameRows DEF Author

LEMMA NextAnswers == AnswerInv /\ [Next]_vars => AnswerInv'
<1> SUFFICES ASSUME AnswerInv, [Next]_vars PROVE AnswerInv'
    OBVIOUS
<1>1. CASE KeyCommands
    BY <1>1, CommandKeeps
       DEF KeyCommands, addKeyCandidate, selectKeyCandidate, setKeyLock
<1>2. CASE SpanCommands
    <2>1. \A from, to, text : insertSpan(from, to, text) => AnswerInv'
        BY CommandKeeps DEF insertSpan
    <2>2. \A s : appendStepSlot(s) \/ removeSpan(s) => AnswerInv'
        BY CommandKeeps DEF appendStepSlot, removeSpan
    <2>3. \A s, text : updateSpanIntent(s, text) => AnswerInv'
        BY CommandKeeps DEF updateSpanIntent
    <2>4. \A s, i, a, f : selectRollingReference(s, i, a, f) => AnswerInv'
        BY CommandKeeps DEF selectRollingReference
    <2>5. \A s, i, note : annotateRollingReference(s, i, note) => AnswerInv'
        BY CommandKeeps DEF annotateRollingReference
    <2> QED
        BY <1>2, <2>1, <2>2, <2>3, <2>4, <2>5 DEF SpanCommands
<1>3. CASE DocumentCommands
    BY <1>3, CommandKeeps DEF DocumentCommands, updateBinding, updateDocumentSettings
<1>4. CASE EditorialCommands
    BY <1>4, CommandKeeps
       DEF EditorialCommands, reorderEditorial, removeContribution, selectClipContribution
<1>5. CASE ChainCommands \/ WindowLocks
    BY <1>5, CommandKeeps
       DEF ChainCommands, WindowLocks, createWindowSlot, selectWindowCandidate,
           rebindContinuation, setWindowLock
<1>6. CASE Submissions
    BY <1>6, SubmissionAnswers
<1>7. CASE \E r \in requests : Record(r) \/ Drop(r)
    BY <1>7, RecordAnswers, SameRows DEF Drop
<1>8. CASE \E a \in Attempts : landCandidate(a)
    BY <1>8, LandingKeeps
<1>9. CASE UNCHANGED vars
    BY <1>9, SameRows DEF vars
<1> QED
    BY <1>1, <1>2, <1>3, <1>4, <1>5, <1>6, <1>7, <1>8, <1>9 DEF Next

LEMMA InitAnswers == Init => AnswerInv
<1> SUFFICES ASSUME Init PROVE AnswerInv
    OBVIOUS
<1>1. accepted = {} /\ DOMAIN rows = {FirstTake}
      /\ "frozen" \in DOMAIN rows[FirstTake]
    BY DEF Init
<1> QED
    BY <1>1 DEF AnswerInv, RowsFroze, AnswerIsTheirs

(* Nobody is told that a submission was accepted while the row under its key  *)
(* renders something else: for any number of submissions with one key, which  *)
(* all found no row and waited for the engine together, and whatever commands *)
(* and landings came between.                                                 *)
THEOREM AnswersAreTheirs == Spec => []AnswerIsTheirs
<1>1. AnswerInv => AnswerIsTheirs
    BY DEF AnswerInv
<1> QED
    BY <1>1, InitAnswers, NextAnswers, PTL DEF Spec
-----------------------------------------------------------------------------
(* Numbers *)

(* Induction over the naturals, by the least element a set of them has. *)
LEMMA NatMin ==
    ASSUME NEW T, T \subseteq Nat, T # {}
    PROVE  \E x \in T : \A y \in T : x <= y
<1> DEFINE R == OpToRel(<, Nat)
<1>1. IsWellFoundedOn(R, Nat)
    BY NatLessThanWellFounded
<1>2. \A x, y \in Nat : x < y => <<x, y>> \in R
    BY DEF OpToRel
<1> HIDE DEF R
<1>3. PICK x \in T : \A y \in T : ~ (<<y, x>> \in R)
    BY <1>1, WFMin
<1>4. \A y \in T : ~(y < x)
    BY <1>2, <1>3
<1>5. x \in Nat /\ \A y \in T : y \in Nat
    OBVIOUS
<1>6. \A y \in T : x <= y
    BY <1>4, <1>5
<1> QED
    BY <1>3, <1>6

LEMMA Climb ==
    ASSUME NEW N \in Nat, NEW S, 0 \in S,
           \A n \in 1 .. N : n - 1 \in S => n \in S
    PROVE  \A n \in 0 .. N : n \in S
<1> SUFFICES ASSUME (0 .. N) \ S # {} PROVE FALSE
    OBVIOUS
<1>1. PICK n \in (0 .. N) \ S : \A m \in (0 .. N) \ S : n <= m
    BY NatMin, (0 .. N) \ S \subseteq Nat
<1>2. n \in 1 .. N /\ n - 1 \in 0 .. N
    BY <1>1
<1>3. n - 1 \in S
    BY <1>1, <1>2
<1> QED
    BY <1>1, <1>2, <1>3

(* A function that climbs by a step function, and that there is one. *)
Climbs(g, N, X, base, step) ==
    /\ g \in [0 .. N -> X]
    /\ g[0] = base /\ \A n \in 1 .. N : g[n] = step[<<n, g[n - 1]>>]
LEMMA Climber ==
    ASSUME NEW N \in Nat, NEW X, NEW base \in X, NEW step \in [(1 .. N) \X X -> X]
    PROVE  \E g : Climbs(g, N, X, base, step)
<1> DEFINE Is(n, g) == g[0] = base /\ \A i \in 1 .. n : g[i] = step[<<i, g[i - 1]>>]
           S == {n \in 0 .. N : \E g \in [0 .. n -> X] : Is(n, g)}
<1>1. 0 \in S
    <2> DEFINE h == [i \in 0 .. 0 |-> base]
    <2>1. h \in [0 .. 0 -> X] /\ Is(0, h) /\ 0 \in 0 .. N
        OBVIOUS
    <2> HIDE DEF h, Is
    <2> QED
        BY <2>1
<1>2. ASSUME NEW n \in 1 .. N, n - 1 \in S PROVE n \in S
    <2>1. PICK g \in [0 .. n - 1 -> X] : Is(n - 1, g)
        BY <1>2
    <2> DEFINE h == [i \in 0 .. n |-> IF i = n THEN step[<<n, g[n - 1]>>] ELSE g[i]]
    <2>2. g[n - 1] \in X /\ <<n, g[n - 1]>> \in (1 .. N) \X X
        OBVIOUS
    <2>3. \A i \in 0 .. n : h[i] \in X
        BY <2>2
    <2>4. h \in [0 .. n -> X]
        BY <2>3
    <2>5. \A i \in 1 .. n : h[i - 1] = g[i - 1]
        OBVIOUS
    <2>6. h[0] = base
        BY <2>1
    <2>7. ASSUME NEW i \in 1 .. n PROVE h[i] = step[<<i, h[i - 1]>>]
        <3>1. CASE i = n
            <4>1. h[n] = step[<<n, g[n - 1]>>] /\ h[n - 1] = g[n - 1]
                BY <2>5
            <4> HIDE DEF h
            <4> QED
                BY <3>1, <4>1
        <3>2. CASE i # n
            BY <2>1, <2>5, <3>2
        <3> QED
            BY <3>1, <3>2
    <2> HIDE DEF h
    <2>8. Is(n, h) /\ n \in 0 .. N
        BY <2>6, <2>7
    <2> HIDE DEF Is
    <2> QED
        BY <2>4, <2>8
<1>3. N \in S
    <2> HIDE DEF S
    <2> QED
        BY <1>1, <1>2, Climb
<1> QED
    BY <1>3 DEF Climbs

(* Bounded sets of numbers have a greatest element. *)
LEMMA BoundedMax ==
    ASSUME NEW T, T \subseteq Nat, T # {}, NEW n \in Nat, \A x \in T : x <= n
    PROVE  Max(T) \in T /\ \A x \in T : x <= Max(T)
<1> DEFINE B == {m \in Nat : \A x \in T : x <= m}
<1>1. PICK m \in B : \A k \in B : m <= k
    BY NatMin, n \in B
<1>2. m \in T
    <2> SUFFICES ASSUME m \notin T PROVE FALSE
        OBVIOUS
    <2>1. \A x \in T : x < m
        BY <1>1
    <2>2. m \in Nat /\ \A x \in T : x \in Nat /\ x < m
        BY <2>1, <1>1
    <2>3. m # 0
        <3>1. PICK x \in T : TRUE
            OBVIOUS
        <3> QED
            BY <2>2, <3>1
    <2>4. \A x \in T : x <= m - 1
        BY <2>2
    <2>5. m - 1 \in B
        BY <2>2, <2>3, <2>4
    <2> QED
        BY <1>1, <2>5
<1>3. \A x \in T : m >= x
    BY <1>1
<1>4. Max(T) \in T /\ \A x \in T : Max(T) >= x
    BY <1>2, <1>3 DEF Max
<1>5. \A x \in T : x \in Nat
    OBVIOUS
<1> QED
    BY <1>4, <1>5

-----------------------------------------------------------------------------
(* Ancestry *)

(* Ancestry, for the rows R: the walk from source to source, step by step. *)
SourceIn(R, a) == IF a \in DOMAIN R THEN R[a].frozen.source ELSE None

AncestryIn(R, a) ==
    LET up[n \in 0 .. Cardinality(Attempts)] ==
            IF n = 0 THEN {SourceIn(R, a)}
            ELSE up[n - 1] \cup {SourceIn(R, x) : x \in up[n - 1]}
    IN up[Cardinality(Attempts)] \ {None}

LEMMA AncestryHere ==
    ASSUME NEW a
    PROVE  Ancestry(a) = AncestryIn(rows, a)
BY DEF Ancestry, AncestryIn, bindingSourceOf, SourceIn

Walks(R, h, a) ==
    /\ h[0] = {SourceIn(R, a)}
    /\ \A n \in 1 .. Cardinality(Attempts) :
           h[n] = h[n - 1] \cup {SourceIn(R, x) : x \in h[n - 1]}
    /\ AncestryIn(R, a) = h[Cardinality(Attempts)] \ {None}

LEMMA AncestryWalks ==
    ASSUME NEW R, NEW a
    PROVE  \E h : Walks(R, h, a)
<1> DEFINE N == Cardinality(Attempts)
           Next1(S) == S \cup {SourceIn(R, x) : x \in S}
           X == SUBSET ({SourceIn(R, a), None} \cup {R[x].frozen.source : x \in DOMAIN R})
           step == [p \in (1 .. N) \X X |-> Next1(p[2])]
           base == {SourceIn(R, a)}
           Is(g) == g = [n \in 0 .. N |-> IF n = 0 THEN {SourceIn(R, a)} ELSE Next1(g[n - 1])]
<1>1. N \in Nat
    BY IdsAssumption, FS_CardinalityType
<1>2. base \in X
    OBVIOUS
<1>3. \A S \in X : Next1(S) \in X
    BY DEF SourceIn
<1>4. step \in [(1 .. N) \X X -> X]
    BY <1>3
<1>5. \A n \in 1 .. N, S \in X : step[<<n, S>>] = Next1(S)
    OBVIOUS
<1>6. base = {SourceIn(R, a)}
    OBVIOUS
<1> HIDE DEF step, N, X, base
<1>7. PICK g : Climbs(g, N, X, base, step)
    BY <1>1, <1>2, <1>4, Climber
<1>8. /\ g \in [0 .. N -> X]
      /\ g[0] = base /\ \A n \in 1 .. N : g[n] = step[<<n, g[n - 1]>>]
    BY <1>7 DEF Climbs
<1>9. \A n \in 1 .. N : g[n - 1] \in X
    BY <1>1, <1>8
<1>10. Is(g)
    <2>1. \A n \in 1 .. N : g[n] = Next1(g[n - 1])
        BY <1>5, <1>8, <1>9
    <2>2. \A n \in 0 .. N : n # 0 => n \in 1 .. N
        BY <1>1
    <2> HIDE DEF Next1
    <2>3. \A n \in 0 .. N : g[n] = IF n = 0 THEN {SourceIn(R, a)} ELSE Next1(g[n - 1])
        BY <1>6, <1>8, <2>1, <2>2
    <2> QED
        BY <1>8, <2>3
<1> DEFINE h == CHOOSE f : Is(f)
<1>11. Is(h)
    <2> HIDE DEF Is
    <2> QED
        BY <1>10
<1>12. AncestryIn(R, a) = h[N] \ {None}
    BY DEF AncestryIn, N
<1>13. h[0] = {SourceIn(R, a)} /\ \A n \in 1 .. N : h[n] = Next1(h[n - 1])
    <2> HIDE DEF Next1, h
    <2>1. h = [n \in 0 .. N |-> IF n = 0 THEN {SourceIn(R, a)} ELSE Next1(h[n - 1])]
        BY <1>11
    <2>2. 0 \in 0 .. N /\ \A n \in 1 .. N : n \in 0 .. N /\ n # 0
        BY <1>1
    <2> QED
        BY <2>1, <2>2
<1> HIDE DEF h
<1> QED
    BY <1>12, <1>13 DEF Walks, N

(* What holds of the source and passes from a take to its source holds of     *)
(* every ancestor.                                                            *)
LEMMA AncestorsIn ==
    ASSUME NEW R, NEW a, NEW G, SourceIn(R, a) \in G, \A x \in G : SourceIn(R, x) \in G
    PROVE  AncestryIn(R, a) \subseteq G
<1>1. PICK h : Walks(R, h, a)
    BY AncestryWalks
<1> DEFINE N == Cardinality(Attempts)
           S == {n \in 0 .. N : h[n] \subseteq G}
<1>2. N \in Nat
    BY IdsAssumption, FS_CardinalityType
<1>3. h[0] \subseteq G /\ \A n \in 1 .. N : h[n - 1] \subseteq G => h[n] \subseteq G
    BY <1>1 DEF Walks
<1>4. 0 \in S /\ \A n \in 1 .. N : n - 1 \in S => n \in S
    BY <1>2, <1>3
<1> HIDE DEF S
<1>5. N \in S
    BY <1>2, <1>4, Climb
<1> QED
    BY <1>1, <1>5 DEF Walks, S

(* Rows are never taken away, and keep what they froze. *)
RowsExtended(R, Q) == \A a \in DOMAIN R : a \in DOMAIN Q /\ Q[a].frozen = R[a].frozen
SourcesThere(R) == \A a \in DOMAIN R : R[a].frozen.source \in DOMAIN R \cup {None}

LEMMA AncestryKept ==
    ASSUME NEW R, NEW Q, RowsExtended(R, Q), SourcesThere(R), None \notin DOMAIN Q,
           NEW a \in DOMAIN R
    PROVE  AncestryIn(Q, a) \subseteq AncestryIn(R, a) /\ AncestryIn(R, a) \subseteq DOMAIN R
<1>1. PICK h : Walks(R, h, a)
    BY AncestryWalks
<1>2. PICK k : Walks(Q, k, a)
    BY AncestryWalks
<1> DEFINE N == Cardinality(Attempts)
           There == DOMAIN R \cup {None}
           S == {n \in 0 .. N : k[n] = h[n] /\ h[n] \subseteq There}
<1>3. N \in Nat
    BY IdsAssumption, FS_CardinalityType
<1>4. \A x \in There : SourceIn(Q, x) = SourceIn(R, x) /\ SourceIn(R, x) \in There
    BY DEF RowsExtended, SourcesThere, SourceIn
<1>5. 0 \in S
    <2>1. h[0] = {SourceIn(R, a)} /\ k[0] = {SourceIn(Q, a)}
        BY <1>1, <1>2 DEF Walks
    <2>2. SourceIn(Q, a) = SourceIn(R, a) /\ SourceIn(R, a) \in There
        BY <1>4
    <2> HIDE DEF There
    <2>3. k[0] = h[0] /\ h[0] \subseteq There
        BY <2>1, <2>2
    <2> QED
        BY <1>3, <2>3
<1>6. ASSUME NEW n \in 1 .. N, k[n - 1] = h[n - 1], h[n - 1] \subseteq There
      PROVE  k[n] = h[n] /\ h[n] \subseteq There
    <2>1. h[n] = h[n - 1] \cup {SourceIn(R, x) : x \in h[n - 1]}
        BY <1>1 DEF Walks
    <2>2. k[n] = k[n - 1] \cup {SourceIn(Q, x) : x \in k[n - 1]}
        BY <1>2 DEF Walks
    <2> HIDE DEF There
    <2> QED
        BY <1>4, <1>6, <2>1, <2>2
<1>7. \A n \in 1 .. N : n - 1 \in S => n \in S
    BY <1>3, <1>6
<1> HIDE DEF S
<1>8. N \in S
    BY <1>3, <1>5, <1>7, Climb
<1> QED
    BY <1>1, <1>2, <1>8 DEF Walks, S

(* Neither the root of a chain nor an ancestor of it is a take of the window. *)
Rooted(R, root, w) ==
    /\ root \in DOMAIN R
    /\ \A x \in AncestryIn(R, root) \cup {root} : R[x].frozen.target # Window(w)

LEMMA RootedKept ==
    ASSUME NEW R, NEW Q, RowsExtended(R, Q), SourcesThere(R), None \notin DOMAIN Q,
           NEW root, NEW w, Rooted(R, root, w)
    PROVE  Rooted(Q, root, w)
<1>1. AncestryIn(Q, root) \subseteq AncestryIn(R, root) /\ AncestryIn(R, root) \subseteq DOMAIN R
    BY AncestryKept DEF Rooted
<1> QED
    BY <1>1 DEF Rooted, RowsExtended

-----------------------------------------------------------------------------
(* The shape of what the document and the rows hold. *)
Maps(S, T) == UNION {[D -> T] : D \in SUBSET S}
Flags == BOOLEAN

KeySlots ==
    [held : SUBSET (Attempts \cup Drawings), selected : Drawings \cup {None}, lock : Flags]
References == [take : Attempts, frame : Frames, note : Texts \cup {None}]
StepSlots == [takes : SUBSET Attempts, ref : References \cup {None}]
SpanSlots ==
    [from : Keys, to : Keys, intent : Texts, steps : Seq(StepSlots), marks : SUBSET Reasons]
WindowSlots ==
    [root : Attempts, order : Nat, takes : SUBSET Attempts, selected : Attempts \cup {None},
     lock : Flags, source : Attempts, marks : SUBSET WindowReasons]
Contributions == [span : Spans \cup {None}, window : Windows \cup {None}, take : Attempts]
Bodies ==
    [keys : Maps(Keys, KeySlots), spans : Maps(Spans, SpanSlots),
     windows : Maps(Windows, WindowSlots), editorial : Seq(Contributions),
     binding : Nat, settings : Texts]

RowsInv ==
    /\ revision \in Nat
    /\ DOMAIN rows \subseteq Attempts
    /\ \A a \in DOMAIN rows :
        /\ DOMAIN rows[a] = {"frozen", "landed", "earlier"}
        /\ rows[a].landed \in Flags /\ rows[a].earlier \in Flags
    /\ \A r \in requests \cup accepted : r.attempt \in Attempts

(* Keys select what they hold, and spans and references name what is there. *)
KeysInv(b) == \A k \in DOMAIN b.keys : b.keys[k].selected \in b.keys[k].held \cup {None}

SpansInv(b) ==
    /\ IsFiniteSet(DOMAIN b.spans)
    /\ \A s \in DOMAIN b.spans :
        /\ {b.spans[s].from, b.spans[s].to} \subseteq DOMAIN b.keys
        /\ \A i \in DOMAIN b.spans[s].steps :
            b.spans[s].steps[i].ref # None =>
                b.spans[s].steps[i].ref.take \in b.spans[s].steps[i].takes

(* The windows of a chain have places of their own, bounded by some number;   *)
(* each selects what it holds and continues what precedes it, and is younger  *)
(* than the root and what the root was rendered from.                         *)
ChainsInv(b) ==
    /\ \A w \in DOMAIN b.windows :
        /\ b.windows[w].selected \in b.windows[w].takes \cup {None}
        /\ Precedes(b, b.windows[w].source, w)
        /\ Rooted(rows, b.windows[w].root, w)
        /\ \A v \in InChain(b, b.windows[w].root) \ {w} : b.windows[v].order # b.windows[w].order
    /\ \E n \in Nat : \A w \in DOMAIN b.windows : b.windows[w].order <= n

(* A take is in the step or the window it was rendered for, and landed there. *)
IsTakeOf(a, target) ==
    /\ a \in DOMAIN rows /\ rows[a].landed
    /\ rows[a].frozen.tool = "tween" /\ rows[a].frozen.target = target

TakesInv(b) ==
    /\ \A s \in DOMAIN b.spans : \A i \in DOMAIN b.spans[s].steps :
        \A a \in b.spans[s].steps[i].takes : IsTakeOf(a, Step(s, i))
    /\ \A w \in DOMAIN b.windows : \A a \in b.windows[w].takes : IsTakeOf(a, Window(w))

(* What was frozen for a row, or will be frozen for one, names a target that  *)
(* is there, or a span that has left; a window's source precedes it.          *)
Submitted == {rows[a].frozen : a \in DOMAIN rows} \cup {r.frozen : r \in requests}

ForStep(b, f) ==
    \E s \in Spans, i \in Nat :
        /\ f.tool = "tween" /\ f.target = Step(s, i) /\ f.source = None
        /\ s \in DOMAIN b.spans => i \in DOMAIN b.spans[s].steps

ForWindow(b, f) ==
    \E w \in DOMAIN b.windows :
        /\ f.tool = "tween" /\ f.target = Window(w)
        /\ f.source \in DOMAIN rows /\ rows[f.source].landed
        /\ Precedes(b, f.source, w)

ForKey(f) ==
    \E k \in Keys : f.tool \in {"hero", "sequence"} /\ f.target = Key(k) /\ f.source = None

FrozenInv(b) ==
    \A f \in Submitted :
        /\ f.revision \in Nat /\ f.revision <= revision
        /\ ForStep(b, f) \/ ForWindow(b, f) \/ ForKey(f)

(* The editorial list is backed, for a body. *)
EditorialInv(b) ==
    /\ \A i, j \in DOMAIN b.editorial : b.editorial[i] = b.editorial[j] => i = j
    /\ \A i \in DOMAIN b.editorial :
        LET e == b.editorial[i] IN
        /\ e.span # None => /\ e.span \in DOMAIN b.spans
                            /\ e.take \in SpanTakes(b.spans[e.span])
        /\ e.window # None => /\ e.window \in DOMAIN b.windows
                              /\ e.take \in b.windows[e.window].takes
        /\ e.span = None \/ e.window = None

(* What is frozen at the revision the document still has was frozen from what *)
(* the document still says; an older one shows, or its span does.             *)
CurrentInv(b) ==
    \A f \in Submitted : \A s \in DOMAIN b.spans : \A i \in DOMAIN b.spans[s].steps :
        (f.revision = revision /\ f.target = Step(s, i)) => f.inputs = StepInputs(b, s, i)

ShownInv(b) ==
    \A s \in DOMAIN b.spans : \A i \in DOMAIN b.spans[s].steps :
        \A a \in b.spans[s].steps[i].takes :
            \/ rows[a].frozen.inputs = StepInputs(b, s, i)
            \/ b.spans[s].marks # {}
            \/ rows[a].earlier

FormInv(b) ==
    /\ b \in Bodies
    /\ KeysInv(b) /\ SpansInv(b) /\ ChainsInv(b)
    /\ TakesInv(b) /\ FrozenInv(b) /\ EditorialInv(b)

DocInv ==
    /\ RowsInv /\ ~gateFailed /\ left \in [Lanes -> Nat]
    /\ FormInv(body) /\ CurrentInv(body) /\ ShownInv(body)

-----------------------------------------------------------------------------
(* Lemmas about the shapes *)

LEMMA MapFacts ==
    ASSUME NEW S, NEW T, NEW f \in Maps(S, T)
    PROVE  /\ DOMAIN f \subseteq S
           /\ f = [x \in DOMAIN f |-> f[x]]
           /\ \A x \in DOMAIN f : f[x] \in T
BY DEF Maps

LEMMA MapMade ==
    ASSUME NEW S, NEW T, NEW D \in SUBSET S, NEW f \in [D -> T]
    PROVE  f \in Maps(S, T)
BY DEF Maps

LEMMA MapExcept ==
    ASSUME NEW S, NEW T, NEW f \in Maps(S, T), NEW x \in DOMAIN f, NEW v \in T,
           NEW g, g = [f EXCEPT ![x] = v]
    PROVE  /\ g \in Maps(S, T) /\ DOMAIN g = DOMAIN f
           /\ g[x] = v /\ \A y \in DOMAIN f : y # x => g[y] = f[y]
<1>1. DOMAIN f \in SUBSET S /\ f \in [DOMAIN f -> T]
    BY MapFacts
<1>2. g \in [DOMAIN f -> T]
    BY <1>1
<1> QED
    BY <1>1, <1>2, MapMade

LEMMA MapPut ==
    ASSUME NEW S, NEW T, NEW f \in Maps(S, T), NEW x \in S, NEW v \in T
    PROVE  Put(f, x, v) \in Maps(S, T)
<1>1. DOMAIN f \in SUBSET S /\ f \in [DOMAIN f -> T]
    BY MapFacts
<1>2. Put(f, x, v) \in [DOMAIN f \cup {x} -> T]
    BY <1>1 DEF Put
<1>3. DOMAIN f \cup {x} \in SUBSET S
    BY <1>1
<1> QED
    BY <1>2, <1>3, MapMade

LEMMA BodyParts ==
    ASSUME NEW b \in Bodies
    PROVE  /\ b.keys \in Maps(Keys, KeySlots)
           /\ b.spans \in Maps(Spans, SpanSlots)
           /\ b.windows \in Maps(Windows, WindowSlots)
           /\ b.editorial \in Seq(Contributions)
           /\ b.binding \in Nat /\ b.settings \in Texts
BY DEF Bodies

LEMMA KeyParts ==
    ASSUME NEW b \in Bodies, NEW k \in DOMAIN b.keys
    PROVE  /\ k \in Keys /\ b.keys[k] \in KeySlots
           /\ b.keys[k].held \subseteq Attempts \cup Drawings
           /\ b.keys[k].selected \in Drawings \cup {None}
           /\ b.keys[k].lock \in Flags
<1>1. k \in Keys /\ b.keys[k] \in KeySlots
    BY BodyParts, MapFacts
<1> QED
    BY <1>1 DEF KeySlots

LEMMA SpanParts ==
    ASSUME NEW b \in Bodies, NEW s \in DOMAIN b.spans
    PROVE  /\ s \in Spans /\ b.spans[s] \in SpanSlots
           /\ b.spans[s].from \in Keys /\ b.spans[s].to \in Keys
           /\ b.spans[s].intent \in Texts
           /\ b.spans[s].steps \in Seq(StepSlots)
           /\ b.spans[s].marks \subseteq Reasons
<1>1. s \in Spans /\ b.spans[s] \in SpanSlots
    BY BodyParts, MapFacts
<1> QED
    BY <1>1 DEF SpanSlots

LEMMA StepParts ==
    ASSUME NEW b \in Bodies, NEW s \in DOMAIN b.spans, NEW i \in DOMAIN b.spans[s].steps
    PROVE  /\ i \in Nat /\ i \in 1 .. Len(b.spans[s].steps)
           /\ b.spans[s].steps[i] \in StepSlots
           /\ b.spans[s].steps[i].takes \subseteq Attempts
           /\ b.spans[s].steps[i].ref \in References \cup {None}
<1>1. b.spans[s].steps \in Seq(StepSlots)
    BY SpanParts
<1>2. i \in 1 .. Len(b.spans[s].steps) /\ Len(b.spans[s].steps) \in Nat
      /\ b.spans[s].steps[i] \in StepSlots
    BY <1>1
<1> QED
    BY <1>2 DEF StepSlots

LEMMA WindowParts ==
    ASSUME NEW b \in Bodies, NEW w \in DOMAIN b.windows
    PROVE  /\ w \in Windows /\ b.windows[w] \in WindowSlots
           /\ b.windows[w].root \in Attempts /\ b.windows[w].order \in Nat
           /\ b.windows[w].takes \subseteq Attempts
           /\ b.windows[w].selected \in Attempts \cup {None}
           /\ b.windows[w].source \in Attempts
           /\ b.windows[w].lock \in Flags
           /\ b.windows[w].marks \subseteq WindowReasons
<1>1. w \in Windows /\ b.windows[w] \in WindowSlots
    BY BodyParts, MapFacts
<1> QED
    BY <1>1 DEF WindowSlots

(* A body with one part exchanged. *)
LEMMA NewKeys ==
    ASSUME NEW b \in Bodies, NEW K \in Maps(Keys, KeySlots), NEW c, c = [b EXCEPT !.keys = K]
    PROVE  /\ c \in Bodies /\ c.keys = K /\ c.spans = b.spans /\ c.windows = b.windows
           /\ c.editorial = b.editorial /\ c.binding = b.binding /\ c.settings = b.settings
BY DEF Bodies

LEMMA NewSpans ==
    ASSUME NEW b \in Bodies, NEW S \in Maps(Spans, SpanSlots), NEW c, c = [b EXCEPT !.spans = S]
    PROVE  /\ c \in Bodies /\ c.keys = b.keys /\ c.spans = S /\ c.windows = b.windows
           /\ c.editorial = b.editorial /\ c.binding = b.binding /\ c.settings = b.settings
BY DEF Bodies

LEMMA NewWindows ==
    ASSUME NEW b \in Bodies, NEW W \in Maps(Windows, WindowSlots),
           NEW c, c = [b EXCEPT !.windows = W]
    PROVE  /\ c \in Bodies /\ c.keys = b.keys /\ c.spans = b.spans /\ c.windows = W
           /\ c.editorial = b.editorial /\ c.binding = b.binding /\ c.settings = b.settings
BY DEF Bodies

LEMMA NewEditorial ==
    ASSUME NEW b \in Bodies, NEW E \in Seq(Contributions), NEW c, c = [b EXCEPT !.editorial = E]
    PROVE  /\ c \in Bodies /\ c.keys = b.keys /\ c.spans = b.spans /\ c.windows = b.windows
           /\ c.editorial = E /\ c.binding = b.binding /\ c.settings = b.settings
BY DEF Bodies

-----------------------------------------------------------------------------
(* What a change of the body may leave alone *)

(* Windows keep their chain and place, and what they hold. *)
WindowsGrow(b, c) ==
    \A w \in DOMAIN b.windows :
        /\ w \in DOMAIN c.windows
        /\ c.windows[w].root = b.windows[w].root
        /\ c.windows[w].order = b.windows[w].order
        /\ b.windows[w].takes \subseteq c.windows[w].takes

LEMMA PrecedesKept ==
    ASSUME NEW b, NEW c, WindowsGrow(b, c), NEW w \in DOMAIN b.windows, NEW a,
           Precedes(b, a, w)
    PROVE  Precedes(c, a, w)
BY DEF WindowsGrow, Precedes, InChain

(* Steps keep what they hold, and none is taken away. *)
SpansGrow(b, c) ==
    \A s \in DOMAIN b.spans :
        /\ s \in DOMAIN c.spans
        /\ \A i \in DOMAIN b.spans[s].steps :
            /\ i \in DOMAIN c.spans[s].steps
            /\ b.spans[s].steps[i].takes \subseteq c.spans[s].steps[i].takes

LEMMA HeldKept ==
    ASSUME NEW b, NEW c, SpansGrow(b, c), NEW s \in DOMAIN b.spans
    PROVE  SpanTakes(b.spans[s]) \subseteq SpanTakes(c.spans[s])
<1> SUFFICES ASSUME NEW a \in SpanTakes(b.spans[s]) PROVE a \in SpanTakes(c.spans[s])
    OBVIOUS
<1>1. PICK i \in DOMAIN b.spans[s].steps : a \in b.spans[s].steps[i].takes
    BY DEF SpanTakes
<1>2. i \in DOMAIN c.spans[s].steps /\ a \in c.spans[s].steps[i].takes
    BY <1>1 DEF SpansGrow
<1> QED
    BY <1>2 DEF SpanTakes

LEMMA EditorialKept ==
    ASSUME NEW b, NEW c, EditorialInv(b), c.editorial = b.editorial,
           SpansGrow(b, c), WindowsGrow(b, c)
    PROVE  EditorialInv(c)
<1>1. \A s \in DOMAIN b.spans : /\ s \in DOMAIN c.spans
                                /\ SpanTakes(b.spans[s]) \subseteq SpanTakes(c.spans[s])
    BY HeldKept DEF SpansGrow
<1>2. \A w \in DOMAIN b.windows : /\ w \in DOMAIN c.windows
                                  /\ b.windows[w].takes \subseteq c.windows[w].takes
    BY DEF WindowsGrow
<1>3. ASSUME NEW i \in DOMAIN b.editorial
      PROVE  LET e == b.editorial[i] IN
             /\ e.span # None => /\ e.span \in DOMAIN c.spans
                                 /\ e.take \in SpanTakes(c.spans[e.span])
             /\ e.window # None => /\ e.window \in DOMAIN c.windows
                                   /\ e.take \in c.windows[e.window].takes
             /\ e.span = None \/ e.window = None
    BY <1>1, <1>2, <1>3 DEF EditorialInv
<1> QED
    BY <1>3 DEF EditorialInv

(* No target of a submission loses its step, and none is in a new span. *)
NoSpanReused(b, c) ==
    \A s \in DOMAIN c.spans \ DOMAIN b.spans : \A f \in Submitted, i \in Nat : f.target # Step(s, i)

StepsStay(b, c) ==
    \A s \in DOMAIN b.spans \cap DOMAIN c.spans :
        DOMAIN b.spans[s].steps \subseteq DOMAIN c.spans[s].steps

LEMMA TargetsKept ==
    ASSUME NEW b, NEW c, FrozenInv(b), StepsStay(b, c), WindowsGrow(b, c), NoSpanReused(b, c)
    PROVE  FrozenInv(c)
<1> SUFFICES ASSUME NEW f \in Submitted
             PROVE  /\ f.revision \in Nat /\ f.revision <= revision
                    /\ ForStep(c, f) \/ ForWindow(c, f) \/ ForKey(f)
    BY DEF FrozenInv
<1>1. f.revision \in Nat /\ f.revision <= revision
    BY DEF FrozenInv
<1>2. CASE ForStep(b, f)
    <2>1. PICK s \in Spans, i \in Nat :
              /\ f.tool = "tween" /\ f.target = Step(s, i) /\ f.source = None
              /\ s \in DOMAIN b.spans => i \in DOMAIN b.spans[s].steps
        BY <1>2 DEF ForStep
    <2>2. s \in DOMAIN c.spans => i \in DOMAIN c.spans[s].steps
        BY <2>1 DEF StepsStay, NoSpanReused
    <2>3. ForStep(c, f)
        BY <2>1, <2>2 DEF ForStep
    <2> QED
        BY <1>1, <2>3
<1>3. CASE ForWindow(b, f)
    <2>1. PICK w \in DOMAIN b.windows :
              /\ f.tool = "tween" /\ f.target = Window(w)
              /\ f.source \in DOMAIN rows /\ rows[f.source].landed
              /\ Precedes(b, f.source, w)
        BY <1>3 DEF ForWindow
    <2>2. w \in DOMAIN c.windows /\ Precedes(c, f.source, w)
        BY <2>1, PrecedesKept DEF WindowsGrow
    <2>3. ForWindow(c, f)
        BY <2>1, <2>2 DEF ForWindow
    <2> QED
        BY <1>1, <2>3
<1> QED
    BY <1>1, <1>2, <1>3 DEF FrozenInv

(* Nothing joins a step or a window. *)
NoNewTakes(b, c) ==
    /\ \A s \in DOMAIN c.spans : \A i \in DOMAIN c.spans[s].steps :
        \A a \in c.spans[s].steps[i].takes :
            s \in DOMAIN b.spans /\ i \in DOMAIN b.spans[s].steps
            /\ a \in b.spans[s].steps[i].takes
    /\ \A w \in DOMAIN c.windows : \A a \in c.windows[w].takes :
            w \in DOMAIN b.windows /\ a \in b.windows[w].takes

LEMMA TakesKept ==
    ASSUME NEW b, NEW c, TakesInv(b), NoNewTakes(b, c)
    PROVE  TakesInv(c)
BY DEF TakesInv, NoNewTakes

(* A change that lets spans and windows grow and brings no take keeps the     *)
(* form, when what it changes itself is in order.                             *)
LEMMA GrowsForm ==
    ASSUME NEW b, NEW c, FormInv(b), c \in Bodies, c.editorial = b.editorial,
           SpansGrow(b, c), WindowsGrow(b, c), NoSpanReused(b, c), NoNewTakes(b, c),
           KeysInv(c), SpansInv(c), ChainsInv(c)
    PROVE  FormInv(c)
<1>1. StepsStay(b, c)
    BY DEF SpansGrow, StepsStay
<1> QED
    BY <1>1, EditorialKept, TargetsKept, TakesKept DEF FormInv

LEMMA SameSpansGrow ==
    ASSUME NEW b, NEW c, c.spans = b.spans
    PROVE  SpansGrow(b, c) /\ NoSpanReused(b, c)
BY DEF SpansGrow, NoSpanReused

LEMMA SameWindowsGrow ==
    ASSUME NEW b, NEW c, c.windows = b.windows
    PROVE  WindowsGrow(b, c) /\ (ChainsInv(b) => ChainsInv(c))
BY DEF WindowsGrow, ChainsInv, Precedes, InChain

LEMMA KeysForm ==
    ASSUME NEW b, NEW c, FormInv(b), c \in Bodies, c.editorial = b.editorial,
           c.spans = b.spans, c.windows = b.windows,
           DOMAIN b.keys \subseteq DOMAIN c.keys, KeysInv(c)
    PROVE  FormInv(c)
<1>1. SpansInv(c)
    BY DEF FormInv, SpansInv
<1>2. NoNewTakes(b, c)
    BY DEF NoNewTakes
<1> QED
    BY <1>1, <1>2, GrowsForm, SameSpansGrow, SameWindowsGrow DEF FormInv

LEMMA SpansForm ==
    ASSUME NEW b, NEW c, FormInv(b), c \in Bodies, c.editorial = b.editorial,
           c.keys = b.keys, c.windows = b.windows,
           SpansGrow(b, c), NoSpanReused(b, c), NoNewTakes(b, c), SpansInv(c)
    PROVE  FormInv(c)
BY GrowsForm, SameWindowsGrow DEF FormInv, KeysInv

LEMMA WindowsForm ==
    ASSUME NEW b, NEW c, FormInv(b), c \in Bodies, c.editorial = b.editorial,
           c.keys = b.keys, c.spans = b.spans,
           WindowsGrow(b, c), NoNewTakes(b, c), ChainsInv(c)
    PROVE  FormInv(c)
<1>1. SpansInv(c) /\ KeysInv(c)
    BY DEF FormInv, SpansInv, KeysInv
<1> QED
    BY <1>1, GrowsForm, SameSpansGrow

(* Windows that keep chain, place and source, and select what they hold. *)
LEMMA ChainsKept ==
    ASSUME NEW b, NEW c, ChainsInv(b), WindowsGrow(b, c), DOMAIN c.windows = DOMAIN b.windows,
           \A w \in DOMAIN c.windows :
               /\ c.windows[w].selected \in c.windows[w].takes \cup {None}
               /\ Precedes(c, c.windows[w].source, w)
    PROVE  ChainsInv(c)
<1>1. ASSUME NEW w \in DOMAIN c.windows, NEW v \in InChain(c, c.windows[w].root) \ {w}
      PROVE  c.windows[v].order # c.windows[w].order
    <2>1. v \in InChain(b, b.windows[w].root) \ {w}
        BY DEF InChain, WindowsGrow
    <2> QED
        BY <2>1 DEF ChainsInv, WindowsGrow, InChain
<1>2. PICK n \in Nat : \A w \in DOMAIN b.windows : b.windows[w].order <= n
    BY DEF ChainsInv
<1>3. \A w \in DOMAIN c.windows : c.windows[w].order <= n
    BY <1>2 DEF WindowsGrow
<1>4. \A w \in DOMAIN c.windows : Rooted(rows, c.windows[w].root, w)
    BY DEF ChainsInv, WindowsGrow
<1> QED
    BY <1>1, <1>3, <1>4 DEF ChainsInv

(* Marks change nothing else. *)
LEMMA MarkSpansForm ==
    ASSUME NEW b, FormInv(b), NEW S, NEW reason \in Reasons, NEW c, c = MarkSpans(b, S, reason)
    PROVE  /\ FormInv(c) /\ c.keys = b.keys /\ c.windows = b.windows
           /\ c.editorial = b.editorial /\ c.binding = b.binding /\ c.settings = b.settings
           /\ DOMAIN c.spans = DOMAIN b.spans
           /\ \A s \in DOMAIN b.spans :
               /\ c.spans[s].from = b.spans[s].from /\ c.spans[s].to = b.spans[s].to
               /\ c.spans[s].intent = b.spans[s].intent /\ c.spans[s].steps = b.spans[s].steps
               /\ b.spans[s].marks \subseteq c.spans[s].marks
               /\ s \in S => reason \in c.spans[s].marks
<1> DEFINE M == [s \in DOMAIN b.spans |->
                    IF s \in S THEN [b.spans[s] EXCEPT !.marks = @ \cup {reason}] ELSE b.spans[s]]
<1>1. c = [b EXCEPT !.spans = M]
    BY DEF MarkSpans
<1>2. b \in Bodies /\ c = [b EXCEPT !.spans = M]
    BY <1>1 DEF FormInv
<1>3. ASSUME NEW s \in DOMAIN b.spans
      PROVE  /\ M[s] \in SpanSlots
             /\ M[s].from = b.spans[s].from /\ M[s].to = b.spans[s].to
             /\ M[s].intent = b.spans[s].intent /\ M[s].steps = b.spans[s].steps
             /\ b.spans[s].marks \subseteq M[s].marks
             /\ s \in S => reason \in M[s].marks
    <2>1. b.spans[s] \in SpanSlots
        BY <1>2, SpanParts
    <2> QED
        BY <2>1 DEF SpanSlots
<1>4. DOMAIN b.spans \in SUBSET Spans /\ M \in [DOMAIN b.spans -> SpanSlots]
    BY <1>2, <1>3, SpanParts
<1> HIDE DEF M
<1>5. M \in Maps(Spans, SpanSlots) /\ DOMAIN M = DOMAIN b.spans
    BY <1>4, MapMade
<1>6. /\ c \in Bodies /\ c.keys = b.keys /\ c.spans = M /\ c.windows = b.windows
      /\ c.editorial = b.editorial /\ c.binding = b.binding /\ c.settings = b.settings
    BY <1>2, <1>5, NewSpans
<1>7. SpansGrow(b, c) /\ NoSpanReused(b, c) /\ NoNewTakes(b, c)
    BY <1>3, <1>5, <1>6 DEF SpansGrow, NoSpanReused, NoNewTakes
<1>8. SpansInv(c)
    BY <1>3, <1>5, <1>6 DEF SpansInv, FormInv
<1>9. FormInv(c)
    BY <1>6, <1>7, <1>8, SpansForm
<1> QED
    BY <1>3, <1>5, <1>6, <1>9

LEMMA MarkWindowsForm ==
    ASSUME NEW b, FormInv(b), NEW W, NEW reason \in WindowReasons,
           NEW c, c = MarkWindows(b, W, reason)
    PROVE  /\ FormInv(c) /\ c.keys = b.keys /\ c.spans = b.spans
           /\ c.editorial = b.editorial /\ c.binding = b.binding /\ c.settings = b.settings
           /\ DOMAIN c.windows = DOMAIN b.windows
           /\ \A w \in DOMAIN b.windows :
               /\ c.windows[w].root = b.windows[w].root
               /\ c.windows[w].order = b.windows[w].order
               /\ c.windows[w].takes = b.windows[w].takes
               /\ c.windows[w].selected = b.windows[w].selected
               /\ c.windows[w].source = b.windows[w].source
               /\ b.windows[w].marks \subseteq c.windows[w].marks
               /\ w \in W => reason \in c.windows[w].marks
<1> DEFINE M == [w \in DOMAIN b.windows |->
                    IF w \in W THEN [b.windows[w] EXCEPT !.marks = @ \cup {reason}]
                    ELSE b.windows[w]]
<1>1. c = [b EXCEPT !.windows = M]
    BY DEF MarkWindows
<1>2. b \in Bodies /\ c = [b EXCEPT !.windows = M]
    BY <1>1 DEF FormInv
<1>3. ASSUME NEW w \in DOMAIN b.windows
      PROVE  /\ M[w] \in WindowSlots
             /\ M[w].root = b.windows[w].root /\ M[w].order = b.windows[w].order
             /\ M[w].takes = b.windows[w].takes /\ M[w].selected = b.windows[w].selected
             /\ M[w].source = b.windows[w].source
             /\ b.windows[w].marks \subseteq M[w].marks
             /\ w \in W => reason \in M[w].marks
    <2>1. b.windows[w] \in WindowSlots
        BY <1>2, WindowParts
    <2> QED
        BY <2>1 DEF WindowSlots
<1>4. DOMAIN b.windows \in SUBSET Windows /\ M \in [DOMAIN b.windows -> WindowSlots]
    BY <1>2, <1>3, WindowParts
<1> HIDE DEF M
<1>5. M \in Maps(Windows, WindowSlots) /\ DOMAIN M = DOMAIN b.windows
    BY <1>4, MapMade
<1>6. /\ c \in Bodies /\ c.keys = b.keys /\ c.spans = b.spans /\ c.windows = M
      /\ c.editorial = b.editorial /\ c.binding = b.binding /\ c.settings = b.settings
    BY <1>2, <1>5, NewWindows
<1>7. WindowsGrow(b, c) /\ NoNewTakes(b, c)
    BY <1>3, <1>5, <1>6 DEF WindowsGrow, NoNewTakes
<1>8. ASSUME NEW w \in DOMAIN c.windows
      PROVE  /\ c.windows[w].selected \in c.windows[w].takes \cup {None}
             /\ Precedes(c, c.windows[w].source, w)
    <2>1. Precedes(b, b.windows[w].source, w)
        BY <1>5, <1>6 DEF FormInv, ChainsInv
    <2>2. Precedes(c, b.windows[w].source, w)
        BY <1>5, <1>6, <1>7, <2>1, PrecedesKept
    <2> QED
        BY <1>3, <1>5, <1>6, <2>2 DEF FormInv, ChainsInv
<1>9. ChainsInv(c)
    BY <1>5, <1>6, <1>7, <1>8, ChainsKept DEF FormInv
<1>10. FormInv(c)
    BY <1>6, <1>7, <1>9, WindowsForm
<1> QED
    BY <1>3, <1>5, <1>6, <1>10

-----------------------------------------------------------------------------
(* Commands: keys *)

(* Two bodies in which a step would render from the same inputs. *)
LEMMA SameInputs ==
    ASSUME NEW b, NEW c, NEW s, NEW i \in Nat,
           c.spans[s].from = b.spans[s].from, c.spans[s].to = b.spans[s].to,
           c.spans[s].intent = b.spans[s].intent,
           \A j \in 1 .. i - 1 : c.spans[s].steps[j].ref = b.spans[s].steps[j].ref,
           c.keys[b.spans[s].from].selected = b.keys[b.spans[s].from].selected,
           c.keys[b.spans[s].to].selected = b.keys[b.spans[s].to].selected,
           c.binding = b.binding, c.settings = b.settings
    PROVE  StepInputs(c, s, i) = StepInputs(b, s, i)
<1> DEFINE S == {j \in 1 .. i - 1 : b.spans[s].steps[j].ref # None}
           T == {j \in 1 .. i - 1 : c.spans[s].steps[j].ref # None}
<1>1. S = T
    OBVIOUS
<1>2. CASE S = {}
    <2>1. NearOf(b, s, i) = b.keys[b.spans[s].from].selected
        BY <1>2 DEF NearOf
    <2>2. NearOf(c, s, i) = b.keys[b.spans[s].from].selected
        BY <1>1, <1>2 DEF NearOf
    <2> QED
        BY <2>1, <2>2 DEF StepInputs
<1>3. CASE S # {}
    <2>1. Max(S) \in 1 .. i - 1
        <3>1. \A j \in S : j <= i
            OBVIOUS
        <3>2. Max(S) \in S
            BY <1>3, <3>1, BoundedMax, S \subseteq Nat
        <3> QED
            BY <3>2
    <2>2. NearOf(b, s, i) = b.spans[s].steps[Max(S)].ref
        BY <1>3 DEF NearOf
    <2>3. NearOf(c, s, i) = c.spans[s].steps[Max(S)].ref
        BY <1>1, <1>3 DEF NearOf
    <2> QED
        BY <2>1, <2>2, <2>3 DEF StepInputs
<1> QED
    BY <1>2, <1>3

(* A span keeps its marks and its takes are as current as they were, or marked. *)
Shows(b, c) ==
    \A s \in DOMAIN c.spans : \A i \in DOMAIN c.spans[s].steps :
        \A a \in c.spans[s].steps[i].takes :
            /\ s \in DOMAIN b.spans /\ i \in DOMAIN b.spans[s].steps
            /\ a \in b.spans[s].steps[i].takes
            /\ b.spans[s].marks \subseteq c.spans[s].marks
            /\ c.spans[s].marks # {} \/ StepInputs(c, s, i) = StepInputs(b, s, i)

LEMMA ShownKept ==
    ASSUME NEW b, NEW c, ShownInv(b), Shows(b, c)
    PROVE  ShownInv(c)
BY DEF Shows, ShownInv

LEMMA SameSpansShow ==
    ASSUME NEW b, NEW c, FormInv(b), ShownInv(b), c.spans = b.spans,
           \A k \in DOMAIN b.keys : c.keys[k].selected = b.keys[k].selected,
           c.binding = b.binding, c.settings = b.settings
    PROVE  ShownInv(c)
<1> SUFFICES ASSUME NEW s \in DOMAIN b.spans, NEW i \in DOMAIN b.spans[s].steps
             PROVE  StepInputs(c, s, i) = StepInputs(b, s, i)
    BY ShownKept DEF Shows
<1>1. i \in Nat
    BY StepParts DEF FormInv
<1>2. b.spans[s].from \in DOMAIN b.keys /\ b.spans[s].to \in DOMAIN b.keys
    BY DEF FormInv, SpansInv
<1> QED
    BY <1>1, <1>2, SameInputs

(* The windows whose lineage a change breaks are marked by it. *)
LineageMarked(b, c) ==
    \A w \in DOMAIN b.windows :
        /\ b.windows[w].selected # None
        /\ c.windows[w].selected = b.windows[w].selected
        /\ LineageHolds(b, w) /\ ~LineageHolds(c, w)
        => "ancestry" \in c.windows[w].marks

LEMMA SameWindowsMarked ==
    ASSUME NEW b, NEW c, c.windows = b.windows
    PROVE  LineageMarked(b, c)
BY DEF LineageMarked, LineageHolds

(* A command that writes a body in good order. *)
Commanded ==
    \E lane \in Lanes, b \in Bodies :
        Author(lane, b) /\ FormInv(b) /\ ShownInv(b) /\ LineageMarked(body, b)

LEMMA CommandMade ==
    ASSUME NEW lane \in Lanes, NEW b, Author(lane, b), FormInv(b), ShownInv(b),
           LineageMarked(body, b)
    PROVE  Commanded
BY DEF Commanded, FormInv

LEMMA LaneNames ==
    /\ "key" \in Lanes /\ "span" \in Lanes /\ "document" \in Lanes /\ "editorial" \in Lanes
    /\ "chain" \in Lanes /\ "lock" \in Lanes /\ "step" \in Lanes /\ "hero" \in Lanes
    /\ "sequence" \in Lanes /\ "extend" \in Lanes
BY DEF Lanes

(* Keys *)
LEMMA KeyChangedForm ==
    ASSUME NEW b, FormInv(b), NEW k \in DOMAIN b.keys, NEW slot \in KeySlots,
           slot.selected \in slot.held \cup {None},
           NEW c, c = [b EXCEPT !.keys = [b.keys EXCEPT ![k] = slot]]
    PROVE  /\ FormInv(c) /\ c.spans = b.spans /\ c.windows = b.windows
           /\ c.editorial = b.editorial /\ c.binding = b.binding /\ c.settings = b.settings
           /\ DOMAIN c.keys = DOMAIN b.keys /\ c.keys[k] = slot
           /\ \A j \in DOMAIN b.keys : j # k => c.keys[j] = b.keys[j]
<1> DEFINE K == [b.keys EXCEPT ![k] = slot]
<1>1. b \in Bodies /\ b.keys \in Maps(Keys, KeySlots)
    BY BodyParts DEF FormInv
<1>2. /\ K \in Maps(Keys, KeySlots) /\ DOMAIN K = DOMAIN b.keys
      /\ K[k] = slot /\ \A j \in DOMAIN b.keys : j # k => K[j] = b.keys[j]
    BY <1>1, MapExcept
<1>3. c = [b EXCEPT !.keys = K]
    OBVIOUS
<1> HIDE DEF K
<1>4. /\ c \in Bodies /\ c.keys = K /\ c.spans = b.spans /\ c.windows = b.windows
      /\ c.editorial = b.editorial /\ c.binding = b.binding /\ c.settings = b.settings
    BY ONLY <1>1, <1>2, <1>3, NewKeys
<1>5. KeysInv(c)
    BY <1>2, <1>4 DEF KeysInv, FormInv
<1> QED
    BY <1>2, <1>4, <1>5, KeysForm

LEMMA KeyPutForm ==
    ASSUME NEW b, FormInv(b), NEW k \in Keys \ DOMAIN b.keys, NEW slot \in KeySlots,
           slot.selected = None, NEW K \in Maps(Keys, KeySlots),
           DOMAIN K = DOMAIN b.keys \cup {k}, K[k] = slot,
           \A j \in DOMAIN b.keys : K[j] = b.keys[j],
           NEW c, c = [b EXCEPT !.keys = K]
    PROVE  /\ FormInv(c) /\ c.spans = b.spans /\ c.windows = b.windows
           /\ c.editorial = b.editorial /\ c.binding = b.binding /\ c.settings = b.settings
           /\ DOMAIN c.keys = DOMAIN b.keys \cup {k} /\ c.keys[k] = slot
           /\ \A j \in DOMAIN b.keys : c.keys[j] = b.keys[j]
<1>1. b \in Bodies
    BY DEF FormInv
<1>2. /\ c \in Bodies /\ c.keys = K /\ c.spans = b.spans /\ c.windows = b.windows
      /\ c.editorial = b.editorial /\ c.binding = b.binding /\ c.settings = b.settings
    BY <1>1, NewKeys
<1>3. KeysInv(c)
    BY <1>2 DEF KeysInv, FormInv
<1> QED
    BY <1>2, <1>3, KeysForm

LEMMA addKeyCandidateCommands ==
    ASSUME DocInv, NEW k \in Keys, NEW d \in Drawings, addKeyCandidate(k, d)
    PROVE  Commanded
<1>1. FormInv(body) /\ ShownInv(body) /\ body \in Bodies
    BY DEF DocInv, FormInv
<1>2. CASE k \in DOMAIN body.keys
    <2> DEFINE slot == [body.keys[k] EXCEPT !.held = @ \cup {d}]
               c == [body EXCEPT !.keys[k].held = @ \cup {d}]
    <2>1. Author("key", c)
        BY <1>2 DEF addKeyCandidate
    <2>2. c = [body EXCEPT !.keys = [body.keys EXCEPT ![k] = slot]]
        OBVIOUS
    <2>3. /\ slot \in KeySlots /\ slot.selected = body.keys[k].selected
          /\ slot.held = body.keys[k].held \cup {d}
        <3>1. body.keys[k] \in KeySlots
            BY <1>1, <1>2, KeyParts
        <3> QED
            BY <3>1 DEF KeySlots
    <2>4. slot.selected \in slot.held \cup {None}
        BY <1>1, <1>2, <2>3 DEF FormInv, KeysInv
    <2> HIDE DEF c, slot
    <2>5. /\ FormInv(c) /\ c.spans = body.spans /\ c.windows = body.windows
          /\ c.binding = body.binding /\ c.settings = body.settings
          /\ \A j \in DOMAIN body.keys : c.keys[j].selected = body.keys[j].selected
        BY <1>1, <1>2, <2>2, <2>3, <2>4, KeyChangedForm
    <2> QED
        BY <1>1, <2>1, <2>5, SameSpansShow, SameWindowsMarked, CommandMade, LaneNames
<1>3. CASE k \notin DOMAIN body.keys
    <2> DEFINE slot == [held |-> {d}, selected |-> None, lock |-> FALSE]
               c == [body EXCEPT !.keys = Put(@, k, slot)]
    <2>1. Author("key", c)
        BY <1>3 DEF addKeyCandidate
    <2>2. c = [body EXCEPT !.keys = Put(body.keys, k, slot)]
        OBVIOUS
    <2>3. slot \in KeySlots /\ slot.selected = None /\ k \in Keys \ DOMAIN body.keys
        BY <1>3 DEF KeySlots, Flags
    <2> HIDE DEF c, slot
    <2>4. /\ FormInv(c) /\ c.spans = body.spans /\ c.windows = body.windows
          /\ c.binding = body.binding /\ c.settings = body.settings
          /\ \A j \in DOMAIN body.keys : c.keys[j] = body.keys[j]
        <3> DEFINE K == Put(body.keys, k, slot)
        <3>1. c = [body EXCEPT !.keys = K] /\ K = Put(body.keys, k, slot)
            BY <2>2
        <3>2. body.keys \in Maps(Keys, KeySlots) /\ k \in Keys /\ slot \in KeySlots
            BY <1>1, <2>3, BodyParts
        <3> HIDE DEF K
        <3>3. K \in Maps(Keys, KeySlots)
            <4>1. K = Put(body.keys, k, slot)
                BY <3>1
            <4> QED
                BY ONLY <3>2, <4>1, MapPut
        <3>4. /\ DOMAIN K = DOMAIN body.keys \cup {k} /\ K[k] = slot
              /\ \A j \in DOMAIN body.keys : K[j] = body.keys[j]
            BY <2>3, <3>1 DEF Put
        <3> QED
            BY <1>1, <2>3, <3>1, <3>3, <3>4, KeyPutForm
    <2> QED
        BY <1>1, <2>1, <2>4, SameSpansShow, SameWindowsMarked, CommandMade, LaneNames
<1> QED
    BY <1>2, <1>3

LEMMA setKeyLockCommands ==
    ASSUME DocInv, NEW k \in Keys, NEW locked \in BOOLEAN, setKeyLock(k, locked)
    PROVE  Commanded
<1>1. FormInv(body) /\ ShownInv(body) /\ body \in Bodies
    BY DEF DocInv, FormInv
<1> DEFINE slot == [body.keys[k] EXCEPT !.lock = locked]
           c == [body EXCEPT !.keys[k].lock = locked]
<1>2. Author("lock", c) /\ k \in DOMAIN body.keys
    BY DEF setKeyLock
<1>3. c = [body EXCEPT !.keys = [body.keys EXCEPT ![k] = slot]]
    OBVIOUS
<1>4. /\ slot \in KeySlots /\ slot.selected = body.keys[k].selected
      /\ slot.held = body.keys[k].held
    <2>1. body.keys[k] \in KeySlots /\ locked \in Flags
        BY <1>1, <1>2, KeyParts DEF Flags
    <2> QED
        BY <2>1 DEF KeySlots
<1>5. slot.selected \in slot.held \cup {None}
    BY <1>1, <1>2, <1>4 DEF FormInv, KeysInv
<1> HIDE DEF c, slot
<1>6. /\ FormInv(c) /\ c.spans = body.spans /\ c.windows = body.windows
      /\ c.binding = body.binding /\ c.settings = body.settings
      /\ \A j \in DOMAIN body.keys : c.keys[j].selected = body.keys[j].selected
    BY <1>1, <1>2, <1>3, <1>4, <1>5, KeyChangedForm
<1> QED
    BY <1>1, <1>2, <1>6, SameSpansShow, SameWindowsMarked, CommandMade, LaneNames

LEMMA selectKeyCandidateCommands ==
    ASSUME DocInv, NEW k \in Keys, NEW d \in Drawings, selectKeyCandidate(k, d)
    PROVE  Commanded
<1>1. FormInv(body) /\ ShownInv(body) /\ body \in Bodies
    BY DEF DocInv, FormInv
<1>2. CASE body.keys[k].selected = d
    <2>1. Author("key", body)
        BY <1>2 DEF selectKeyCandidate
    <2> QED
        BY <1>1, <2>1, SameWindowsMarked, CommandMade, LaneNames
<1>3. CASE body.keys[k].selected # d
    <2> DEFINE slot == [body.keys[k] EXCEPT !.selected = d]
               m == [body EXCEPT !.keys[k].selected = d]
               T == spansTouchingKey(body, k)
               c == MarkSpans(m, T, "pose")
    <2>1. Author("key", c) /\ k \in DOMAIN body.keys /\ d \in body.keys[k].held
        BY <1>3 DEF selectKeyCandidate
    <2>2. m = [body EXCEPT !.keys = [body.keys EXCEPT ![k] = slot]]
        OBVIOUS
    <2>3. slot \in KeySlots /\ slot.selected \in slot.held \cup {None}
        <3>1. body.keys[k] \in KeySlots
            BY <1>1, <2>1, KeyParts
        <3> QED
            BY <2>1, <3>1 DEF KeySlots
    <2> HIDE DEF slot
    <2>4. /\ FormInv(m) /\ m.spans = body.spans /\ m.windows = body.windows
          /\ m.binding = body.binding /\ m.settings = body.settings
          /\ \A j \in DOMAIN body.keys : j # k => m.keys[j] = body.keys[j]
        BY <1>1, <2>1, <2>2, <2>3, KeyChangedForm
    <2> HIDE DEF m, T
    <2>5. /\ FormInv(c) /\ c.keys = m.keys /\ c.windows = m.windows
          /\ c.binding = m.binding /\ c.settings = m.settings
          /\ DOMAIN c.spans = DOMAIN m.spans
          /\ \A s \in DOMAIN m.spans :
              /\ c.spans[s].from = m.spans[s].from /\ c.spans[s].to = m.spans[s].to
              /\ c.spans[s].intent = m.spans[s].intent /\ c.spans[s].steps = m.spans[s].steps
              /\ m.spans[s].marks \subseteq c.spans[s].marks
              /\ s \in T => "pose" \in c.spans[s].marks
        BY <2>4, MarkSpansForm DEF Reasons
    <2> HIDE DEF c
    <2>6. ASSUME NEW s \in DOMAIN c.spans, NEW i \in DOMAIN c.spans[s].steps
          PROVE  c.spans[s].marks # {} \/ StepInputs(c, s, i) = StepInputs(body, s, i)
        <3>1. s \in DOMAIN body.spans /\ i \in DOMAIN body.spans[s].steps
            BY <2>4, <2>5
        <3>2. CASE s \in T
            BY <2>4, <2>5, <3>1, <3>2
        <3>3. CASE s \notin T
            <4>1. body.spans[s].from # k /\ body.spans[s].to # k
                BY <3>1, <3>3 DEF T, spansTouchingKey
            <4>2. body.spans[s].from \in DOMAIN body.keys /\ body.spans[s].to \in DOMAIN body.keys
                BY <1>1, <3>1 DEF FormInv, SpansInv
            <4>3. i \in Nat
                BY <1>1, <3>1, StepParts
            <4> QED
                BY <2>4, <2>5, <3>1, <4>1, <4>2, <4>3, SameInputs
        <3> QED
            BY <3>2, <3>3
    <2>7. Shows(body, c)
        BY <2>4, <2>5, <2>6 DEF Shows
    <2> QED
        BY <1>1, <2>1, <2>4, <2>5, <2>7, ShownKept, SameWindowsMarked, CommandMade, LaneNames
<1> QED
    BY <1>2, <1>3

-----------------------------------------------------------------------------
(* Commands: the document's settings; spans and their descendants *)

(* The document's own settings *)
LEMMA SameLineage ==
    ASSUME NEW b, NEW c, DOMAIN c.windows = DOMAIN b.windows,
           \A w \in DOMAIN b.windows : /\ c.windows[w].takes = b.windows[w].takes
                                       /\ c.windows[w].selected = b.windows[w].selected
    PROVE  LineageMarked(b, c)
BY DEF LineageMarked, LineageHolds

LEMMA MarkEverythingForm ==
    ASSUME NEW b, FormInv(b), NEW reason \in {"binding", "settings"},
           NEW c, c = MarkEverything(b, reason)
    PROVE  FormInv(c) /\ ShownInv(c) /\ LineageMarked(b, c)
<1> DEFINE m == MarkSpans(b, DOMAIN b.spans, reason)
<1>1. reason \in Reasons /\ reason \in WindowReasons
    BY DEF Reasons, WindowReasons
<1>2. /\ FormInv(m) /\ m.windows = b.windows /\ DOMAIN m.spans = DOMAIN b.spans
      /\ \A s \in DOMAIN b.spans : reason \in m.spans[s].marks
    BY <1>1, MarkSpansForm
<1>3. c = MarkWindows(m, DOMAIN b.windows, reason)
    BY DEF MarkEverything
<1> HIDE DEF m
<1>4. /\ FormInv(c) /\ c.spans = m.spans /\ DOMAIN c.windows = DOMAIN m.windows
      /\ \A w \in DOMAIN m.windows : /\ c.windows[w].takes = m.windows[w].takes
                                     /\ c.windows[w].selected = m.windows[w].selected
    BY <1>1, <1>2, <1>3, MarkWindowsForm
<1>5. ShownInv(c)
    BY <1>2, <1>4 DEF ShownInv
<1> QED
    BY <1>2, <1>4, <1>5, SameLineage

LEMMA SettingsForm ==
    ASSUME NEW b, FormInv(b), NEW c \in Bodies, c.keys = b.keys, c.spans = b.spans,
           c.windows = b.windows, c.editorial = b.editorial
    PROVE  FormInv(c)
BY KeysForm DEF FormInv, KeysInv

LEMMA DocumentCommanded ==
    ASSUME DocInv, DocumentCommands
    PROVE  Commanded
<1>1. FormInv(body) /\ body \in Bodies
    BY DEF DocInv, FormInv
<1>2. CASE updateBinding
    <2> DEFINE m == [body EXCEPT !.binding = @ + 1]
               c == MarkEverything(m, "binding")
    <2>1. Author("document", c)
        BY <1>2 DEF updateBinding
    <2>2. m \in Bodies /\ m.keys = body.keys /\ m.spans = body.spans
          /\ m.windows = body.windows /\ m.editorial = body.editorial
        BY <1>1 DEF Bodies
    <2> HIDE DEF m
    <2>3. FormInv(m) /\ LineageMarked(body, m)
        BY <1>1, <2>2, SettingsForm, SameWindowsMarked
    <2>4. FormInv(c) /\ ShownInv(c) /\ LineageMarked(m, c)
        BY <2>3, MarkEverythingForm
    <2>5. LineageMarked(body, c)
        BY <2>2, <2>4 DEF LineageMarked, LineageHolds
    <2> HIDE DEF c
    <2> QED
        BY <2>1, <2>4, <2>5, CommandMade, LaneNames
<1>3. ASSUME NEW text \in Texts, updateDocumentSettings(text) PROVE Commanded
    <2> DEFINE m == [body EXCEPT !.settings = text]
               c == MarkEverything(m, "settings")
    <2>1. Author("document", c)
        BY <1>3 DEF updateDocumentSettings
    <2>2. m \in Bodies /\ m.keys = body.keys /\ m.spans = body.spans
          /\ m.windows = body.windows /\ m.editorial = body.editorial
        BY <1>1 DEF Bodies
    <2> HIDE DEF m
    <2>3. FormInv(m) /\ LineageMarked(body, m)
        BY <1>1, <2>2, SettingsForm, SameWindowsMarked
    <2>4. FormInv(c) /\ ShownInv(c) /\ LineageMarked(m, c)
        BY <2>3, MarkEverythingForm
    <2>5. LineageMarked(body, c)
        BY <2>2, <2>4 DEF LineageMarked, LineageHolds
    <2> HIDE DEF c
    <2> QED
        BY <2>1, <2>4, <2>5, CommandMade, LaneNames
<1> QED
    BY <1>2, <1>3 DEF DocumentCommands

(* Spans *)

(* Other spans show what they showed. *)
LEMMA OtherSpansShow ==
    ASSUME NEW b, NEW c, FormInv(b), ShownInv(b), NEW S,
           c.keys = b.keys, c.binding = b.binding, c.settings = b.settings,
           \A s \in DOMAIN c.spans \ S : s \in DOMAIN b.spans /\ c.spans[s] = b.spans[s],
           \A s \in DOMAIN c.spans \cap S :
               \/ c.spans[s].marks # {}
               \/ \A i \in DOMAIN c.spans[s].steps : c.spans[s].steps[i].takes = {}
    PROVE  ShownInv(c)
<1> SUFFICES ASSUME NEW s \in DOMAIN c.spans, NEW i \in DOMAIN c.spans[s].steps,
                    NEW a \in c.spans[s].steps[i].takes
             PROVE  \/ rows[a].frozen.inputs = StepInputs(c, s, i)
                    \/ c.spans[s].marks # {}
                    \/ rows[a].earlier
    BY DEF ShownInv
<1>1. CASE s \in S
    BY <1>1
<1>2. CASE s \notin S
    <2>1. s \in DOMAIN b.spans /\ c.spans[s] = b.spans[s]
        BY <1>2
    <2>2. i \in Nat
        BY <2>1, StepParts DEF FormInv
    <2>3. StepInputs(c, s, i) = StepInputs(b, s, i)
        BY <2>1, <2>2, SameInputs
    <2>4. \/ rows[a].frozen.inputs = StepInputs(b, s, i)
          \/ b.spans[s].marks # {}
          \/ rows[a].earlier
        BY <2>1 DEF ShownInv
    <2> QED
        BY <2>1, <2>3, <2>4
<1> QED
    BY <1>1, <1>2

LEMMA SpanChangedForm ==
    ASSUME NEW b, FormInv(b), NEW s \in DOMAIN b.spans, NEW slot \in SpanSlots,
           slot.from = b.spans[s].from, slot.to = b.spans[s].to,
           DOMAIN b.spans[s].steps \subseteq DOMAIN slot.steps,
           \A i \in DOMAIN b.spans[s].steps :
               slot.steps[i].takes = b.spans[s].steps[i].takes,
           \A i \in DOMAIN slot.steps \ DOMAIN b.spans[s].steps : slot.steps[i].takes = {},
           \A i \in DOMAIN slot.steps :
               slot.steps[i].ref # None => slot.steps[i].ref.take \in slot.steps[i].takes,
           NEW c, c = [b EXCEPT !.spans = [b.spans EXCEPT ![s] = slot]]
    PROVE  /\ FormInv(c) /\ c.keys = b.keys /\ c.windows = b.windows
           /\ c.editorial = b.editorial /\ c.binding = b.binding /\ c.settings = b.settings
           /\ DOMAIN c.spans = DOMAIN b.spans /\ c.spans[s] = slot
           /\ \A x \in DOMAIN b.spans : x # s => c.spans[x] = b.spans[x]
<1> DEFINE M == [b.spans EXCEPT ![s] = slot]
<1>1. b \in Bodies /\ b.spans \in Maps(Spans, SpanSlots)
    BY BodyParts DEF FormInv
<1>2. /\ M \in Maps(Spans, SpanSlots) /\ DOMAIN M = DOMAIN b.spans
      /\ M[s] = slot /\ \A x \in DOMAIN b.spans : x # s => M[x] = b.spans[x]
    BY <1>1, MapExcept
<1>3. c = [b EXCEPT !.spans = M]
    OBVIOUS
<1> HIDE DEF M
<1>4. /\ c \in Bodies /\ c.keys = b.keys /\ c.spans = M /\ c.windows = b.windows
      /\ c.editorial = b.editorial /\ c.binding = b.binding /\ c.settings = b.settings
    BY ONLY <1>1, <1>2, <1>3, NewSpans
<1>5. SpansGrow(b, c)
    BY <1>2, <1>4 DEF SpansGrow
<1>6. NoSpanReused(b, c)
    BY <1>2, <1>4 DEF NoSpanReused
<1>7. NoNewTakes(b, c)
    <2>1. ASSUME NEW x \in DOMAIN c.spans, NEW i \in DOMAIN c.spans[x].steps,
                 NEW a \in c.spans[x].steps[i].takes
          PROVE  x \in DOMAIN b.spans /\ i \in DOMAIN b.spans[x].steps
                 /\ a \in b.spans[x].steps[i].takes
        <3>1. CASE x = s
            BY <1>2, <1>4, <3>1
        <3>2. CASE x # s
            BY <1>2, <1>4, <3>2
        <3> QED
            BY <3>1, <3>2
    <2> QED
        BY <1>4, <2>1 DEF NoNewTakes
<1>8. SpansInv(c)
    <2>1. SpansInv(b)
        BY DEF FormInv
    <2>2. ASSUME NEW x \in DOMAIN c.spans
          PROVE  /\ {c.spans[x].from, c.spans[x].to} \subseteq DOMAIN c.keys
                 /\ \A i \in DOMAIN c.spans[x].steps :
                        c.spans[x].steps[i].ref # None =>
                            c.spans[x].steps[i].ref.take \in c.spans[x].steps[i].takes
        <3>1. CASE x = s
            BY <1>2, <1>4, <2>1, <3>1 DEF SpansInv
        <3>2. CASE x # s
            BY <1>2, <1>4, <2>1, <3>2 DEF SpansInv
        <3> QED
            BY <3>1, <3>2
    <2> QED
        BY <1>2, <1>4, <2>1, <2>2 DEF SpansInv
<1>9. FormInv(c)
    BY <1>4, <1>5, <1>6, <1>7, <1>8, SpansForm
<1> QED
    BY <1>2, <1>4, <1>9

(* The span itself is one of its descendants. *)
LEMMA SpanIsAffected ==
    ASSUME NEW b, IsFiniteSet(DOMAIN b.spans), NEW span
    PROVE  span \in spanAndDescendants(b, span)
<1> DEFINE N == Cardinality(DOMAIN b.spans)
           Next1(S) == S \cup {s \in DOMAIN b.spans :
                                  \E r \in S : b.spans[s].from = b.spans[r].to}
           X == SUBSET (DOMAIN b.spans \cup {span})
           step == [p \in (1 .. N) \X X |-> Next1(p[2])]
           Is(g) == g = [n \in 0 .. N |-> IF n = 0 THEN {span} ELSE Next1(g[n - 1])]
<1>1. N \in Nat
    BY FS_CardinalityType
<1>2. {span} \in X
    OBVIOUS
<1>3. \A S \in X : Next1(S) \in X
    OBVIOUS
<1>4. step \in [(1 .. N) \X X -> X]
    BY <1>3
<1>5. \A n \in 1 .. N, S \in X : step[<<n, S>>] = Next1(S)
    OBVIOUS
<1> HIDE DEF step, N, X
<1>6. PICK g : Climbs(g, N, X, {span}, step)
    BY <1>1, <1>2, <1>4, Climber
<1>7. /\ g \in [0 .. N -> X]
      /\ g[0] = {span} /\ \A n \in 1 .. N : g[n] = step[<<n, g[n - 1]>>]
    BY <1>6 DEF Climbs
<1>8. \A n \in 1 .. N : g[n - 1] \in X
    BY <1>1, <1>7
<1>9. g = [n \in 0 .. N |-> IF n = 0 THEN {span} ELSE Next1(g[n - 1])]
    <2>1. \A n \in 1 .. N : g[n] = Next1(g[n - 1])
        BY <1>5, <1>7, <1>8
    <2>2. \A n \in 0 .. N : n # 0 => n \in 1 .. N
        BY <1>1
    <2> HIDE DEF Next1
    <2>3. \A n \in 0 .. N : g[n] = IF n = 0 THEN {span} ELSE Next1(g[n - 1])
        BY <1>7, <2>1, <2>2
    <2> QED
        BY <1>7, <2>3
<1> DEFINE h == CHOOSE f : Is(f)
<1>10. Is(h)
    <2>1. Is(g)
        BY <1>9
    <2> HIDE DEF Is
    <2> QED
        BY <2>1
<1>11. spanAndDescendants(b, span) = h[N]
    BY DEF spanAndDescendants, N
<1>12. h[0] = {span} /\ \A n \in 1 .. N : h[n] = Next1(h[n - 1])
    <2> HIDE DEF Next1, h
    <2>1. h = [n \in 0 .. N |-> IF n = 0 THEN {span} ELSE Next1(h[n - 1])]
        BY <1>10
    <2>2. 0 \in 0 .. N /\ \A n \in 1 .. N : n \in 0 .. N /\ n # 0
        BY <1>1
    <2> QED
        BY <2>1, <2>2
<1> HIDE DEF h
<1> DEFINE S == {n \in 0 .. N : span \in h[n]}
<1>13. 0 \in S
    BY <1>1, <1>12
<1>14. \A n \in 1 .. N : n - 1 \in S => n \in S
    BY <1>1, <1>12
<1> HIDE DEF S
<1>15. N \in S
    BY <1>1, <1>13, <1>14, Climb
<1> QED
    BY <1>11, <1>15 DEF S

-----------------------------------------------------------------------------
(* Commands: spans *)

LEMMA updateSpanIntentCommands ==
    ASSUME DocInv, NEW s \in DOMAIN body.spans, NEW text \in Texts, updateSpanIntent(s, text)
    PROVE  Commanded
<1>1. FormInv(body) /\ ShownInv(body) /\ body \in Bodies
    BY DEF DocInv, FormInv
<1> DEFINE slot == [body.spans[s] EXCEPT !.intent = text]
           m == [body EXCEPT !.spans[s].intent = text]
           A == spanAndDescendants(body, s)
           W == {w \in DOMAIN body.windows :
                    LET r == body.windows[w].root IN
                    /\ r \in DOMAIN rows
                    /\ rows[r].frozen.target.kind = "step"
                    /\ rows[r].frozen.target.span \in A}
           k == MarkSpans(m, A, "intent")
           c == MarkWindows(k, W, "intent")
<1>2. Author("span", c)
    BY DEF updateSpanIntent
<1>3. m = [body EXCEPT !.spans = [body.spans EXCEPT ![s] = slot]]
    OBVIOUS
<1>4. /\ slot \in SpanSlots /\ slot.from = body.spans[s].from /\ slot.to = body.spans[s].to
      /\ slot.steps = body.spans[s].steps
    <2>1. body.spans[s] \in SpanSlots
        BY <1>1, SpanParts
    <2> QED
        BY <2>1 DEF SpanSlots
<1>5. \A i \in DOMAIN slot.steps :
          slot.steps[i].ref # None => slot.steps[i].ref.take \in slot.steps[i].takes
    BY <1>1, <1>4 DEF FormInv, SpansInv
<1>6. s \in A
    BY <1>1, SpanIsAffected DEF FormInv, SpansInv
<1> HIDE DEF slot, A, W, m
<1>7. /\ FormInv(m) /\ m.keys = body.keys /\ m.windows = body.windows
      /\ m.binding = body.binding /\ m.settings = body.settings
      /\ DOMAIN m.spans = DOMAIN body.spans
      /\ \A x \in DOMAIN body.spans : x # s => m.spans[x] = body.spans[x]
      /\ m.spans[s].steps = body.spans[s].steps
    BY ONLY <1>1, <1>3, <1>4, <1>5, s \in DOMAIN body.spans, SpanChangedForm
<1>8. /\ FormInv(k) /\ k.keys = m.keys /\ k.windows = m.windows
      /\ k.binding = m.binding /\ k.settings = m.settings
      /\ DOMAIN k.spans = DOMAIN m.spans
      /\ \A x \in DOMAIN m.spans :
          /\ k.spans[x].from = m.spans[x].from /\ k.spans[x].to = m.spans[x].to
          /\ k.spans[x].intent = m.spans[x].intent /\ k.spans[x].steps = m.spans[x].steps
          /\ m.spans[x].marks \subseteq k.spans[x].marks
          /\ x \in A => "intent" \in k.spans[x].marks
    BY <1>7, MarkSpansForm DEF Reasons
<1> HIDE DEF k
<1>9. /\ FormInv(c) /\ c.keys = k.keys /\ c.spans = k.spans
      /\ c.binding = k.binding /\ c.settings = k.settings
      /\ DOMAIN c.windows = DOMAIN k.windows
      /\ \A w \in DOMAIN k.windows : /\ c.windows[w].takes = k.windows[w].takes
                                     /\ c.windows[w].selected = k.windows[w].selected
    BY <1>8, MarkWindowsForm DEF WindowReasons
<1> HIDE DEF c
<1>10. ASSUME NEW x \in DOMAIN c.spans, NEW i \in DOMAIN c.spans[x].steps
       PROVE  c.spans[x].marks # {} \/ StepInputs(c, x, i) = StepInputs(body, x, i)
    <2>1. CASE x = s
        BY <1>6, <1>7, <1>8, <1>9, <2>1
    <2>2. CASE x # s
        <3>1. x \in DOMAIN body.spans /\ i \in DOMAIN body.spans[x].steps
            BY <1>7, <1>8, <1>9, <2>2
        <3>2. i \in Nat
            BY <1>1, <3>1, StepParts
        <3> QED
            BY <1>7, <1>8, <1>9, <2>2, <3>1, <3>2, SameInputs
    <2> QED
        BY <2>1, <2>2
<1>11. ASSUME NEW x \in DOMAIN c.spans, NEW i \in DOMAIN c.spans[x].steps
       PROVE  /\ x \in DOMAIN body.spans /\ i \in DOMAIN body.spans[x].steps
              /\ c.spans[x].steps[i].takes = body.spans[x].steps[i].takes
    <2>1. CASE x = s
        BY <1>7, <1>8, <1>9, <2>1
    <2>2. CASE x # s
        BY <1>7, <1>8, <1>9, <2>2
    <2> QED
        BY <2>1, <2>2
<1>12. ASSUME NEW x \in DOMAIN c.spans, x # s
       PROVE  body.spans[x].marks \subseteq c.spans[x].marks
    BY <1>7, <1>8, <1>9, <1>12
<1>13. ShownInv(c)
    <2> SUFFICES ASSUME NEW x \in DOMAIN c.spans, NEW i \in DOMAIN c.spans[x].steps,
                        NEW a \in c.spans[x].steps[i].takes, c.spans[x].marks = {}
                 PROVE  rows[a].frozen.inputs = StepInputs(c, x, i) \/ rows[a].earlier
        BY DEF ShownInv
    <2>1. x # s
        BY <1>6, <1>7, <1>8, <1>9
    <2>2. body.spans[x].marks = {}
        BY <1>12, <2>1
    <2>3. rows[a].frozen.inputs = StepInputs(body, x, i) \/ rows[a].earlier
        BY <1>1, <1>11, <2>2 DEF ShownInv
    <2> QED
        BY <1>10, <2>3
<1>14. LineageMarked(body, c)
    BY <1>7, <1>8, <1>9, SameLineage
<1> QED
    BY <1>2, <1>9, <1>13, <1>14, CommandMade, LaneNames

(* A step with another reference. *)
LEMMA StepReferred ==
    ASSUME NEW b, FormInv(b), ShownInv(b), NEW s \in DOMAIN b.spans,
           NEW i \in DOMAIN b.spans[s].steps, NEW ref \in References,
           ref.take \in b.spans[s].steps[i].takes,
           NEW m, m = [b EXCEPT !.spans[s].steps[i].ref = ref],
           NEW c, c = MarkSpans(m, {s}, "pose")
    PROVE  FormInv(c) /\ ShownInv(c) /\ LineageMarked(b, c)
<1>1. b \in Bodies
    BY DEF FormInv
<1> DEFINE steps == b.spans[s].steps
           e == [steps[i] EXCEPT !.ref = ref]
           t == [steps EXCEPT ![i] = e]
           slot == [b.spans[s] EXCEPT !.steps = t]
<1>2. m = [b EXCEPT !.spans = [b.spans EXCEPT ![s] = slot]]
    OBVIOUS
<1>3. /\ b.spans[s] \in SpanSlots /\ steps \in Seq(StepSlots) /\ steps[i] \in StepSlots
      /\ i \in 1 .. Len(steps) /\ DOMAIN steps = 1 .. Len(steps)
    BY <1>1, SpanParts, StepParts
<1>4. e \in StepSlots /\ e.takes = steps[i].takes /\ e.ref = ref
    BY <1>3 DEF StepSlots
<1> HIDE DEF e, steps
<1>5. t \in Seq(StepSlots) /\ Len(t) = Len(steps)
    BY <1>3, <1>4, ExceptSeq
<1>6. DOMAIN t = DOMAIN steps /\ t[i] = e /\ \A j \in DOMAIN steps : j # i => t[j] = steps[j]
    BY <1>3
<1> HIDE DEF t
<1>7. /\ slot \in SpanSlots /\ slot.from = b.spans[s].from /\ slot.to = b.spans[s].to
      /\ slot.steps = t
    BY <1>3, <1>5 DEF SpanSlots
<1> HIDE DEF slot
<1>8. \A j \in DOMAIN slot.steps : slot.steps[j].takes = b.spans[s].steps[j].takes
    BY <1>4, <1>6, <1>7 DEF steps
<1>9. \A j \in DOMAIN slot.steps :
          slot.steps[j].ref # None => slot.steps[j].ref.take \in slot.steps[j].takes
    <2> SUFFICES ASSUME NEW j \in DOMAIN slot.steps, slot.steps[j].ref # None
                 PROVE  slot.steps[j].ref.take \in slot.steps[j].takes
        OBVIOUS
    <2>1. CASE j = i
        BY <1>4, <1>6, <1>7, <2>1 DEF steps
    <2>2. CASE j # i
        <3>1. j \in DOMAIN b.spans[s].steps /\ slot.steps[j] = b.spans[s].steps[j]
            BY <1>6, <1>7, <2>2 DEF steps
        <3> QED
            BY <3>1 DEF FormInv, SpansInv
    <2> QED
        BY <2>1, <2>2
<1>10. DOMAIN slot.steps = DOMAIN b.spans[s].steps
    BY <1>6, <1>7 DEF steps
<1>11. /\ FormInv(m) /\ m.keys = b.keys /\ m.windows = b.windows
       /\ m.binding = b.binding /\ m.settings = b.settings
       /\ DOMAIN m.spans = DOMAIN b.spans
       /\ \A x \in DOMAIN b.spans : x # s => m.spans[x] = b.spans[x]
    <2>1. /\ DOMAIN b.spans[s].steps \subseteq DOMAIN slot.steps
          /\ \A j \in DOMAIN b.spans[s].steps :
                 slot.steps[j].takes = b.spans[s].steps[j].takes
          /\ \A j \in DOMAIN slot.steps \ DOMAIN b.spans[s].steps : slot.steps[j].takes = {}
        BY <1>8, <1>10
    <2> DEFINE n == [b EXCEPT !.spans = [b.spans EXCEPT ![s] = slot]]
    <2>2. n = [b EXCEPT !.spans = [b.spans EXCEPT ![s] = slot]]
        OBVIOUS
    <2>3. m = n
        BY <1>2
    <2> HIDE DEF n
    <2>4. /\ FormInv(n) /\ n.keys = b.keys /\ n.windows = b.windows
          /\ n.editorial = b.editorial /\ n.binding = b.binding /\ n.settings = b.settings
          /\ DOMAIN n.spans = DOMAIN b.spans /\ n.spans[s] = slot
          /\ \A x \in DOMAIN b.spans : x # s => n.spans[x] = b.spans[x]
        BY ONLY FormInv(b), s \in DOMAIN b.spans, <1>7, <1>9, <2>1, <2>2, SpanChangedForm
    <2> QED
        BY <2>3, <2>4
<1> DEFINE S == {s}
<1>12. c = MarkSpans(m, S, "pose") /\ "pose" \in Reasons /\ s \in S
    BY DEF Reasons
<1> HIDE DEF S
<1>13. /\ FormInv(c) /\ c.keys = m.keys /\ c.windows = m.windows
       /\ c.binding = m.binding /\ c.settings = m.settings
       /\ DOMAIN c.spans = DOMAIN m.spans
       /\ \A x \in DOMAIN m.spans : x \in S => "pose" \in c.spans[x].marks
    BY ONLY <1>11, <1>12, MarkSpansForm
<1>14. \A x \in DOMAIN m.spans : x # s => c.spans[x] = m.spans[x]
    BY DEF MarkSpans
<1>15. ShownInv(c)
    <2>1. \A x \in DOMAIN c.spans \ S : x \in DOMAIN b.spans /\ c.spans[x] = b.spans[x]
        BY <1>11, <1>13, <1>14, <1>12
    <2>2. \A x \in DOMAIN c.spans \cap S : c.spans[x].marks # {}
        BY <1>11, <1>13
    <2>3. c.keys = b.keys /\ c.binding = b.binding /\ c.settings = b.settings
        BY <1>11, <1>13
    <2> QED
        BY ONLY FormInv(b), ShownInv(b), <2>1, <2>2, <2>3, OtherSpansShow
<1> QED
    BY <1>11, <1>13, <1>15, SameWindowsMarked

LEMMA selectRollingReferenceCommands ==
    ASSUME DocInv, NEW s \in DOMAIN body.spans, NEW i \in DOMAIN body.spans[s].steps,
           NEW a \in Attempts, NEW f \in Frames, selectRollingReference(s, i, a, f)
    PROVE  Commanded
<1> DEFINE m == [body EXCEPT !.spans[s].steps[i].ref = Reference(a, f)]
           c == MarkSpans(m, {s}, "pose")
<1>1. FormInv(body) /\ ShownInv(body)
    BY DEF DocInv
<1>2. Author("span", c) /\ a \in body.spans[s].steps[i].takes
    BY DEF selectRollingReference
<1>3. Reference(a, f) \in References /\ Reference(a, f).take = a
    BY DEF Reference, References
<1>4. FormInv(c) /\ ShownInv(c) /\ LineageMarked(body, c)
    BY <1>1, <1>2, <1>3, StepReferred
<1> QED
    BY <1>2, <1>4, CommandMade, LaneNames

LEMMA annotateRollingReferenceCommands ==
    ASSUME DocInv, NEW s \in DOMAIN body.spans, NEW i \in DOMAIN body.spans[s].steps,
           NEW note \in Texts \cup {None}, annotateRollingReference(s, i, note)
    PROVE  Commanded
<1> DEFINE ref == [body.spans[s].steps[i].ref EXCEPT !.note = note]
           m == [body EXCEPT !.spans[s].steps[i].ref.note = note]
           c == MarkSpans(m, {s}, "pose")
<1>1. FormInv(body) /\ ShownInv(body) /\ body \in Bodies
    BY DEF DocInv, FormInv
<1>2. Author("span", c) /\ body.spans[s].steps[i].ref # None
    BY DEF annotateRollingReference
<1>3. body.spans[s].steps[i].ref \in References
    BY <1>1, <1>2, StepParts
<1>4. ref \in References /\ ref.take = body.spans[s].steps[i].ref.take
    BY <1>3 DEF References
<1>5. ref.take \in body.spans[s].steps[i].takes
    BY <1>1, <1>2, <1>4 DEF FormInv, SpansInv
<1>6. m = [body EXCEPT !.spans[s].steps[i].ref = ref]
    OBVIOUS
<1> HIDE DEF m, ref
<1>7. FormInv(c) /\ ShownInv(c) /\ LineageMarked(body, c)
    BY <1>1, <1>4, <1>5, <1>6, StepReferred
<1> QED
    BY <1>2, <1>7, CommandMade, LaneNames

LEMMA appendStepSlotCommands ==
    ASSUME DocInv, NEW s \in DOMAIN body.spans, appendStepSlot(s)
    PROVE  Commanded
<1>1. FormInv(body) /\ ShownInv(body) /\ body \in Bodies
    BY DEF DocInv, FormInv
<1> DEFINE steps == body.spans[s].steps
           t == Append(steps, EmptyStep)
           slot == [body.spans[s] EXCEPT !.steps = t]
           c == [body EXCEPT !.spans[s].steps = Append(@, EmptyStep)]
<1>2. Author("span", c)
    BY DEF appendStepSlot
<1>3. c = [body EXCEPT !.spans = [body.spans EXCEPT ![s] = slot]]
    OBVIOUS
<1>4. body.spans[s] \in SpanSlots /\ steps \in Seq(StepSlots)
    BY <1>1, SpanParts
<1>5. EmptyStep \in StepSlots /\ EmptyStep.takes = {} /\ EmptyStep.ref = None
    BY DEF EmptyStep, StepSlots
<1> HIDE DEF steps
<1>6. /\ t \in Seq(StepSlots) /\ DOMAIN steps = 1 .. Len(steps)
      /\ DOMAIN t = 1 .. (Len(steps) + 1) /\ Len(steps) \in Nat
      /\ t[Len(steps) + 1] = EmptyStep /\ \A j \in DOMAIN steps : t[j] = steps[j]
    BY <1>4, <1>5
<1> HIDE DEF t
<1>7. /\ slot \in SpanSlots /\ slot.from = body.spans[s].from /\ slot.to = body.spans[s].to
      /\ slot.intent = body.spans[s].intent
      /\ slot.steps = t /\ slot.marks = body.spans[s].marks
    BY <1>4, <1>6 DEF SpanSlots
<1> HIDE DEF slot
<1>8. /\ DOMAIN steps \subseteq DOMAIN slot.steps
      /\ \A j \in DOMAIN steps : slot.steps[j] = steps[j]
      /\ \A j \in DOMAIN slot.steps \ DOMAIN steps : slot.steps[j] = EmptyStep
    BY <1>6, <1>7
<1>9. \A j \in DOMAIN slot.steps :
          slot.steps[j].ref # None => slot.steps[j].ref.take \in slot.steps[j].takes
    BY <1>1, <1>5, <1>8 DEF FormInv, SpansInv, steps
<1>10. /\ FormInv(c) /\ c.keys = body.keys /\ c.windows = body.windows
       /\ c.binding = body.binding /\ c.settings = body.settings
       /\ DOMAIN c.spans = DOMAIN body.spans /\ c.spans[s] = slot
       /\ \A x \in DOMAIN body.spans : x # s => c.spans[x] = body.spans[x]
    <2>1. /\ DOMAIN body.spans[s].steps \subseteq DOMAIN slot.steps
          /\ \A j \in DOMAIN body.spans[s].steps :
                 slot.steps[j].takes = body.spans[s].steps[j].takes
          /\ \A j \in DOMAIN slot.steps \ DOMAIN body.spans[s].steps : slot.steps[j].takes = {}
        BY <1>5, <1>8 DEF steps
    <2> HIDE DEF c
    <2> QED
        BY <1>1, <1>3, <1>7, <1>9, <2>1, SpanChangedForm
<1> HIDE DEF c
<1>11. ASSUME NEW x \in DOMAIN c.spans, NEW i \in DOMAIN c.spans[x].steps,
              NEW a \in c.spans[x].steps[i].takes
       PROVE  /\ x \in DOMAIN body.spans /\ i \in DOMAIN body.spans[x].steps
              /\ a \in body.spans[x].steps[i].takes
              /\ body.spans[x].marks \subseteq c.spans[x].marks
              /\ c.spans[x].marks # {} \/ StepInputs(c, x, i) = StepInputs(body, x, i)
    <2>1. /\ x \in DOMAIN body.spans /\ i \in DOMAIN body.spans[x].steps
          /\ a \in body.spans[x].steps[i].takes
          /\ c.spans[x].marks = body.spans[x].marks
          /\ c.spans[x].from = body.spans[x].from /\ c.spans[x].to = body.spans[x].to
          /\ c.spans[x].intent = body.spans[x].intent
        <3>1. CASE x = s
            BY <1>5, <1>7, <1>8, <1>10, <3>1 DEF steps
        <3>2. CASE x # s
            BY <1>10, <3>2
        <3> QED
            BY <3>1, <3>2
    <2>2. i \in Nat
        BY <1>1, <2>1, StepParts
    <2>3. \A j \in 1 .. i - 1 : c.spans[x].steps[j].ref = body.spans[x].steps[j].ref
        <3>1. CASE x = s
            <4>1. i \in DOMAIN steps
                BY <2>1, <3>1 DEF steps
            <4>2. \A j \in 1 .. i - 1 : j \in DOMAIN steps
                BY <1>6, <4>1, <2>2
            <4> QED
                BY <1>8, <1>10, <3>1, <4>2 DEF steps
        <3>2. CASE x # s
            BY <1>10, <2>1, <3>2
        <3> QED
            BY <3>1, <3>2
    <2> QED
        BY <1>10, <2>1, <2>2, <2>3, SameInputs
<1>12. ShownInv(c)
    BY <1>1, <1>11, ShownKept DEF Shows
<1> QED
    BY <1>2, <1>10, <1>12, SameWindowsMarked, CommandMade, LaneNames

-----------------------------------------------------------------------------
(* Commands: spans that come and go *)

(* A span that nothing names yet. *)
LEMMA SpanPutForm ==
    ASSUME NEW b, FormInv(b), NEW s \in Spans \ DOMAIN b.spans, NEW slot \in SpanSlots,
           slot.from \in DOMAIN b.keys, slot.to \in DOMAIN b.keys,
           \A i \in DOMAIN slot.steps : slot.steps[i] = EmptyStep,
           \A f \in Submitted, i \in Nat : f.target # Step(s, i),
           NEW K \in Maps(Spans, SpanSlots),
           DOMAIN K = DOMAIN b.spans \cup {s}, K[s] = slot,
           \A x \in DOMAIN b.spans : K[x] = b.spans[x],
           NEW c, c = [b EXCEPT !.spans = K]
    PROVE  /\ FormInv(c) /\ c.keys = b.keys /\ c.windows = b.windows
           /\ c.binding = b.binding /\ c.settings = b.settings
           /\ DOMAIN c.spans = DOMAIN b.spans \cup {s} /\ c.spans[s] = slot
           /\ \A x \in DOMAIN b.spans : c.spans[x] = b.spans[x]
<1>1. b \in Bodies /\ s \notin DOMAIN b.spans
    BY DEF FormInv
<1>2. /\ c \in Bodies /\ c.keys = b.keys /\ c.spans = K /\ c.windows = b.windows
      /\ c.editorial = b.editorial /\ c.binding = b.binding /\ c.settings = b.settings
    BY <1>1, NewSpans
<1>3. \A i \in DOMAIN slot.steps : slot.steps[i].takes = {} /\ slot.steps[i].ref = None
    BY DEF EmptyStep
<1>4. SpansGrow(b, c)
    BY <1>2 DEF SpansGrow
<1>5. NoSpanReused(b, c)
    BY <1>2 DEF NoSpanReused
<1>6. NoNewTakes(b, c)
    <2>1. ASSUME NEW x \in DOMAIN c.spans, NEW i \in DOMAIN c.spans[x].steps,
                 NEW a \in c.spans[x].steps[i].takes
          PROVE  x \in DOMAIN b.spans /\ i \in DOMAIN b.spans[x].steps
                 /\ a \in b.spans[x].steps[i].takes
        <3>1. CASE x = s
            BY <1>2, <1>3, <3>1
        <3>2. CASE x # s
            BY <1>2, <3>2
        <3> QED
            BY <3>1, <3>2
    <2> QED
        BY <1>2, <2>1 DEF NoNewTakes
<1>7. SpansInv(c)
    <2>1. SpansInv(b)
        BY DEF FormInv
    <2>2. ASSUME NEW x \in DOMAIN c.spans
          PROVE  /\ {c.spans[x].from, c.spans[x].to} \subseteq DOMAIN c.keys
                 /\ \A i \in DOMAIN c.spans[x].steps :
                        c.spans[x].steps[i].ref # None =>
                            c.spans[x].steps[i].ref.take \in c.spans[x].steps[i].takes
        <3>1. CASE x = s
            BY <1>2, <1>3, <3>1
        <3>2. CASE x # s
            <4>1. x \in DOMAIN b.spans /\ c.spans[x] = b.spans[x] /\ c.keys = b.keys
                BY <1>2, <3>2
            <4> QED
                BY <2>1, <4>1 DEF SpansInv
        <3> QED
            BY <3>1, <3>2
    <2>3. IsFiniteSet(DOMAIN c.spans)
        BY <1>2, <2>1, FS_AddElement DEF SpansInv
    <2> QED
        BY <2>2, <2>3 DEF SpansInv
<1>8. FormInv(c)
    BY <1>2, <1>4, <1>5, <1>6, <1>7, SpansForm
<1> QED
    BY <1>2, <1>8

LEMMA insertSpanCommands ==
    ASSUME DocInv, NEW from \in Keys, NEW to \in Keys, NEW text \in Texts,
           insertSpan(from, to, text)
    PROVE  Commanded
<1>1. FormInv(body) /\ ShownInv(body) /\ body \in Bodies
    BY DEF DocInv, FormInv
<1> DEFINE s == CHOOSE x \in FreshSpans : TRUE
           slot == [from |-> from, to |-> to, intent |-> text,
                    steps |-> <<EmptyStep>>, marks |-> {}]
           c == [body EXCEPT !.spans = Put(@, s, slot)]
           K == Put(body.spans, s, slot)
<1>2. Author("span", c)
    BY DEF insertSpan
<1>3. s \in FreshSpans /\ from \in DOMAIN body.keys /\ to \in DOMAIN body.keys
    BY DEF insertSpan
<1> HIDE DEF s
<1>4. s \in Spans \ DOMAIN body.spans
    BY <1>3 DEF FreshSpans
<1>5. \A f \in Submitted, i \in Nat : f.target # Step(s, i)
    <2> SUFFICES ASSUME NEW f \in Submitted, NEW i \in Nat, f.target = Step(s, i) PROVE FALSE
        OBVIOUS
    <2>1. f.target.kind = "step" /\ f.target.span = s
        BY DEF Step
    <2> QED
        BY <1>3, <2>1 DEF FreshSpans, Submitted
<1>6. EmptyStep \in StepSlots
    BY DEF EmptyStep, StepSlots
<1>7. <<EmptyStep>> \in Seq(StepSlots)
    BY <1>6
<1>8. /\ slot \in SpanSlots /\ slot.from = from /\ slot.to = to
      /\ \A i \in DOMAIN slot.steps : slot.steps[i] = EmptyStep
    BY <1>7 DEF SpanSlots
<1> HIDE DEF slot
<1>9. c = [body EXCEPT !.spans = K] /\ K = Put(body.spans, s, slot)
    OBVIOUS
<1>10. /\ DOMAIN K = DOMAIN body.spans \cup {s} /\ K[s] = slot
       /\ \A x \in DOMAIN body.spans : K[x] = body.spans[x]
    BY <1>4 DEF Put
<1>11. body.spans \in Maps(Spans, SpanSlots) /\ s \in Spans
    BY <1>1, <1>4, BodyParts
<1> HIDE DEF K, c
<1>12. K \in Maps(Spans, SpanSlots)
    <2>1. K = Put(body.spans, s, slot) /\ slot \in SpanSlots
        BY <1>8, <1>9
    <2> QED
        BY ONLY <1>11, <2>1, MapPut
<1>13. slot.from \in DOMAIN body.keys /\ slot.to \in DOMAIN body.keys
    BY <1>3, <1>8
<1>14. /\ FormInv(c) /\ c.keys = body.keys /\ c.windows = body.windows
       /\ c.binding = body.binding /\ c.settings = body.settings
       /\ DOMAIN c.spans = DOMAIN body.spans \cup {s} /\ c.spans[s] = slot
       /\ \A x \in DOMAIN body.spans : c.spans[x] = body.spans[x]
    BY ONLY <1>1, <1>4, <1>5, <1>8, <1>9, <1>10, <1>12, <1>13, SpanPutForm
<1> DEFINE S == {s}
<1>15. \A x \in DOMAIN c.spans \ S : x \in DOMAIN body.spans /\ c.spans[x] = body.spans[x]
    BY <1>14
<1>16. \A x \in DOMAIN c.spans \cap S :
           \/ c.spans[x].marks # {}
           \/ \A i \in DOMAIN c.spans[x].steps : c.spans[x].steps[i].takes = {}
    BY <1>8, <1>14 DEF EmptyStep
<1> HIDE DEF S
<1>17. ShownInv(c)
    BY <1>1, <1>14, <1>15, <1>16, OtherSpansShow
<1> QED
    BY <1>2, <1>14, <1>17, SameWindowsMarked, CommandMade, LaneNames

(* A list of contributions that come from another one, each once. *)
Kept(E, F, s) ==
    /\ E \in Seq(Contributions)
    /\ \A i \in DOMAIN E : \E j \in DOMAIN F : E[i] = F[j] /\ F[j].span # s
    /\ \A i, j \in DOMAIN E : E[i] = E[j] => i = j

LEMMA WithoutIsKept ==
    ASSUME body.editorial \in Seq(Contributions),
           \A i, j \in DOMAIN body.editorial : body.editorial[i] = body.editorial[j] => i = j,
           NEW s
    PROVE  Kept(ContributionsWithout(s), body.editorial, s)
<1> DEFINE F == body.editorial
           N == Len(F)
           X == Seq(Contributions)
           Go(n, q) == IF F[n].span = s THEN q ELSE Append(q, F[n])
           step == [p \in (1 .. N) \X X |-> Go(p[1], p[2])]
           Is(g) == g = [n \in 0 .. N |-> IF n = 0 THEN <<>> ELSE Go(n, g[n - 1])]
<1>1. N \in Nat /\ DOMAIN F = 1 .. N /\ \A n \in 1 .. N : F[n] \in Contributions
    OBVIOUS
<1>2. <<>> \in X
    OBVIOUS
<1>3. \A n \in 1 .. N, q \in X : Go(n, q) \in X
    BY <1>1
<1>4. step \in [(1 .. N) \X X -> X]
    BY <1>3
<1>5. \A n \in 1 .. N, q \in X : step[<<n, q>>] = Go(n, q)
    OBVIOUS
<1> HIDE DEF step, X, N, F
<1>6. PICK g : Climbs(g, N, X, <<>>, step)
    BY <1>1, <1>2, <1>4, Climber
<1>7. /\ g \in [0 .. N -> X]
      /\ g[0] = <<>> /\ \A n \in 1 .. N : g[n] = step[<<n, g[n - 1]>>]
    BY <1>6 DEF Climbs
<1>8. \A n \in 1 .. N : g[n - 1] \in X
    BY <1>1, <1>7
<1>9. Is(g)
    <2>1. \A n \in 1 .. N : g[n] = Go(n, g[n - 1])
        BY <1>5, <1>7, <1>8
    <2>2. \A n \in 0 .. N : n # 0 => n \in 1 .. N
        BY <1>1
    <2> HIDE DEF Go
    <2>3. \A n \in 0 .. N : g[n] = IF n = 0 THEN <<>> ELSE Go(n, g[n - 1])
        BY <1>7, <2>1, <2>2
    <2> QED
        BY <1>7, <2>3
<1> DEFINE h == CHOOSE f : Is(f)
<1>10. Is(h)
    <2> HIDE DEF Is
    <2> QED
        BY <1>9
<1>11. ContributionsWithout(s) = h[N]
    BY DEF ContributionsWithout, N, F
<1>12. h[0] = <<>> /\ \A n \in 1 .. N : h[n] = Go(n, h[n - 1])
    <2> HIDE DEF Go, h
    <2>1. h = [n \in 0 .. N |-> IF n = 0 THEN <<>> ELSE Go(n, h[n - 1])]
        BY <1>10
    <2>2. 0 \in 0 .. N /\ \A n \in 1 .. N : n \in 0 .. N /\ n # 0
        BY <1>1
    <2> QED
        BY <2>1, <2>2
<1> HIDE DEF h
<1> DEFINE Good(n, q) ==
               /\ q \in X
               /\ \A i \in DOMAIN q : \E j \in 1 .. n : q[i] = F[j] /\ F[j].span # s
               /\ \A i, j \in DOMAIN q : q[i] = q[j] => i = j
           T == {n \in 0 .. N : Good(n, h[n])}
<1>13. 0 \in T
    <2>1. Good(0, <<>>)
        BY <1>2
    <2> QED
        BY <1>1, <1>12, <2>1
<1>14. ASSUME NEW n \in 1 .. N, n - 1 \in T PROVE n \in T
    <2> DEFINE q == h[n - 1]
    <2>1. Good(n - 1, q) /\ h[n] = Go(n, q)
        BY <1>12, <1>14
    <2> HIDE DEF q
    <2>2. ASSUME F[n].span = s PROVE Good(n, q)
        <3>1. \A j \in 1 .. n - 1 : j \in 1 .. n
            OBVIOUS
        <3> QED
            BY <2>1, <3>1
    <2>3. ASSUME F[n].span # s PROVE Good(n, Append(q, F[n]))
        <3> DEFINE e == Append(q, F[n])
        <3>1. q \in X /\ F[n] \in Contributions
            BY <1>1, <2>1
        <3>2. /\ e \in X /\ Len(q) \in Nat /\ DOMAIN q = 1 .. Len(q)
              /\ DOMAIN e = 1 .. (Len(q) + 1)
              /\ e[Len(q) + 1] = F[n] /\ \A i \in DOMAIN q : e[i] = q[i]
            BY <3>1 DEF X
        <3> HIDE DEF e
        <3>3. \A i \in DOMAIN q : q[i] # F[n]
            <4> SUFFICES ASSUME NEW i \in DOMAIN q PROVE q[i] # F[n]
                OBVIOUS
            <4>1. PICK j \in 1 .. n - 1 : q[i] = F[j]
                BY <2>1
            <4>2. j \in DOMAIN F /\ n \in DOMAIN F /\ j # n
                BY <1>1
            <4> QED
                BY <4>1, <4>2 DEF F
        <3>4. ASSUME NEW i \in DOMAIN e PROVE \E j \in 1 .. n : e[i] = F[j] /\ F[j].span # s
            <4>1. CASE i = Len(q) + 1
                BY <2>3, <3>2, <4>1
            <4>2. CASE i \in DOMAIN q
                <5>1. PICK j \in 1 .. n - 1 : q[i] = F[j] /\ F[j].span # s
                    BY <2>1, <4>2
                <5> QED
                    BY <3>2, <4>2, <5>1
            <4> QED
                BY <3>2, <4>1, <4>2
        <3>5. \A i, j \in DOMAIN e : e[i] = e[j] => i = j
            BY <2>1, <3>2, <3>3
        <3> QED
            BY <3>2, <3>4, <3>5 DEF e
    <2> HIDE DEF Good
    <2>4. Good(n, h[n])
        BY <2>1, <2>2, <2>3
    <2>5. n \in 0 .. N
        BY <1>1
    <2> QED
        BY <2>4, <2>5
<1> HIDE DEF T, Good
<1>15. \A n \in 1 .. N : n - 1 \in T => n \in T
    BY <1>14
<1>16. \A n \in 0 .. N : n \in T
    BY ONLY <1>1, <1>13, <1>15, Climb
<1>17. N \in T
    BY <1>1, <1>16
<1> QED
    BY <1>1, <1>11, <1>17 DEF T, Good, Kept, X, F

LEMMA removeSpanCommands ==
    ASSUME DocInv, NEW s \in DOMAIN body.spans, removeSpan(s)
    PROVE  Commanded
<1>1. FormInv(body) /\ ShownInv(body) /\ body \in Bodies
    BY DEF DocInv, FormInv
<1> DEFINE E == ContributionsWithout(s)
           D == DOMAIN body.spans \ {s}
           K == [x \in D |-> body.spans[x]]
           c == [body EXCEPT !.spans = [x \in DOMAIN @ \ {s} |-> @[x]], !.editorial = E]
<1>2. Author("span", c)
    BY DEF removeSpan
<1>3. Kept(E, body.editorial, s)
    BY <1>1, BodyParts, WithoutIsKept DEF FormInv, EditorialInv
<1>4. K \in Maps(Spans, SpanSlots)
    <2>1. D \in SUBSET Spans
        BY <1>1, SpanParts
    <2>2. \A x \in D : K[x] \in SpanSlots
        BY <1>1, SpanParts
    <2>3. K \in [D -> SpanSlots]
        BY <2>2
    <2> HIDE DEF K, D
    <2> QED
        BY <2>1, <2>3, MapMade
<1>5. DOMAIN K = D /\ \A x \in D : K[x] = body.spans[x]
    OBVIOUS
<1>6. c = [body EXCEPT !.spans = K, !.editorial = E]
    OBVIOUS
<1> HIDE DEF K, E, c
<1>7. /\ c \in Bodies /\ c.keys = body.keys /\ c.spans = K /\ c.windows = body.windows
      /\ c.editorial = E /\ c.binding = body.binding /\ c.settings = body.settings
    BY ONLY <1>1, <1>3, <1>4, <1>6 DEF Bodies, Kept
<1>8. StepsStay(body, c) /\ NoSpanReused(body, c)
    BY <1>5, <1>7 DEF StepsStay, NoSpanReused
<1>9. WindowsGrow(body, c) /\ ChainsInv(c)
    BY <1>1, <1>7, SameWindowsGrow DEF FormInv
<1>10. NoNewTakes(body, c)
    BY <1>5, <1>7 DEF NoNewTakes
<1>11. SpansInv(c)
    <2>1. IsFiniteSet(D)
        BY <1>1, FS_Subset DEF FormInv, SpansInv
    <2> QED
        BY <1>1, <1>5, <1>7, <2>1 DEF FormInv, SpansInv
<1>12. EditorialInv(c)
    <2> SUFFICES ASSUME NEW i \in DOMAIN E
                 PROVE  /\ E[i].span # None => /\ E[i].span \in DOMAIN c.spans
                                               /\ E[i].take \in SpanTakes(c.spans[E[i].span])
                        /\ E[i].window # None => /\ E[i].window \in DOMAIN c.windows
                                                 /\ E[i].take \in c.windows[E[i].window].takes
                        /\ E[i].span = None \/ E[i].window = None
        BY <1>3, <1>7 DEF EditorialInv, Kept
    <2>1. PICK j \in DOMAIN body.editorial :
              E[i] = body.editorial[j] /\ body.editorial[j].span # s
        BY <1>3 DEF Kept
    <2> DEFINE e == body.editorial[j]
    <2>2. /\ e.span # None => /\ e.span \in DOMAIN body.spans
                              /\ e.take \in SpanTakes(body.spans[e.span])
          /\ e.window # None => /\ e.window \in DOMAIN body.windows
                                /\ e.take \in body.windows[e.window].takes
          /\ e.span = None \/ e.window = None
        BY <1>1 DEF FormInv, EditorialInv
    <2>3. E[i] = e /\ e.span # s
        BY <2>1
    <2> HIDE DEF e
    <2>4. e.span # None => e.span \in DOMAIN c.spans /\ c.spans[e.span] = body.spans[e.span]
        BY <1>5, <1>7, <2>2, <2>3
    <2> QED
        BY <1>7, <2>2, <2>3, <2>4
<1>13. FormInv(c)
    <2>1. KeysInv(c)
        BY <1>1, <1>7 DEF FormInv, KeysInv
    <2>2. FrozenInv(c) /\ TakesInv(c)
        BY <1>1, <1>8, <1>9, <1>10, TargetsKept, TakesKept DEF FormInv
    <2> QED
        BY <1>7, <1>9, <1>11, <1>12, <2>1, <2>2 DEF FormInv
<1>14. ShownInv(c)
    <2> DEFINE S == {}
    <2>1. \A x \in DOMAIN c.spans \ S : x \in DOMAIN body.spans /\ c.spans[x] = body.spans[x]
        BY <1>5, <1>7
    <2>2. \A x \in DOMAIN c.spans \cap S :
              \/ c.spans[x].marks # {}
              \/ \A i \in DOMAIN c.spans[x].steps : c.spans[x].steps[i].takes = {}
        OBVIOUS
    <2> HIDE DEF S
    <2> QED
        BY <1>1, <1>7, <2>1, <2>2, OtherSpansShow
<1> QED
    BY <1>2, <1>7, <1>13, <1>14, SameWindowsMarked, CommandMade, LaneNames

-----------------------------------------------------------------------------
(* The editorial list *)
LEMMA EditorialForm ==
    ASSUME NEW b, FormInv(b), NEW E \in Seq(Contributions), NEW c, c = [b EXCEPT !.editorial = E],
           EditorialInv(c)
    PROVE  /\ FormInv(c) /\ c.keys = b.keys /\ c.spans = b.spans /\ c.windows = b.windows
           /\ c.editorial = E /\ c.binding = b.binding /\ c.settings = b.settings
<1>1. b \in Bodies
    BY DEF FormInv
<1>2. /\ c \in Bodies /\ c.keys = b.keys /\ c.spans = b.spans /\ c.windows = b.windows
      /\ c.editorial = E /\ c.binding = b.binding /\ c.settings = b.settings
    BY <1>1, NewEditorial
<1>3. WindowsGrow(b, c) /\ ChainsInv(c)
    BY <1>2, SameWindowsGrow DEF FormInv
<1>4. StepsStay(b, c) /\ NoSpanReused(b, c) /\ NoNewTakes(b, c)
    BY <1>2 DEF StepsStay, NoSpanReused, NoNewTakes
<1>5. KeysInv(c) /\ SpansInv(c)
    BY <1>2 DEF FormInv, KeysInv, SpansInv
<1>6. FrozenInv(c) /\ TakesInv(c)
    BY <1>3, <1>4, TargetsKept, TakesKept DEF FormInv
<1> QED
    BY <1>2, <1>3, <1>5, <1>6 DEF FormInv

(* What one contribution of a list needs. *)
Backed(b, e) ==
    /\ e.span # None => /\ e.span \in DOMAIN b.spans
                        /\ e.take \in SpanTakes(b.spans[e.span])
    /\ e.window # None => /\ e.window \in DOMAIN b.windows
                          /\ e.take \in b.windows[e.window].takes
    /\ e.span = None \/ e.window = None

LEMMA ListWritten ==
    ASSUME DocInv, NEW E \in Seq(Contributions),
           \A i, j \in DOMAIN E : E[i] = E[j] => i = j,
           \A i \in DOMAIN E : Backed(body, E[i]),
           NEW c, c = [body EXCEPT !.editorial = E],
           Author("editorial", c)
    PROVE  Commanded
<1>1. FormInv(body) /\ ShownInv(body) /\ body \in Bodies
    BY DEF DocInv, FormInv
<1>2. c.spans = body.spans /\ c.windows = body.windows /\ c.editorial = E
    BY <1>1, NewEditorial
<1>3. EditorialInv(c)
    <2>1. \A i \in DOMAIN E : Backed(c, E[i])
        BY <1>2 DEF Backed
    <2> QED
        BY <1>2, <2>1 DEF EditorialInv, Backed
<1>4. /\ FormInv(c) /\ c.keys = body.keys
      /\ c.binding = body.binding /\ c.settings = body.settings
    BY <1>1, <1>3, EditorialForm
<1>5. ShownInv(c)
    BY <1>1, <1>2, <1>4, SameSpansShow
<1> QED
    BY <1>2, <1>4, <1>5, SameWindowsMarked, CommandMade, LaneNames

LEMMA ListIsBacked ==
    ASSUME FormInv(body)
    PROVE  /\ body.editorial \in Seq(Contributions)
           /\ \A i, j \in DOMAIN body.editorial : body.editorial[i] = body.editorial[j] => i = j
           /\ \A i \in DOMAIN body.editorial : Backed(body, body.editorial[i])
BY BodyParts DEF FormInv, EditorialInv, Backed

LEMMA selectClipContributionCommands ==
    ASSUME DocInv, NEW a \in Attempts, NEW s \in DOMAIN body.spans \cup {None},
           NEW w \in DOMAIN body.windows \cup {None}, s = None \/ w = None,
           selectClipContribution(s, w, a)
    PROVE  Commanded
<1>1. FormInv(body) /\ ShownInv(body) /\ body \in Bodies
    BY DEF DocInv, FormInv
<1> DEFINE F == body.editorial
           e == Entry(s, w, a)
           E == Append(F, e)
           c == [body EXCEPT !.editorial = Append(@, e)]
<1>2. CASE e \in ToSet(F)
    <2>1. Author("editorial", body)
        BY <1>2 DEF selectClipContribution
    <2> QED
        BY <1>1, <2>1, SameWindowsMarked, CommandMade, LaneNames
<1>3. CASE e \notin ToSet(F)
    <2>1. Author("editorial", c)
        BY <1>3 DEF selectClipContribution
    <2>2. e \in Contributions
        BY <1>1, SpanParts, WindowParts DEF Entry, Contributions
    <2>3. Backed(body, e)
        BY DEF selectClipContribution, Entry, Backed
    <2>4. /\ F \in Seq(Contributions)
          /\ \A i, j \in DOMAIN F : F[i] = F[j] => i = j
          /\ \A i \in DOMAIN F : Backed(body, F[i])
        BY <1>1, ListIsBacked
    <2>5. \A i \in DOMAIN F : F[i] # e
        BY <1>3 DEF ToSet
    <2>6. c = [body EXCEPT !.editorial = E]
        OBVIOUS
    <2> HIDE DEF e, F, c
    <2>7. /\ E \in Seq(Contributions) /\ Len(F) \in Nat /\ DOMAIN F = 1 .. Len(F)
          /\ DOMAIN E = 1 .. (Len(F) + 1)
          /\ E[Len(F) + 1] = e /\ \A i \in DOMAIN F : E[i] = F[i]
        BY <2>2, <2>4
    <2> HIDE DEF E
    <2>8. \A i, j \in DOMAIN E : E[i] = E[j] => i = j
        BY <2>4, <2>5, <2>7
    <2>9. \A i \in DOMAIN E : Backed(body, E[i])
        BY <2>3, <2>4, <2>7
    <2> QED
        BY <2>1, <2>6, <2>7, <2>8, <2>9, ListWritten
<1> QED
    BY <1>2, <1>3

LEMMA reorderEditorialCommands ==
    ASSUME DocInv, reorderEditorial
    PROVE  Commanded
<1> DEFINE F == body.editorial
<1>1. FormInv(body)
    BY DEF DocInv
<1>2. PICK p \in Bijection(DOMAIN F, DOMAIN F) :
          Author("editorial", [body EXCEPT !.editorial = [i \in DOMAIN @ |-> @[p[i]]]])
    BY DEF reorderEditorial
<1> DEFINE E == [i \in DOMAIN F |-> F[p[i]]]
           c == [body EXCEPT !.editorial = [i \in DOMAIN @ |-> @[p[i]]]]
<1>3. /\ F \in Seq(Contributions)
      /\ \A i, j \in DOMAIN F : F[i] = F[j] => i = j
      /\ \A i \in DOMAIN F : Backed(body, F[i])
    BY <1>1, ListIsBacked
<1>4. c = [body EXCEPT !.editorial = E]
    OBVIOUS
<1>5. /\ p \in [DOMAIN F -> DOMAIN F]
      /\ \A i, j \in DOMAIN F : p[i] = p[j] => i = j
    BY DEF Bijection, Injection, IsInjective
<1> HIDE DEF F, c
<1>6. DOMAIN F = 1 .. Len(F) /\ Len(F) \in Nat /\ \A i \in DOMAIN F : F[i] \in Contributions
    BY <1>3
<1>7. \A i \in DOMAIN E : p[i] \in DOMAIN F /\ E[i] = F[p[i]]
    BY <1>5
<1>8. E \in Seq(Contributions)
    <2>1. E \in [1 .. Len(F) -> Contributions]
        BY <1>5, <1>6
    <2> HIDE DEF E
    <2> QED
        BY <1>6, <2>1
<1>9. \A i, j \in DOMAIN E : E[i] = E[j] => i = j
    BY <1>3, <1>5, <1>7
<1>10. \A i \in DOMAIN E : Backed(body, E[i])
    BY <1>3, <1>7
<1> HIDE DEF E
<1> QED
    BY <1>2, <1>4, <1>8, <1>9, <1>10, ListWritten DEF c

LEMMA Removed ==
    ASSUME NEW X, NEW F \in Seq(X), NEW i \in DOMAIN F, NEW E, E = RemoveAt(F, i)
    PROVE  /\ E \in Seq(X) /\ DOMAIN E = 1 .. (Len(F) - 1)
           /\ \A j \in 1 .. (Len(F) - 1) : E[j] = F[IF j < i THEN j ELSE j + 1]
<1> DEFINE A == SubSeq(F, 1, i - 1)
           B == SubSeq(F, i + 1, Len(F))
<1>1. i \in 1 .. Len(F) /\ Len(F) \in Nat
    OBVIOUS
<1>2. A \in Seq(X) /\ Len(A) = i - 1 /\ \A j \in 1 .. i - 1 : A[j] = F[j]
    BY <1>1
<1>3. /\ B \in Seq(X) /\ Len(B) = Len(F) - i
      /\ \A j \in 1 .. (Len(F) - i) : B[j] = F[i + j]
    BY <1>1
<1>4. E = A \o B
    BY DEF RemoveAt
<1> HIDE DEF A, B
<1>5. E \in Seq(X) /\ Len(E) = Len(F) - 1
    BY <1>1, <1>2, <1>3, <1>4
<1>6. ASSUME NEW j \in 1 .. (Len(F) - 1) PROVE E[j] = F[IF j < i THEN j ELSE j + 1]
    <2>1. CASE j < i
        BY <1>1, <1>2, <1>3, <1>4, <2>1
    <2>2. CASE ~(j < i)
        <3>1. E[j] = B[j - (i - 1)]
            <4>1. j \in 1 .. Len(A) + Len(B) /\ ~(j <= Len(A)) /\ j - Len(A) = j - (i - 1)
                BY <1>1, <1>2, <1>3, <2>2
            <4>2. (A \o B)[j] = B[j - Len(A)]
                BY <1>2, <1>3, <4>1, ConcatProperties
            <4> QED
                BY <1>4, <4>1, <4>2
        <3>2. j - (i - 1) \in 1 .. (Len(F) - i) /\ i + (j - (i - 1)) = j + 1
            BY <1>1, <2>2
        <3> QED
            BY <1>3, <2>2, <3>1, <3>2
    <2> QED
        BY <2>1, <2>2
<1> QED
    BY <1>5, <1>6

LEMMA removeContributionCommands ==
    ASSUME DocInv, NEW k \in DOMAIN body.editorial, removeContribution(k)
    PROVE  Commanded
<1> DEFINE F == body.editorial
           E == RemoveAt(F, k)
           c == [body EXCEPT !.editorial = RemoveAt(@, k)]
           at == [i \in 1 .. (Len(F) - 1) |-> IF i < k THEN i ELSE i + 1]
<1>1. FormInv(body)
    BY DEF DocInv
<1>2. Author("editorial", c)
    BY DEF removeContribution
<1>3. /\ F \in Seq(Contributions)
      /\ \A i, j \in DOMAIN F : F[i] = F[j] => i = j
      /\ \A i \in DOMAIN F : Backed(body, F[i])
    BY <1>1, ListIsBacked
<1>4. c = [body EXCEPT !.editorial = E] /\ E = RemoveAt(F, k)
    OBVIOUS
<1> HIDE DEF E, c
<1>5. /\ E \in Seq(Contributions) /\ DOMAIN E = 1 .. (Len(F) - 1)
      /\ \A j \in 1 .. (Len(F) - 1) : E[j] = F[IF j < k THEN j ELSE j + 1]
    BY <1>3, <1>4, Removed
<1> HIDE DEF F
<1>6. \A i \in DOMAIN E : E[i] = F[at[i]] /\ at[i] \in DOMAIN F
    BY <1>3, <1>5, k \in DOMAIN F DEF F
<1>7. \A i, j \in DOMAIN E : at[i] = at[j] => i = j
    BY <1>3, <1>5, k \in DOMAIN F DEF F
<1> HIDE DEF at
<1>8. \A i, j \in DOMAIN E : E[i] = E[j] => i = j
    BY <1>3, <1>6, <1>7
<1>9. \A i \in DOMAIN E : Backed(body, E[i])
    BY <1>3, <1>6
<1> QED
    BY <1>2, <1>4, <1>5, <1>8, <1>9, ListWritten

LEMMA EditorialCommanded ==
    ASSUME DocInv, EditorialCommands
    PROVE  Commanded
<1>1. CASE reorderEditorial
    BY <1>1, reorderEditorialCommands
<1>2. ASSUME NEW i \in DOMAIN body.editorial, removeContribution(i) PROVE Commanded
    BY <1>2, removeContributionCommands
<1>3. ASSUME NEW a \in Attempts, selectClipContribution(None, None, a) PROVE Commanded
    BY <1>3, selectClipContributionCommands
<1>4. ASSUME NEW a \in Attempts, NEW s \in DOMAIN body.spans, selectClipContribution(s, None, a)
      PROVE  Commanded
    BY <1>4, selectClipContributionCommands
<1>5. ASSUME NEW a \in Attempts, NEW w \in DOMAIN body.windows,
             selectClipContribution(None, w, a)
      PROVE  Commanded
    BY <1>5, selectClipContributionCommands
<1> QED
    BY <1>1, <1>2, <1>3, <1>4, <1>5 DEF EditorialCommands

-----------------------------------------------------------------------------
(* Windows *)
LEMMA WindowChangedForm ==
    ASSUME NEW b, FormInv(b), NEW w \in DOMAIN b.windows, NEW slot \in WindowSlots,
           slot.root = b.windows[w].root, slot.order = b.windows[w].order,
           slot.takes = b.windows[w].takes,
           slot.selected \in slot.takes \cup {None}, Precedes(b, slot.source, w),
           NEW c, c = [b EXCEPT !.windows = [b.windows EXCEPT ![w] = slot]]
    PROVE  /\ FormInv(c) /\ c.keys = b.keys /\ c.spans = b.spans
           /\ c.editorial = b.editorial /\ c.binding = b.binding /\ c.settings = b.settings
           /\ DOMAIN c.windows = DOMAIN b.windows /\ c.windows[w] = slot
           /\ \A v \in DOMAIN b.windows : v # w => c.windows[v] = b.windows[v]
<1> DEFINE M == [b.windows EXCEPT ![w] = slot]
<1>1. b \in Bodies /\ b.windows \in Maps(Windows, WindowSlots)
    BY BodyParts DEF FormInv
<1>2. /\ M \in Maps(Windows, WindowSlots) /\ DOMAIN M = DOMAIN b.windows
      /\ M[w] = slot /\ \A v \in DOMAIN b.windows : v # w => M[v] = b.windows[v]
    BY <1>1, MapExcept
<1>3. c = [b EXCEPT !.windows = M]
    OBVIOUS
<1> HIDE DEF M
<1>4. /\ c \in Bodies /\ c.keys = b.keys /\ c.spans = b.spans /\ c.windows = M
      /\ c.editorial = b.editorial /\ c.binding = b.binding /\ c.settings = b.settings
    BY ONLY <1>1, <1>2, <1>3, NewWindows
<1>5. \A v \in DOMAIN b.windows :
          /\ c.windows[v].root = b.windows[v].root
          /\ c.windows[v].order = b.windows[v].order
          /\ c.windows[v].takes = b.windows[v].takes
    BY <1>2, <1>4
<1>6. WindowsGrow(b, c)
    BY <1>2, <1>4, <1>5 DEF WindowsGrow
<1>7. NoNewTakes(b, c)
    BY <1>2, <1>4, <1>5 DEF NoNewTakes
<1>8. ASSUME NEW v \in DOMAIN c.windows
      PROVE  /\ c.windows[v].selected \in c.windows[v].takes \cup {None}
             /\ Precedes(c, c.windows[v].source, v)
    <2>1. v \in DOMAIN b.windows
        BY <1>2, <1>4
    <2>2. CASE v = w
        <3>1. Precedes(c, slot.source, w)
            BY <1>6, PrecedesKept
        <3> QED
            BY <1>2, <1>4, <2>2, <3>1
    <2>3. CASE v # w
        <3>1. c.windows[v] = b.windows[v]
            BY <1>2, <1>4, <2>1, <2>3
        <3>2. Precedes(b, b.windows[v].source, v) /\ b.windows[v].selected \in b.windows[v].takes \cup {None}
            BY <2>1 DEF FormInv, ChainsInv
        <3>3. Precedes(c, b.windows[v].source, v)
            BY <1>6, <2>1, <3>2, PrecedesKept
        <3> QED
            BY <3>1, <3>2, <3>3
    <2> QED
        BY <2>2, <2>3
<1>9. ChainsInv(c)
    <2>1. DOMAIN c.windows = DOMAIN b.windows /\ ChainsInv(b)
        BY <1>2, <1>4 DEF FormInv
    <2> QED
        BY <1>6, <1>8, <2>1, ChainsKept
<1>10. FormInv(c)
    BY <1>4, <1>6, <1>7, <1>9, WindowsForm
<1> QED
    BY <1>2, <1>4, <1>10

(* A change of windows alone shows what was shown. *)
LEMMA WindowsShow ==
    ASSUME NEW b, NEW c, FormInv(b), ShownInv(b), c.keys = b.keys, c.spans = b.spans,
           c.binding = b.binding, c.settings = b.settings
    PROVE  ShownInv(c)
BY SameSpansShow

LEMMA setWindowLockCommands ==
    ASSUME DocInv, NEW w \in DOMAIN body.windows, NEW locked \in BOOLEAN, setWindowLock(w, locked)
    PROVE  Commanded
<1>1. FormInv(body) /\ ShownInv(body) /\ body \in Bodies
    BY DEF DocInv, FormInv
<1> DEFINE slot == [body.windows[w] EXCEPT !.lock = locked]
           c == [body EXCEPT !.windows[w].lock = locked]
<1>2. Author("lock", c)
    BY DEF setWindowLock
<1>3. c = [body EXCEPT !.windows = [body.windows EXCEPT ![w] = slot]]
    OBVIOUS
<1>4. /\ slot \in WindowSlots
      /\ slot.root = body.windows[w].root /\ slot.order = body.windows[w].order
      /\ slot.takes = body.windows[w].takes /\ slot.selected = body.windows[w].selected
      /\ slot.source = body.windows[w].source
    <2>1. body.windows[w] \in WindowSlots /\ locked \in Flags
        BY <1>1, WindowParts DEF Flags
    <2> QED
        BY <2>1 DEF WindowSlots
<1> HIDE DEF slot, c
<1>5. slot.selected \in slot.takes \cup {None} /\ Precedes(body, slot.source, w)
    BY <1>1, <1>4 DEF FormInv, ChainsInv
<1>6. /\ FormInv(c) /\ c.keys = body.keys /\ c.spans = body.spans
      /\ c.editorial = body.editorial /\ c.binding = body.binding /\ c.settings = body.settings
      /\ DOMAIN c.windows = DOMAIN body.windows /\ c.windows[w] = slot
      /\ \A v \in DOMAIN body.windows : v # w => c.windows[v] = body.windows[v]
    BY <1>1, <1>3, <1>4, <1>5, WindowChangedForm
<1>7. LineageMarked(body, c)
    BY <1>4, <1>6, SameLineage
<1>8. ShownInv(c)
    BY <1>1, <1>6, WindowsShow
<1> QED
    BY <1>2, <1>6, <1>7, <1>8, CommandMade, LaneNames

LEMMA rebindContinuationCommands ==
    ASSUME DocInv, NEW w \in DOMAIN body.windows, NEW a \in Attempts, rebindContinuation(w, a)
    PROVE  Commanded
<1>1. FormInv(body) /\ ShownInv(body) /\ body \in Bodies
    BY DEF DocInv, FormInv
<1> DEFINE slot == [body.windows[w] EXCEPT !.source = a]
           m == [body EXCEPT !.windows[w].source = a]
           S == {w}
           k == MarkWindows(m, S, "ancestry")
           T == body.windows[w].takes
           c == markAncestryDescendants(k, T)
           W == {v \in DOMAIN k.windows :
                    /\ k.windows[v].selected # None
                    /\ Ancestry(k.windows[v].selected) \cap T # {}}
<1>2. Author("chain", c) /\ Precedes(body, a, w)
    BY DEF rebindContinuation
<1>3. m = [body EXCEPT !.windows = [body.windows EXCEPT ![w] = slot]]
    OBVIOUS
<1>4. /\ slot \in WindowSlots
      /\ slot.root = body.windows[w].root /\ slot.order = body.windows[w].order
      /\ slot.takes = body.windows[w].takes /\ slot.selected = body.windows[w].selected
      /\ slot.source = a
    <2>1. body.windows[w] \in WindowSlots
        BY <1>1, WindowParts
    <2> QED
        BY <2>1 DEF WindowSlots
<1> HIDE DEF slot, m
<1>5. slot.selected \in slot.takes \cup {None} /\ Precedes(body, slot.source, w)
    BY <1>1, <1>2, <1>4 DEF FormInv, ChainsInv
<1>6. /\ FormInv(m) /\ m.keys = body.keys /\ m.spans = body.spans
      /\ m.editorial = body.editorial /\ m.binding = body.binding /\ m.settings = body.settings
      /\ DOMAIN m.windows = DOMAIN body.windows /\ m.windows[w] = slot
      /\ \A v \in DOMAIN body.windows : v # w => m.windows[v] = body.windows[v]
    BY <1>1, <1>3, <1>4, <1>5, WindowChangedForm
<1>7. \A v \in DOMAIN body.windows : /\ m.windows[v].takes = body.windows[v].takes
                                     /\ m.windows[v].selected = body.windows[v].selected
    BY <1>4, <1>6
<1> HIDE DEF S
<1>8. "ancestry" \in WindowReasons /\ k = MarkWindows(m, S, "ancestry")
    BY DEF WindowReasons
<1>9. c = MarkWindows(k, W, "ancestry")
    BY DEF markAncestryDescendants
<1> HIDE DEF k, W, T, c
<1>10. /\ FormInv(k) /\ k.keys = m.keys /\ k.spans = m.spans
       /\ k.binding = m.binding /\ k.settings = m.settings
       /\ DOMAIN k.windows = DOMAIN m.windows
       /\ \A v \in DOMAIN m.windows :
           /\ k.windows[v].takes = m.windows[v].takes
           /\ k.windows[v].selected = m.windows[v].selected
    BY <1>6, <1>8, MarkWindowsForm
<1>11. /\ FormInv(c) /\ c.keys = k.keys /\ c.spans = k.spans
       /\ c.binding = k.binding /\ c.settings = k.settings
       /\ DOMAIN c.windows = DOMAIN k.windows
       /\ \A v \in DOMAIN k.windows :
           /\ c.windows[v].takes = k.windows[v].takes
           /\ c.windows[v].selected = k.windows[v].selected
    BY <1>8, <1>9, <1>10, MarkWindowsForm
<1>12. LineageMarked(body, c)
    BY <1>6, <1>7, <1>10, <1>11, SameLineage
<1>13. ShownInv(c)
    BY <1>1, <1>6, <1>10, <1>11, WindowsShow
<1> QED
    BY <1>2, <1>11, <1>12, <1>13, CommandMade, LaneNames

LEMMA selectWindowCandidateCommands ==
    ASSUME DocInv, NEW w \in DOMAIN body.windows, NEW a \in Attempts, selectWindowCandidate(w, a)
    PROVE  Commanded
<1>1. FormInv(body) /\ ShownInv(body) /\ body \in Bodies
    BY DEF DocInv, FormInv
<1> DEFINE d == body.windows[w].selected
           slot == [body.windows[w] EXCEPT !.selected = a]
           m == [body EXCEPT !.windows[w].selected = a]
           T == {d}
           c == markAncestryDescendants(m, T)
           W == {v \in DOMAIN m.windows :
                    /\ m.windows[v].selected # None
                    /\ Ancestry(m.windows[v].selected) \cap T # {}}
<1>2. /\ a \in body.windows[w].takes /\ d # a
      /\ d = None => Author("chain", m)
      /\ d # None => Author("chain", c)
    BY DEF selectWindowCandidate
<1>3. m = [body EXCEPT !.windows = [body.windows EXCEPT ![w] = slot]]
    OBVIOUS
<1>4. /\ slot \in WindowSlots
      /\ slot.root = body.windows[w].root /\ slot.order = body.windows[w].order
      /\ slot.takes = body.windows[w].takes /\ slot.selected = a
      /\ slot.source = body.windows[w].source
    <2>1. body.windows[w] \in WindowSlots
        BY <1>1, WindowParts
    <2> QED
        BY <2>1 DEF WindowSlots
<1> HIDE DEF slot, m
<1>5. slot.selected \in slot.takes \cup {None} /\ Precedes(body, slot.source, w)
    BY <1>1, <1>2, <1>4 DEF FormInv, ChainsInv
<1>6. /\ FormInv(m) /\ m.keys = body.keys /\ m.spans = body.spans
      /\ m.editorial = body.editorial /\ m.binding = body.binding /\ m.settings = body.settings
      /\ DOMAIN m.windows = DOMAIN body.windows /\ m.windows[w] = slot
      /\ \A v \in DOMAIN body.windows : v # w => m.windows[v] = body.windows[v]
    BY <1>1, <1>3, <1>4, <1>5, WindowChangedForm
<1>7. \A v \in DOMAIN body.windows : m.windows[v].takes = body.windows[v].takes
    BY <1>4, <1>6
<1>8. ASSUME NEW v \in DOMAIN body.windows, body.windows[v].selected # None,
             m.windows[v].selected = body.windows[v].selected,
             LineageHolds(body, v), ~LineageHolds(m, v)
      PROVE  d # None /\ v \in W
    <2>1. PICK x \in Ancestry(m.windows[v].selected), u \in DOMAIN m.windows :
              x \in m.windows[u].takes /\ m.windows[u].selected # x
        BY <1>8 DEF LineageHolds
    <2>2. x \in Ancestry(body.windows[v].selected) /\ u \in DOMAIN body.windows
          /\ x \in body.windows[u].takes
        BY <1>6, <1>7, <1>8, <2>1
    <2>3. body.windows[u].selected = x
        BY <1>8, <2>2 DEF LineageHolds
    <2>4. u = w
        BY <1>6, <2>1, <2>2, <2>3
    <2>5. x = d /\ x # None
        BY <2>2, <2>3, <2>4 DEF Ancestry
    <2> QED
        BY <1>6, <1>8, <2>1, <2>5
<1>9. ShownInv(m)
    BY <1>1, <1>6, WindowsShow
<1>10. CASE d = None
    <2>1. LineageMarked(body, m)
        BY <1>8, <1>10 DEF LineageMarked
    <2> QED
        BY <1>2, <1>6, <1>9, <1>10, <2>1, CommandMade, LaneNames
<1>11. CASE d # None
    <2>1. c = MarkWindows(m, W, "ancestry") /\ "ancestry" \in WindowReasons
        BY DEF markAncestryDescendants, WindowReasons
    <2> HIDE DEF W, T, c
    <2>2. /\ FormInv(c) /\ c.keys = m.keys /\ c.spans = m.spans
          /\ c.binding = m.binding /\ c.settings = m.settings
          /\ DOMAIN c.windows = DOMAIN m.windows
          /\ \A v \in DOMAIN m.windows :
              /\ c.windows[v].takes = m.windows[v].takes
              /\ c.windows[v].selected = m.windows[v].selected
              /\ v \in W => "ancestry" \in c.windows[v].marks
        BY <1>6, <2>1, MarkWindowsForm
    <2>3. ShownInv(c)
        BY <1>6, <1>9, <2>2, WindowsShow
    <2>4. ASSUME NEW v \in DOMAIN body.windows, body.windows[v].selected # None,
                 c.windows[v].selected = body.windows[v].selected,
                 LineageHolds(body, v), ~LineageHolds(c, v)
          PROVE  "ancestry" \in c.windows[v].marks
        <3>1. v \in DOMAIN m.windows /\ m.windows[v].selected = body.windows[v].selected
            BY <1>6, <2>2, <2>4
        <3>2. ~LineageHolds(m, v)
            BY <2>2, <2>4, <3>1 DEF LineageHolds
        <3>3. v \in W
            BY <1>8, <2>4, <3>1, <3>2
        <3> QED
            BY <2>2, <3>1, <3>3
    <2>5. LineageMarked(body, c)
        BY <2>4 DEF LineageMarked
    <2> QED
        BY <1>2, <1>11, <2>2, <2>3, <2>5, CommandMade, LaneNames
<1> QED
    BY <1>10, <1>11

LEMMA AboveMinusOne ==
    ASSUME NEW T, T \subseteq Nat, NEW x \in {-1} \cup T
    PROVE  x \in Int /\ x >= -1
OBVIOUS

(* The order behind every window of a chain. *)
LEMMA LastOrder ==
    ASSUME NEW T, T \subseteq Nat, NEW n \in Nat, \A x \in T : x <= n
    PROVE  /\ Max({-1} \cup T) + 1 \in Nat
           /\ \A x \in T : x < Max({-1} \cup T) + 1
<1> DEFINE U == {-1} \cup T
<1>1. PICK m \in U : \A x \in U : m >= x
    <2>1. CASE T = {}
        BY <2>1
    <2>2. CASE T # {}
        <3>1. Max(T) \in T /\ \A x \in T : x <= Max(T)
            BY <2>2, BoundedMax
        <3>2. Max(T) \in Nat
            BY <3>1
        <3> HIDE DEF Max
        <3>3. Max(T) \in U /\ \A x \in U : Max(T) >= x
            BY <3>1, <3>2
        <3> QED
            BY <3>3
    <2> QED
        BY <2>1, <2>2
<1>2. Max(U) \in U /\ \A x \in U : Max(U) >= x
    BY <1>1 DEF Max
<1>3. Max(U) \in Int /\ Max(U) >= -1
    BY <1>2, AboveMinusOne
<1>4. \A x \in T : x \in Nat /\ x <= Max(U)
    BY <1>2, <1>3
<1> QED
    BY <1>3, <1>4

LEMMA WindowPutForm ==
    ASSUME NEW b, FormInv(b), NEW w \in Windows \ DOMAIN b.windows, NEW slot \in WindowSlots,
           slot.takes = {}, slot.selected = None,
           \A v \in InChain(b, slot.root) : b.windows[v].order < slot.order,
           slot.source = slot.root \/
               \E v \in InChain(b, slot.root) : slot.source \in b.windows[v].takes,
           Rooted(rows, slot.root, w),
           NEW K \in Maps(Windows, WindowSlots),
           DOMAIN K = DOMAIN b.windows \cup {w}, K[w] = slot,
           \A v \in DOMAIN b.windows : K[v] = b.windows[v],
           NEW c, c = [b EXCEPT !.windows = K]
    PROVE  /\ FormInv(c) /\ c.keys = b.keys /\ c.spans = b.spans
           /\ c.binding = b.binding /\ c.settings = b.settings
           /\ DOMAIN c.windows = DOMAIN b.windows \cup {w} /\ c.windows[w] = slot
           /\ \A v \in DOMAIN b.windows : c.windows[v] = b.windows[v]
<1>1. b \in Bodies /\ w \notin DOMAIN b.windows
    BY DEF FormInv
<1>2. /\ c \in Bodies /\ c.keys = b.keys /\ c.spans = b.spans /\ c.windows = K
      /\ c.editorial = b.editorial /\ c.binding = b.binding /\ c.settings = b.settings
    BY <1>1, NewWindows
<1>3. WindowsGrow(b, c)
    BY <1>2 DEF WindowsGrow
<1>4. NoNewTakes(b, c)
    BY <1>2 DEF NoNewTakes
<1>5. \A root : InChain(c, root) = InChain(b, root) \cup {v \in {w} : slot.root = root}
    BY <1>1, <1>2 DEF InChain
<1>6. slot.order \in Nat /\ \A v \in DOMAIN b.windows : b.windows[v].order \in Nat
    BY <1>1, WindowParts DEF WindowSlots
<1>7. ASSUME NEW v \in DOMAIN c.windows
      PROVE  /\ c.windows[v].selected \in c.windows[v].takes \cup {None}
             /\ Precedes(c, c.windows[v].source, v)
    <2>1. CASE v = w
        <3>1. c.windows[w] = slot /\ \A u \in DOMAIN b.windows : c.windows[u] = b.windows[u]
            BY <1>2
        <3>2. CASE slot.source = slot.root
            BY <2>1, <3>1, <3>2 DEF Precedes
        <3>3. ASSUME NEW u \in InChain(b, slot.root), slot.source \in b.windows[u].takes
              PROVE  Precedes(c, slot.source, w)
            <4>1. u \in InChain(c, slot.root) /\ u \in DOMAIN b.windows
                BY <1>5 DEF InChain
            <4> QED
                BY <3>1, <3>3, <4>1 DEF Precedes
        <3> QED
            BY <2>1, <3>1, <3>2, <3>3
    <2>2. CASE v # w
        <3>1. v \in DOMAIN b.windows /\ c.windows[v] = b.windows[v]
            BY <1>2, <2>2
        <3>2. Precedes(b, b.windows[v].source, v) /\ b.windows[v].selected \in b.windows[v].takes \cup {None}
            BY <3>1 DEF FormInv, ChainsInv
        <3>3. Precedes(c, b.windows[v].source, v)
            BY <1>3, <3>1, <3>2, PrecedesKept
        <3> QED
            BY <3>1, <3>2, <3>3
    <2> QED
        BY <2>1, <2>2
<1>8. ASSUME NEW v \in DOMAIN c.windows, NEW u \in InChain(c, c.windows[v].root) \ {v}
      PROVE  c.windows[u].order # c.windows[v].order
    <2>1. CASE v = w
        <3>1. u \in InChain(b, slot.root) /\ c.windows[u] = b.windows[u] /\ c.windows[v] = slot
            BY <1>2, <1>5, <2>1 DEF InChain
        <3> QED
            BY <1>6, <3>1 DEF InChain
    <2>2. CASE v # w /\ u = w
        <3>1. v \in InChain(b, slot.root) /\ c.windows[v] = b.windows[v] /\ c.windows[u] = slot
            BY <1>2, <2>2 DEF InChain
        <3> QED
            BY <1>6, <3>1 DEF InChain
    <2>3. CASE v # w /\ u # w
        <3>1. /\ v \in DOMAIN b.windows /\ c.windows[v] = b.windows[v]
              /\ u \in InChain(b, b.windows[v].root) \ {v} /\ c.windows[u] = b.windows[u]
            BY <1>2, <2>3 DEF InChain
        <3> QED
            BY <3>1 DEF FormInv, ChainsInv
    <2> QED
        BY <2>1, <2>2, <2>3
<1>9. \E n \in Nat : \A v \in DOMAIN c.windows : c.windows[v].order <= n
    <2>1. PICK n \in Nat : \A v \in DOMAIN b.windows : b.windows[v].order <= n
        BY DEF FormInv, ChainsInv
    <2>2. \A v \in DOMAIN c.windows : c.windows[v].order <= n + slot.order
        <3>1. ASSUME NEW v \in DOMAIN c.windows PROVE c.windows[v].order <= n + slot.order
            <4>1. CASE v = w
                BY <1>2, <1>6, <4>1
            <4>2. CASE v # w
                BY <1>2, <1>6, <2>1, <4>2
            <4> QED
                BY <4>1, <4>2
        <3> QED
            BY <3>1
    <2>3. n + slot.order \in Nat
        BY <1>6
    <2> QED
        BY <2>2, <2>3
<1>10. ChainsInv(c)
    <2>1. ASSUME NEW v \in DOMAIN c.windows PROVE Rooted(rows, c.windows[v].root, v)
        <3>1. CASE v = w
            BY <1>2, <3>1
        <3>2. CASE v # w
            BY <1>2, <3>2 DEF FormInv, ChainsInv
        <3> QED
            BY <3>1, <3>2
    <2> QED
        BY <1>7, <1>8, <1>9, <2>1 DEF ChainsInv
<1>11. FormInv(c)
    BY <1>2, <1>3, <1>4, <1>10, WindowsForm
<1> QED
    BY <1>2, <1>11

LEMMA FormSources ==
    ASSUME RowsInv, FormInv(body)
    PROVE  SourcesThere(rows) /\ None \notin DOMAIN rows
<1>1. \A a \in DOMAIN rows : rows[a].frozen \in Submitted
    BY DEF Submitted
<1>2. SourcesThere(rows)
    BY <1>1 DEF FormInv, FrozenInv, ForStep, ForWindow, ForKey, SourcesThere
<1>3. None \notin DOMAIN rows
    BY IdsAssumption DEF RowsInv
<1> QED
    BY <1>2, <1>3

LEMMA WindowTargets ==
    ASSUME NEW b, FormInv(b), NEW x \in DOMAIN rows, NEW w, rows[x].frozen.target = Window(w)
    PROVE  w \in DOMAIN b.windows
<1>1. rows[x].frozen \in Submitted
    BY DEF Submitted
<1>2. Window(w).window = w /\ \A v : Window(v).window = v
    BY DEF Window
<1>3. \A s, i : Window(w) # Step(s, i)
    BY DEF Window, Step
<1>4. \A k : Window(w) # Key(k)
    BY DEF Window, Key
<1> QED
    BY <1>1, <1>2, <1>3, <1>4 DEF FormInv, FrozenInv, ForStep, ForWindow, ForKey

LEMMA createWindowSlotCommands ==
    ASSUME DocInv, NEW a \in Attempts, createWindowSlot(a)
    PROVE  Commanded
<1>1. FormInv(body) /\ ShownInv(body) /\ body \in Bodies
    BY DEF DocInv, FormInv
<1> DEFINE D == Windows \ DOMAIN body.windows
           w == Min(D)
           root == ChainOf(a)
           order == NextOrder(root)
           slot == [root |-> root, order |-> order, takes |-> {},
                    selected |-> None, lock |-> FALSE, source |-> a, marks |-> {}]
           c == [body EXCEPT !.windows = Put(@, w, slot)]
           K == Put(body.windows, w, slot)
<1>2. Author("chain", c) /\ D # {}
    BY DEF createWindowSlot
<1>3. w \in D
    <2>1. D \subseteq Nat
        BY IdsAssumption
    <2>2. \E x \in D : \A y \in D : x <= y
        BY <1>2, <2>1, NatMin
    <2> HIDE DEF D
    <2> QED
        BY <2>2 DEF Min
<1> HIDE DEF w
<1>4. Rooted(rows, root, w)
    <2>1. root \in DOMAIN rows
        <3> DEFINE selecting == {v \in DOMAIN body.windows : body.windows[v].selected = a}
                   v == CHOOSE u \in selecting : TRUE
        <3>1. a \in DOMAIN rows
            BY DEF createWindowSlot, requireExtendSource, Landed
        <3>2. root = a \/ (v \in selecting /\ root = body.windows[v].root)
            BY DEF ChainOf
        <3> HIDE DEF v
        <3> QED
            BY <1>1, <3>1, <3>2 DEF FormInv, ChainsInv, Rooted
    <2> HIDE DEF root
    <2>2. SourcesThere(rows) /\ None \notin DOMAIN rows
        BY <1>1, FormSources DEF DocInv
    <2>3. AncestryIn(rows, root) \subseteq DOMAIN rows
        BY <2>1, <2>2, AncestryKept DEF RowsExtended
    <2>4. \A x \in DOMAIN rows : rows[x].frozen.target # Window(w)
        <3>1. w \notin DOMAIN body.windows
            BY <1>3
        <3> QED
            BY <1>1, <3>1, WindowTargets
    <2> QED
        BY <2>1, <2>3, <2>4 DEF Rooted
<1>5. root \in Attempts /\ (a = root \/ \E v \in InChain(body, root) : a \in body.windows[v].takes)
    <2> DEFINE selecting == {v \in DOMAIN body.windows : body.windows[v].selected = a}
    <2>1. CASE a \in Roots(body) \/ selecting = {}
        BY <2>1 DEF ChainOf
    <2>2. CASE ~(a \in Roots(body) \/ selecting = {})
        <3> DEFINE v == CHOOSE u \in selecting : TRUE
        <3>1. v \in selecting /\ root = body.windows[v].root
            BY <2>2 DEF ChainOf
        <3> HIDE DEF v
        <3>2. v \in DOMAIN body.windows /\ body.windows[v].selected = a
            BY <3>1
        <3>3. a # None
            BY IdsAssumption
        <3>4. a \in body.windows[v].takes
            BY <1>1, <3>2, <3>3 DEF FormInv, ChainsInv
        <3>5. v \in InChain(body, root) /\ root \in Attempts
            BY <1>1, <3>1, <3>2, WindowParts DEF InChain
        <3> QED
            BY <3>4, <3>5
    <2> QED
        BY <2>1, <2>2
<1> HIDE DEF root
<1>6. order \in Nat /\ \A v \in InChain(body, root) : body.windows[v].order < order
    <2> DEFINE T == {body.windows[v].order : v \in InChain(body, root)}
    <2>1. PICK n \in Nat : \A v \in DOMAIN body.windows : body.windows[v].order <= n
        BY <1>1 DEF FormInv, ChainsInv
    <2>2. \A v \in InChain(body, root) : /\ v \in DOMAIN body.windows
                                         /\ body.windows[v].order \in Nat
        BY <1>1, WindowParts DEF InChain
    <2>3. T \subseteq Nat /\ \A x \in T : x <= n
        BY <2>1, <2>2
    <2>4. order = Max({-1} \cup T) + 1
        BY DEF NextOrder
    <2>5. \A v \in InChain(body, root) : body.windows[v].order \in T
        OBVIOUS
    <2> HIDE DEF T, order
    <2>6. /\ Max({-1} \cup T) + 1 \in Nat
          /\ \A x \in T : x < Max({-1} \cup T) + 1
        BY <2>3, LastOrder
    <2> QED
        BY <2>4, <2>5, <2>6
<1> HIDE DEF order
<1>7. /\ slot \in WindowSlots /\ slot.root = root /\ slot.order = order /\ slot.takes = {}
      /\ slot.selected = None /\ slot.source = a
    BY <1>5, <1>6 DEF WindowSlots, Flags
<1> HIDE DEF slot
<1>8. c = [body EXCEPT !.windows = K] /\ K = Put(body.windows, w, slot)
    OBVIOUS
<1>9. /\ DOMAIN K = DOMAIN body.windows \cup {w} /\ K[w] = slot
      /\ \A v \in DOMAIN body.windows : K[v] = body.windows[v]
    BY <1>3 DEF Put
<1>10. body.windows \in Maps(Windows, WindowSlots) /\ w \in Windows
    BY <1>1, <1>3, BodyParts
<1> HIDE DEF K, c
<1>11. K \in Maps(Windows, WindowSlots)
    <2>1. K = Put(body.windows, w, slot) /\ slot \in WindowSlots
        BY <1>7, <1>8
    <2> QED
        BY ONLY <1>10, <2>1, MapPut
<1>12. \A v \in InChain(body, slot.root) : body.windows[v].order < slot.order
    BY <1>6, <1>7
<1>13. slot.source = slot.root \/
           \E v \in InChain(body, slot.root) : slot.source \in body.windows[v].takes
    BY <1>5, <1>7
<1>14. Rooted(rows, slot.root, w)
    BY <1>7, <1>4
<1>15. /\ FormInv(c) /\ c.keys = body.keys /\ c.spans = body.spans
       /\ c.binding = body.binding /\ c.settings = body.settings
       /\ DOMAIN c.windows = DOMAIN body.windows \cup {w} /\ c.windows[w] = slot
       /\ \A v \in DOMAIN body.windows : c.windows[v] = body.windows[v]
    <2>1. w \in Windows \ DOMAIN body.windows
        BY <1>3
    <2> QED
        BY ONLY <1>1, <1>7, <1>8, <1>9, <1>11, <1>12, <1>13, <1>14, <2>1, WindowPutForm
<1>16. ShownInv(c)
    BY <1>1, <1>15, WindowsShow
<1>17. LineageMarked(body, c)
    <2>1. ASSUME NEW v \in DOMAIN body.windows, LineageHolds(body, v) PROVE LineageHolds(c, v)
        <3>1. ASSUME NEW x \in Ancestry(c.windows[v].selected), NEW u \in DOMAIN c.windows,
                     x \in c.windows[u].takes
              PROVE  c.windows[u].selected = x
            <4>1. u # w
                BY <1>7, <1>15, <3>1
            <4>2. u \in DOMAIN body.windows /\ c.windows[u] = body.windows[u]
                  /\ c.windows[v] = body.windows[v]
                BY <1>15, <4>1
            <4> QED
                BY <2>1, <3>1, <4>2 DEF LineageHolds
        <3> QED
            BY <3>1 DEF LineageHolds
    <2> QED
        BY <2>1 DEF LineageMarked
<1> QED
    BY <1>2, <1>15, <1>16, <1>17, CommandMade, LaneNames

LEMMA ChainCommanded ==
    ASSUME DocInv, ChainCommands
    PROVE  Commanded
<1>1. ASSUME NEW a \in Attempts, createWindowSlot(a) PROVE Commanded
    BY <1>1, createWindowSlotCommands
<1>2. ASSUME NEW a \in Attempts, NEW w \in DOMAIN body.windows, selectWindowCandidate(w, a)
      PROVE  Commanded
    BY <1>2, selectWindowCandidateCommands
<1>3. ASSUME NEW a \in Attempts, NEW w \in DOMAIN body.windows, rebindContinuation(w, a)
      PROVE  Commanded
    BY <1>3, rebindContinuationCommands
<1> QED
    BY <1>1, <1>2, <1>3 DEF ChainCommands

LEMMA SpanCommanded ==
    ASSUME DocInv, SpanCommands
    PROVE  Commanded
<1>1. ASSUME NEW from \in Keys, NEW to \in Keys, NEW text \in Texts, insertSpan(from, to, text)
      PROVE  Commanded
    BY <1>1, insertSpanCommands
<1>2. ASSUME NEW s \in DOMAIN body.spans, appendStepSlot(s) PROVE Commanded
    BY <1>2, appendStepSlotCommands
<1>3. ASSUME NEW s \in DOMAIN body.spans, removeSpan(s) PROVE Commanded
    BY <1>3, removeSpanCommands
<1>4. ASSUME NEW s \in DOMAIN body.spans, NEW text \in Texts, updateSpanIntent(s, text)
      PROVE  Commanded
    BY <1>4, updateSpanIntentCommands
<1>5. ASSUME NEW s \in DOMAIN body.spans, NEW i \in DOMAIN body.spans[s].steps,
             NEW a \in Attempts, NEW f \in Frames, selectRollingReference(s, i, a, f)
      PROVE  Commanded
    BY <1>5, selectRollingReferenceCommands
<1>6. ASSUME NEW s \in DOMAIN body.spans, NEW i \in DOMAIN body.spans[s].steps,
             NEW note \in Texts \cup {None}, annotateRollingReference(s, i, note)
      PROVE  Commanded
    BY <1>6, annotateRollingReferenceCommands
<1> QED
    BY <1>1, <1>2, <1>3, <1>4, <1>5, <1>6 DEF SpanCommands

LEMMA KeyCommanded ==
    ASSUME DocInv, KeyCommands
    PROVE  Commanded
<1>1. ASSUME NEW k \in Keys, NEW d \in Drawings, addKeyCandidate(k, d) PROVE Commanded
    BY <1>1, addKeyCandidateCommands
<1>2. ASSUME NEW k \in Keys, NEW d \in Drawings, selectKeyCandidate(k, d) PROVE Commanded
    BY <1>2, selectKeyCandidateCommands
<1>3. ASSUME NEW k \in Keys, NEW locked \in BOOLEAN, setKeyLock(k, locked) PROVE Commanded
    BY <1>3, setKeyLockCommands
<1> QED
    BY <1>1, <1>2, <1>3 DEF KeyCommands

LEMMA WindowLocksCommanded ==
    ASSUME DocInv, WindowLocks
    PROVE  Commanded
BY setWindowLockCommands DEF WindowLocks

-----------------------------------------------------------------------------
(* What the validation before a write asks for. *)
TakesNamed(b) ==
    \A w \in DOMAIN b.windows : \A a \in b.windows[w].takes : rows[a].frozen.target = Window(w)

LEMMA GateAccepts ==
    ASSUME NEW b \in Bodies, KeysInv(b), SpansInv(b), ChainsInv(b), EditorialInv(b), TakesNamed(b)
    PROVE  WellFormed(b)
<1>1. \A k \in DOMAIN b.keys : b.keys[k].selected \in b.keys[k].held \cup {None}
    BY DEF KeysInv
<1>2. ASSUME NEW s \in DOMAIN b.spans
      PROVE  /\ {b.spans[s].from, b.spans[s].to} \subseteq DOMAIN b.keys
             /\ \A i \in DOMAIN b.spans[s].steps :
                 LET step == b.spans[s].steps[i] IN
                 step.ref # None => step.ref.take \in step.takes
    BY DEF SpansInv
<1>3. ASSUME NEW w \in DOMAIN b.windows
      PROVE  /\ b.windows[w].selected \in b.windows[w].takes \cup {None}
             /\ \A v \in InChain(b, b.windows[w].root) \ {w} :
                 /\ b.windows[v].order # b.windows[w].order
                 /\ b.windows[v].takes \cap b.windows[w].takes = {}
    <2>1. ASSUME NEW v \in InChain(b, b.windows[w].root) \ {w}
          PROVE  b.windows[v].takes \cap b.windows[w].takes = {}
        <3>1. v \in DOMAIN b.windows /\ v # w
            BY DEF InChain
        <3>2. Window(v) # Window(w)
            <4>1. Window(v).window = v /\ Window(w).window = w
                BY DEF Window
            <4> QED
                BY <3>1, <4>1
        <3> QED
            BY <3>1, <3>2 DEF TakesNamed
    <2> QED
        BY <2>1 DEF ChainsInv
<1>4. ASSUME NEW e \in ToSet(b.editorial)
      PROVE  /\ e.span # None => e.span \in DOMAIN b.spans
             /\ e.window # None => e.window \in DOMAIN b.windows
             /\ e.span = None \/ e.window = None
    BY DEF ToSet, EditorialInv
<1> QED
    BY <1>1, <1>2, <1>3, <1>4 DEF WellFormed

LEMMA FormIsWellFormed ==
    ASSUME NEW b, FormInv(b)
    PROVE  WellFormed(b)
<1>1. TakesNamed(b)
    BY DEF FormInv, TakesInv, TakesNamed, IsTakeOf
<1> QED
    BY <1>1, GateAccepts DEF FormInv

LEMMA LeftTyped ==
    ASSUME left \in [Lanes -> Nat], NEW lane \in Lanes, Spend(lane)
    PROVE  left' \in [Lanes -> Nat]
BY DEF Spend

(* What a command writes. *)
LEMMA CommandWrites ==
    ASSUME DocInv, NEW lane \in Lanes, NEW b, Author(lane, b), FormInv(b)
    PROVE  /\ body' = b /\ revision' = revision + 1 /\ ~gateFailed'
           /\ rows' = rows /\ requests' = requests /\ accepted' = accepted
           /\ left' \in [Lanes -> Nat]
<1>1. WellFormed(b)
    BY FormIsWellFormed
<1>2. left' \in [Lanes -> Nat]
    BY LeftTyped DEF DocInv, Author
<1>3. ~gateFailed'
    BY <1>1 DEF DocInv, Author
<1> QED
    BY <1>1, <1>2, <1>3 DEF Author

LEMMA CommandedInv ==
    ASSUME DocInv, Commanded
    PROVE  DocInv'
<1>1. PICK lane \in Lanes, b \in Bodies :
          Author(lane, b) /\ FormInv(b) /\ ShownInv(b)
    BY DEF Commanded
<1>2. /\ body' = b /\ revision' = revision + 1 /\ ~gateFailed'
      /\ rows' = rows /\ requests' = requests /\ accepted' = accepted
      /\ left' \in [Lanes -> Nat]
    BY <1>1, CommandWrites
<1>3. Submitted' = Submitted
    BY <1>2 DEF Submitted
<1>4. revision \in Nat
    BY DEF DocInv, RowsInv
<1>5. RowsInv'
    BY <1>2, <1>4 DEF DocInv, RowsInv
<1>6. FrozenInv(body)'
    <2> SUFFICES ASSUME NEW f \in Submitted
                 PROVE  /\ f.revision \in Nat /\ f.revision <= revision'
                        /\ (ForStep(body, f) \/ ForWindow(body, f) \/ ForKey(f))'
        BY <1>3 DEF FrozenInv
    <2>1. f.revision \in Nat /\ f.revision <= revision /\ (ForStep(b, f) \/ ForWindow(b, f) \/ ForKey(f))
        BY <1>1 DEF FormInv, FrozenInv
    <2>2. f.revision <= revision'
        BY <1>2, <1>4, <2>1
    <2>3. ForStep(b, f) => ForStep(body, f)'
        BY <1>2 DEF ForStep
    <2>4. ForWindow(b, f) => ForWindow(body, f)'
        BY <1>2 DEF ForWindow
    <2>5. ForKey(f) => ForKey(f)'
        BY DEF ForKey
    <2> QED
        BY <2>1, <2>2, <2>3, <2>4, <2>5
<1>7. TakesInv(body)'
    BY <1>1, <1>2 DEF FormInv, TakesInv, IsTakeOf
<1>8. KeysInv(body)' /\ SpansInv(body)' /\ ChainsInv(body)' /\ EditorialInv(body)' /\ (body \in Bodies)'
    BY <1>1, <1>2 DEF FormInv, ChainsInv
<1>9. ShownInv(body)'
    BY <1>1, <1>2 DEF ShownInv
<1>10. CurrentInv(body)'
    <2>1. \A f \in Submitted : f.revision # revision'
        BY <1>1, <1>2, <1>4 DEF FormInv, FrozenInv
    <2> QED
        BY <1>3, <2>1 DEF CurrentInv
<1> QED
    BY <1>2, <1>5, <1>6, <1>7, <1>8, <1>9, <1>10 DEF DocInv, FormInv

(* Submissions *)

(* A record that is frozen now. *)
FrozenNow(f) ==
    /\ f.revision = revision
    /\ ForStep(body, f) \/ ForWindow(body, f) \/ ForKey(f)
    /\ \A s \in DOMAIN body.spans : \A i \in DOMAIN body.spans[s].steps :
        f.target = Step(s, i) => f.inputs = StepInputs(body, s, i)

LEMMA RowsAdded ==
    ASSUME DocInv, RowsInv', UNCHANGED <<body, revision, gateFailed>>, left' \in [Lanes -> Nat],
           \A a \in DOMAIN rows : a \in DOMAIN rows' /\ rows'[a] = rows[a],
           \A f \in Submitted' : f \in Submitted \/ FrozenNow(f)
    PROVE  DocInv'
<1>1. FormInv(body) /\ CurrentInv(body) /\ ShownInv(body) /\ revision \in Nat
    BY DEF DocInv, RowsInv
<1>2. body' = body /\ revision' = revision /\ gateFailed' = gateFailed
    OBVIOUS
<1>3. FrozenInv(body)'
    <2> SUFFICES ASSUME NEW f \in Submitted'
                 PROVE  /\ f.revision \in Nat /\ f.revision <= revision'
                        /\ (ForStep(body, f) \/ ForWindow(body, f) \/ ForKey(f))'
        BY DEF FrozenInv
    <2>1. /\ f.revision \in Nat /\ f.revision <= revision
          /\ ForStep(body, f) \/ ForWindow(body, f) \/ ForKey(f)
        <3>1. CASE f \in Submitted
            BY <1>1, <3>1 DEF FormInv, FrozenInv
        <3>2. CASE FrozenNow(f)
            <4>1. f.revision = revision
                BY <3>2 DEF FrozenNow
            <4>2. f.revision \in Nat /\ f.revision <= revision
                BY <1>1, <4>1
            <4> QED
                BY <3>2, <4>2 DEF FrozenNow
        <3> QED
            BY <3>1, <3>2
    <2>2. ForStep(body, f) => ForStep(body, f)'
        BY <1>2 DEF ForStep
    <2>3. ForWindow(body, f) => ForWindow(body, f)'
        BY <1>2 DEF ForWindow
    <2>4. ForKey(f) => ForKey(f)'
        BY DEF ForKey
    <2> QED
        BY <1>2, <2>1, <2>2, <2>3, <2>4
<1>4. TakesInv(body)'
    BY <1>1, <1>2 DEF FormInv, TakesInv, IsTakeOf
<1>5. KeysInv(body)' /\ SpansInv(body)' /\ ChainsInv(body)' /\ EditorialInv(body)' /\ (body \in Bodies)'
    <2>1. ASSUME NEW w \in DOMAIN body.windows PROVE Rooted(rows', body.windows[w].root, w)
        <3>1. Rooted(rows, body.windows[w].root, w)
            BY <1>1 DEF FormInv, ChainsInv
        <3>2. SourcesThere(rows) /\ RowsExtended(rows, rows')
            BY <1>1, FormSources DEF DocInv, RowsExtended
        <3>3. None \notin DOMAIN rows'
            BY IdsAssumption DEF RowsInv
        <3> QED
            BY <3>1, <3>2, <3>3, RootedKept
    <2> QED
        BY <1>1, <1>2, <2>1 DEF FormInv, ChainsInv
<1>6. ShownInv(body)'
    <2> SUFFICES ASSUME NEW s \in DOMAIN body.spans, NEW i \in DOMAIN body.spans[s].steps,
                        NEW a \in body.spans[s].steps[i].takes
                 PROVE  \/ rows'[a].frozen.inputs = StepInputs(body, s, i)
                        \/ body.spans[s].marks # {}
                        \/ rows'[a].earlier
        BY <1>2 DEF ShownInv
    <2>1. a \in DOMAIN rows
        BY <1>1 DEF FormInv, TakesInv, IsTakeOf
    <2> QED
        BY <1>1, <2>1 DEF ShownInv
<1>7. CurrentInv(body)'
    <2> SUFFICES ASSUME NEW f \in Submitted', NEW s \in DOMAIN body.spans,
                        NEW i \in DOMAIN body.spans[s].steps,
                        f.revision = revision, f.target = Step(s, i)
                 PROVE  f.inputs = StepInputs(body, s, i)
        BY <1>2 DEF CurrentInv
    <2>1. CASE f \in Submitted
        BY <1>1, <2>1 DEF CurrentInv
    <2>2. CASE FrozenNow(f)
        BY <2>2 DEF FrozenNow
    <2> QED
        BY <2>1, <2>2
<1> QED
    BY <1>2, <1>3, <1>4, <1>5, <1>6, <1>7 DEF DocInv, FormInv

LEMMA SubmitInv ==
    ASSUME DocInv, NEW lane \in Lanes, NEW a \in Attempts, NEW f, FrozenNow(f), Submit(lane, a, f)
    PROVE  DocInv'
<1> DEFINE r == Request(a, f)
<1>1. /\ UNCHANGED <<revision, body, rows, gateFailed>>
      /\ requests' \subseteq requests \cup {r} /\ accepted' \subseteq accepted \cup {r}
    BY DEF Submit
<1>2. left' \in [Lanes -> Nat]
    BY LeftTyped DEF DocInv, Submit
<1>3. r.attempt = a /\ r.frozen = f
    BY DEF Request
<1> HIDE DEF r
<1>4. RowsInv'
    BY <1>1, <1>3 DEF DocInv, RowsInv
<1>5. \A g \in Submitted' : g \in Submitted \/ g = f
    BY <1>1, <1>3 DEF Submitted
<1> QED
    BY <1>1, <1>2, <1>4, <1>5, RowsAdded

LEMMA SubmissionsInv ==
    ASSUME DocInv, Submissions
    PROVE  DocInv'
<1>1. FormInv(body) /\ body \in Bodies
    BY DEF DocInv, FormInv
<1>2. ASSUME NEW a \in Attempts, NEW s \in DOMAIN body.spans,
             NEW i \in DOMAIN body.spans[s].steps, SubmitStep(a, s, i)
      PROVE  DocInv'
    <2> DEFINE f == Frozen("tween", Step(s, i), None, StepInputs(body, s, i))
    <2>1. Submit("step", a, f)
        BY <1>2 DEF SubmitStep
    <2>2. /\ f.revision = revision /\ f.tool = "tween" /\ f.target = Step(s, i)
          /\ f.source = None /\ f.inputs = StepInputs(body, s, i)
        BY DEF Frozen
    <2> HIDE DEF f
    <2>3. ForStep(body, f)
        <3>1. s \in Spans /\ i \in Nat
            BY <1>1, SpanParts, StepParts
        <3> QED
            BY <2>2, <3>1 DEF ForStep
    <2>4. ASSUME NEW x \in DOMAIN body.spans, NEW j \in DOMAIN body.spans[x].steps,
                 f.target = Step(x, j)
          PROVE  f.inputs = StepInputs(body, x, j)
        <3>1. x = s /\ j = i
            BY <2>2, <2>4 DEF Step
        <3> QED
            BY <2>2, <3>1
    <2>5. FrozenNow(f)
        BY <2>2, <2>3, <2>4 DEF FrozenNow
    <2> QED
        BY <2>1, <2>5, SubmitInv, LaneNames
<1>3. ASSUME NEW a \in Attempts, NEW k \in Keys, NEW tool \in {"hero", "sequence"},
             NEW lane \in Lanes, NEW inputs,
             Submit(lane, a, Frozen(tool, Key(k), None, inputs))
      PROVE  DocInv'
    <2> DEFINE f == Frozen(tool, Key(k), None, inputs)
    <2>1. f.revision = revision /\ f.tool = tool /\ f.target = Key(k) /\ f.source = None
        BY DEF Frozen
    <2>2. Submit(lane, a, f)
        BY <1>3
    <2> HIDE DEF f
    <2>3. ForKey(f)
        BY <2>1 DEF ForKey
    <2>4. \A x, j : f.target # Step(x, j)
        BY <2>1 DEF Key, Step
    <2>5. FrozenNow(f)
        BY <2>1, <2>3, <2>4 DEF FrozenNow
    <2> QED
        BY <2>2, <2>5, SubmitInv
<1>4. ASSUME NEW a \in Attempts, NEW k \in Keys, NEW l \in Keys, SubmitHero(a, k, l)
      PROVE  DocInv'
    BY <1>3, <1>4, LaneNames DEF SubmitHero
<1>5. ASSUME NEW a \in Attempts, NEW k \in Keys, NEW l \in Keys, SubmitSequence(a, k, l)
      PROVE  DocInv'
    BY <1>3, <1>5, LaneNames DEF SubmitSequence
<1>6. ASSUME NEW a \in Attempts, NEW w \in DOMAIN body.windows, Extend(a, w)
      PROVE  DocInv'
    <2> DEFINE source == body.windows[w].source
               f == Frozen("tween", Window(w), source, WindowInputs(body, source))
    <2>1. Submit("extend", a, f) /\ requireExtendSource(source) /\ Precedes(body, source, w)
        BY <1>6 DEF Extend
    <2>2. f.revision = revision /\ f.tool = "tween" /\ f.target = Window(w) /\ f.source = source
        BY DEF Frozen
    <2> HIDE DEF f
    <2>3. ForWindow(body, f)
        BY <2>1, <2>2 DEF ForWindow, requireExtendSource, Landed
    <2>4. \A x, j : f.target # Step(x, j)
        BY <2>2 DEF Window, Step
    <2>5. FrozenNow(f)
        BY <2>2, <2>3, <2>4 DEF FrozenNow
    <2> QED
        BY <2>1, <2>5, SubmitInv, LaneNames
<1> QED
    BY <1>2, <1>4, <1>5, <1>6 DEF Submissions

LEMMA RecordInv ==
    ASSUME DocInv, NEW r \in requests, Record(r)
    PROVE  DocInv'
<1>1. /\ UNCHANGED <<revision, body, gateFailed, left>>
      /\ requests' = requests \ {r} /\ accepted' \subseteq accepted \cup {r}
    BY DEF Record
<1>2. left' \in [Lanes -> Nat] /\ RowsInv /\ r.attempt \in Attempts
    BY <1>1 DEF DocInv, RowsInv
<1> DEFINE row == [frozen |-> r.frozen, landed |-> FALSE, earlier |-> FALSE]
<1>3. /\ DOMAIN row = {"frozen", "landed", "earlier"}
      /\ row.landed \in Flags /\ row.earlier \in Flags /\ row.frozen = r.frozen
    BY DEF Flags
<1>4. CASE r.attempt \in DOMAIN rows
    <2>1. rows' = rows
        BY <1>4 DEF Record
    <2>2. RowsInv'
        BY <1>1, <1>2, <2>1 DEF RowsInv
    <2>3. \A g \in Submitted' : g \in Submitted
        BY <1>1, <2>1 DEF Submitted
    <2> QED
        BY <1>1, <1>2, <2>1, <2>2, <2>3, RowsAdded
<1>5. CASE r.attempt \notin DOMAIN rows
    <2>1. rows' = Put(rows, r.attempt, row)
        BY <1>5 DEF Record, Inserted
    <2> HIDE DEF row
    <2>2. /\ DOMAIN rows' = DOMAIN rows \cup {r.attempt} /\ rows'[r.attempt] = row
          /\ \A a \in DOMAIN rows : rows'[a] = rows[a]
        BY <1>5, <2>1 DEF Put
    <2>3. RowsInv'
        <3>1. revision' \in Nat /\ DOMAIN rows' \subseteq Attempts
            BY <1>1, <1>2, <2>2 DEF RowsInv
        <3>2. ASSUME NEW a \in DOMAIN rows'
              PROVE  /\ DOMAIN rows'[a] = {"frozen", "landed", "earlier"}
                     /\ rows'[a].landed \in Flags /\ rows'[a].earlier \in Flags
            <4>1. CASE a = r.attempt
                BY <1>3, <2>2, <4>1
            <4>2. CASE a # r.attempt
                BY <1>2, <2>2, <4>2 DEF RowsInv
            <4> QED
                BY <4>1, <4>2
        <3>3. \A q \in requests' \cup accepted' : q.attempt \in Attempts
            BY <1>1, <1>2 DEF RowsInv
        <3> QED
            BY <3>1, <3>2, <3>3 DEF RowsInv
    <2>4. \A g \in Submitted' : g \in Submitted
        <3> SUFFICES ASSUME NEW g \in Submitted' PROVE g \in Submitted
            OBVIOUS
        <3>1. CASE \E a \in DOMAIN rows' : g = rows'[a].frozen
            BY <1>3, <2>2, <3>1 DEF Submitted
        <3>2. CASE \E q \in requests' : g = q.frozen
            BY <1>1, <3>2 DEF Submitted
        <3> QED
            BY <3>1, <3>2 DEF Submitted
    <2> QED
        BY <1>1, <1>2, <2>2, <2>3, <2>4, RowsAdded
<1> QED
    BY <1>4, <1>5

LEMMA DropInv ==
    ASSUME DocInv, NEW r \in requests, Drop(r)
    PROVE  DocInv'
<1>1. /\ UNCHANGED <<revision, body, rows, gateFailed, left>>
      /\ requests' \subseteq requests /\ accepted' = accepted
    BY DEF Drop
<1>2. left' \in [Lanes -> Nat]
    BY <1>1 DEF DocInv
<1>3. RowsInv'
    BY <1>1 DEF DocInv, RowsInv
<1>4. \A g \in Submitted' : g \in Submitted
    BY <1>1 DEF Submitted
<1> QED
    BY <1>1, <1>2, <1>3, <1>4, RowsAdded

-----------------------------------------------------------------------------
(* Landings *)

(* A clip joins the target it was rendered for, and nothing else changes that *)
(* a take could show.                                                         *)
Joins(b, a) ==
    /\ \A s \in DOMAIN b.spans : \A i \in DOMAIN b.spans[s].steps :
        \A x \in b.spans[s].steps[i].takes :
            \/ s \in DOMAIN body.spans /\ i \in DOMAIN body.spans[s].steps
               /\ x \in body.spans[s].steps[i].takes
            \/ x = a /\ rows[a].frozen.tool = "tween" /\ rows[a].frozen.target = Step(s, i)
    /\ \A w \in DOMAIN b.windows : \A x \in b.windows[w].takes :
            \/ w \in DOMAIN body.windows /\ x \in body.windows[w].takes
            \/ x = a /\ rows[a].frozen.tool = "tween" /\ rows[a].frozen.target = Window(w)

RendersAlike(b) ==
    /\ DOMAIN b.spans = DOMAIN body.spans
    /\ \A s \in DOMAIN b.spans :
        /\ b.spans[s].marks = body.spans[s].marks
        /\ DOMAIN b.spans[s].steps = DOMAIN body.spans[s].steps
        /\ \A i \in DOMAIN b.spans[s].steps : StepInputs(b, s, i) = StepInputs(body, s, i)
    /\ DOMAIN b.windows = DOMAIN body.windows
    /\ \A w \in DOMAIN b.windows : b.windows[w].selected = body.windows[w].selected

Joined(b, a) ==
    /\ b \in Bodies /\ KeysInv(b) /\ SpansInv(b) /\ ChainsInv(b) /\ EditorialInv(b)
    /\ SpansGrow(body, b) /\ WindowsGrow(body, b)
    /\ Joins(b, a) /\ RendersAlike(b)

LEMMA LandingWrites ==
    ASSUME DocInv, NEW a \in DOMAIN rows, landCandidate(a), Joined(Attached(body, a), a)
    PROVE  /\ body' = Attached(body, a) /\ ~gateFailed'
           /\ UNCHANGED <<revision, requests, accepted, left>>
           /\ DOMAIN rows' = DOMAIN rows
           /\ \A x \in DOMAIN rows :
               /\ DOMAIN rows'[x] = {"frozen", "landed", "earlier"}
               /\ rows'[x].frozen = rows[x].frozen
               /\ x # a => rows'[x] = rows[x]
               /\ rows'[x].earlier \in Flags
           /\ rows'[a].landed = TRUE
           /\ rows'[a].earlier = (rows[a].frozen.revision < revision)
<1> DEFINE b == Attached(body, a)
           late == rows[a].frozen.revision < revision
<1>1. TakesNamed(b)
    <2>1. TakesInv(body) /\ Joins(b, a)
        BY DEF DocInv, FormInv, Joined
    <2> HIDE DEF b
    <2> QED
        BY <2>1 DEF TakesInv, Joins, TakesNamed, IsTakeOf
<1>2. WellFormed(b)
    BY <1>1, GateAccepts DEF Joined
<1>3. /\ body' = b /\ ~gateFailed'
      /\ UNCHANGED <<revision, requests, accepted, left>>
      /\ rows' = [rows EXCEPT ![a].landed = TRUE, ![a].earlier = late]
    BY <1>2 DEF landCandidate, DocInv
<1>4. \A x \in DOMAIN rows : /\ DOMAIN rows[x] = {"frozen", "landed", "earlier"}
                             /\ rows[x].earlier \in Flags
    BY DEF DocInv, RowsInv
<1>5. late \in Flags
    BY DEF Flags
<1> HIDE DEF late, b
<1>6. /\ DOMAIN rows' = DOMAIN rows
      /\ \A x \in DOMAIN rows : x # a => rows'[x] = rows[x]
      /\ DOMAIN rows'[a] = {"frozen", "landed", "earlier"}
      /\ rows'[a].frozen = rows[a].frozen
      /\ rows'[a].landed = TRUE /\ rows'[a].earlier = late
    BY <1>3, <1>4
<1> QED
    BY <1>3, <1>4, <1>5, <1>6 DEF b, late

LEMMA LandingInv ==
    ASSUME DocInv, NEW a \in DOMAIN rows, landCandidate(a), Joined(Attached(body, a), a)
    PROVE  DocInv'
<1> DEFINE b == Attached(body, a)
           late == rows[a].frozen.revision < revision
<1>1. /\ body' = b /\ ~gateFailed'
      /\ UNCHANGED <<revision, requests, accepted, left>>
      /\ DOMAIN rows' = DOMAIN rows
      /\ \A x \in DOMAIN rows :
          /\ DOMAIN rows'[x] = {"frozen", "landed", "earlier"}
          /\ rows'[x].frozen = rows[x].frozen
          /\ x # a => rows'[x] = rows[x]
          /\ rows'[x].earlier \in Flags
      /\ rows'[a].landed = TRUE
      /\ rows'[a].earlier = late
    BY LandingWrites
<1>2. Joined(b, a)
    OBVIOUS
<1>3. ~rows[a].landed
    BY DEF landCandidate
<1> HIDE DEF b, late
<1>4. RowsInv /\ FormInv(body) /\ CurrentInv(body) /\ ShownInv(body) /\ left' \in [Lanes -> Nat]
    BY <1>1 DEF DocInv
<1>5. RowsInv'
    <2>1. ASSUME NEW x \in DOMAIN rows'
          PROVE  /\ DOMAIN rows'[x] = {"frozen", "landed", "earlier"}
                 /\ rows'[x].landed \in Flags /\ rows'[x].earlier \in Flags
        <3>1. CASE x = a
            BY <1>1, <3>1 DEF Flags
        <3>2. CASE x # a
            BY <1>1, <1>4, <3>2 DEF RowsInv
        <3> QED
            BY <3>1, <3>2
    <2> QED
        BY <1>1, <1>4, <2>1 DEF RowsInv
<1>6. Submitted' = Submitted
    <2>1. {rows'[x].frozen : x \in DOMAIN rows'} = {rows[x].frozen : x \in DOMAIN rows}
        BY <1>1
    <2> QED
        BY <1>1, <2>1 DEF Submitted
<1>7. FrozenInv(b)
    <2>1. StepsStay(body, b) /\ NoSpanReused(body, b)
        BY <1>2 DEF Joined, RendersAlike, StepsStay, NoSpanReused
    <2> QED
        BY <1>2, <1>4, <2>1, TargetsKept DEF FormInv, Joined
<1>8. FrozenInv(body)'
    <2> SUFFICES ASSUME NEW f \in Submitted
                 PROVE  /\ f.revision \in Nat /\ f.revision <= revision
                        /\ (ForStep(body, f) \/ ForWindow(body, f) \/ ForKey(f))'
        BY <1>1, <1>6 DEF FrozenInv
    <2>1. f.revision \in Nat /\ f.revision <= revision
          /\ (ForStep(b, f) \/ ForWindow(b, f) \/ ForKey(f))
        BY <1>7 DEF FrozenInv
    <2>2. ForStep(b, f) => ForStep(body, f)'
        BY <1>1 DEF ForStep
    <2>3. ForWindow(b, f) => ForWindow(body, f)'
        <3> SUFFICES ASSUME NEW w \in DOMAIN b.windows,
                            f.tool = "tween", f.target = Window(w),
                            f.source \in DOMAIN rows, rows[f.source].landed,
                            Precedes(b, f.source, w)
                     PROVE  ForWindow(body, f)'
            BY DEF ForWindow
        <3>1. f.source # a
            BY <1>3
        <3>2. f.source \in DOMAIN rows' /\ rows'[f.source].landed
            BY <1>1, <3>1
        <3> QED
            BY <1>1, <3>2 DEF ForWindow
    <2>4. ForKey(f) => ForKey(f)'
        BY DEF ForKey
    <2> QED
        BY <2>1, <2>2, <2>3, <2>4
<1>9. \A target, x : IsTakeOf(x, target) => x # a /\ IsTakeOf(x, target)'
    BY <1>1, <1>3 DEF IsTakeOf
<1>10. \A target : (rows[a].frozen.tool = "tween" /\ rows[a].frozen.target = target)
                       => IsTakeOf(a, target)'
    BY <1>1 DEF IsTakeOf
<1>11. TakesInv(body)'
    <2>1. ASSUME NEW s \in DOMAIN b.spans, NEW i \in DOMAIN b.spans[s].steps,
                 NEW x \in b.spans[s].steps[i].takes
          PROVE  IsTakeOf(x, Step(s, i))'
        <3>1. CASE s \in DOMAIN body.spans /\ i \in DOMAIN body.spans[s].steps
                   /\ x \in body.spans[s].steps[i].takes
            <4>1. IsTakeOf(x, Step(s, i))
                BY <1>4, <3>1 DEF FormInv, TakesInv
            <4> QED
                BY <1>9, <4>1
        <3>2. CASE x = a /\ rows[a].frozen.tool = "tween" /\ rows[a].frozen.target = Step(s, i)
            BY <1>10, <3>2
        <3> QED
            BY <1>2, <3>1, <3>2 DEF Joined, Joins
    <2>2. ASSUME NEW w \in DOMAIN b.windows, NEW x \in b.windows[w].takes
          PROVE  IsTakeOf(x, Window(w))'
        <3>1. CASE w \in DOMAIN body.windows /\ x \in body.windows[w].takes
            <4>1. IsTakeOf(x, Window(w))
                BY <1>4, <3>1 DEF FormInv, TakesInv
            <4> QED
                BY <1>9, <4>1
        <3>2. CASE x = a /\ rows[a].frozen.tool = "tween" /\ rows[a].frozen.target = Window(w)
            BY <1>10, <3>2
        <3> QED
            BY <1>2, <3>1, <3>2 DEF Joined, Joins
    <2> QED
        BY <1>1, <2>1, <2>2 DEF TakesInv
<1>12. KeysInv(body)' /\ SpansInv(body)' /\ ChainsInv(body)' /\ EditorialInv(body)' /\ (body \in Bodies)'
    <2>1. ASSUME NEW w \in DOMAIN b.windows PROVE Rooted(rows', b.windows[w].root, w)
        <3>1. Rooted(rows, b.windows[w].root, w)
            BY <1>2 DEF Joined, ChainsInv
        <3>2. SourcesThere(rows) /\ None \notin DOMAIN rows
            BY <1>4, FormSources
        <3>3. RowsExtended(rows, rows') /\ None \notin DOMAIN rows'
            BY <1>1, <3>2 DEF RowsExtended
        <3> QED
            BY <3>1, <3>2, <3>3, RootedKept
    <2> QED
        BY <1>1, <1>2, <2>1 DEF Joined, ChainsInv
<1>13. CurrentInv(body)'
    <2> SUFFICES ASSUME NEW f \in Submitted, NEW s \in DOMAIN b.spans,
                        NEW i \in DOMAIN b.spans[s].steps,
                        f.revision = revision, f.target = Step(s, i)
                 PROVE  f.inputs = StepInputs(b, s, i)
        BY <1>1, <1>6 DEF CurrentInv
    <2>1. s \in DOMAIN body.spans /\ i \in DOMAIN body.spans[s].steps
          /\ StepInputs(b, s, i) = StepInputs(body, s, i)
        BY <1>2 DEF Joined, RendersAlike
    <2> QED
        BY <1>4, <2>1 DEF CurrentInv
<1>14. ShownInv(body)'
    <2> SUFFICES ASSUME NEW s \in DOMAIN b.spans, NEW i \in DOMAIN b.spans[s].steps,
                        NEW x \in b.spans[s].steps[i].takes
                 PROVE  \/ rows'[x].frozen.inputs = StepInputs(b, s, i)
                        \/ b.spans[s].marks # {}
                        \/ rows'[x].earlier
        BY <1>1 DEF ShownInv
    <2>1. s \in DOMAIN body.spans /\ i \in DOMAIN body.spans[s].steps
          /\ StepInputs(b, s, i) = StepInputs(body, s, i)
          /\ b.spans[s].marks = body.spans[s].marks
        BY <1>2 DEF Joined, RendersAlike
    <2>2. CASE x \in body.spans[s].steps[i].takes
        <3>1. \/ rows[x].frozen.inputs = StepInputs(body, s, i)
              \/ body.spans[s].marks # {}
              \/ rows[x].earlier
            BY <1>4, <2>1, <2>2 DEF ShownInv
        <3>2. IsTakeOf(x, Step(s, i))
            BY <1>4, <2>1, <2>2 DEF FormInv, TakesInv
        <3>3. rows'[x] = rows[x]
            BY <1>1, <1>9, <3>2 DEF IsTakeOf
        <3> QED
            BY <2>1, <3>1, <3>3
    <2>3. CASE x = a /\ rows[a].frozen.target = Step(s, i)
        <3> DEFINE f == rows[a].frozen
        <3>1. f \in Submitted
            BY DEF Submitted
        <3>2. f.revision \in Nat /\ f.revision <= revision /\ revision \in Nat
            BY <1>4, <3>1 DEF FormInv, FrozenInv, RowsInv
        <3>3. CASE late
            BY <1>1, <2>3, <3>3
        <3>4. CASE ~late
            <4>1. f.revision = revision
                BY <3>2, <3>4 DEF late
            <4>2. f.inputs = StepInputs(body, s, i)
                BY <1>4, <2>1, <2>3, <3>1, <4>1 DEF CurrentInv
            <4> QED
                BY <1>1, <2>1, <2>3, <4>2
        <3> QED
            BY <3>3, <3>4
    <2> QED
        BY <1>2, <2>2, <2>3 DEF Joined, Joins
<1> QED
    BY <1>1, <1>4, <1>5, <1>8, <1>11, <1>12, <1>13, <1>14 DEF DocInv, FormInv

(* A clip that is kept as an alternative of a key. *)
LEMMA KeysJoined ==
    ASSUME FormInv(body), NEW a, NEW b, FormInv(b), b.spans = body.spans, b.windows = body.windows,
           \A k \in DOMAIN body.keys : b.keys[k].selected = body.keys[k].selected,
           b.binding = body.binding, b.settings = body.settings
    PROVE  Joined(b, a)
<1>1. ASSUME NEW s \in DOMAIN body.spans, NEW i \in DOMAIN body.spans[s].steps
      PROVE  StepInputs(b, s, i) = StepInputs(body, s, i)
    <2>1. i \in Nat
        BY StepParts DEF FormInv
    <2>2. body.spans[s].from \in DOMAIN body.keys /\ body.spans[s].to \in DOMAIN body.keys
        BY DEF FormInv, SpansInv
    <2> QED
        BY <2>1, <2>2, SameInputs
<1>2. RendersAlike(b) /\ Joins(b, a)
    BY <1>1 DEF RendersAlike, Joins
<1>3. SpansGrow(body, b) /\ WindowsGrow(body, b)
    BY SameSpansGrow, SameWindowsGrow
<1> QED
    BY <1>2, <1>3 DEF Joined, FormInv

LEMMA HeroJoins ==
    ASSUME DocInv, NEW a \in DOMAIN rows, NEW k \in Keys, rows[a].frozen.tool = "hero",
           rows[a].frozen.target = Key(k)
    PROVE  Joined(Attached(body, a), a)
<1>1. FormInv(body) /\ body \in Bodies /\ a \in Attempts
    BY DEF DocInv, FormInv, RowsInv
<1>2. rows[a].frozen.target.key = k /\ rows[a].frozen.target.kind = "key"
    BY DEF Key
<1>3. CASE k \in DOMAIN body.keys
    <2> DEFINE slot == [body.keys[k] EXCEPT !.held = @ \cup {a}]
               c == [body EXCEPT !.keys[k].held = @ \cup {a}]
    <2>1. Attached(body, a) = c
        BY <1>2, <1>3 DEF Attached
    <2>2. c = [body EXCEPT !.keys = [body.keys EXCEPT ![k] = slot]]
        OBVIOUS
    <2>3. /\ slot \in KeySlots /\ slot.selected = body.keys[k].selected
          /\ slot.held = body.keys[k].held \cup {a}
        <3>1. body.keys[k] \in KeySlots
            BY <1>1, <1>3, KeyParts
        <3> QED
            BY <1>1, <3>1 DEF KeySlots
    <2>4. slot.selected \in slot.held \cup {None}
        BY <1>1, <1>3, <2>3 DEF FormInv, KeysInv
    <2> HIDE DEF c, slot
    <2>5. /\ FormInv(c) /\ c.spans = body.spans /\ c.windows = body.windows
          /\ c.binding = body.binding /\ c.settings = body.settings
          /\ \A j \in DOMAIN body.keys : c.keys[j].selected = body.keys[j].selected
        BY <1>1, <1>3, <2>2, <2>3, <2>4, KeyChangedForm
    <2> QED
        BY <1>1, <2>1, <2>5, KeysJoined
<1>4. CASE k \notin DOMAIN body.keys
    <2> DEFINE slot == [held |-> {a}, selected |-> None, lock |-> FALSE]
               c == [body EXCEPT !.keys = Put(@, k, slot)]
               K == Put(body.keys, k, slot)
    <2>1. Attached(body, a) = c
        BY <1>2, <1>4 DEF Attached
    <2>2. c = [body EXCEPT !.keys = K] /\ K = Put(body.keys, k, slot)
        OBVIOUS
    <2>3. slot \in KeySlots /\ slot.selected = None /\ k \in Keys \ DOMAIN body.keys
        BY <1>1, <1>4 DEF KeySlots, Flags
    <2> HIDE DEF slot
    <2>4. /\ DOMAIN K = DOMAIN body.keys \cup {k} /\ K[k] = slot
          /\ \A j \in DOMAIN body.keys : K[j] = body.keys[j]
        BY <2>3 DEF Put
    <2>5. body.keys \in Maps(Keys, KeySlots) /\ k \in Keys /\ slot \in KeySlots
        BY <1>1, <2>3, BodyParts
    <2> HIDE DEF c, K
    <2>6. K \in Maps(Keys, KeySlots)
        <3>1. K = Put(body.keys, k, slot)
            BY <2>2
        <3> QED
            BY ONLY <2>5, <3>1, MapPut
    <2>7. /\ FormInv(c) /\ c.spans = body.spans /\ c.windows = body.windows
          /\ c.binding = body.binding /\ c.settings = body.settings
          /\ \A j \in DOMAIN body.keys : c.keys[j] = body.keys[j]
        BY <1>1, <2>2, <2>3, <2>4, <2>6, KeyPutForm
    <2> QED
        BY <1>1, <2>1, <2>7, KeysJoined
<1> QED
    BY <1>3, <1>4

LEMMA SequenceJoins ==
    ASSUME DocInv, NEW a \in DOMAIN rows, rows[a].frozen.tool = "sequence"
    PROVE  Joined(Attached(body, a), a)
<1>1. Attached(body, a) = body
    BY DEF Attached
<1> QED
    BY <1>1, KeysJoined DEF DocInv

LEMMA StepJoins ==
    ASSUME DocInv, NEW a \in DOMAIN rows, rows[a].frozen.tool = "tween",
           NEW s \in DOMAIN body.spans, NEW i \in DOMAIN body.spans[s].steps,
           rows[a].frozen.target = Step(s, i)
    PROVE  Joined(Attached(body, a), a)
<1>1. FormInv(body) /\ body \in Bodies /\ a \in Attempts
    BY DEF DocInv, FormInv, RowsInv
<1>2. /\ rows[a].frozen.target.kind = "step"
      /\ rows[a].frozen.target.span = s /\ rows[a].frozen.target.step = i
    BY DEF Step
<1> DEFINE steps == body.spans[s].steps
           e == [steps[i] EXCEPT !.takes = @ \cup {a}]
           t == [steps EXCEPT ![i] = e]
           slot == [body.spans[s] EXCEPT !.steps = t]
           M == [body.spans EXCEPT ![s] = slot]
           c == [body EXCEPT !.spans[s].steps[i].takes = @ \cup {a}]
<1>3. Attached(body, a) = c
    BY <1>2 DEF Attached
<1>4. c = [body EXCEPT !.spans = M]
    OBVIOUS
<1>5. /\ body.spans[s] \in SpanSlots /\ steps \in Seq(StepSlots) /\ steps[i] \in StepSlots
      /\ i \in 1 .. Len(steps) /\ DOMAIN steps = 1 .. Len(steps)
    BY <1>1, SpanParts, StepParts
<1>6. e \in StepSlots /\ e.takes = steps[i].takes \cup {a} /\ e.ref = steps[i].ref
    BY <1>1, <1>5 DEF StepSlots
<1> HIDE DEF e, steps
<1>7. t \in Seq(StepSlots)
    BY <1>5, <1>6, ExceptSeq
<1>8. DOMAIN t = DOMAIN steps /\ t[i] = e /\ \A j \in DOMAIN steps : j # i => t[j] = steps[j]
    BY <1>5
<1> HIDE DEF t
<1>9. /\ slot \in SpanSlots /\ slot.from = body.spans[s].from /\ slot.to = body.spans[s].to
      /\ slot.intent = body.spans[s].intent /\ slot.marks = body.spans[s].marks
      /\ slot.steps = t
    BY <1>5, <1>7 DEF SpanSlots
<1> HIDE DEF slot
<1>10. /\ M \in Maps(Spans, SpanSlots) /\ DOMAIN M = DOMAIN body.spans
       /\ M[s] = slot /\ \A x \in DOMAIN body.spans : x # s => M[x] = body.spans[x]
    BY <1>1, <1>9, BodyParts, MapExcept
<1> HIDE DEF M, c
<1>11. /\ c \in Bodies /\ c.keys = body.keys /\ c.spans = M /\ c.windows = body.windows
       /\ c.editorial = body.editorial /\ c.binding = body.binding
       /\ c.settings = body.settings
    BY ONLY <1>1, <1>4, <1>10, NewSpans
<1>12. ASSUME NEW x \in DOMAIN c.spans
       PROVE  /\ x \in DOMAIN body.spans
              /\ c.spans[x].from = body.spans[x].from /\ c.spans[x].to = body.spans[x].to
              /\ c.spans[x].intent = body.spans[x].intent
              /\ c.spans[x].marks = body.spans[x].marks
              /\ DOMAIN c.spans[x].steps = DOMAIN body.spans[x].steps
              /\ \A j \in DOMAIN body.spans[x].steps :
                  /\ c.spans[x].steps[j].ref = body.spans[x].steps[j].ref
                  /\ c.spans[x].steps[j].takes =
                         IF x = s /\ j = i THEN body.spans[x].steps[j].takes \cup {a}
                                           ELSE body.spans[x].steps[j].takes
    <2>1. CASE x = s
        <3>1. c.spans[s] = slot /\ slot.steps = t
            BY <1>9, <1>10, <1>11
        <3>2. \A j \in DOMAIN steps :
                  /\ t[j].ref = steps[j].ref
                  /\ t[j].takes = IF j = i THEN steps[j].takes \cup {a} ELSE steps[j].takes
            BY <1>6, <1>8
        <3> QED
            BY <1>8, <1>9, <2>1, <3>1, <3>2 DEF steps
    <2>2. CASE x # s
        BY <1>10, <1>11, <2>2
    <2> QED
        BY <2>1, <2>2
<1>13. DOMAIN c.spans = DOMAIN body.spans
    BY <1>10, <1>11
<1>14. SpansGrow(body, c) /\ WindowsGrow(body, c) /\ ChainsInv(c) /\ KeysInv(c)
    <2>1. SpansGrow(body, c)
        BY <1>12, <1>13 DEF SpansGrow
    <2>2. WindowsGrow(body, c) /\ ChainsInv(c)
        BY <1>1, <1>11, SameWindowsGrow DEF FormInv
    <2>3. KeysInv(c)
        BY <1>1, <1>11 DEF FormInv, KeysInv
    <2> QED
        BY <2>1, <2>2, <2>3
<1>15. EditorialInv(c)
    BY <1>1, <1>11, <1>14, EditorialKept DEF FormInv
<1>16. SpansInv(c)
    <2>1. SpansInv(body)
        BY <1>1 DEF FormInv
    <2>2. ASSUME NEW x \in DOMAIN c.spans
          PROVE  /\ {c.spans[x].from, c.spans[x].to} \subseteq DOMAIN c.keys
                 /\ \A j \in DOMAIN c.spans[x].steps :
                        c.spans[x].steps[j].ref # None =>
                            c.spans[x].steps[j].ref.take \in c.spans[x].steps[j].takes
        <3>1. {body.spans[x].from, body.spans[x].to} \subseteq DOMAIN body.keys
            BY <1>12, <2>1 DEF SpansInv
        <3>2. \A j \in DOMAIN body.spans[x].steps :
                  body.spans[x].steps[j].ref # None =>
                      body.spans[x].steps[j].ref.take \in body.spans[x].steps[j].takes
            BY <1>12, <2>1 DEF SpansInv
        <3>3. /\ c.keys = body.keys /\ DOMAIN c.spans[x].steps = DOMAIN body.spans[x].steps
              /\ c.spans[x].from = body.spans[x].from /\ c.spans[x].to = body.spans[x].to
            BY <1>11, <1>12
        <3>4. \A j \in DOMAIN body.spans[x].steps :
                  /\ c.spans[x].steps[j].ref = body.spans[x].steps[j].ref
                  /\ body.spans[x].steps[j].takes \subseteq c.spans[x].steps[j].takes
            BY <1>12
        <3> QED
            BY ONLY <3>1, <3>2, <3>3, <3>4
    <2> QED
        BY <1>13, <2>1, <2>2 DEF SpansInv
<1>17. ASSUME NEW x \in DOMAIN body.spans, NEW j \in DOMAIN body.spans[x].steps
       PROVE  StepInputs(c, x, j) = StepInputs(body, x, j)
    <2>1. j \in Nat /\ j \in 1 .. Len(body.spans[x].steps)
          /\ DOMAIN body.spans[x].steps = 1 .. Len(body.spans[x].steps)
        BY <1>1, StepParts, SpanParts
    <2>2. \A k \in 1 .. j - 1 : k \in DOMAIN body.spans[x].steps
        BY <2>1
    <2>3. \A k \in 1 .. j - 1 : c.spans[x].steps[k].ref = body.spans[x].steps[k].ref
        BY <1>12, <1>13, <2>2
    <2> QED
        BY <1>11, <1>12, <1>13, <2>1, <2>3, SameInputs
<1>18. RendersAlike(c)
    BY <1>11, <1>12, <1>13, <1>17 DEF RendersAlike
<1>19. Joins(c, a)
    <2>1. ASSUME NEW x \in DOMAIN c.spans, NEW j \in DOMAIN c.spans[x].steps,
                 NEW y \in c.spans[x].steps[j].takes
          PROVE  \/ x \in DOMAIN body.spans /\ j \in DOMAIN body.spans[x].steps
                    /\ y \in body.spans[x].steps[j].takes
                 \/ y = a /\ rows[a].frozen.tool = "tween" /\ rows[a].frozen.target = Step(x, j)
        <3>1. x \in DOMAIN body.spans /\ j \in DOMAIN body.spans[x].steps
            BY <1>12
        <3>2. c.spans[x].steps[j].takes =
                  IF x = s /\ j = i THEN body.spans[x].steps[j].takes \cup {a}
                                    ELSE body.spans[x].steps[j].takes
            BY <1>12, <3>1
        <3>3. y \in body.spans[x].steps[j].takes \/ (y = a /\ x = s /\ j = i)
            BY ONLY <2>1, <3>2
        <3> QED
            BY <3>1, <3>3
    <2> QED
        BY <1>11, <2>1 DEF Joins
<1> QED
    BY <1>3, <1>11, <1>14, <1>15, <1>16, <1>18, <1>19 DEF Joined

LEMMA WindowJoins ==
    ASSUME DocInv, NEW a \in DOMAIN rows, rows[a].frozen.tool = "tween",
           NEW w \in DOMAIN body.windows, rows[a].frozen.target = Window(w)
    PROVE  Joined(Attached(body, a), a)
<1>1. FormInv(body) /\ body \in Bodies /\ a \in Attempts
    BY DEF DocInv, FormInv, RowsInv
<1>2. rows[a].frozen.target.kind = "window" /\ rows[a].frozen.target.window = w
    BY DEF Window
<1> DEFINE slot == [body.windows[w] EXCEPT !.takes = @ \cup {a}]
           M == [body.windows EXCEPT ![w] = slot]
           c == [body EXCEPT !.windows[w].takes = @ \cup {a}]
<1>3. Attached(body, a) = c
    BY <1>2 DEF Attached
<1>4. c = [body EXCEPT !.windows = M]
    OBVIOUS
<1>5. /\ slot \in WindowSlots
      /\ slot.root = body.windows[w].root /\ slot.order = body.windows[w].order
      /\ slot.takes = body.windows[w].takes \cup {a}
      /\ slot.selected = body.windows[w].selected
      /\ slot.source = body.windows[w].source
    <2>1. body.windows[w] \in WindowSlots
        BY <1>1, WindowParts
    <2> QED
        BY <1>1, <2>1 DEF WindowSlots
<1> HIDE DEF slot
<1>6. /\ M \in Maps(Windows, WindowSlots) /\ DOMAIN M = DOMAIN body.windows
      /\ M[w] = slot /\ \A v \in DOMAIN body.windows : v # w => M[v] = body.windows[v]
    BY <1>1, <1>5, BodyParts, MapExcept
<1> HIDE DEF M, c
<1>7. /\ c \in Bodies /\ c.keys = body.keys /\ c.spans = body.spans /\ c.windows = M
      /\ c.editorial = body.editorial /\ c.binding = body.binding
      /\ c.settings = body.settings
    BY ONLY <1>1, <1>4, <1>6, NewWindows
<1>8. ASSUME NEW v \in DOMAIN body.windows
      PROVE  /\ v \in DOMAIN c.windows
             /\ c.windows[v].root = body.windows[v].root
             /\ c.windows[v].order = body.windows[v].order
             /\ c.windows[v].selected = body.windows[v].selected
             /\ c.windows[v].source = body.windows[v].source
             /\ c.windows[v].takes = IF v = w THEN body.windows[v].takes \cup {a}
                                              ELSE body.windows[v].takes
    <2>1. CASE v = w
        BY <1>5, <1>6, <1>7, <2>1
    <2>2. CASE v # w
        BY <1>6, <1>7, <2>2
    <2> QED
        BY <2>1, <2>2
<1>9. DOMAIN c.windows = DOMAIN body.windows
    BY <1>6, <1>7
<1>10. WindowsGrow(body, c) /\ SpansGrow(body, c)
    <2>1. WindowsGrow(body, c)
        BY <1>8 DEF WindowsGrow
    <2> QED
        BY <1>7, <2>1, SameSpansGrow
<1>11. EditorialInv(c) /\ KeysInv(c) /\ SpansInv(c)
    <2>1. EditorialInv(c)
        BY <1>1, <1>7, <1>10, EditorialKept DEF FormInv
    <2> QED
        BY <1>1, <1>7, <2>1 DEF FormInv, KeysInv, SpansInv
<1>12. ChainsInv(c)
    <2>1. ASSUME NEW v \in DOMAIN c.windows
          PROVE  /\ c.windows[v].selected \in c.windows[v].takes \cup {None}
                 /\ Precedes(c, c.windows[v].source, v)
        <3>1. v \in DOMAIN body.windows
            BY <1>9
        <3>2. Precedes(body, body.windows[v].source, v)
              /\ body.windows[v].selected \in body.windows[v].takes \cup {None}
            BY <1>1, <3>1 DEF FormInv, ChainsInv
        <3>3. Precedes(c, body.windows[v].source, v)
            BY <1>10, <3>1, <3>2, PrecedesKept
        <3> QED
            BY <1>8, <3>1, <3>2, <3>3
    <2>2. ChainsInv(body)
        BY <1>1 DEF FormInv
    <2> QED
        BY <1>9, <1>10, <2>1, <2>2, ChainsKept
<1>13. ASSUME NEW s \in DOMAIN body.spans, NEW i \in DOMAIN body.spans[s].steps
       PROVE  StepInputs(c, s, i) = StepInputs(body, s, i)
    <2>1. i \in Nat
        BY <1>1, StepParts
    <2> QED
        BY <1>7, <2>1, SameInputs
<1>14. RendersAlike(c)
    BY <1>7, <1>8, <1>9, <1>13 DEF RendersAlike
<1>15. Joins(c, a)
    BY <1>7, <1>8, <1>9 DEF Joins
<1> QED
    BY <1>3, <1>7, <1>10, <1>11, <1>12, <1>14, <1>15 DEF Joined

(* Every landing joins its clip to a target that is there. *)
LEMMA LandingJoins ==
    ASSUME DocInv, NEW a \in Attempts, landCandidate(a)
    PROVE  a \in DOMAIN rows /\ Joined(Attached(body, a), a)
<1> DEFINE f == rows[a].frozen
<1>1. a \in DOMAIN rows /\ TargetThere(body, f.target)
    BY DEF landCandidate
<1>2. f \in Submitted
    BY <1>1 DEF Submitted
<1>3. ForStep(body, f) \/ ForWindow(body, f) \/ ForKey(f)
    BY <1>2 DEF DocInv, FormInv, FrozenInv
<1>4. CASE ForStep(body, f)
    <2>1. PICK s \in Spans, i \in Nat :
              /\ f.tool = "tween" /\ f.target = Step(s, i)
              /\ s \in DOMAIN body.spans => i \in DOMAIN body.spans[s].steps
        BY <1>4 DEF ForStep
    <2>2. s \in DOMAIN body.spans
        BY <1>1, <2>1 DEF TargetThere, Step
    <2> QED
        BY <1>1, <2>1, <2>2, StepJoins
<1>5. CASE ForWindow(body, f)
    BY <1>1, <1>5, WindowJoins DEF ForWindow
<1>6. CASE ForKey(f)
    BY <1>1, <1>6, HeroJoins, SequenceJoins DEF ForKey
<1> QED
    BY <1>1, <1>3, <1>4, <1>5, <1>6

-----------------------------------------------------------------------------
(* The document as the tabs find it. *)
LEMMA NothingMapped ==
    ASSUME NEW S, NEW T
    PROVE  <<>> \in Maps(S, T) /\ DOMAIN <<>> = {}
<1>1. <<>> \in [{} -> T] /\ {} \in SUBSET S
    OBVIOUS
<1> QED
    BY <1>1, MapMade

LEMMA FirstOnes ==
    /\ FirstKey \in Keys /\ SecondKey \in Keys /\ FirstKey # SecondKey
    /\ FirstSpan \in Spans /\ FirstText \in Texts /\ FirstDrawing \in Drawings
<1>1. \E k \in Keys : TRUE
    BY StartAssumption
<1>2. FirstKey \in Keys
    BY <1>1 DEF FirstKey
<1>3. Keys \ {FirstKey} # {}
    BY StartAssumption
<1>4. SecondKey \in Keys \ {FirstKey}
    BY <1>3 DEF SecondKey
<1>5. FirstSpan \in Spans /\ FirstText \in Texts /\ FirstDrawing \in Drawings
    BY StartAssumption DEF FirstSpan, FirstText, FirstDrawing
<1> QED
    BY <1>2, <1>4, <1>5

LEMMA InitInv ==
    ASSUME Init
    PROVE  DocInv
<1> DEFINE step == [takes |-> {FirstTake}, ref |-> None]
           span == [from |-> FirstKey, to |-> SecondKey, intent |-> FirstText,
                    steps |-> << step >>, marks |-> {}]
           key == [held |-> {FirstDrawing}, selected |-> FirstDrawing, lock |-> FALSE]
           f == rows[FirstTake].frozen
<1>1. /\ revision = 0 /\ body = FirstBody /\ requests = {} /\ accepted = {}
      /\ gateFailed = FALSE /\ left \in [Lanes -> Nat]
    BY StartAssumption DEF Init
<1>2. /\ DOMAIN rows = {FirstTake}
      /\ DOMAIN rows[FirstTake] = {"frozen", "landed", "earlier"}
      /\ rows[FirstTake].landed = TRUE /\ rows[FirstTake].earlier = FALSE
      /\ f.tool = "tween" /\ f.target = Step(FirstSpan, 1) /\ f.source = None
      /\ f.inputs = StepInputs(FirstBody, FirstSpan, 1) /\ f.revision = 0
    BY DEF Init
<1> HIDE DEF f
<1>3. step \in StepSlots /\ step.takes = {FirstTake} /\ step.ref = None
    BY StartAssumption DEF StepSlots
<1> HIDE DEF step
<1>4. <<step>> \in Seq(StepSlots) /\ DOMAIN <<step>> = {1} /\ <<step>>[1] = step
    BY <1>3
<1>5. /\ span \in SpanSlots /\ span.from = FirstKey /\ span.to = SecondKey
      /\ span.steps = <<step>>
    BY <1>4, FirstOnes DEF SpanSlots
<1> HIDE DEF span
<1>6. key \in KeySlots /\ key.selected \in key.held
    BY FirstOnes DEF KeySlots, Flags
<1> HIDE DEF key
<1>7. /\ body.keys = [k \in {FirstKey, SecondKey} |-> key]
      /\ body.spans = [s \in {FirstSpan} |-> span]
      /\ body.windows = <<>> /\ body.editorial = <<>>
      /\ body.binding = 1 /\ body.settings = FirstText
      /\ body = [keys |-> body.keys, spans |-> body.spans, windows |-> body.windows,
                 editorial |-> body.editorial, binding |-> body.binding,
                 settings |-> body.settings]
    BY <1>1 DEF FirstBody, key, span, step
<1>8. body.keys \in Maps(Keys, KeySlots)
    <2>1. {FirstKey, SecondKey} \in SUBSET Keys /\ body.keys \in [{FirstKey, SecondKey} -> KeySlots]
        BY <1>6, <1>7, FirstOnes
    <2> QED
        BY <2>1, MapMade
<1>9. body.spans \in Maps(Spans, SpanSlots)
    <2>1. {FirstSpan} \in SUBSET Spans /\ body.spans \in [{FirstSpan} -> SpanSlots]
        BY <1>5, <1>7, FirstOnes
    <2> QED
        BY <2>1, MapMade
<1>10. body.windows \in Maps(Windows, WindowSlots) /\ DOMAIN body.windows = {}
    BY <1>7, NothingMapped
<1>11. body \in Bodies
    <2>1. body.editorial \in Seq(Contributions) /\ body.binding \in Nat /\ body.settings \in Texts
        BY <1>7, FirstOnes
    <2> QED
        BY <1>7, <1>8, <1>9, <1>10, <2>1 DEF Bodies
<1>12. /\ DOMAIN body.keys = {FirstKey, SecondKey} /\ \A k \in DOMAIN body.keys : body.keys[k] = key
       /\ DOMAIN body.spans = {FirstSpan} /\ body.spans[FirstSpan] = span
       /\ DOMAIN body.editorial = {}
    BY <1>7, NothingMapped
<1>13. KeysInv(body)
    BY <1>6, <1>12 DEF KeysInv
<1>14. SpansInv(body)
    <2>1. IsFiniteSet({FirstSpan})
        BY FS_Singleton
    <2> QED
        BY <1>3, <1>4, <1>5, <1>12, <2>1 DEF SpansInv
<1>15. ChainsInv(body)
    <2>1. 0 \in Nat
        OBVIOUS
    <2> QED
        BY <1>10, <2>1 DEF ChainsInv
<1>16. TakesInv(body)
    BY <1>2, <1>3, <1>4, <1>5, <1>10, <1>12 DEF TakesInv, IsTakeOf, f
<1>17. Submitted = {f}
    BY <1>1, <1>2 DEF Submitted, f
<1>18. FrozenInv(body)
    <2>1. FirstSpan \in Spans /\ 1 \in Nat /\ 1 \in DOMAIN body.spans[FirstSpan].steps
        BY <1>4, <1>5, <1>12, FirstOnes
    <2>2. ForStep(body, f)
        BY <1>2, <2>1 DEF ForStep
    <2>3. f.revision \in Nat /\ f.revision <= revision
        BY <1>1, <1>2
    <2> QED
        BY <1>17, <2>2, <2>3 DEF FrozenInv
<1>19. EditorialInv(body)
    BY <1>12 DEF EditorialInv
<1>20. \A s \in DOMAIN body.spans : \A i \in DOMAIN body.spans[s].steps :
           f.inputs = StepInputs(body, s, i)
    BY <1>1, <1>2, <1>4, <1>5, <1>12
<1>21. CurrentInv(body)
    BY <1>17, <1>20 DEF CurrentInv
<1>22. ShownInv(body)
    BY <1>3, <1>4, <1>5, <1>12, <1>20 DEF ShownInv, f
<1>23. RowsInv
    <2>1. revision \in Nat /\ DOMAIN rows \subseteq Attempts
        BY <1>1, <1>2, StartAssumption
    <2>2. \A a \in DOMAIN rows : /\ DOMAIN rows[a] = {"frozen", "landed", "earlier"}
                                 /\ rows[a].landed \in Flags /\ rows[a].earlier \in Flags
        BY <1>2 DEF Flags
    <2> QED
        BY <1>1, <2>1, <2>2 DEF RowsInv
<1> QED
    BY <1>1, <1>11, <1>13, <1>14, <1>15, <1>16, <1>18, <1>19, <1>21, <1>22, <1>23
       DEF DocInv, FormInv

(* Every step. *)
Commands == \/ KeyCommands \/ SpanCommands \/ DocumentCommands \/ EditorialCommands
            \/ ChainCommands \/ WindowLocks

LEMMA CommandsCommanded ==
    ASSUME DocInv, Commands
    PROVE  Commanded
BY KeyCommanded, SpanCommanded, DocumentCommanded, EditorialCommanded, ChainCommanded,
   WindowLocksCommanded DEF Commands

LEMMA NextInv ==
    ASSUME DocInv, [Next]_vars
    PROVE  DocInv'
<1>1. CASE Commands
    BY <1>1, CommandsCommanded, CommandedInv
<1>2. CASE Submissions
    BY <1>2, SubmissionsInv
<1>3. ASSUME NEW r \in requests, Record(r) \/ Drop(r) PROVE DocInv'
    BY <1>3, RecordInv, DropInv
<1>4. ASSUME NEW a \in Attempts, landCandidate(a) PROVE DocInv'
    BY <1>4, LandingJoins, LandingInv
<1>5. CASE UNCHANGED vars
    <2>1. UNCHANGED <<revision, body, rows, requests, accepted, gateFailed, left>>
        BY <1>5 DEF vars
    <2>2. RowsInv'
        BY <2>1 DEF DocInv, RowsInv
    <2>3. left' \in [Lanes -> Nat]
        BY <2>1 DEF DocInv
    <2>4. \A f \in Submitted' : f \in Submitted
        BY <2>1 DEF Submitted
    <2> QED
        BY <2>1, <2>2, <2>3, <2>4, RowsAdded
<1> QED
    BY <1>1, <1>2, <1>3, <1>4, <1>5 DEF Next, Commands

(* Every command, submission, insert and landing leaves the document, its     *)
(* rows and the waiting submissions as the invariant describes them: nothing  *)
(* a tab may send at the revision it has seen breaks a reference of the body. *)
THEOREM DocumentStays == Spec => []DocInv
<1>1. Init => DocInv
    BY InitInv
<1>2. DocInv /\ [Next]_vars => DocInv'
    BY NextInv
<1> QED
    BY <1>1, <1>2, PTL DEF Spec

(* What was frozen. *)
LEMMA FrozenForms ==
    ASSUME DocInv, NEW a \in DOMAIN rows
    PROVE  /\ rows[a].frozen.tool \in {"hero", "tween", "sequence"}
           /\ rows[a].frozen.revision <= revision
<1>1. rows[a].frozen \in Submitted
    BY DEF Submitted
<1> QED
    BY <1>1 DEF DocInv, FormInv, FrozenInv, ForStep, ForWindow, ForKey

-----------------------------------------------------------------------------
(* What the invariant says *)

(* The gate's flag is one. *)
Gated == gateFailed \in BOOLEAN

LEMMA GatedNext ==
    ASSUME DocInv, Gated, [Next]_vars
    PROVE  Gated'
<1>1. CASE Commands
    <2>1. PICK lane \in Lanes, b \in Bodies : Author(lane, b)
        BY <1>1, CommandsCommanded DEF Commanded
    <2>2. gateFailed' = (gateFailed \/ ~WellFormed(b))
        BY <2>1 DEF Author
    <2> QED
        BY <2>2 DEF Gated
<1>2. CASE Submissions
    <2>1. gateFailed' = gateFailed
        BY <1>2 DEF Submissions, SubmitStep, SubmitHero, SubmitSequence, Extend, Submit
    <2> QED
        BY <2>1 DEF Gated
<1>3. ASSUME NEW r \in requests, Record(r) \/ Drop(r) PROVE Gated'
    BY <1>3 DEF Record, Drop, Gated
<1>4. ASSUME NEW a \in Attempts, landCandidate(a) PROVE Gated'
    <2>1. gateFailed' = (gateFailed \/ ~WellFormed(Attached(body, a)))
        BY <1>4 DEF landCandidate
    <2> QED
        BY <2>1 DEF Gated
<1>5. CASE UNCHANGED vars
    BY <1>5 DEF vars, Gated
<1> QED
    BY <1>1, <1>2, <1>3, <1>4, <1>5 DEF Next, Commands

LEMMA DocTypes ==
    ASSUME DocInv, Gated
    PROVE  TypeOK
<1>1. RowsInv /\ FormInv(body) /\ body \in Bodies /\ left \in [Lanes -> Nat]
    BY DEF DocInv, FormInv
<1>2. /\ DOMAIN body.keys \subseteq Keys /\ DOMAIN body.spans \subseteq Spans
      /\ DOMAIN body.windows \subseteq Windows
    BY <1>1, BodyParts, MapFacts
<1>3. \A s \in DOMAIN body.spans : body.spans[s].marks \subseteq Reasons
    BY <1>1, SpanParts
<1>4. \A w \in DOMAIN body.windows : body.windows[w].marks \subseteq WindowReasons
    BY <1>1, WindowParts
<1>5. \A a \in DOMAIN rows :
        /\ rows[a].frozen.tool \in {"hero", "tween", "sequence"}
        /\ rows[a].frozen.revision <= revision
    BY FrozenForms
<1>6. \A a \in DOMAIN rows : rows[a].landed \in BOOLEAN /\ rows[a].earlier \in BOOLEAN
    BY <1>1 DEF RowsInv, Flags
<1>7. revision \in Nat /\ DOMAIN rows \subseteq Attempts
    BY <1>1 DEF RowsInv
<1>8. {r.attempt : r \in requests \cup accepted} \subseteq Attempts
    BY <1>1 DEF RowsInv
<1> QED
    BY <1>1, <1>2, <1>3, <1>4, <1>5, <1>6, <1>7, <1>8 DEF TypeOK, Gated

(* The columns and answers hold what they can hold; no row was frozen ahead   *)
(* of the document's revision.                                                *)
THEOREM DocumentTypes == Spec => []TypeOK
<1>1. Init => Gated
    BY DEF Init, Gated
<1>2. DocInv /\ Gated /\ [Next]_vars => Gated'
    BY GatedNext
<1>3. DocInv /\ Gated => TypeOK
    BY DocTypes
<1> QED
    BY <1>1, <1>2, <1>3, DocumentStays, PTL DEF Spec

(* The validation before a write (parseAnimationDocumentBody) never refuses:  *)
(* no sequence of commands and landings, over any number of keys, spans and   *)
(* windows, leads to a body that does not parse.                              *)
THEOREM GateStaysQuiet == Spec => []GateNeverRefuses
<1>1. DocInv => GateNeverRefuses
    BY DEF DocInv, GateNeverRefuses
<1> QED
    BY <1>1, DocumentStays, PTL

LEMMA LineageFollows ==
    ASSUME DocInv
    PROVE  LineageStaysInChain
<1>1. FormInv(body)
    BY DEF DocInv
<1> SUFFICES ASSUME NEW w \in DOMAIN body.windows, NEW a \in body.windows[w].takes
             PROVE  Precedes(body, bindingSourceOf(a), w)
    BY <1>1 DEF LineageStaysInChain, FormInv, ChainsInv
<1>2. a \in DOMAIN rows /\ rows[a].frozen.target = Window(w) /\ rows[a].frozen.tool = "tween"
    BY <1>1 DEF FormInv, TakesInv, IsTakeOf
<1>3. rows[a].frozen \in Submitted
    BY <1>2 DEF Submitted
<1>4. ForWindow(body, rows[a].frozen)
    <2>1. ~ForStep(body, rows[a].frozen)
        <3>1. \A s, i : Window(w) # Step(s, i)
            BY DEF Window, Step
        <3> QED
            BY <1>2, <3>1 DEF ForStep
    <2>2. ~ForKey(rows[a].frozen)
        BY <1>2 DEF ForKey
    <2> QED
        BY <1>1, <1>3, <2>1, <2>2 DEF FormInv, FrozenInv
<1>5. PICK v \in DOMAIN body.windows :
          /\ rows[a].frozen.target = Window(v)
          /\ Precedes(body, rows[a].frozen.source, v)
    BY <1>4 DEF ForWindow
<1>6. v = w
    <2>1. Window(v).window = v /\ Window(w).window = w
        BY DEF Window
    <2> QED
        BY <1>2, <1>5, <2>1
<1> QED
    BY <1>2, <1>5, <1>6 DEF bindingSourceOf

(* What a window and each of its takes continue is the root of the chain or a *)
(* take of an earlier window of it, however windows were selected, branched   *)
(* and rebound while takes were rendered (rebindContinuation, Extend).        *)
THEOREM LineageStays == Spec => []LineageStaysInChain
<1>1. DocInv => LineageStaysInChain
    BY LineageFollows
<1> QED
    BY <1>1, DocumentStays, PTL

(* The editorial list names a take at most once per lane, and only takes that *)
(* the lane holds, also after spans were removed and the list was reordered   *)
(* (selectClipContribution, removeSpan, reorderEditorial).                    *)
THEOREM EditorialStaysBacked == Spec => []EditorialIsBacked
<1>1. DocInv => EditorialIsBacked
    BY DEF DocInv, FormInv, EditorialInv, EditorialIsBacked, ToSet
<1> QED
    BY <1>1, DocumentStays, PTL

(* A take whose frozen inputs are no longer those its step would render from  *)
(* is in a marked span or was flagged as it landed: for every interleaving of *)
(* changes of keys, settings, intents and references with renderings          *)
(* (staleness marks of the commands, the earlier flag of landCandidate).      *)
THEOREM OutdatedStaysShown == Spec => []OutdatedIsShown
<1>1. DocInv => OutdatedIsShown
    BY DEF DocInv, ShownInv, OutdatedIsShown
<1> QED
    BY <1>1, DocumentStays, PTL

-----------------------------------------------------------------------------
(* Lineage *)

LEMMA SourceLanded ==
    ASSUME DocInv, NEW a
    PROVE  bindingSourceOf(a) = None \/ Landed(bindingSourceOf(a))
<1>1. CASE a \in DOMAIN rows
    <2>1. rows[a].frozen \in Submitted /\ bindingSourceOf(a) = rows[a].frozen.source
        BY <1>1 DEF Submitted, bindingSourceOf
    <2> QED
        BY <2>1 DEF DocInv, FormInv, FrozenInv, ForStep, ForWindow, ForKey, Landed
<1>2. CASE a \notin DOMAIN rows
    BY <1>2 DEF bindingSourceOf
<1> QED
    BY <1>1, <1>2

LEMMA AncestorsLanded ==
    ASSUME DocInv, NEW a, NEW x \in Ancestry(a)
    PROVE  Landed(x)
<1> DEFINE G == {None} \cup {y \in DOMAIN rows : Landed(y)}
<1>1. \A y : bindingSourceOf(y) \in G
    BY SourceLanded DEF Landed
<1>2. \A y : SourceIn(rows, y) \in G
    BY <1>1 DEF bindingSourceOf, SourceIn
<1> HIDE DEF G
<1>3. Ancestry(a) \subseteq G
    BY <1>2, AncestorsIn, AncestryHere
<1>4. x # None
    BY AncestryHere, AncestryWalks DEF Walks
<1> QED
    BY <1>3, <1>4 DEF G

LEMMA LandingMarks ==
    ASSUME DocInv, NEW a \in Attempts, landCandidate(a)
    PROVE  LineageMarked(body, body')
<1> DEFINE b == Attached(body, a)
<1>1. body' = b /\ Joined(b, a) /\ ~rows[a].landed
    BY LandingJoins, LandingWrites DEF landCandidate
<1> HIDE DEF b
<1> SUFFICES ASSUME NEW w \in DOMAIN body.windows,
                    b.windows[w].selected = body.windows[w].selected,
                    LineageHolds(body, w)
             PROVE  LineageHolds(b, w)
    BY <1>1 DEF LineageMarked
<1>2. ASSUME NEW x \in Ancestry(b.windows[w].selected), NEW v \in DOMAIN b.windows,
             x \in b.windows[v].takes
      PROVE  b.windows[v].selected = x
    <2>1. x # a
        BY <1>1, AncestorsLanded DEF Landed
    <2>2. v \in DOMAIN body.windows /\ x \in body.windows[v].takes
        BY <1>1, <1>2, <2>1 DEF Joined, Joins
    <2>3. body.windows[v].selected = x
        BY <2>2 DEF LineageHolds
    <2> QED
        BY <1>1, <1>2, <2>3 DEF Joined, RendersAlike
<1> QED
    BY <1>2 DEF LineageHolds

LEMMA BrokenMarked ==
    ASSUME DocInv, [Next]_vars
    PROVE  LineageMarked(body, body')
<1>1. CASE Commands
    <2>1. PICK lane \in Lanes, b \in Bodies :
              Author(lane, b) /\ FormInv(b) /\ LineageMarked(body, b)
        BY <1>1, CommandsCommanded DEF Commanded
    <2>2. body' = b
        BY <2>1, CommandWrites
    <2> QED
        BY <2>1, <2>2
<1>2. CASE body' = body
    BY <1>2 DEF LineageMarked
<1>3. CASE Submissions
    <2>1. body' = body
        BY <1>3 DEF Submissions, SubmitStep, SubmitHero, SubmitSequence, Extend, Submit
    <2> QED
        BY <1>2, <2>1
<1>4. ASSUME NEW r \in requests, Record(r) \/ Drop(r) PROVE body' = body
    BY <1>4 DEF Record, Drop
<1>5. ASSUME NEW a \in Attempts, landCandidate(a) PROVE LineageMarked(body, body')
    BY <1>5, LandingMarks
<1>6. CASE UNCHANGED vars
    BY <1>2, <1>6 DEF vars
<1> QED
    BY <1>1, <1>2, <1>3, <1>4, <1>5, <1>6 DEF Next, Commands

(* The step that breaks the lineage of a window's take marks the window, in   *)
(* whatever chain it is (markAncestryDescendants); a landing breaks none.     *)
THEOREM BrokenStaysMarked == Spec => BrokenLineageIsMarked
<1>1. DocInv /\ [Next]_vars
          => [\A w \in DOMAIN body.windows :
                /\ body.windows[w].selected # None
                /\ body'.windows[w].selected = body.windows[w].selected
                /\ LineageHolds(body, w) /\ ~LineageHolds(body', w)
                => "ancestry" \in body'.windows[w].marks]_vars
    BY BrokenMarked DEF LineageMarked
<1> QED
    BY <1>1, DocumentStays, PTL DEF Spec, BrokenLineageIsMarked

-----------------------------------------------------------------------------
(* Revisions *)

(* What a landing writes is not what commands write. *)
LEMMA HeroAuthored ==
    ASSUME DocInv, NEW a \in DOMAIN rows, NEW k \in Keys, rows[a].frozen.tool = "hero",
           rows[a].frozen.target = Key(k)
    PROVE  Authored(Attached(body, a)) = Authored(body)
<1>1. body \in Bodies /\ a \in Attempts /\ a \notin Drawings
    BY IdsAssumption DEF DocInv, FormInv, RowsInv
<1>2. rows[a].frozen.target.key = k /\ rows[a].frozen.target.kind = "key"
    BY DEF Key
<1> DEFINE c == Attached(body, a)
           J(b) == {j \in DOMAIN b.keys : b.keys[j].held \cap Drawings # {}}
           D(b, j) == [b.keys[j] EXCEPT !.held = @ \cap Drawings]
<1>3. /\ c.spans = body.spans /\ c.windows = body.windows /\ c.editorial = body.editorial
      /\ c.binding = body.binding /\ c.settings = body.settings
      /\ DOMAIN c.keys = DOMAIN body.keys \cup {k}
      /\ \A j \in DOMAIN body.keys : j # k => c.keys[j] = body.keys[j]
      /\ k \in DOMAIN body.keys => c.keys[k] = [body.keys[k] EXCEPT !.held = @ \cup {a}]
      /\ k \notin DOMAIN body.keys => c.keys[k].held = {a}
    <2>1. CASE k \in DOMAIN body.keys
        <3> DEFINE slot == [body.keys[k] EXCEPT !.held = @ \cup {a}]
                   K == [body.keys EXCEPT ![k] = slot]
        <3>1. c = [body EXCEPT !.keys = K]
            BY <1>2, <2>1 DEF Attached
        <3> HIDE DEF slot
        <3>2. DOMAIN K = DOMAIN body.keys /\ K[k] = slot
              /\ \A j \in DOMAIN body.keys : j # k => K[j] = body.keys[j]
            BY <2>1
        <3> HIDE DEF K, c
        <3>3. /\ c.spans = body.spans /\ c.windows = body.windows /\ c.editorial = body.editorial
              /\ c.binding = body.binding /\ c.settings = body.settings /\ c.keys = K
            BY <1>1, <3>1 DEF Bodies
        <3> QED
            BY <2>1, <3>2, <3>3 DEF slot
    <2>2. CASE k \notin DOMAIN body.keys
        <3> DEFINE slot == [held |-> {a}, selected |-> None, lock |-> FALSE]
                   K == Put(body.keys, k, slot)
        <3>1. c = [body EXCEPT !.keys = K]
            BY <1>2, <2>2 DEF Attached
        <3>2. slot.held = {a}
            OBVIOUS
        <3> HIDE DEF slot
        <3>3. DOMAIN K = DOMAIN body.keys \cup {k} /\ K[k] = slot
              /\ \A j \in DOMAIN body.keys : j # k => K[j] = body.keys[j]
            BY <2>2 DEF Put
        <3> HIDE DEF K, c
        <3>4. /\ c.spans = body.spans /\ c.windows = body.windows /\ c.editorial = body.editorial
              /\ c.binding = body.binding /\ c.settings = body.settings /\ c.keys = K
            BY <1>1, <3>1 DEF Bodies
        <3> QED
            BY <2>2, <3>3, <3>4, <3>2
    <2> QED
        BY <2>1, <2>2
<1> HIDE DEF c
<1>4. ASSUME NEW j \in DOMAIN body.keys
      PROVE  /\ c.keys[j].held \cap Drawings = body.keys[j].held \cap Drawings
             /\ D(c, j) = D(body, j)
    <2>1. CASE j = k
        <3> DEFINE slot == body.keys[k]
        <3>1. slot \in KeySlots
            BY <1>1, <2>1, KeyParts
        <3>2. c.keys[k] = [slot EXCEPT !.held = @ \cup {a}]
            BY <1>3, <2>1
        <3> HIDE DEF slot
        <3>3. [slot EXCEPT !.held = @ \cup {a}].held \cap Drawings = slot.held \cap Drawings
            BY <1>1, <3>1 DEF KeySlots
        <3>4. [[slot EXCEPT !.held = @ \cup {a}] EXCEPT !.held = @ \cap Drawings]
                  = [slot EXCEPT !.held = @ \cap Drawings]
            BY <1>1, <3>1, <3>3 DEF KeySlots
        <3> QED
            BY <2>1, <3>2, <3>3, <3>4 DEF slot
    <2>2. CASE j # k
        BY <1>3, <2>2
    <2> QED
        BY <2>1, <2>2
<1>5. k \notin DOMAIN body.keys => c.keys[k].held \cap Drawings = {}
    BY <1>1, <1>3
<1>6. J(c) = J(body) /\ J(body) \subseteq DOMAIN body.keys
    BY <1>3, <1>4, <1>5
<1>7. [j \in J(c) |-> D(c, j)] = [j \in J(body) |-> D(body, j)]
    <2> HIDE DEF D, J
    <2> QED
        BY <1>4, <1>6
<1>8. /\ Authored(c).keys = [j \in J(c) |-> D(c, j)]
      /\ Authored(body).keys = [j \in J(body) |-> D(body, j)]
    BY DEF Authored
<1> HIDE DEF D, J
<1>9. Authored(c) = Authored(body)
    BY <1>3, <1>7, <1>8 DEF Authored
<1> QED
    BY <1>9 DEF c

LEMMA StepAuthored ==
    ASSUME DocInv, NEW a \in DOMAIN rows, rows[a].frozen.tool = "tween",
           NEW s \in DOMAIN body.spans, NEW i \in DOMAIN body.spans[s].steps,
           rows[a].frozen.target = Step(s, i)
    PROVE  Authored(Attached(body, a)) = Authored(body)
<1>1. body \in Bodies
    BY DEF DocInv, FormInv
<1>2. /\ rows[a].frozen.target.kind = "step"
      /\ rows[a].frozen.target.span = s /\ rows[a].frozen.target.step = i
    BY DEF Step
<1> DEFINE steps == body.spans[s].steps
           e == [steps[i] EXCEPT !.takes = @ \cup {a}]
           t == [steps EXCEPT ![i] = e]
           slot == [body.spans[s] EXCEPT !.steps = t]
           M == [body.spans EXCEPT ![s] = slot]
           c == Attached(body, a)
           Refs(x) == [x EXCEPT !.steps = [j \in DOMAIN @ |-> @[j].ref]]
<1>3. c = [body EXCEPT !.spans = M]
    BY <1>2 DEF Attached
<1>4. /\ body.spans[s] \in SpanSlots /\ steps \in Seq(StepSlots) /\ steps[i] \in StepSlots
    BY <1>1, SpanParts, StepParts
<1>5. e.ref = steps[i].ref
    BY <1>4 DEF StepSlots
<1> HIDE DEF e, steps
<1>6. DOMAIN t = DOMAIN steps /\ t[i] = e /\ \A j \in DOMAIN steps : j # i => t[j] = steps[j]
    BY <1>4 DEF steps
<1> HIDE DEF t
<1>7. [j \in DOMAIN t |-> t[j].ref] = [j \in DOMAIN steps |-> steps[j].ref]
    BY <1>5, <1>6
<1>8. Refs(slot) = Refs(body.spans[s])
    <2> DEFINE x == body.spans[s]
    <2>1. x \in SpanSlots /\ x.steps = steps
        BY <1>4 DEF steps
    <2>2. slot = [x EXCEPT !.steps = t]
        OBVIOUS
    <2> HIDE DEF x, slot
    <2>3. slot.steps = t /\ DOMAIN slot = DOMAIN x
          /\ slot.from = x.from /\ slot.to = x.to /\ slot.intent = x.intent /\ slot.marks = x.marks
        BY <2>1, <2>2 DEF SpanSlots
    <2>4. [slot EXCEPT !.steps = [j \in DOMAIN t |-> t[j].ref]]
              = [x EXCEPT !.steps = [j \in DOMAIN t |-> t[j].ref]]
        BY <2>1, <2>2 DEF SpanSlots
    <2>5. Refs(slot) = [slot EXCEPT !.steps = [j \in DOMAIN t |-> t[j].ref]]
        BY <2>3
    <2>6. Refs(x) = [x EXCEPT !.steps = [j \in DOMAIN steps |-> steps[j].ref]]
        BY <2>1
    <2>7. Refs(slot) = Refs(x)
        BY ONLY <1>7, <2>4, <2>5, <2>6
    <2> QED
        BY <2>7 DEF x
<1>9. DOMAIN M = DOMAIN body.spans /\ M[s] = slot
      /\ \A x \in DOMAIN body.spans : x # s => M[x] = body.spans[x]
    BY DEF M
<1> HIDE DEF M, c, slot
<1>10. /\ c.keys = body.keys /\ c.spans = M /\ c.windows = body.windows
       /\ c.editorial = body.editorial /\ c.binding = body.binding
       /\ c.settings = body.settings
    BY <1>1, <1>3 DEF Bodies
<1> HIDE DEF Refs
<1>11. \A x \in DOMAIN body.spans : Refs(M[x]) = Refs(body.spans[x])
    BY <1>8, <1>9
<1>12. [x \in DOMAIN c.spans |-> Refs(c.spans[x])] = [x \in DOMAIN body.spans |-> Refs(body.spans[x])]
    BY <1>9, <1>10, <1>11
<1> DEFINE K == Authored(body).keys
           W == Authored(body).windows
<1>13. /\ Authored(c) =
              [keys |-> K, spans |-> [x \in DOMAIN c.spans |-> Refs(c.spans[x])], windows |-> W,
               editorial |-> c.editorial, binding |-> c.binding, settings |-> c.settings]
       /\ Authored(body) =
              [keys |-> K, spans |-> [x \in DOMAIN body.spans |-> Refs(body.spans[x])],
               windows |-> W, editorial |-> body.editorial, binding |-> body.binding,
               settings |-> body.settings]
    BY <1>10 DEF Authored, Refs
<1> HIDE DEF K, W
<1>14. Authored(c) = Authored(body)
    BY <1>10, <1>12, <1>13
<1> QED
    BY <1>14 DEF c

LEMMA WindowAuthored ==
    ASSUME DocInv, NEW a \in DOMAIN rows, rows[a].frozen.tool = "tween",
           NEW w \in DOMAIN body.windows, rows[a].frozen.target = Window(w)
    PROVE  Authored(Attached(body, a)) = Authored(body)
<1>1. body \in Bodies
    BY DEF DocInv, FormInv
<1>2. rows[a].frozen.target.kind = "window" /\ rows[a].frozen.target.window = w
    BY DEF Window
<1> DEFINE x == body.windows[w]
           slot == [x EXCEPT !.takes = @ \cup {a}]
           M == [body.windows EXCEPT ![w] = slot]
           c == Attached(body, a)
           Bare(y) == [y EXCEPT !.takes = {}]
<1>3. c = [body EXCEPT !.windows = M]
    BY <1>2 DEF Attached
<1>4. x \in WindowSlots
    BY <1>1, WindowParts
<1> HIDE DEF x
<1>5. Bare(slot) = Bare(x)
    BY <1>4 DEF WindowSlots
<1>6. DOMAIN M = DOMAIN body.windows /\ M[w] = slot
      /\ \A v \in DOMAIN body.windows : v # w => M[v] = body.windows[v]
    BY DEF M
<1> HIDE DEF M, c, slot, Bare
<1>7. /\ c.keys = body.keys /\ c.spans = body.spans /\ c.windows = M
      /\ c.editorial = body.editorial /\ c.binding = body.binding
      /\ c.settings = body.settings
    BY <1>1, <1>3 DEF Bodies
<1>8. \A v \in DOMAIN body.windows : Bare(M[v]) = Bare(body.windows[v])
    BY <1>5, <1>6 DEF x
<1>9. [v \in DOMAIN c.windows |-> Bare(c.windows[v])]
          = [v \in DOMAIN body.windows |-> Bare(body.windows[v])]
    BY <1>6, <1>7, <1>8
<1> DEFINE K == Authored(body).keys
           S == Authored(body).spans
<1>10. /\ Authored(c) =
              [keys |-> K, spans |-> S,
               windows |-> [v \in DOMAIN c.windows |-> Bare(c.windows[v])],
               editorial |-> c.editorial, binding |-> c.binding, settings |-> c.settings]
       /\ Authored(body) =
              [keys |-> K, spans |-> S,
               windows |-> [v \in DOMAIN body.windows |-> Bare(body.windows[v])],
               editorial |-> body.editorial, binding |-> body.binding,
               settings |-> body.settings]
    BY <1>7 DEF Authored, Bare
<1> HIDE DEF K, S
<1>11. Authored(c) = Authored(body)
    BY <1>7, <1>9, <1>10
<1> QED
    BY <1>11 DEF c

LEMMA LandingAuthored ==
    ASSUME DocInv, NEW a \in Attempts, landCandidate(a)
    PROVE  Authored(body') = Authored(body)
<1> DEFINE f == rows[a].frozen
<1>1. a \in DOMAIN rows /\ TargetThere(body, f.target)
    BY DEF landCandidate
<1>2. body' = Attached(body, a)
    BY LandingJoins, LandingWrites
<1>3. f \in Submitted
    BY <1>1 DEF Submitted
<1>4. ForStep(body, f) \/ ForWindow(body, f) \/ ForKey(f)
    BY <1>3 DEF DocInv, FormInv, FrozenInv
<1>5. Authored(Attached(body, a)) = Authored(body)
    <2>1. CASE ForStep(body, f)
        <3>1. PICK s \in Spans, i \in Nat :
                  /\ f.tool = "tween" /\ f.target = Step(s, i)
                  /\ s \in DOMAIN body.spans => i \in DOMAIN body.spans[s].steps
            BY <2>1 DEF ForStep
        <3>2. s \in DOMAIN body.spans
            BY <1>1, <3>1 DEF TargetThere, Step
        <3> QED
            BY <1>1, <3>1, <3>2, StepAuthored
    <2>2. CASE ForWindow(body, f)
        BY <1>1, <2>2, WindowAuthored DEF ForWindow
    <2>3. CASE ForKey(f)
        <3>1. f.tool = "sequence" => Attached(body, a) = body
            BY DEF Attached
        <3> QED
            BY <1>1, <2>3, <3>1, HeroAuthored DEF ForKey
    <2> QED
        BY <1>4, <2>1, <2>2, <2>3
<1> QED
    BY <1>2, <1>5

LEMMA RevisionFollows ==
    ASSUME DocInv, [Next]_vars
    PROVE  Authored(body') = Authored(body) \/ revision' = revision + 1
<1>1. CASE Commands
    <2>1. PICK lane \in Lanes, b \in Bodies : Author(lane, b) /\ FormInv(b)
        BY <1>1, CommandsCommanded DEF Commanded
    <2> QED
        BY <2>1, CommandWrites
<1>2. CASE Submissions
    <2>1. body' = body
        BY <1>2 DEF Submissions, SubmitStep, SubmitHero, SubmitSequence, Extend, Submit
    <2> QED
        BY <2>1
<1>3. ASSUME NEW r \in requests, Record(r) \/ Drop(r) PROVE body' = body
    BY <1>3 DEF Record, Drop
<1>4. ASSUME NEW a \in Attempts, landCandidate(a) PROVE Authored(body') = Authored(body)
    BY <1>4, LandingAuthored
<1>5. CASE UNCHANGED vars
    BY <1>5 DEF vars
<1> QED
    BY <1>1, <1>2, <1>3, <1>4, <1>5 DEF Next, Commands

(* A landing attaches its clip without touching anything a command may write, *)
(* and every command counts the revision: what a tab overwrites at an         *)
(* accepted revision is what it has seen (landCandidate, authoredRevision).   *)
THEOREM RevisionStaysTheName == Spec => RevisionNamesContent
<1>1. DocInv /\ [Next]_vars => [Authored(body') # Authored(body) => revision' = revision + 1]_vars
    BY RevisionFollows
<1> QED
    BY <1>1, DocumentStays, PTL DEF Spec, RevisionNamesContent

-----------------------------------------------------------------------------
(* The preview *)

(* A step of the walk is kept. *)
LEMMA WalkGrows ==
    ASSUME NEW R, NEW h, NEW a, Walks(R, h, a)
    PROVE  \A n \in 0 .. Cardinality(Attempts) : h[0] \subseteq h[n]
<1> DEFINE N == Cardinality(Attempts)
           S == {n \in 0 .. N : h[0] \subseteq h[n]}
<1>1. N \in Nat
    BY IdsAssumption, FS_CardinalityType
<1>2. 0 \in S
    BY <1>1
<1>3. \A n \in 1 .. N : n - 1 \in S => n \in S
    BY <1>1 DEF Walks
<1> HIDE DEF S
<1>4. \A n \in 0 .. N : n \in S
    BY <1>1, <1>2, <1>3, Climb
<1> QED
    BY <1>4 DEF S

(* Where a walk that meets the root goes on: only to ancestors of the root.   *)
LEMMA WalkMeetsRoot ==
    ASSUME NEW R, NEW a, NEW root, NEW P, None \notin DOMAIN R,
           SourceIn(R, a) \in P \cup {None, root},
           \A x \in P : SourceIn(R, x) \in P \cup {None, root}
    PROVE  AncestryIn(R, a) \subseteq P \cup {root} \cup AncestryIn(R, root)
<1>1. PICK h : Walks(R, h, a)
    BY AncestryWalks
<1>2. PICK k : Walks(R, k, root)
    BY AncestryWalks
<1> DEFINE N == Cardinality(Attempts)
           Met(n) == P \cup {None, root} \cup k[n]
           S == {n \in 0 .. N : h[n] \subseteq Met(n)}
<1>3. N \in Nat
    BY IdsAssumption, FS_CardinalityType
<1>4. 0 \in S
    BY <1>1, <1>3 DEF Walks
<1>5. ASSUME NEW n \in 1 .. N, h[n - 1] \subseteq Met(n - 1)
      PROVE  h[n] \subseteq Met(n)
    <2>1. h[n] = h[n - 1] \cup {SourceIn(R, x) : x \in h[n - 1]}
        BY <1>1 DEF Walks
    <2>2. k[n] = k[n - 1] \cup {SourceIn(R, x) : x \in k[n - 1]}
        BY <1>2 DEF Walks
    <2>3. SourceIn(R, root) \in k[n]
        <3>1. n \in 0 .. N /\ k[0] = {SourceIn(R, root)}
            BY <1>2, <1>3 DEF Walks
        <3> QED
            BY <1>2, <3>1, WalkGrows
    <2>4. SourceIn(R, None) = None
        BY DEF SourceIn
    <2>5. ASSUME NEW x \in h[n - 1] PROVE x \in Met(n) /\ SourceIn(R, x) \in Met(n)
        <3>1. x \in Met(n - 1)
            BY <1>5
        <3>2. CASE x \in P
            BY <3>2
        <3>3. CASE x = None
            BY <2>4, <3>3
        <3>4. CASE x = root
            BY <2>3, <3>4
        <3>5. CASE x \in k[n - 1]
            BY <2>2, <3>5
        <3> QED
            BY <3>1, <3>2, <3>3, <3>4, <3>5
    <2> HIDE DEF Met
    <2> QED
        BY <2>1, <2>5
<1>6. \A n \in 1 .. N : n - 1 \in S => n \in S
    BY <1>3, <1>5
<1> HIDE DEF S
<1>7. N \in S
    BY <1>3, <1>4, <1>6, Climb
<1>8. h[N] \subseteq P \cup {None, root} \cup k[N]
    BY <1>7 DEF S
<1> QED
    BY <1>1, <1>2, <1>8 DEF Walks

LEMMA PreviewFollows ==
    ASSUME DocInv
    PROVE  PreviewIsCoherent
<1>1. FormInv(body) /\ RowsInv
    BY DEF DocInv
<1> SUFFICES ASSUME NEW root \in Roots(body), chainMismatch(body, root) = {},
                    NEW w \in InChain(body, root), body.windows[w].selected # None,
                    NEW x \in Ancestry(body.windows[w].selected),
                    NEW v \in InChain(body, root), x \in body.windows[v].takes
             PROVE  body.windows[v].selected = x
    BY DEF PreviewIsCoherent
<1> DEFINE chain == InChain(body, root)
           P == {y \in DOMAIN rows : \E u \in chain :
                     y \in body.windows[u].takes /\ body.windows[u].selected = y}
<1>2. SourcesThere(rows) /\ None \notin DOMAIN rows
    BY <1>1, FormSources
<1>3. ASSUME NEW u \in chain, body.windows[u].selected # None
      PROVE  SourceIn(rows, body.windows[u].selected) \in P \cup {None, root}
    <2> DEFINE y == body.windows[u].selected
               source == bindingSourceOf(y)
    <2>1. source = SourceIn(rows, y)
        BY DEF bindingSourceOf, SourceIn
    <2>2. ~Mismatched(body, u) /\ u \in DOMAIN body.windows /\ body.windows[u].root = root
        BY DEF chainMismatch, InChain
    <2>3. CASE source \in {None, root}
        BY <2>1, <2>3
    <2>4. CASE source \notin {None, root}
        <3>1. PICK t \in chain : source \in body.windows[t].takes /\ body.windows[t].selected = source
            BY <1>3, <2>2, <2>4 DEF Mismatched
        <3>2. source \in DOMAIN rows
            <4>1. t \in DOMAIN body.windows
                BY DEF InChain
            <4> QED
                BY <1>1, <3>1, <4>1 DEF FormInv, TakesInv, IsTakeOf
        <3> QED
            BY <2>1, <3>1, <3>2
    <2> QED
        BY <2>3, <2>4
<1>4. \A y \in P : SourceIn(rows, y) \in P \cup {None, root}
    <2> SUFFICES ASSUME NEW y \in P PROVE SourceIn(rows, y) \in P \cup {None, root}
        OBVIOUS
    <2>1. PICK u \in chain : body.windows[u].selected = y
        OBVIOUS
    <2>2. y # None
        BY <1>2
    <2> HIDE DEF P
    <2> QED
        BY <1>3, <2>1, <2>2
<1> HIDE DEF P
<1>5. x \in P \cup {root} \cup AncestryIn(rows, root)
    <2>1. AncestryIn(rows, body.windows[w].selected) \subseteq P \cup {root} \cup AncestryIn(rows, root)
        BY <1>2, <1>3, <1>4, WalkMeetsRoot
    <2> QED
        BY <2>1, AncestryHere
<1>6. v \in DOMAIN body.windows /\ body.windows[v].root = root
    BY DEF InChain
<1>7. rows[x].frozen.target = Window(v)
    BY <1>1, <1>6 DEF FormInv, TakesInv, IsTakeOf
<1>8. x \in P
    BY <1>1, <1>5, <1>6, <1>7 DEF FormInv, ChainsInv, Rooted
<1>9. PICK u \in chain : x \in body.windows[u].takes /\ body.windows[u].selected = x
    BY <1>8 DEF P
<1>10. rows[x].frozen.target = Window(u)
    <2>1. u \in DOMAIN body.windows
        BY DEF InChain
    <2> QED
        BY <1>1, <1>9, <2>1 DEF FormInv, TakesInv, IsTakeOf
<1>11. u = v
    <2>1. Window(u).window = u /\ Window(v).window = v
        BY DEF Window
    <2> QED
        BY <1>7, <1>10, <2>1
<1> QED
    BY <1>9, <1>11

(* In a chain where chainMismatch finds nothing, every ancestor of a selected *)
(* take that the chain holds is selected too, over any number of windows and  *)
(* of branches: comparing neighbours is enough.  The walk leaves the chain    *)
(* only through its root, and the root and its ancestors are older than every *)
(* window of the chain (Rooted).                                              *)
THEOREM PreviewStaysCoherent == Spec => []PreviewIsCoherent
<1>1. DocInv => PreviewIsCoherent
    BY PreviewFollows
<1> QED
    BY <1>1, DocumentStays, PTL
=============================================================================
