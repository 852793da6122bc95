---------------------------- MODULE FilterBuilder ----------------------------
(* The filter builder (tui/filterbuilder.go) between the search form, whose  *)
(* filter it opens and replaces, and the prompts, whose answers come back as *)
(* messages: keys can be handled before a prompt opens and after it closed.  *)
EXTENDS Filter

CONSTANTS
    Typed,       \* the conditions the user types into a prompt
    RawTexts,    \* the filters the user types as a whole
    MaxEscapes,  \* bound: a value escaped so often is not edited any more
    MaxRows      \* bound: rows of a tree the user does not add to

ASSUME InputAssumption == Typed \subseteq Exprs /\ RawTexts \subseteq Seq(TextRows)

VARIABLES
    building,    \* the builder is on the screen, and not the search form
    handed,      \* the filter the search form has got from the builder, or Blank
    root, cur,   \* the rows of the tree, and the one under the cursor, counted from 1
    prompt,      \* what an open prompt asks for and offers, or NoPrompt
    posted       \* the message posted and not handled yet: at most one

builderVars == <<building, handed, root, cur, prompt, posted>>

NoPrompt == [asks |-> "none"]
Prompt(asks, offer) == [asks |-> asks, offer |-> offer]
Opening(asks, offer) == [kind |-> "open", asks |-> asks, offer |-> offer]
Answered(asks, what) == [kind |-> asks, what |-> what]

\* A tree without conditions.
Empty == <<Group("and")>>

BuilderInit ==
    /\ building = FALSE /\ handed = Blank
    /\ root = Empty /\ cur = 1
    /\ prompt = NoPrompt /\ posted = {}

-----------------------------------------------------------------------------
(* What the builder makes of its tree.                                       *)

\* A condition or a negation is put under a conjunction.
Rooted(s) == IF s[1].kind \in {"cond", "not"} THEN Empty \o Deeper(s, 1) ELSE s

\* newFilterModel: a filter that does not parse starts an empty tree.
TreeOf(t) == IF Sound(t) THEN Rooted(Parsed(t)) ELSE Empty

\* prune: the rows with a condition in them or below.
Pruned(s) == FlattenSeq([i \in DOMAIN s |-> IF Says(s, i) THEN <<s[i]>> ELSE <<>>])

\* The row that stays at the top of a pruned tree: conjunctions and
\* disjunctions of one above it go.
Single(s, i) == s[i].kind \in {"and", "or"} /\ \E j \in Kids(s, i) : Kids(s, i) = {j}
Top(s) == CHOOSE i \in DOMAIN s : ~Single(s, i) /\ \A k \in 1 .. i - 1 : Single(s, k)

Collapsed(s) ==
    LET above == Top(s) - 1
    IN  [i \in 1 .. Len(s) - above |-> [s[i + above] EXCEPT !.depth = @ - above]]

Output(s) == IF Says(s, 1) THEN ToText(Collapsed(Pruned(s))) ELSE Blank

Selected == root[cur]

\* The group an addition goes to: the selected one, or the one around it.
Target == IF IsCond(Selected) THEN Parent(root, cur) ELSE cur

-----------------------------------------------------------------------------
(* Keys.                                                                     *)

Key == building /\ prompt = NoPrompt

Move ==
    /\ Key
    /\ cur' \in {cur - 1, cur + 1} \cap DOMAIN root
    /\ UNCHANGED <<building, handed, root, prompt, posted>>

\* A, O, N: the new group becomes the row under the cursor.
AddGroup(kind) ==
    /\ Key /\ Len(root) < MaxRows
    /\ root' = Add(root, Target, <<Group(kind)>>)
    /\ cur' = End(root, Target) + 1
    /\ UNCHANGED <<building, handed, prompt, posted>>

\* t.
Toggle ==
    /\ Key /\ Selected.kind \in {"and", "or"}
    /\ root' = [root EXCEPT ![cur].kind = IF @ = "and" THEN "or" ELSE "and"]
    /\ UNCHANGED <<building, handed, cur, prompt, posted>>

\* Mutant of CursorAfterDelete: the cursor stays at its row.
CursorStays == cur

CursorAfterDelete == IF cur > 1 THEN cur - 1 ELSE cur

\* d, x: the root stays.
Delete ==
    /\ Key /\ cur # 1
    /\ root' = Removed(root, cur)
    /\ cur' = CursorAfterDelete
    /\ UNCHANGED <<building, handed, prompt, posted>>

\* a, e, r: the prompt opens by a message that holds what it offers.
Ask ==
    /\ Key /\ posted = {}
    /\ \/ Len(root) < MaxRows /\ posted' = {Opening("add", Blank)}
       \/ /\ IsCond(Selected) /\ Len(root) < MaxRows /\ Selected.val.esc < MaxEscapes
          /\ posted' = {Opening("edit", CondExpr(Selected))}
       \/ posted' = {Opening("raw", Output(root))}
    /\ UNCHANGED <<building, handed, root, cur, prompt>>

\* enter, u: only a filter that go-ldap compiles is handed over.
Use ==
    /\ Key /\ Sound(Output(root))
    /\ handed' = Output(root)
    /\ building' = FALSE
    /\ UNCHANGED <<root, cur, prompt, posted>>

Leave ==
    /\ Key
    /\ building' = FALSE
    /\ UNCHANGED <<handed, root, cur, prompt, posted>>

\* The form's filter: what was handed to it, or what is typed there (ctrl+f).
OpenBuilder ==
    /\ ~building /\ prompt = NoPrompt
    /\ building' = TRUE /\ handed' = Blank
    /\ \E t \in {handed} \cup RawTexts : root' = TreeOf(t)
    /\ cur' = 1
    /\ UNCHANGED <<prompt, posted>>

-----------------------------------------------------------------------------
(* Prompts and their answers.                                                *)

OpenPrompt ==
    \E m \in posted :
        /\ m.kind = "open"
        /\ prompt' = Prompt(m.asks, m.offer)
        /\ posted' = {}
        /\ UNCHANGED <<building, handed, root, cur>>

\* enter in a prompt: the offer as it is, or what is typed.
Submit ==
    /\ prompt # NoPrompt
    /\ prompt' = NoPrompt
    /\ \E what \in CASE prompt.asks = "add" -> Typed
                     [] prompt.asks = "edit" -> Typed \cup {prompt.offer}
                     [] prompt.asks = "raw" -> RawTexts \cup {prompt.offer} :
          posted' = {Answered(prompt.asks, what)}
    /\ UNCHANGED <<building, handed, root, cur>>

Cancel ==
    /\ prompt # NoPrompt
    /\ prompt' = NoPrompt
    /\ UNCHANGED <<building, handed, root, cur, posted>>

\* addCondMsg, on the rows of now.
AddCond ==
    \E m \in posted :
        /\ m.kind = "add"
        /\ root' = IF Refused(m.what) THEN root ELSE Add(root, Target, ParseCondition(m.what))
        /\ posted' = {}
        /\ UNCHANGED <<building, handed, cur, prompt>>

\* editCondMsg: the condition under the cursor now.
EditCond ==
    \E m \in posted :
        /\ m.kind = "edit"
        /\ root' = IF Refused(m.what) \/ ~IsCond(Selected) THEN root
                   ELSE Put(root, cur, ParseCondition(m.what))
        /\ posted' = {}
        /\ UNCHANGED <<building, handed, cur, prompt>>

\* setRawFilterMsg: a new tree, or the old one when the text does not parse.
SetRaw ==
    \E m \in posted :
        /\ m.kind = "raw"
        /\ IF Sound(m.what)
           THEN root' = TreeOf(m.what) /\ cur' = 1
           ELSE UNCHANGED <<root, cur>>
        /\ posted' = {}
        /\ UNCHANGED <<building, handed, prompt>>

-----------------------------------------------------------------------------
BuilderNext ==
    \/ Move \/ Toggle \/ Delete \/ Ask \/ Use \/ Leave \/ OpenBuilder
    \/ \E kind \in {"and", "or", "not"} : AddGroup(kind)
    \/ OpenPrompt \/ Submit \/ Cancel
    \/ AddCond \/ EditCond \/ SetRaw

BuilderSpec == BuilderInit /\ [][BuilderNext]_builderVars
-----------------------------------------------------------------------------
(* Properties.                                                               *)

\* The cursor is on a row whatever was deleted, edited or replaced under it,
\* the root is a conjunction or a disjunction, which additions need, and no row
\* is below a condition (filterbuilder.go:94, 180).
BuilderTypeOK ==
    /\ building \in BOOLEAN
    /\ root \in Seq(Nodes) /\ Nested(root) /\ root[1].kind \in {"and", "or"}
    /\ cur \in DOMAIN root
    /\ prompt = NoPrompt \/ prompt.asks \in {"add", "edit", "raw"}
    /\ posted = {} \/ \E m \in posted : posted = {m}

\* The text matches an entry when the tree, its empty groups left out, accepts it.
Means(t, s) == \A world \in SUBSET Assertions(s) : Matches(t, world) = Accepts(s, world)

\* The text is printed again by a builder that is opened on it.
Reopens(t) == Output(TreeOf(t)) = t

\* What the builder shows and hands over is what its tree says: leaving out,
\* collapsing and escaping change no meaning, and the builder takes its own
\* output back as it was (filterbuilder.go:25, 54-85, filter.go:37-82, 182).
OutputFaithful ==
    LET out == Output(root)
    IN  Sound(out) => Means(out, root) /\ Reopens(out)

\* A value that stands escaped in the text it was parsed from, that has stars
\* there which are no wildcards, or that has blanks at its ends, is not the same
\* after it was offered and read again.
Exact(n) ==
    /\ n.val.is # "padded"
    /\ n.raw => n.val.esc = 0 /\ (Wild(n.val) => n.op = "=")

\* An edit that repeats what the row says changes nothing, whatever was done
\* between the prompt and its answer (filterbuilder.go:87, 118; filter.go:142).
EditKeeps ==
    [][\A m \in posted \ posted' :
         m.kind = "edit" /\ IsCond(Selected) /\ Exact(Selected) /\ m.what = CondExpr(Selected)
            => Output(root') = Output(root)]_builderVars
=============================================================================
