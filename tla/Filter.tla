------------------------------- MODULE Filter -------------------------------
(* Search filters (internal/filter): trees of conditions, the texts they    *)
(* print to and the trees texts parse to.  Both are lists of rows, each with *)
(* its depth, in the order of Flatten; of a text a row is what an opening    *)
(* parenthesis begins.  Of a value matters what is in it (a word, with or    *)
(* without blanks at an end, a lone star, stars among letters, or characters *)
(* a filter must escape) and how often it has been escaped.                  *)
EXTENDS Naturals, Sequences, SequencesExt, FiniteSets

Values == [is : {"word", "padded"}, esc : {0}] \cup [is : {"star", "pattern", "special"}, esc : Nat]
Word == [is |-> "word", esc |-> 0]
Star == [is |-> "star", esc |-> 0]
Pattern == [is |-> "pattern", esc |-> 0]
Padded == [is |-> "padded", esc |-> 0]
Special == [is |-> "special", esc |-> 0]

\* What a text has between an attribute and a value; in the prompt an attribute
\* alone asks for its presence.
Operators == STRING \ {"present"}

\* The literals the rows below are made of, for the provers.
ASSUME LiteralAssumption == {"", "=", "present", "objectClass"} \subseteq STRING

\* raw says that the value is one that was parsed from a text, as it stands
\* there.  A group has the fields of a condition, and nothing in them.
Nodes == [kind : {"and", "or", "not", "cond"}, depth : Nat,
          attr : STRING, op : Operators, val : Values, raw : BOOLEAN]
Group(kind) ==
    [kind |-> kind, depth |-> 0, attr |-> "", op |-> "", val |-> Word, raw |-> FALSE]
NewCond(attr, op, val) ==
    [kind |-> "cond", depth |-> 0, attr |-> attr, op |-> op, val |-> val, raw |-> FALSE]
IsCond(n) == n.kind = "cond"

\* A text has a row for each item and each group; one that is no filter is a
\* row of its own.
TextRows == [kind : {"and", "or", "not", "item", "broken"}, depth : Nat,
             attr : STRING, op : Operators, val : Values]
Item(attr, op, val, depth) ==
    [kind |-> "item", depth |-> depth, attr |-> attr, op |-> op, val |-> val]
Text(kind, depth) == [kind |-> kind, depth |-> depth, attr |-> "", op |-> "", val |-> Word]
Blank == <<>>
Broken == <<Text("broken", 0)>>

-----------------------------------------------------------------------------
(* Rows of a tree.                                                          *)

\* The rows below a row come right after it, up to the next that is no deeper.
Below(s, i) == {j \in i + 1 .. Len(s) : \A k \in i + 1 .. j : s[k].depth > s[i].depth}
Kids(s, i) == {j \in Below(s, i) : s[j].depth = s[i].depth + 1}
Parent(s, i) == CHOOSE k \in DOMAIN s : i \in Kids(s, k)
End(s, i) == CHOOSE e \in i .. Len(s) : Below(s, i) = i + 1 .. e

\* A row alone at the top, each other at most one deeper than the one before
\* it, and none below a condition.
Nested(s) ==
    /\ s # <<>> /\ s[1].depth = 0
    /\ \A i \in 2 .. Len(s) :
          /\ s[i].depth \in 1 .. s[i - 1].depth + 1
          /\ s[i - 1].kind \in {"cond", "item"} => s[i].depth <= s[i - 1].depth

Deeper(rows, by) == [i \in DOMAIN rows |-> [rows[i] EXCEPT !.depth = @ + by]]

\* Rows in the place of those from i to j.
Splice(s, i, j, rows) == SubSeq(s, 1, i - 1) \o rows \o SubSeq(s, j + 1, Len(s))

Add(s, i, rows) == Splice(s, End(s, i) + 1, End(s, i), Deeper(rows, s[i].depth + 1))
Put(s, i, rows) == Splice(s, i, i, Deeper(rows, s[i].depth))

\* Remove, which the builder does not ask of the root.
Removed(s, i) == Splice(s, i, End(s, i), <<>>)

-----------------------------------------------------------------------------
(* Printing and parsing.                                                    *)

Wild(v) == v.is \in {"star", "pattern"} /\ v.esc = 0

\* Mutant of EscapeValue: stars are escaped like anything else.
EscapeValueAll(op, v) == IF v.is \in {"word", "padded"} THEN v ELSE [v EXCEPT !.esc = @ + 1]

\* Stars stay what they are in an equality; a value escaped once holds a
\* backslash and is escaped again.
EscapeValue(op, v) ==
    IF v.is \in {"word", "padded"} \/ (op = "=" /\ Wild(v)) THEN v
    ELSE [v EXCEPT !.esc = @ + 1]

\* The negations of several, which print as negations of a conjunction.
Wrapped(s) == {i \in DOMAIN s : s[i].kind = "not" /\ \E j, k \in Kids(s, i) : j # k}

\* What row i prints to, deeper by the conjunctions around it.
Printed(s, i) ==
    LET n == s[i]
        d == n.depth + Cardinality({k \in Wrapped(s) : i \in Below(s, k)})
    IN  IF IsCond(n) THEN <<Item(n.attr, n.op, IF n.raw THEN n.val ELSE EscapeValue(n.op, n.val), d)>>
        ELSE IF i \in Wrapped(s) THEN <<Text("not", d), Text("and", d + 1)>>
        ELSE IF n.kind = "not" /\ Kids(s, i) = {}
             THEN <<Text("not", d), Item("objectClass", "=", Star, d + 1)>>
        ELSE <<Text(n.kind, d)>>

ToText(s) == FlattenSeq([i \in DOMAIN s |-> Printed(s, i)])

\* What go-ldap compiles: an attribute with a parenthesis in it ends its item,
\* and so does a special value, which holds one, unless it is escaped.
Sound(t) ==
    /\ Nested(t)
    /\ \A i \in DOMAIN t :
          /\ t[i].kind # "broken"
          /\ t[i].kind = "not" => \E j \in Kids(t, i) : Kids(t, i) = {j}
          /\ t[i].kind = "item" =>
                t[i].attr \notin {"", "bad"} /\ (t[i].val.is = "special" => t[i].val.esc > 0)

\* The tree of a sound text, values as they stand there.
Parsed(t) ==
    [i \in DOMAIN t |->
        [kind |-> IF t[i].kind = "item" THEN "cond" ELSE t[i].kind, depth |-> t[i].depth,
         attr |-> t[i].attr, op |-> t[i].op, val |-> t[i].val, raw |-> t[i].kind = "item"]]

-----------------------------------------------------------------------------
(* One condition as it is typed: an attribute with an operator and a value,  *)
(* an attribute alone, with or without ! before it.                          *)

Exprs == [neg : BOOLEAN, attr : STRING, op : STRING, val : Values]
Expr(neg, attr, op, val) == [neg |-> neg, attr |-> attr, op |-> op, val |-> val]
Trimmed(v) == IF v.is = "padded" THEN Word ELSE v

\* A presence test is spelled without an operator; empty and "=x" are refused.
Refused(e) == e.attr = ""

ParseCondition(e) ==
    LET c == IF e.op = "present" THEN NewCond(e.attr, "=", Star)
             ELSE NewCond(e.attr, e.op, Trimmed(e.val))
    IN  IF e.neg THEN <<Group("not")>> \o Deeper(<<c>>, 1) ELSE <<c>>

\* Mutant of CondExpr: the value as it is printed.
CondExprPrinted(n) == Expr(FALSE, n.attr, n.op, IF n.raw THEN n.val ELSE EscapeValue(n.op, n.val))

\* What the prompt offers for a condition that is edited (condExpr).
CondExpr(n) ==
    IF n.op = "=" /\ n.val = Star THEN Expr(FALSE, n.attr, "present", Star)
    ELSE Expr(FALSE, n.attr, n.op, n.val)

-----------------------------------------------------------------------------
(* What filters mean, for reference.  world is the set of assertions that    *)
(* hold of an entry; an assertion is the attribute, the operator and the     *)
(* value with its escapes undone.                                            *)

Assertion(attr, op, val, text) ==
    [attr |-> attr, op |-> op, any |-> Wild(val) /\ op = "=",
     val |-> IF text /\ val.esc > 0 THEN [val EXCEPT !.esc = @ - 1] ELSE val]

Asserted(n) == Assertion(n.attr, n.op, n.val, n.raw)
Assertions(s) == {Asserted(s[i]) : i \in {j \in DOMAIN s : IsCond(s[j])}}

\* There is a condition in a row or below it.
Says(s, i) == \E j \in {i} \cup Below(s, i) : IsCond(s[j])

\* Whether the first row holds, when leaf has the rows of conditions that do
\* and kids[i] are the rows that count for row i.
Judged(s, leaf, kids) ==
    LET Holds[i \in DOMAIN s] ==
          \/ s[i].kind \in {"cond", "item"} /\ i \in leaf
          \/ s[i].kind = "and" /\ \A j \in kids[i] : Holds[j]
          \/ s[i].kind = "or" /\ \E j \in kids[i] : Holds[j]
          \/ s[i].kind = "not" /\ ~\A j \in kids[i] : Holds[j]
    IN  Holds[1]

\* A text matches as RFC 4511 says.
Matches(t, world) ==
    Judged(t, {i \in DOMAIN t : Assertion(t[i].attr, t[i].op, t[i].val, TRUE) \in world},
           [i \in DOMAIN t |-> Kids(t, i)])

\* Groups without a condition anywhere below them count for nothing.
Accepts(s, world) ==
    Judged(s, {i \in DOMAIN s : Asserted(s[i]) \in world},
           [i \in DOMAIN s |-> {j \in Kids(s, i) : Says(s, j)}])
=============================================================================
