------------------------------- MODULE Schema -------------------------------
(* The schema of a server (internal/schema): definitions as the tokens they  *)
(* are cut into, the classes and attribute types they define, the index by   *)
(* name and OID, and what the screens ask of it.  Keywords are written in    *)
(* upper case, X-ORIGIN stands for every extension; matching rules and       *)
(* syntaxes, which are only displayed, are left out.                         *)
EXTENDS Naturals, Sequences, SequencesExt

CONSTANTS
    Lower,     \* what a word is in lower case
    Stem,      \* a word without its ;option or {length}
    SupSteps   \* the most SUP links that are followed for an attribute (16)

ASSUME SupStepsAssumption == SupSteps \in Nat

None == [oid |-> ""]

-----------------------------------------------------------------------------
(* Lists.                                                                    *)

\* What is in K of a list, in the order of the list.
Only(list, K) ==
    LET From[i \in 0 .. Len(list)] ==
          IF i = 0 THEN <<>>
          ELSE IF list[i] \in K THEN Append(From[i - 1], list[i]) ELSE From[i - 1]
    IN  From[Len(list)]

\* Names in the order they come, each once whatever its case.
Once(names) ==
    LET From[i \in 0 .. Len(names)] ==
          IF i = 0 THEN <<>>
          ELSE LET out == From[i - 1]
               IN  IF \E b \in ToSet(out) : Lower[b] = Lower[names[i]] THEN out
                   ELSE Append(out, names[i])
    IN  From[Len(names)]

-----------------------------------------------------------------------------
(* Reading a definition.                                                     *)

Tok(k, s) == [k |-> k, s |-> s]
Token == [k : {"(", ")", "$", "q", "w"}, s : STRING]
Peek(t, i) == IF i \in DOMAIN t THEN t[i] ELSE Tok("", "")

\* The value after a keyword: words up to the next ")", or one token.
ListEnd(t, i) ==
    IF Peek(t, i).k # "(" THEN i
    ELSE CHOOSE j \in i .. Len(t) + 1 :
            /\ j > Len(t) \/ t[j].k = ")"
            /\ \A l \in i .. j - 1 : t[l].k # ")"
ListAt(t, i) ==
    LET end == ListEnd(t, i)
        words == {j \in DOMAIN t : i < j /\ j < end /\ t[j].k \in {"w", "q"}}
        at == Only([j \in DOMAIN t |-> j], words)
    IN  IF Peek(t, i).k # "(" THEN <<Peek(t, i).s>> ELSE [j \in DOMAIN at |-> t[at[j]].s]

Kinds == {"ABSTRACT", "STRUCTURAL", "AUXILIARY"}
Inherited == {"SYNTAX", "EQUALITY", "ORDERING", "SUBSTR"}
ClassWords ==
    [lists |-> {"NAME", "SUP", "MUST", "MAY", "X-ORIGIN"}, singles |-> {"DESC"},
     flags |-> {"OBSOLETE"} \cup Kinds]
AttrWords ==
    [lists |-> {"NAME", "X-ORIGIN"}, singles |-> Inherited \cup {"DESC", "SUP", "USAGE"},
     flags |-> {"OBSOLETE", "SINGLE-VALUE", "COLLECTIVE", "NO-USER-MODIFICATION"}]

\* Where keywords are expected, up to the first ")" there; what is none is passed
\* over.
KeywordsAt(grammar, t) ==
    LET Next(i) ==
          CASE t[i].s \in grammar.lists -> ListEnd(t, i + 1) + 1
            [] t[i].s \in grammar.singles -> i + 2
            [] OTHER -> i + 1
        From[i \in Nat] ==
          IF i > Len(t) \/ Peek(t, i).k = ")" THEN {} ELSE {i} \cup From[Next(i)]
    IN  {i \in DOMAIN t \cap From[3] :
            t[i].s \in grammar.lists \cup grammar.singles \cup grammar.flags}

\* The clauses of a definition; of two with the same keyword the later counts.
Clauses(grammar, t) ==
    LET Key(i) == IF t[i].s \in Kinds THEN "KIND" ELSE t[i].s
        Value(i) ==
          CASE t[i].s \in grammar.lists -> ListAt(t, i + 1)
            [] t[i].s \in grammar.singles -> <<Peek(t, i + 1).s>>
            [] OTHER -> <<t[i].s>>
        at == KeywordsAt(grammar, t)
    IN  [kw \in {Key(i) : i \in at} |-> Value(Max({i \in at : Key(i) = kw}))]

\* What an attribute does not say.
Unset == ""

Said(c, kw, default) == IF kw \in DOMAIN c THEN c[kw] ELSE default
Has(c, kw) == kw \in DOMAIN c

\* A definition without "(" and something after it is skipped.
HasHeader(t) == Peek(t, 1).k = "(" /\ Peek(t, 2).s # ""

ClassOf(t) ==
    LET c == Clauses(ClassWords, t)
    IN  [oid |-> t[2].s, names |-> Said(c, "NAME", <<>>), sup |-> Said(c, "SUP", <<>>),
         must |-> Said(c, "MUST", <<>>), may |-> Said(c, "MAY", <<>>),
         kind |-> Said(c, "KIND", <<"STRUCTURAL">>)[1], obsolete |-> Has(c, "OBSOLETE")]

AttrOf(t) ==
    LET c == Clauses(AttrWords, t)
        One(kw) == Said(c, kw, <<Unset>>)[1]
    IN  [oid |-> t[2].s, names |-> Said(c, "NAME", <<>>), sup |-> One("SUP"),
         own |-> [f \in Inherited |-> IF f = "SYNTAX" THEN Stem[One(f)] ELSE One(f)],
         single |-> Has(c, "SINGLE-VALUE"), usage |-> One("USAGE")]

Name(d) == IF d.names = <<>> THEN d.oid ELSE d.names[1]
Keys(d) == {Lower[n] : n \in {d.oid} \cup ToSet(d.names)}

\* The later definition of a name or OID takes it over.
Index(defs) ==
    [k \in UNION {Keys(d) : d \in ToSet(defs)} |->
        defs[Max({i \in DOMAIN defs : k \in Keys(defs[i])})]]

\* What the definitions with a header say, in their order.
Headed(texts) == Only(texts, {t \in ToSet(texts) : HasHeader(t)})
ClassesOf(texts) ==
    LET heads == Headed(texts) IN [i \in DOMAIN heads |-> ClassOf(heads[i])]
AttrsOf(texts) ==
    LET heads == Headed(texts) IN [i \in DOMAIN heads |-> AttrOf(heads[i])]

Parse(classes, attrs) ==
    LET cs == ClassesOf(classes)
        as == AttrsOf(attrs)
    IN  [ClassList |-> cs, Classes |-> Index(cs), AttrList |-> as, Attrs |-> Index(as)]

-----------------------------------------------------------------------------
(* Questions.                                                                *)

Lookup(map, key) == IF key \in DOMAIN map THEN map[key] ELSE None
Class(s, n) == Lookup(s.Classes, Lower[n])
Attr(s, n) == Lookup(s.Attrs, Stem[Lower[n]])
CanonAttr(s, n) == IF Attr(s, n) = None THEN n ELSE Name(Attr(s, n))

\* Mutant of Ahead: only the first superclass of a class is followed.
AheadFirst(oc, todo) == IF oc.sup = <<>> THEN todo ELSE <<oc.sup[1]>> \o todo

\* What is left to visit after a class: its superclasses come first.
Ahead(oc, todo) == oc.sup \o todo

\* One class of the walk: it is passed over when it is not known or was met,
\* and otherwise noted, with its superclasses to come.
Visit(s, v) ==
    LET oc == Class(s, Head(v.todo))
    IN  IF v.todo = <<>> THEN v
        ELSE IF oc = None \/ Lower[oc.oid] \in v.seen THEN [v EXCEPT !.todo = Tail(v.todo)]
        ELSE [todo |-> Ahead(oc, Tail(v.todo)), out |-> Append(v.out, Name(oc)),
              seen |-> v.seen \cup {Lower[oc.oid]}]

\* The most classes a walk comes by: the first, and the superclasses of each.
Visits(s) == 1 + Cardinality(UNION {{c} \X DOMAIN c.sup : c \in ToSet(s.ClassList)})

\* The class and, depth first, the superclasses that are known; each once.
Lineage(s, n) ==
    LET Walk[i \in Nat] ==
          IF i = 0 THEN [todo |-> <<n>>, out |-> <<>>, seen |-> {}] ELSE Visit(s, Walk[i - 1])
    IN  Walk[Visits(s)].out

\* The attributes of several lists by their names, each once.
Canonical(s, lists) ==
    Once(FlattenSeq([i \in DOMAIN lists |-> [j \in DOMAIN lists[i] |-> CanonAttr(s, lists[i][j])]]))

Lines(s, classes) == FlattenSeq([i \in DOMAIN classes |-> Lineage(s, classes[i])])
Must(s, classes) ==
    LET lines == Lines(s, classes)
    IN  Canonical(s, [i \in DOMAIN lines |-> Class(s, lines[i]).must])
May(s, classes) ==
    LET lines == Lines(s, classes)
    IN  Canonical(s, [i \in DOMAIN lines |-> Class(s, lines[i]).may])

\* What the classes require, and what they allow beyond it.
Resolve(s, classes) ==
    LET must == Must(s, classes)
        may == May(s, classes)
    IN  [must |-> must,
         may |-> Only(may, {a \in ToSet(may) : \A m \in ToSet(must) : Lower[m] # Lower[a]})]

\* The attribute that SUP names, if there is one.
Superior(s, a) == IF a = None \/ a.sup = Unset THEN None ELSE Attr(s, a.sup)

\* A value stays when there is one.
Nearest(value, p) == IF value = Unset THEN p ELSE value
Filled(out, a) == IF a = None THEN out ELSE [f \in Inherited |-> Nearest(out[f], a.own[f])]
Nothing == [f \in Inherited |-> Unset]

\* One SUP link; there is nothing above where it ends.
Climb(s, v) ==
    LET p == Superior(s, v.cur) IN [cur |-> p, out |-> Filled(v.out, p)]

\* Syntax and rules of an attribute, from the SUP links when it has none.
Effective(s, n) ==
    LET Walk[i \in Nat] ==
          IF i = 0 THEN [cur |-> Attr(s, n), out |-> Filled(Nothing, Attr(s, n))]
          ELSE Climb(s, Walk[i - 1])
    IN  Walk[SupSteps].out

\* The classes that name the attribute themselves.
UsedBy(s, n) ==
    LET Lists(names) == \E a \in ToSet(names) : Lower[CanonAttr(s, a)] = Lower[CanonAttr(s, n)]
    IN  [must |-> {Name(oc) : oc \in {c \in ToSet(s.ClassList) : Lists(c.must)}},
         may |-> {Name(oc) : oc \in {c \in ToSet(s.ClassList) : Lists(c.may)}}]

-----------------------------------------------------------------------------
(* What the answers should be, by other means.                               *)

\* No definition took a name or OID over from another of its sort.
NamesApart(s) ==
    /\ \A c \in ToSet(s.ClassList) : \A k \in Keys(c) : s.Classes[k] = c
    /\ \A a \in ToSet(s.AttrList) : \A k \in Keys(a) : s.Attrs[k] = a

\* No attribute has an option in its name, which the look-up would cut off.
NamesPlain(s) == \A a \in ToSet(s.AttrList) : \A k \in Keys(a) : Stem[k] = k

\* The smallest set of classes that has the class and the superclasses, as far
\* as they are known, of each of its members.
Ancestors(s, n) ==
    LET Closed(S) ==
          /\ Class(s, n) \in S
          /\ \A c \in S : \A p \in ToSet(c.sup) : Class(s, p) \in S \cup {None}
    IN  IF Class(s, n) = None THEN {}
        ELSE {c \in ToSet(s.ClassList) : \A S \in SUBSET ToSet(s.ClassList) : Closed(S) => c \in S}

\* Attributes, in lower case, that the classes demand or allow.
Demanded(s, classes) ==
    {Lower[CanonAttr(s, a)] :
        a \in UNION {ToSet(c.must) : c \in UNION {Ancestors(s, n) : n \in classes}}}
Allowed(s, classes) ==
    {Lower[CanonAttr(s, a)] :
        a \in UNION {ToSet(c.must) \cup ToSet(c.may) : c \in UNION {Ancestors(s, n) : n \in classes}}}

\* A lineage has every ancestor once, each after a class it is a superclass of.
LineageSound(s, n) ==
    LET line == Lineage(s, n)
    IN  /\ ToSet(line) = {Name(c) : c \in Ancestors(s, n)}
        /\ \A i, j \in DOMAIN line : line[i] = line[j] => i = j
        /\ \A i \in 2 .. Len(line) :
              \E j \in 1 .. i - 1 : \E p \in ToSet(Class(s, line[j]).sup) :
                 Class(s, p) = Class(s, line[i])

\* What the classes require and allow is what their ancestors list, an attribute
\* in one of the two and there once.
InheritanceSound(s, classes) ==
    LET r == Resolve(s, classes)
        both == r.must \o r.may
    IN  /\ {Lower[a] : a \in ToSet(r.must)} = Demanded(s, ToSet(classes))
        /\ {Lower[a] : a \in ToSet(both)} = Allowed(s, ToSet(classes))
        /\ \A i, j \in DOMAIN both : Lower[both[i]] = Lower[both[j]] => i = j

\* The classes an attribute is used by are the ones it is inherited from.
UseSound(s, classes) ==
    LET r == Resolve(s, classes)
    IN  \A a \in ToSet(r.must \o r.may) :
           /\ a \in ToSet(r.must) <=>
                 \E n \in ToSet(classes) : UsedBy(s, a).must \cap ToSet(Lineage(s, n)) # {}
           /\ a \in ToSet(r.may) =>
                 \E n \in ToSet(classes) : UsedBy(s, a).may \cap ToSet(Lineage(s, n)) # {}

ResolveSound(s, classes) == InheritanceSound(s, classes) /\ UseSound(s, classes)

\* The SUP links from an attribute end, or lead to no attribute, in n steps.
Ends(s, a, n) ==
    \E path \in UNION {[1 .. m -> ToSet(s.AttrList)] : m \in 1 .. n} :
        /\ path[1] = a
        /\ \A i \in 1 .. Len(path) - 1 : path[i].sup # Unset /\ Attr(s, path[i].sup) = path[i + 1]
        /\ path[Len(path)].sup = Unset \/ Attr(s, path[Len(path)].sup) = None

\* An attribute has what it says itself and for the rest what its superior
\* has; where the links do not end it has at least nothing it should not have.
EffectiveSound(s, a) ==
    LET mine == Effective(s, Name(a))
        sup == IF a.sup = Unset \/ Attr(s, a.sup) = None THEN Nothing
               ELSE Effective(s, a.sup)
    IN  \A f \in Inherited :
           /\ a.own[f] # Unset => mine[f] = a.own[f]
           /\ Ends(s, a, SupSteps + 1) /\ a.own[f] = Unset => mine[f] = sup[f]
           /\ mine[f] \in {Unset} \cup {b.own[f] : b \in ToSet(s.AttrList)}
=============================================================================
