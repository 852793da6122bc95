------------------------------- MODULE AddForm -------------------------------
(* The form for a new entry (tui/actions.go, form.go): the fields below the  *)
(* fixed ones follow the RDN and the object classes, by the schema, which    *)
(* may arrive while the form is open.  Overlays open and answer by messages, *)
(* and keys are handled in between.                                          *)
EXTENDS Schema

CONSTANTS
    Servers,     \* the definitions a server may have: [classes, attrs]
    Parents,     \* texts for the parent; "bad" is no DN
    RDNs,        \* attributes of the RDNs typed, <<>> for one that is none
    ClassLists,  \* classes typed
    Picks,       \* classes chosen together in the picker
    Extras,      \* further attributes typed; a name of "" is a part without "="
    MaxInbox     \* bound: messages under way, the schema apart

ASSUME ServersAssumption == \A v \in Servers : {v.classes, v.attrs} \subseteq Seq(Seq(Token))
ASSUME ClassesAssumption == ClassLists \cup Picks \subseteq Seq(DOMAIN Lower)
ASSUME TypedAssumption ==
    RDNs \subseteq Seq(STRING) /\ Extras \subseteq Seq([name : STRING, val : STRING])
ASSUME LowerAssumption == Lower["objectClass"] = "objectclass"

VARIABLES
    server,      \* the definitions of this server
    schema,      \* shared.schema, or None
    loading,     \* shared.schemaLoading; the answer is under way
    screen,      \* "browser" or "form"
    fm,          \* the form: fields and the field under the cursor
    ov,          \* the overlay that is open, or NoOverlay
    inbox        \* messages posted and not handled yet

vars == <<server, schema, loading, screen, fm, ov, inbox>>

NoOverlay == [kind |-> "none"]
Picker == [kind |-> "picker"]
Confirm == [kind |-> "confirm"]   \* it shows and adds what was read at the submission
Opening(overlay) == [kind |-> "openOverlay", ov |-> overlay]
Picked(names) == [kind |-> "pickClasses", names |-> names]
Plain(kind) == [kind |-> kind]

\* Fields are counted from 1: parent, RDN, object classes, the required
\* attributes, and the extra attributes last.
RDNField == 2
ClassField == 3

\* Mutant of Rebuilding: the fields follow the classes only.
RebuildingClasses == {ClassField}

\* Fields whose leaving rebuilds the form.
Rebuilding == {RDNField, ClassField}

\* What a required field may hold: nothing, or something.
Values == {"", "v"}

LastField(f) == 4 + Len(f.req)
EmptyForm(parent) ==
    [parent |-> parent, rdn |-> <<>>, classes |-> <<>>, req |-> <<>>, extra |-> <<>>, idx |-> 1]

Init ==
    /\ server \in Servers
    /\ schema = None /\ loading = FALSE
    /\ screen = "browser" /\ fm = EmptyForm("ok")
    /\ ov = NoOverlay /\ inbox = {}

-----------------------------------------------------------------------------
(* The fields and the entry they make.                                       *)

RDNSet(f) == {Lower[a] : a \in ToSet(f.rdn)}

\* Mutant of Known: the first required field is not looked at.
KnownButFirst(f) == ToSet(SubSeq(f.req, 2, Len(f.req)))

\* The fields that hold what was typed.
Known(f) == ToSet(f.req)

\* The required attributes that have a field of their own.
Shown(f, s) ==
    LET must == Must(s, f.classes)
    IN  Only(must, {a \in ToSet(must) : Lower[a] \notin {"objectclass"} \cup RDNSet(f)})

\* rebuildAddFields: a field for each of them, with what was typed.
Rebuilt(f, s) ==
    LET shown == Shown(f, s)
        Typed(a) == {r \in Known(f) : Lower[r.label] = Lower[a]}
        Kept(a) == IF Typed(a) = {} THEN "" ELSE (CHOOSE r \in Typed(a) : TRUE).val
    IN  IF s = None THEN f
        ELSE [f EXCEPT !.req = [i \in DOMAIN shown |-> [label |-> shown[i], val |-> Kept(shown[i])]]]

\* What is put into the entry: names as they are written, with a value each.
FilledIn(f) == Only(f.req, {r \in ToSet(f.req) : r.val # ""})
Puts(f) ==
    [i \in DOMAIN f.classes |-> [name |-> "objectClass", val |-> f.classes[i]]]
    \o [i \in DOMAIN f.rdn |-> [name |-> f.rdn[i], val |-> "r"]]
    \o [i \in DOMAIN FilledIn(f) |-> [name |-> FilledIn(f)[i].label, val |-> FilledIn(f)[i].val]]
    \o f.extra

\* By lower-case name: the spelling that came first and the values.
PutAs(f, k) == Only(Puts(f), {p \in ToSet(Puts(f)) : Lower[p.name] = k})
Entry(f) ==
    [k \in {Lower[p.name] : p \in ToSet(Puts(f))} |->
        [name |-> PutAs(f, k)[1].name, vals |-> {p.val : p \in ToSet(PutAs(f, k))}]]

\* Classes and attributes that the form warns of.
Warnings(f, s) ==
    LET entry == Entry(f)
        r == Resolve(s, f.classes)
        allowed == {Lower[a] : a \in ToSet(r.must \o r.may)}
        Odd(k) ==
            LET a == Attr(s, entry[k].name)
            IN  IF a = None THEN TRUE
                ELSE \/ Lower[Name(a)] \notin allowed /\ k \notin RDNSet(f)
                     \/ a.single /\ Cardinality(entry[k].vals) > 1
    IN  IF s = None THEN [classes |-> {}, attrs |-> {}]
        ELSE [classes |-> {c \in ToSet(f.classes) : Class(s, c) = None},
              attrs |-> {entry[k].name : k \in {j \in DOMAIN entry \ {"objectclass"} : Odd(j)}}]

\* What a strict addFormBuild does not refuse.
Complete(f, s) ==
    /\ f.rdn # <<>> /\ f.parent # "bad" /\ f.classes # <<>>
    /\ \A r \in ToSet(f.req) : r.val # ""
    /\ \A p \in ToSet(f.extra) : p.name # ""
    /\ s # None => \A a \in ToSet(Must(s, f.classes)) : Lower[a] \in DOMAIN Entry(f)

-----------------------------------------------------------------------------
(* The schema.                                                               *)

\* loadSchemaCmd: one load at a time.
LoadSchema == loading' = TRUE

SchemaLoaded ==
    /\ loading
    /\ loading' = FALSE
    /\ schema' = Parse(server.classes, server.attrs)
    /\ fm' = IF screen = "form" THEN Rebuilt(fm, schema') ELSE fm
    /\ UNCHANGED <<server, screen, ov, inbox>>

SchemaFailed ==
    /\ loading
    /\ loading' = FALSE
    /\ UNCHANGED <<server, schema, screen, fm, ov, inbox>>

\* Other screens ask for the schema too.
NeedSchema ==
    /\ schema = None /\ screen = "browser"
    /\ LoadSchema
    /\ UNCHANGED <<server, schema, screen, fm, ov, inbox>>

-----------------------------------------------------------------------------
(* Keys of the form.                                                         *)

Post(m) == Cardinality(inbox) < MaxInbox /\ inbox' = inbox \cup {m}
Key == screen = "form" /\ ov = NoOverlay

OpenAddEntryForm ==
    /\ screen = "browser" /\ ov = NoOverlay
    /\ screen' = "form"
    /\ \E p \in Parents : fm' = EmptyForm(p)
    /\ IF schema = None THEN LoadSchema ELSE UNCHANGED loading
    /\ UNCHANGED <<server, schema, ov, inbox>>

\* tab and shift+tab, in a circle; leaving the RDN or the classes rebuilds.
Move(d) ==
    /\ Key
    /\ LET moved == [fm EXCEPT !.idx = ((@ - 1 + d + LastField(fm)) % LastField(fm)) + 1]
       IN  fm' = IF fm.idx \in Rebuilding THEN Rebuilt(moved, schema) ELSE moved
    /\ UNCHANGED <<server, schema, loading, screen, ov, inbox>>

\* Whatever is typed into the field under the cursor.
Type ==
    /\ Key
    /\ fm' \in CASE fm.idx = 1 -> {[fm EXCEPT !.parent = p] : p \in Parents}
                 [] fm.idx = RDNField -> {[fm EXCEPT !.rdn = r] : r \in RDNs}
                 [] fm.idx = ClassField -> {[fm EXCEPT !.classes = c] : c \in ClassLists}
                 [] fm.idx = LastField(fm) -> {[fm EXCEPT !.extra = e] : e \in Extras}
                 [] OTHER -> {[fm EXCEPT !.req[fm.idx - 3].val = v] : v \in Values}
    /\ UNCHANGED <<server, schema, loading, screen, ov, inbox>>

\* ctrl+o: the picker, or the schema first.
PickClasses ==
    /\ Key
    /\ Post(IF schema = None THEN Plain("needSchema") ELSE Opening(Picker))
    /\ UNCHANGED <<server, schema, loading, screen, fm, ov>>

\* ctrl+s, or enter in the last field.
Submit ==
    /\ Key /\ Complete(fm, schema)
    /\ Post(Opening(Confirm))
    /\ UNCHANGED <<server, schema, loading, screen, fm, ov>>

Escape ==
    /\ Key
    /\ Post(Plain("formCancel"))
    /\ UNCHANGED <<server, schema, loading, screen, fm, ov>>

-----------------------------------------------------------------------------
(* Overlays and messages.                                                    *)

Choose ==
    /\ ov = Picker /\ ov' = NoOverlay
    /\ \E names \in Picks : Post(Picked(names))
    /\ UNCHANGED <<server, schema, loading, screen, fm>>

Yes ==
    /\ ov = Confirm /\ ov' = NoOverlay
    /\ Post(Plain("doAdd"))
    /\ UNCHANGED <<server, schema, loading, screen, fm>>

Dismiss ==
    /\ ov # NoOverlay /\ ov' = NoOverlay
    /\ UNCHANGED <<server, schema, loading, screen, fm, inbox>>

Take(m) == m \in inbox /\ inbox' = inbox \ {m}

OpenOverlay(m) ==
    /\ m.kind = "openOverlay" /\ Take(m)
    /\ ov' = m.ov
    /\ UNCHANGED <<server, schema, loading, screen, fm>>

\* Mutant of WithPicked: the picked classes replace what was typed.
WithPickedOnly(have, names) == names

\* Classes that are there already are not added again.
WithPicked(have, names) ==
    have \o Only(names, {n \in ToSet(names) : \A h \in ToSet(have) : Lower[h] # Lower[n]})

\* pickClassesMsg, on the form of now if there is one.
AddPicked(m) ==
    /\ m.kind = "pickClasses" /\ Take(m)
    /\ fm' = IF screen = "form" THEN Rebuilt([fm EXCEPT !.classes = WithPicked(@, m.names)], schema)
             ELSE fm
    /\ UNCHANGED <<server, schema, loading, screen, ov>>

Handle(m) ==
    /\ m.kind \in {"needSchema", "formCancel", "doAdd"} /\ Take(m)
    /\ screen' = IF m.kind = "needSchema" THEN screen ELSE "browser"
    /\ loading' = (loading \/ m.kind = "needSchema")
    /\ UNCHANGED <<server, schema, fm, ov>>

-----------------------------------------------------------------------------
Next ==
    \/ SchemaLoaded \/ SchemaFailed \/ NeedSchema
    \/ OpenAddEntryForm \/ Move(1) \/ Move(-1) \/ Type \/ PickClasses \/ Submit \/ Escape
    \/ Choose \/ Yes \/ Dismiss
    \/ \E m \in inbox : OpenOverlay(m) \/ AddPicked(m) \/ Handle(m)

Spec == Init /\ [][Next]_vars
-----------------------------------------------------------------------------
(* Properties.                                                               *)

\* The cursor is on a field, which the next key reads without looking, however
\* the fields changed under it (form.go:94, actions.go:202).
TypeOK ==
    /\ screen \in {"browser", "form"} /\ loading \in BOOLEAN
    /\ fm.idx \in 1 .. LastField(fm)
    /\ \A i \in DOMAIN fm.req : fm.req[i].val \in Values
    /\ ov.kind \in {"none", "picker", "confirm"}
    /\ \A m \in inbox : m.kind \in {"needSchema", "openOverlay", "pickClasses", "formCancel", "doAdd"}

\* The answers of a schema, also when classes or attributes are their own
\* superiors (schema.go:179, 198, 235).
Answers(s) ==
    /\ \A c \in ToSet(s.ClassList) : LineageSound(s, Name(c))
    /\ \A c, d \in ToSet(s.ClassList) : ResolveSound(s, <<Name(c), Name(d)>>)
    /\ \A a \in ToSet(s.AttrList) : EffectiveSound(s, a)
AnswersSound ==
    [][schema' # schema /\ NamesApart(schema') /\ NamesPlain(schema') => Answers(schema')]_vars

\* Off the RDN and the classes the form asks for what they demand, the RDN's
\* attributes apart: typing, the picker or a schema that comes late leave no
\* field behind and none out (actions.go:202, 376, 541).
FieldsFollow ==
    screen = "form" /\ schema # None /\ fm.idx \notin {RDNField, ClassField} =>
        {Lower[r.label] : r \in ToSet(fm.req)}
            = Demanded(schema, ToSet(fm.classes)) \ ({"objectclass"} \cup RDNSet(fm))

\* What was typed for a required attribute is not lost or moved to another
\* while the form asks for it (actions.go:399-417).
TypedStays ==
    [][screen = "form" /\ screen' = "form" /\ fm'.req # fm.req =>
         \A r \in ToSet(fm.req), q \in ToSet(fm'.req) :
            r.label = q.label /\ r.val # q.val => fm.idx = fm'.idx /\ fm.req[fm.idx - 3] = r]_vars

\* An entry has its classes and what they demand, and the warnings are of the
\* classes not known and of the attributes that do not fit.
Fits(f, s) ==
    LET entry == Entry(f)
        classes == ToSet(f.classes)
        Fine(k) ==
            LET n == entry[k].name
            IN  /\ Attr(s, n) # None
                /\ Lower[CanonAttr(s, n)] \in Allowed(s, classes) \/ k \in RDNSet(f)
                /\ Attr(s, n).single => Cardinality(entry[k].vals) = 1
    IN  /\ classes \subseteq entry["objectclass"].vals
        /\ Warnings(f, s).classes = {c \in classes : Ancestors(s, c) = {}}
        /\ NamesApart(s) =>
              /\ Demanded(s, classes) \subseteq DOMAIN entry
              /\ \A k \in DOMAIN entry \ {"objectclass"} :
                    Fine(k) <=> entry[k].name \notin Warnings(f, s).attrs

\* The entry that is offered (actions.go:419-505).
OfferChecked == [][Opening(Confirm) \in inbox' \ inbox /\ schema # None => Fits(fm, schema)]_vars

\* A schema that was loaded answers what its definitions say, and an entry that
\* is offered for creation under it has an attribute for each that its classes
\* demand, with a warning of whatever is not in the schema, not for these
\* classes or once too often (schema.go:179-262, actions.go:419-505).
SchemaHonoured == AnswersSound /\ OfferChecked
=============================================================================
