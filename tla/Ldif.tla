-------------------------------- MODULE Ldif --------------------------------
(* LDIF (internal/ldif): the text entries are written to and the records a    *)
(* text is read as.  A text is a sequence of tokens: a word, a name or an RDN *)
(* is one token, the characters the codec treats apart are tokens of their    *)
(* own.  "nl" is a newline; "hi" any other byte that cannot stand in a line   *)
(* (NUL, a carriage return, 0x80 and above).                                  *)
EXTENDS Naturals, Sequences, SequencesExt

CONSTANTS FirstWidth, NextWidth,  \* tokens on a line (76) and on a continuation (75)
          Words,                  \* tokens that are words, names or RDNs
          Rdns,                   \* those of them that are RDNs
          Lower                   \* the lower case of each word

ASSUME LdifAssumption == /\ FirstWidth \in Nat \ {0} /\ NextWidth \in Nat \ {0}
                         /\ Rdns \subseteq Words /\ Lower \in [Words -> Words]
                         /\ "objectClass" \in Words /\ Lower["objectClass"] = "objectclass"

Marks == {" ", ":", "<", "#", "-", "nl", "hi"}

Folded(s) == [i \in DOMAIN s |-> IF s[i] \in Words THEN Lower[s[i]] ELSE s[i]]
EqualFold(s, t) == Folded(s) = Folded(t)
Leading(l, t) == l # <<>> /\ Head(l) = t
Upto(l, i) == SubSeq(l, 1, i)
After(l, i) == SubSeq(l, i + 1, Len(l))
TrimLeft(l) == LET n == CHOOSE i \in 0..Len(l) :
                            ~Leading(After(l, i), " ") /\ \A j \in 1..i : l[j] = " "
               IN  After(l, n)
Trim(l) == Reverse(TrimLeft(Reverse(TrimLeft(l))))

-----------------------------------------------------------------------------
(* Writing.                                                                  *)

Base64(v) == [i \in DOMAIN v |-> "64" \o v[i]]
IsBase64(s) == \A i \in DOMAIN s : \E t \in Words \cup Marks : s[i] = "64" \o t
Decoded(s) == [i \in DOMAIN s |-> CHOOSE t \in Words \cup Marks : s[i] = "64" \o t]

NeedsBase64(v) ==
    /\ v # <<>>
    /\ \/ Head(v) \in {" ", ":", "<"}
       \/ Last(v) = " "
       \/ \E i \in DOMAIN v : v[i] \in {"nl", "hi"}

\* Mutant of WriteLine: the continuations are as long as the line, their blank
\* put in the place of a token.
WriteLineOver(s) ==
    LET from(i) == IF i = 1 THEN 0 ELSE FirstWidth + (i - 2) * (NextWidth + 1)
        lines == {i \in 1..(Len(s) + 1) : i = 1 \/ from(i) < Len(s)}
        piece(i) == SubSeq(s, from(i) + 1, IF i + 1 \in lines THEN from(i) + NextWidth ELSE Len(s))
    IN  FlattenSeq([i \in lines |-> (IF i = 1 THEN <<>> ELSE <<" ">>) \o piece(i) \o <<"nl">>])

\* A line folded: the continuations start with a blank.
WriteLine(s) ==
    LET from(i) == IF i = 1 THEN 0 ELSE FirstWidth + (i - 2) * NextWidth
        lines == {i \in 1..(Len(s) + 1) : i = 1 \/ from(i) < Len(s)}
        piece(i) == SubSeq(s, from(i) + 1, IF i + 1 \in lines THEN from(i + 1) ELSE Len(s))
    IN  FlattenSeq([i \in lines |-> (IF i = 1 THEN <<>> ELSE <<" ">>) \o piece(i) \o <<"nl">>])

WriteAttr(name, v) ==
    WriteLine(name \o (IF NeedsBase64(v) THEN <<":", ":", " ">> \o Base64(v)
                       ELSE <<":", " ">> \o v))

\* Entries are [dn, attrs], attributes [name, values].
WriteEntry(e) ==
    WriteAttr(<<"dn">>, e.dn) \o
    FlattenSeq([a \in DOMAIN e.attrs |->
        FlattenSeq([v \in DOMAIN e.attrs[a].values |-> WriteAttr(e.attrs[a].name, e.attrs[a].values[v])])])

Write(entries) ==
    <<"version", ":", " ", "1", "nl", "nl">> \o
    FlattenSeq([e \in DOMAIN entries |-> WriteEntry(entries[e]) \o <<"nl">>])

-----------------------------------------------------------------------------
(* Reading.                                                                  *)

Extended(seqs, t) == [seqs EXCEPT ![Len(seqs)] = @ \o t]
Lines(text) ==
    LET lines[i \in 0..Len(text)] ==
            IF i = 0 THEN <<<<>>>>
            ELSE IF text[i] = "nl" THEN Append(lines[i - 1], <<>>)
            ELSE Extended(lines[i - 1], <<text[i]>>)
    IN  lines[Len(text)]

\* Lines that start with a blank continue the line before unless it is empty.
Unfold(text) ==
    LET ls == Lines(text)
        more(i) == i > 1 /\ Leading(ls[i], " ") /\ ls[i - 1] # <<>>
        last(i) == CHOOSE j \in DOMAIN ls : /\ j >= i /\ \A k \in (i + 1)..j : more(k)
                                            /\ j + 1 \in DOMAIN ls => ~more(j + 1)
        whole(i) == ls[i] \o FlattenSeq([k \in 1..(last(i) - i) |-> Tail(ls[i + k])])
    IN  FlattenSeq([i \in DOMAIN ls |-> IF more(i) THEN <<>> ELSE <<whole(i)>>])

Colon(l) == SelectInSeq(l, LAMBDA t : t = ":")
Wrong == [ok |-> FALSE]

\* A key with its value, or no line at all: the key is missing, the value is
\* bad base64 or stands at a URL.
SplitLine(l) ==
    LET key == Upto(l, Colon(l) - 1)
        rest == After(l, Colon(l))
    IN  IF Colon(l) <= 1 \/ Leading(rest, "<") THEN Wrong
        ELSE IF ~Leading(rest, ":") THEN [ok |-> TRUE, key |-> key, val |-> TrimLeft(rest)]
        ELSE IF IsBase64(Trim(Tail(rest)))
             THEN [ok |-> TRUE, key |-> key, val |-> Decoded(Trim(Tail(rest)))]
             ELSE Wrong

Is(b, key) == b # <<>> /\ EqualFold(Head(b).key, <<key>>)

\* The attributes of a content record, in the spelling that comes first.
Gathered(b) ==
    LET first(i) == \A j \in 1..(i - 1) : ~EqualFold(b[j].key, b[i].key)
        same(i) == SelectSeq(b, LAMBDA l : EqualFold(l.key, b[i].key))
    IN  FlattenSeq([i \in DOMAIN b |->
            IF first(i) THEN <<[name |-> b[i].key, values |-> [k \in DOMAIN same(i) |-> same(i)[k].val]]>>
            ELSE <<>>])

\* The modifications of a modify record: a line while none is open must open
\* one, any other is a value until the next separator.
ModStep(s, l) ==
    CASE l.key = <<"-">> -> [s EXCEPT !.mods = @ \o s.cur, !.cur = <<>>]
      [] l.key # <<"-">> /\ s.cur # <<>> -> [s EXCEPT !.cur[1].values = Append(@, l.val)]
      [] l.key # <<"-">> /\ s.cur = <<>> /\ Folded(l.key) \in {<<"add">>, <<"delete">>, <<"replace">>} ->
             [s EXCEPT !.cur = <<[op |-> Folded(l.key)[1], attr |-> l.val, values |-> <<>>]>>]
      [] OTHER -> [s EXCEPT !.ok = FALSE]
Mods(b) ==
    LET s == FoldLeft(ModStep, [ok |-> TRUE, cur |-> <<>>, mods |-> <<>>], b)
    IN  [ok |-> s.ok, mods |-> s.mods \o s.cur]

\* The last line of that key; <<>> without one.
Said(b, key) == LET at == SelectLastInSeq(b, LAMBDA l : EqualFold(l.key, <<key>>))
                IN  IF at = 0 THEN <<>> ELSE b[at].val

\* A block's record (parseBlock); a version line alone is none.
ParseBlock(block) ==
    LET named == IF Is(block, "version") THEN Tail(block) ELSE block
        control(n) == \A i \in 2..n : Is(<<named[i]>>, "control")
        skip == CHOOSE n \in 1..Len(named) : control(n) /\ (n = Len(named) \/ ~control(n + 1))
        typed == After(named, skip)
        type == IF Is(typed, "changetype") THEN Folded(typed[1].val) ELSE <<"add">>
        body == IF Is(typed, "changetype") THEN Tail(typed) ELSE typed
        rec(change) == [dn |-> named[1].val, change |-> change, attrs |-> <<>>, mods |-> <<>>,
                        newrdn |-> <<>>, superior |-> <<>>]
        one(r) == [ok |-> TRUE, recs |-> <<r>>]
    IN  CASE named = <<>> -> [ok |-> TRUE, recs |-> <<>>]
          [] named # <<>> /\ ~Is(named, "dn") -> Wrong
          [] Is(named, "dn") /\ type = <<"add">> -> one([rec("add") EXCEPT !.attrs = Gathered(body)])
          [] Is(named, "dn") /\ type = <<"delete">> -> one(rec("delete"))
          [] Is(named, "dn") /\ type = <<"modify">> /\ Mods(body).ok ->
                 one([rec("modify") EXCEPT !.mods = Mods(body).mods])
          [] Is(named, "dn") /\ type \in {<<"modrdn">>, <<"moddn">>} /\ Said(body, "newrdn") # <<>> ->
                 one([rec("modrdn") EXCEPT !.newrdn = Said(body, "newrdn"),
                                           !.superior = Said(body, "newsuperior")])
          [] OTHER -> Wrong

KeyOf(l) == IF l = <<"-">> THEN [ok |-> TRUE, key |-> l, val |-> <<>>] ELSE SplitLine(l)

\* [ok, recs]: the records of the blocks between blank lines; one wrong line or
\* block and nothing is read.
Parse(text) ==
    LET ls == SelectSeq(Unfold(text), LAMBDA l : ~Leading(l, "#"))
        keys == [i \in DOMAIN ls |-> KeyOf(ls[i])]
        blank(i) == Trim(ls[i]) = <<>>
        starts(i) == ~blank(i) /\ (i = 1 \/ blank(i - 1))
        ends(i) == CHOOSE j \in i..Len(ls) : /\ \A k \in i..j : ~blank(k)
                                             /\ j = Len(ls) \/ blank(j + 1)
        read(i) == IF starts(i) THEN ParseBlock(SubSeq(keys, i, ends(i)))
                   ELSE [ok |-> TRUE, recs |-> <<>>]
        ok == /\ \A i \in DOMAIN ls : blank(i) \/ keys[i].ok
              /\ \A i \in DOMAIN ls : read(i).ok
    IN  [ok |-> ok, recs |-> IF ok THEN FlattenSeq([i \in DOMAIN ls |-> read(i).recs]) ELSE <<>>]

-----------------------------------------------------------------------------
(* Validation: the errors only.  Of a DN it matters that it starts with an   *)
(* RDN, of an attribute's name that it is a word.                            *)

IsDN(v) == v # <<>> /\ Head(v) \in Rdns
IsAttrName(n) == Len(n) = 1 /\ n[1] \in Words \ (Rdns \cup {"1"})

AddedBefore(recs, i) ==
    \E j \in 1..(i - 1) : recs[j].change = "add" /\ EqualFold(recs[j].dn, recs[i].dn)

AddErrs(r) ==
    \/ ~\E a \in DOMAIN r.attrs : EqualFold(r.attrs[a].name, <<"objectClass">>)
    \/ \E a \in DOMAIN r.attrs :
          ~IsAttrName(r.attrs[a].name) \/ \E v \in DOMAIN r.attrs[a].values : r.attrs[a].values[v] = <<>>

ModifyErrs(r) ==
    \/ r.mods = <<>>
    \/ \E m \in DOMAIN r.mods : \/ ~IsAttrName(r.mods[m].attr)
                                \/ r.mods[m].op = "add" /\ r.mods[m].values = <<>>

RenameErrs(r) == ~IsDN(r.newrdn) \/ (r.superior # <<>> /\ ~IsDN(r.superior))

\* The records an error is reported for (Validate).
Errs(recs) ==
    {i \in DOMAIN recs :
        LET r == recs[i] IN
        \/ ~IsDN(r.dn)
        \/ r.change = "add" /\ (AddErrs(r) \/ AddedBefore(recs, i))
        \/ r.change = "modify" /\ ModifyErrs(r)
        \/ r.change = "modrdn" /\ RenameErrs(r)}
=============================================================================
