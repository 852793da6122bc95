------------------------------ MODULE MCAddForm ------------------------------
(* Instance of AddForm.  Some servers are made for the form: a class below   *)
(* another, aliases, another case, a single-valued attribute, definitions    *)
(* that are odd or cut off.  The others only for the answers of a schema:    *)
(* every SUP graph of three classes and of four attribute types.             *)
EXTENDS AddForm

W(s) == <<Tok("w", s)>>
Quoted(s) == <<Tok("q", s)>>
Opened == <<Tok("(", "(")>>
Closed == <<Tok(")", ")")>>
Listed(names) == Opened \o FlattenSeq([i \in DOMAIN names |-> W(names[i])]) \o Closed

ClassText(oid, names, sup, must, may) ==
    Opened \o W(oid) \o W("NAME") \o Listed(names) \o W("SUP") \o Listed(sup)
    \o W("AUXILIARY") \o W("X-ORIGIN") \o Quoted("MUST") \o W("MUST") \o Listed(must)
    \o W("MAY") \o Listed(may) \o Closed
AttrText(oid, names, sup, syntax, rest) ==
    Opened \o W(oid) \o W("NAME") \o Listed(names) \o rest
    \o (IF sup = "" THEN <<>> ELSE W("SUP") \o W(sup))
    \o (IF syntax = "" THEN <<>> ELSE W("SYNTAX") \o W(syntax)) \o Closed

Words ==
    {"", "(", ")", "2.1", "2.2", "2.3", "2.4", "2.5", "2.6", "a", "b", "c", "x", "k", "person", "Person",
     "top", "objectClass", "objectclass", "cn", "CN", "commonName", "commonname", "cn;lang", "sn", "uid",
     "NAME", "DESC", "MUST", "r", "v", "s", "s{8}", "e"}
LowerWord ==
    [w \in Words |-> CASE w = "Person" -> "person" [] w = "objectClass" -> "objectclass"
                       [] w = "CN" -> "cn" [] w = "commonName" -> "commonname" [] OTHER -> w]
StemWord == [w \in Words |-> CASE w = "cn;lang" -> "cn" [] w = "s{8}" -> "s" [] OTHER -> w]

FormAttrs ==
    << AttrText("2.4", <<"objectClass">>, "", "", <<>>), AttrText("2.1", <<"cn", "commonName">>, "", "s{8}", <<>>),
       AttrText("2.2", <<"sn">>, "cn", "", <<>>), AttrText("2.3", <<"uid">>, "", "", W("SINGLE-VALUE")) >>
FormServers ==
    { [classes |-> << ClassText("2.1", <<"top">>, <<>>, <<"objectClass">>, <<>>),
                      ClassText("2.2", <<"person">>, <<"top">>, <<"commonName", "sn">>, <<"CN", "uid">>),
                      ClassText("2.3", <<"k">>, <<"Person", "x">>, <<"uid">>, <<"cn">>) >>,
       attrs |-> FormAttrs],
      [classes |-> << W("NAME"), SubSeq(ClassText("2.2", <<"person">>, <<>>, <<"cn">>, <<"uid">>), 1, 15),
                      ClassText("2.3", <<"k", "person">>, <<"person">>, <<"sn", "x">>, <<>>) >>,
       attrs |-> Tail(FormAttrs)] }

Sups == {<<>>, <<"a">>, <<"b">>, <<"c">>, <<"c", "b">>, <<"x", "a", "c">>, <<"b", "a">>}
GraphServers ==
    { [classes |-> << ClassText("2.1", <<"a">>, g[1], <<"cn">>, <<"sn">>), ClassText("2.2", <<"b", "k">>, g[2], <<"sn", "x">>, <<"commonName">>),
                      ClassText("2.3", <<"c">>, g[3], <<>>, <<"uid", "CN">>) >>,
       attrs |-> FormAttrs] : g \in [1 .. 3 -> Sups] }
ChainServers ==
    { [classes |-> <<>>,
       attrs |-> << AttrText("2.1", <<"a">>, g[1], "", <<>>), AttrText("2.2", <<"b">>, g[2], s[1], <<>>),
                    AttrText("2.3", <<"c">>, g[3], s[2], <<>>), AttrText("2.4", <<"k">>, g[4], "e", <<>>) >>] :
        g \in [1 .. 4 -> {"", "a", "b", "c", "k", "x"}], s \in {<<"", "s">>, <<"v", "">>} }

SomeServers == FormServers \cup GraphServers \cup ChainServers

\* Bound: the form is opened on the servers made for it.
Opens == screen = "form" => server \in FormServers

SomeParents == {"ok", "bad"}
SomeRDNs == {<<>>, <<"commonName">>, <<"uid">>}
SomeClasses == {<<>>, <<"k">>, <<"Person">>}
SomePicks == {<<"top", "person">>}
SomeExtras ==
    { <<>>, <<[name |-> "", val |-> ""]>>, <<[name |-> "sn", val |-> "v"], [name |-> "x", val |-> "v"]>>,
      <<[name |-> "uid", val |-> "v"], [name |-> "uid", val |-> "r"]>> }
=============================================================================
