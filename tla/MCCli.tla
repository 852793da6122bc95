-------------------------------- MODULE MCCli --------------------------------
(* Instances for TLC: scripts of up to three commands, over entries with every *)
(* short value and over small files of every kind of record.                   *)
EXTENDS Cli

SomeRdns == {"cn=a", "CN=A", "cn=b"}
SomeWords == SomeRdns \cup {"dn", "cn", "CN", "objectClass", "objectclass", "version", "1", "x",
    "changetype", "control", "modify", "add", "delete", "replace", "modrdn", "newrdn", "newsuperior"}
Lowered == [w \in SomeWords |-> CASE w = "CN" -> "cn" [] w = "CN=A" -> "cn=a"
                                  [] w = "objectClass" -> "objectclass" [] OTHER -> w]

-----------------------------------------------------------------------------
(* Searches and exports.                                                     *)

Asking(cmd) ==
    [cmd |-> cmd, flags |-> TRUE, target |-> "ldap url", user |-> FALSE, starttls |-> FALSE,
     pwFile |-> "off", pwStdin |-> "off", pwEnv |-> "off", scope |-> "sub", limit |-> 0, page |-> 1,
     format |-> "ldif", out |-> "ldif"]
Read == [cmd |-> "ldif", flags |-> TRUE, target |-> "file", format |-> "", validate |-> FALSE]
ReadAsLDIF == [Read EXCEPT !.format = "ldif"]

Named(dn, values) == [dn |-> dn, attrs |-> <<[name |-> <<"cn">>, values |-> values]>>]
Three == <<Named(<<"cn=a">>, <<<<"x">>>>), Named(<<"cn=b">>, <<>>), Named(<<"cn=a", "x">>, <<<<"x">>, <<>>>>)>>
Shell(s, f, sc) == [served |-> s, file |-> f, script |-> sc]

\* How the server cuts its answer, over every limit and page size.
Paging == {Shell(SubSeq(Three, 1, n), NoFile, <<[Asking(cmd) EXCEPT !.limit = l, !.page = p]>>) :
              n \in 0..3, l \in -1..3, p \in -1..3, cmd \in {"search", "export"}}

\* Targets, passwords and TLS.
Connecting == {Shell(SubSeq(Three, 1, 1), NoFile,
                     <<[Asking(cmd) EXCEPT !.target = t, !.user = u, !.starttls = s,
                                           !.pwFile = f, !.pwStdin = i, !.pwEnv = e]>>) :
                  cmd \in {"search", "connect"}, t \in DOMAIN Targets \cup {"unknown"},
                  u \in BOOLEAN, s \in BOOLEAN, f \in Sources, i \in Sources, e \in Sources \ {"unreadable"}}

\* Command lines that are wrong, formats, and two exports before the file is read.
Wrongs == {Shell(SubSeq(Three, 1, n), NoFile, <<a>>) : n \in 0..1, a \in
              {[Asking(c) EXCEPT !.flags = FALSE] : c \in {"search", "export", "connect", "help", "unknown"}}
              \cup {[Asking(c) EXCEPT !.scope = s] : c \in {"search", "export"}, s \in {"one", "deep"}}
              \cup {[Asking("search") EXCEPT !.format = f] : f \in Formats \cup {"xml"}}
              \cup {[Asking("export") EXCEPT !.out = f] : f \in {"", "none", "json", "csv", "xml"}}}
Twice == {Shell(SubSeq(Three, 1, n), NoFile,
                <<Asking("export"), [Asking("export") EXCEPT !.out = f, !.limit = 1], [ReadAsLDIF EXCEPT !.validate = v]>>) :
             n \in 1..2, f \in {"ldif", "json", "xml"}, v \in BOOLEAN}

\* Every value of up to three tokens, and short ones in a name as well.
ValuesUpto(n) == BoundedSeq(Marks \cup {"x"}, n)
Values == {Shell(<<Named(<<"cn=a">> \o n, <<v, <<"x">>>>), Named(<<"cn=b">>, <<>>)>>, NoFile,
                 <<[Asking("export") EXCEPT !.page = 0], ReadAsLDIF>>) :
              <<n, v>> \in {<<<<>>, w>> : w \in ValuesUpto(3)} \cup (ValuesUpto(1) \X ValuesUpto(1))}

-----------------------------------------------------------------------------
(* Files of up to three records.                                             *)

Line(key, v) == <<key, ":", " ">> \o v \o <<"nl">>
Dn(dn) == Line("dn", <<dn>>)
Class == Line("objectClass", <<"x">>)
Blocks == {Dn("cn=a") \o Class,
           Dn("CN=A") \o Class \o Line("cn", <<"x">>) \o Line("CN", <<"x", ":">>),
           Dn("cn=b") \o Class \o Line("cn", <<>>),
           Dn("cn=b") \o Line("cn", <<"x">>),
           Dn("x") \o Class,
           Line("dn", <<>>) \o Class,
           Dn("cn=a") \o Line("changetype", <<"delete">>),
           Dn("cn=a") \o Line("control", <<"x">>) \o Line("changetype", <<"modify">>) \o Line("add", <<"cn">>)
               \o Line("cn", <<"x">>) \o <<"-", "nl">> \o Line("replace", <<"cn">>) \o <<"-", "nl">>,
           Dn("cn=a") \o Line("changetype", <<"modify">>) \o Line("add", <<"cn">>) \o <<"-", "nl">>,
           Dn("cn=a") \o Line("changetype", <<"modrdn">>) \o Line("newrdn", <<"cn=b">>),
           Line("version", <<"1">>)}
\* Texts no record is made of, or that a reader may take for one.
Oddities == {Line("cn", <<"x">>),
             Dn("cn=a") \o <<"x", "nl">>,
             Dn("cn=a") \o <<":", " ", "x", "nl">>,
             Dn("cn=a") \o <<"cn", ":", "<", "x", "nl">>,
             Dn("cn=a") \o <<"cn", ":", ":", " ", "x", "nl">>,
             Dn("cn=a") \o Line("changetype", <<"x">>),
             Dn("cn=a") \o Line("changetype", <<"modrdn">>),
             Dn("cn=a") \o Line("changetype", <<"modify">>) \o Line("cn", <<"x">>),
             <<"#", "x", "nl", " ">> \o Dn("x"),
             <<" ", "nl", " ">> \o Dn("cn=a") \o Class,
             <<"nl", "nl">>}
Documents == {FlattenSeq([i \in DOMAIN bs |-> bs[i] \o <<"nl">>]) : bs \in BoundedSeq(Blocks, 2)}
             \cup {b \o <<"nl">> \o c : b \in Blocks, c \in Oddities}
             \cup {c \o b : b \in Blocks, c \in Oddities}
Files == {Shell(<<>>, Holding(d), <<a>>) : d \in Documents, a \in
             {Read, ReadAsLDIF, [ReadAsLDIF EXCEPT !.validate = TRUE],
              [Read EXCEPT !.format = "csv"]}}
         \cup {Shell(<<>>, NoFile, <<a>>) : a \in {Read, [Read EXCEPT !.flags = FALSE],
                                                   [Read EXCEPT !.target = "none"],
                                                   [Read EXCEPT !.target = "missing"]}}

SomeShells == Paging \cup Connecting \cup Wrongs \cup Twice \cup Values \cup Files
=============================================================================
