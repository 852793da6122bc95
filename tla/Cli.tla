--------------------------------- MODULE Cli ---------------------------------
(* The command line (internal/cli): one command after another, as a script    *)
(* runs them in one directory.  search and export connect, bind, page through *)
(* one search and print or write what came; ldif reads a file; connect hands  *)
(* its target to the terminal program.  Messages on stderr are left out, but  *)
(* for the note that results are partial.                                     *)
EXTENDS Ldif, Integers, FiniteSets, TLC

CONSTANTS Shells,   \* where commands run: [served, file, script]
          Cuts      \* the lengths at which a disk may turn out to be full

VARIABLES script,   \* the command lines to run, the running one first
          served,   \* the entries the search matches, in the server's order
          run,      \* the running command
          file,     \* what is at the path: [there, text]
          ended     \* the commands that ended, and what they left

vars == <<script, served, run, file, ended>>

NoFile == [there |-> FALSE, text |-> <<>>]
Holding(text) == [there |-> TRUE, text |-> text]

\* A source of a password is off, cannot be read, is empty or has the password.
Sources == {"off", "unreadable", "empty", "secret"}

ASSUME ShellsAssumption ==
    \A s \in Shells :
       /\ s.served \in Seq(ToSet(s.served)) /\ s.script \in Seq(ToSet(s.script))
       /\ s.file \in {NoFile, Holding(s.file.text)}
       /\ \A a \in ToSet(s.script) : a.cmd \in {"search", "export"} =>
             /\ {a.pwFile, a.pwStdin, a.pwEnv} \subseteq Sources
             /\ a.limit \in Int /\ a.page \in Int

\* tls and bound are what the connection has become; from is the cookie, the
\* number of entries it stands behind; text is what is to be written, read what
\* ldif has parsed.
Idle == [at |-> "start", pw |-> "none", tls |-> "none", bound |-> "none",
         from |-> 0, all |-> <<>>, noted |-> FALSE, text |-> <<>>,
         read |-> [ok |-> FALSE, recs |-> <<>>]]

args == Head(script)
Min2(a, b) == IF a < b THEN a ELSE b

\* The command is over: exit code, what it printed, what it collected.
Outcome(exit, out) == [args |-> args, exit |-> exit, out |-> out, all |-> run.all, noted |-> run.noted]
End(exit, out) ==
    /\ ended' = Append(ended, Outcome(exit, out))
    /\ script' = Tail(script)
    /\ run' = Idle
    /\ UNCHANGED served

To(at) == /\ run' = [run EXCEPT !.at = at]
          /\ UNCHANGED <<script, served, file, ended>>

-----------------------------------------------------------------------------
(* Arguments.                                                                *)

\* Targets: URLs and profiles with what they say of TLS and bind; the others
\* resolve to nothing.
Targets ==
    [t \in {"ldap url", "ldaps url", "anonymous profile", "simple profile", "sasl profile"} |->
        [tls |-> IF t \in {"ldaps url", "simple profile"} THEN "implicit" ELSE "none",
         bind |-> IF t = "simple profile" THEN "simple"
                  ELSE IF t = "sasl profile" THEN "sasl" ELSE "anonymous"]]
ResolveTarget(target) == target \in DOMAIN Targets

Apply(a) ==
    LET t == Targets[a.target]
    IN  [tls |-> IF a.starttls /\ t.tls = "none" THEN "starttls" ELSE t.tls,
         bind |-> IF a.user THEN "simple" ELSE t.bind]

\* The file goes before stdin and stdin before the environment.
Password(a) ==
    CASE a.pwFile # "off" -> a.pwFile
      [] a.pwFile = "off" /\ a.pwStdin # "off" -> a.pwStdin
      [] a.pwFile = "off" /\ a.pwStdin = "off" -> a.pwEnv

Scopes == {"base", "one", "sub"}

\* What is wrong with a search's or an export's command line, whose exit code
\* is 2 whatever it is: flags, target, output file, scope.
Usage(a) ==
    \/ ~a.flags
    \/ ~ResolveTarget(a.target)
    \/ a.cmd = "export" /\ a.out = "none"
    \/ a.scope \notin Scopes

\* The format of an export is its file's extension.
Ext(a) == IF a.cmd = "export" THEN a.out ELSE a.format
Formats == {"", "ldif", "json", "csv", "txt"}

\* Of the formats that are not LDIF it matters which entries are in them, in
\* which order; their first line is no LDIF (render).
Render(format, es) ==
    IF format \in {"", "ldif"} THEN Write(es)
    ELSE <<format, "nl">> \o FlattenSeq([e \in DOMAIN es |-> es[e].dn \o <<"nl">>])

-----------------------------------------------------------------------------
(* search and export (runSearch).                                            *)

Searching == script # <<>> /\ args.cmd \in {"search", "export"}
At(at) == Searching /\ run.at = at

Start ==
    /\ At("start")
    /\ IF Usage(args) THEN End(2, <<>>) /\ UNCHANGED file ELSE To("password")

\* An anonymous search does not look at the environment.
AskPassword ==
    LET asks == Apply(args).bind # "anonymous" \/ args.pwFile # "off" \/ args.pwStdin # "off"
        pw == IF asks THEN Password(args) ELSE "empty"
    IN  /\ At("password")
        /\ IF pw = "unreadable" THEN End(1, <<>>) /\ UNCHANGED file
           ELSE /\ run' = [run EXCEPT !.at = "dial", !.pw = IF pw = "off" THEN "empty" ELSE pw]
                /\ UNCHANGED <<script, served, file, ended>>

\* Connect: TCP, then StartTLS and the handshake if TLS is asked for.
Fail == End(1, <<>>) /\ UNCHANGED file
Dial == /\ At("dial")
        /\ \/ To(IF Apply(args).tls = "starttls" THEN "upgrade"
                 ELSE IF Apply(args).tls = "implicit" THEN "handshake" ELSE "bind")
           \/ Fail
StartTLSExchange == At("upgrade") /\ (To("handshake") \/ Fail)

\* Mutant of Handshake: a handshake that fails dials again.
HandshakeAgain ==
    /\ At("handshake")
    /\ \/ /\ run' = [run EXCEPT !.at = "bind", !.tls = Apply(args).tls]
          /\ UNCHANGED <<script, served, file, ended>>
       \/ To("dial")

Handshake ==
    /\ At("handshake")
    /\ \/ /\ run' = [run EXCEPT !.at = "bind", !.tls = Apply(args).tls]
          /\ UNCHANGED <<script, served, file, ended>>
       \/ Fail

\* A simple bind without a password would succeed as an anonymous one.
NeedsPassword(bind) == bind = "simple" /\ run.pw = "empty"

\* The bind, and the root DSE, whose error is dropped.
Bind ==
    /\ At("bind")
    /\ \/ /\ ~NeedsPassword(Apply(args).bind)
          /\ run' = [run EXCEPT !.at = "collect", !.bound = Apply(args).bind]
          /\ UNCHANGED <<script, served, file, ended>>
       \/ Fail

\* Mutant of Follow: the next page is asked for with the cookie of the last.
FollowSame(cookie) == run.from

\* The cookie of the next request.
Follow(cookie) == cookie

Enough(all) == args.limit > 0 /\ Len(all) >= args.limit

\* Mutant of SearchEx: it is not said that a limit was reached.
SearchExSilent(answer, n) ==
    IF answer = "error" \/ (answer = "limit" /\ n = 0) THEN "error" ELSE "page"

\* A limit of the server's with entries is a part of the answer; without, it is
\* an error.
SearchEx(answer, n) ==
    IF answer = "success" THEN "page" ELSE IF answer = "limit" /\ n > 0 THEN "partial" ELSE "error"

\* The most entries an answer has; without a page size there is no paging.
PageSize(left) == IF args.page <= 0 THEN left ELSE Min2(args.page, left)

\* A turn of Collect's loop asks for a page and waits for the answer.
Request == At("collect") /\ To("asked")

\* The answer.  The server gives the entries behind the cookie, all
\* of them without the paging control and up to a page with it, and a cookie as
\* long as it has more to give; a page may be empty, and nothing bounds the turns.
Collect ==
    LET left == Len(served) - run.from
    IN  /\ At("asked")
        /\ \E n \in 0..PageSize(left), more \in BOOLEAN, answer \in {"success", "limit", "error"} :
              LET all == run.all \o SubSeq(served, run.from + 1, run.from + n)
                  res == SearchEx(answer, n)
                  partial == res = "partial"
                  done(es) == run' = [run EXCEPT !.at = "output", !.noted = partial,
                                                 !.text = <<>>, !.all = es]
              IN  /\ answer = "success" =>
                        /\ n < left => more
                        /\ more => args.page > 0
                        /\ args.page <= 0 => n = left
                  /\ answer # "success" => ~more
                  /\ IF res = "error" THEN End(1, <<>>)
                     ELSE /\ CASE partial -> done(all)
                               [] ~partial /\ Enough(all) -> done(Upto(all, args.limit))
                               [] ~partial /\ ~Enough(all) /\ ~more -> done(all)
                               [] OTHER -> run' = [run EXCEPT !.at = "collect", !.all = all,
                                                              !.from = Follow(run.from + n)]
                          /\ UNCHANGED <<script, served, ended>>
        /\ UNCHANGED file

\* What is printed is printed whole; an unknown format is noticed only here.
Output ==
    /\ At("output")
    /\ IF Ext(args) \notin Formats
       THEN End(IF args.cmd = "export" THEN 1 ELSE 2, <<>>) /\ UNCHANGED file
       ELSE IF args.cmd = "search"
       THEN End(0, Render(args.format, run.all)) /\ UNCHANGED file
       ELSE \* WriteFile opens the file and empties it, or cannot
            \/ /\ run' = [run EXCEPT !.at = "writing", !.text = Render(args.out, run.all)]
               /\ file' = Holding(<<>>)
               /\ UNCHANGED <<script, served, ended>>
            \/ Fail

\* The rest of WriteFile: all of it, or the disk is full after some.
WriteAll == At("writing") /\ file' = Holding(run.text) /\ End(0, <<>>)
WriteSome ==
    /\ At("writing")
    /\ \E n \in {c \in Cuts : c < Len(run.text)} : file' = Holding(Upto(run.text, n))
    /\ End(1, <<>>)

-----------------------------------------------------------------------------
(* The commands that ask no server.                                          *)

\* Content records only, as LDIF, JSON or text (printRecords).
PrintRecords(recs) ==
    LET es == [i \in DOMAIN recs |-> [dn |-> recs[i].dn, attrs |-> recs[i].attrs]]
    IN  IF \E i \in DOMAIN recs : recs[i].change # "add" THEN End(1, <<>>)
        ELSE IF args.format \notin {"ldif", "json", "txt"} THEN End(2, <<>>)
        ELSE End(0, Render(args.format, es))

\* What the summary reports of every record: its change, and whether it is wrong.
Summary(recs) == [i \in DOMAIN recs |-> <<recs[i].change, i \in Errs(recs)>>]

Reading(at) == script # <<>> /\ args.cmd = "ldif" /\ run.at = at /\ UNCHANGED file

\* The whole file is read and parsed (the first half of runLDIF).
ReadLDIF ==
    /\ Reading("start")
    /\ IF ~args.flags \/ args.target = "none" THEN End(2, <<>>)
       ELSE IF args.target = "missing" \/ ~file.there THEN End(1, <<>>)
       ELSE /\ run' = [run EXCEPT !.at = "report", !.read = Parse(file.text)]
            /\ UNCHANGED <<script, served, ended>>

Report ==
    /\ Reading("report")
    /\ IF ~run.read.ok THEN End(1, <<>>)
       ELSE IF args.format # "" /\ ~args.validate THEN PrintRecords(run.read.recs)
       ELSE End(IF Errs(run.read.recs) = {} THEN 0 ELSE 1, Summary(run.read.recs))

\* connect resolves its target and reads the password, the environment's too;
\* the terminal program starts in its place (parseConnect).
RunConnect ==
    /\ script # <<>> /\ args.cmd = "connect"
    /\ UNCHANGED file
    /\ IF ~args.flags \/ ~ResolveTarget(args.target) THEN End(2, <<>>)
       ELSE IF Password(args) = "unreadable" THEN End(1, <<>>)
       ELSE End(0, <<"tui">>)

RunHelp == script # <<>> /\ args.cmd = "help" /\ End(0, <<"usage">>) /\ UNCHANGED file
RunUnknown == script # <<>> /\ args.cmd = "unknown" /\ End(2, <<>>) /\ UNCHANGED file

\* Somebody interrupts the command.
Interrupted == 130
Killed == script # <<>> /\ run.at # "start" /\ End(Interrupted, <<>>) /\ UNCHANGED file

-----------------------------------------------------------------------------

Init == \E s \in Shells : /\ script = s.script /\ served = s.served /\ file = s.file
                          /\ run = Idle /\ ended = <<>>

Ask == \/ Start \/ AskPassword \/ Dial \/ StartTLSExchange \/ Handshake \/ Bind
       \/ Request \/ Collect
Next == \/ Ask \/ Output \/ WriteAll \/ WriteSome
        \/ ReadLDIF \/ Report \/ RunConnect \/ RunHelp \/ RunUnknown \/ Killed

\* A search goes on: an answer comes or the operation times out
\* (client.go:264-268).  What comes after its requests needs no fairness here.
Spec == Init /\ [][Next]_vars /\ WF_vars(Ask)

-----------------------------------------------------------------------------

\* What is held stays in its type, and a command never holds more than was served.
TypeOK ==
    /\ run.at \in {"start", "password", "dial", "upgrade", "handshake", "bind", "collect",
                   "asked", "output", "writing", "report"}
    /\ run.pw \in {"none", "empty", "secret"}
    /\ run.tls \in {"none", "starttls", "implicit"}
    /\ run.bound \in {"none", "anonymous", "simple", "sasl"}
    /\ run.from \in 0..Len(served) /\ Len(run.all) <= Len(served)
    /\ run.noted \in BOOLEAN /\ file.there \in BOOLEAN
    /\ \A i \in DOMAIN ended : ended[i].exit \in {0, 1, 2, Interrupted}

Succeeded(o) == o.exit = 0 /\ o.args.cmd \in {"search", "export"}

\* A search that says it succeeded has the first entries the server has, in
\* their order, each once: all of them, or as many as were asked for, or the
\* note says that they are partial (cli.go:256-279).
Answered ==
    \A i \in DOMAIN ended : LET o == ended[i] IN Succeeded(o) =>
        /\ IsPrefix(o.all, served)
        /\ o.noted \/ Len(o.all) = Len(served) \/ (o.args.limit > 0 /\ Len(o.all) = o.args.limit)
        /\ o.args.limit > 0 /\ ~o.noted => Len(o.all) <= o.args.limit

\* A command that failed leaves nothing on stdout that a pipe would take for an
\* answer; only the summary of an LDIF file comes with a code of 1 (cli.go:284-477).
Silent ==
    \A i \in DOMAIN ended : LET o == ended[i] IN
        o.exit # 0 /\ o.out # <<>> => o.args.cmd = "ldif" /\ (o.args.validate \/ o.args.format = "")

\* A bind with a name carries a password, and TLS is up by then if the target
\* or a flag asked for it, as the target asked for it (cli.go:106-122, 157-178).
Careful ==
    /\ run.bound = "simple" => run.pw = "secret"
    /\ run.bound # "none" /\ args.starttls => run.tls # "none"
    /\ run.bound # "none" /\ Targets[args.target].tls = "implicit" => run.tls = "implicit"

\* While an export's result stands, the file is all of it (format.go:108-121).
Written ==
    ended # <<>> /\ run.at # "writing" =>
        LET o == Last(ended) IN
        Succeeded(o) /\ o.args.cmd = "export" => file = Holding(Render(o.args.out, o.all))

\* The entries with their attributes that have values.
Valued(es) == [e \in DOMAIN es |-> [dn |-> es[e].dn,
                  attrs |-> SelectSeq(es[e].attrs, LAMBDA a : a.values # <<>>)]]

\* The file an export wrote is read as the very entries the server has: folding
\* and base64 lose nothing, no value runs into a line or record of its own
\* (ldif.go:28-328).
ReadBack ==
    \A i \in DOMAIN ended \ {1} : LET o == ended[i - 1] p == ended[i] IN
        /\ Succeeded(o) /\ o.args.cmd = "export" /\ o.args.out \in {"", "ldif"}
        /\ p.args.cmd = "ldif" /\ p.args.target = "file" /\ p.args.format = "ldif" /\ ~p.args.validate
        /\ p.exit # Interrupted
        => p.exit = 0 /\ p.out = Write(Valued(o.all))

\* The names there are after the records before i were applied to none.
Present(recs, i) == {Folded(recs[j].dn) : j \in {k \in 1..(i - 1) : recs[k].change = "add"}}
Refused(recs, i) ==
    LET r == recs[i] IN
    \/ r.dn = <<>> \/ ~IsDN(r.dn)
    \/ r.change = "add" /\ Folded(r.dn) \in Present(recs, i)
    \/ r.change = "add" /\ \E a \in DOMAIN r.attrs : <<>> \in ToSet(r.attrs[a].values)
    \/ r.change = "add" /\ <<"objectclass">> \notin {Folded(r.attrs[a].name) : a \in DOMAIN r.attrs}

\* A file that ldif finds nothing wrong with has no record a server would have
\* to refuse (validate.go:28-118).
Validated ==
    ended # <<>> /\ run = Idle =>
        LET o == Last(ended) recs == Parse(file.text).recs IN
        o.exit = 0 /\ o.args.cmd = "ldif" /\ (o.args.validate \/ o.args.format = "")
        => \A i \in DOMAIN recs : ~Refused(recs, i)

\* What a command prints, writes and answers with its exit code is true.
OutputHonest == Answered /\ Silent /\ Careful /\ Written /\ Validated

\* An answer without entries and with a cookie.
EmptyPage == At("asked") /\ run'.at = "collect" /\ run'.from = run.from

\* The requests of a search come to an end, unless the server goes on for ever
\* with empty pages and cookies, which nothing in the loop counts (cli.go:256-279).
Ends ==
    \/ []<><<EmptyPage>>_vars
    \/ <>[](run.at \notin {"password", "dial", "upgrade", "handshake", "bind", "collect", "asked"})
=============================================================================
