------------------------------- MODULE CliProofs -------------------------------
(***************************************************************************)
(* Theorems about Cli for every script of commands, every list of entries  *)
(* and every way the server cuts it.                                       *)
(***************************************************************************)
EXTENDS Cli, ListLemmas

-----------------------------------------------------------------------------
(* The inductive invariant.                                                *)

SearchPhases == {"password", "dial", "upgrade", "handshake", "bind", "collect", "asked",
                 "output", "writing"}
Bounds == {"collect", "asked", "output", "writing"}
Connections == {"dial", "upgrade", "handshake", "bind"} \cup Bounds

\* A command line that searches has sources and numbers.
Sourced(a) ==
    a.cmd \in {"search", "export"} =>
        /\ {a.pwFile, a.pwStdin, a.pwEnv} \subseteq Sources
        /\ a.limit \in Int /\ a.page \in Int

\* The script and the entries are lists, and so is what the commands left.
Inputs ==
    /\ Listed(served) /\ Listed(script) /\ Listed(ended)
    /\ \A a \in ToSet(script) : Sourced(a)
    /\ file.there \in BOOLEAN

Shaped ==
    run = [at |-> run.at, pw |-> run.pw, tls |-> run.tls, bound |-> run.bound, from |-> run.from,
           all |-> run.all, noted |-> run.noted, text |-> run.text,
           read |-> run.read]

\* Which command is at which point, and what it has in hand there.
Progress ==
    /\ Shaped
    /\ run.at \in SearchPhases \cup {"start", "report"}
    /\ run.at # "start" => script # <<>>
    /\ run.at \in SearchPhases => args.cmd \in {"search", "export"} /\ ~Usage(args)
    /\ run.at = "report" => args.cmd = "ldif" /\ run.read = Parse(file.text)
    /\ run.at = "writing" => args.cmd = "export" /\ run.text = Render(args.out, run.all)
    /\ run.noted \in BOOLEAN

\* An answer that may be given with an exit code of 0.
Complete(a, all, noted) ==
    /\ IsPrefix(all, served)
    /\ noted \/ Len(all) = Len(served) \/ (a.limit > 0 /\ Len(all) = a.limit)
    /\ a.limit > 0 /\ ~noted => Len(all) <= a.limit

\* The pages so far are what is in front of the cookie.
Collected ==
    /\ run.at \notin Bounds => run.from = 0 /\ run.all = <<>>
    /\ run.from \in 0 .. Len(served)
    /\ run.at \in {"collect", "asked"} => run.all = SubSeq(served, 1, run.from)
    /\ run.at \in {"output", "writing"} => Complete(args, run.all, run.noted)

\* What has become of the connection is what the command line asks for.
Connected ==
    /\ run.pw \in {"none", "empty", "secret"}
    /\ run.at \in Connections => run.pw # "none"
    /\ run.tls = IF run.at \in {"bind"} \cup Bounds THEN Apply(args).tls ELSE "none"
    /\ run.bound = IF run.at \in Bounds THEN Apply(args).bind ELSE "none"
    /\ run.bound = "simple" => run.pw = "secret"

\* What a command that ended may have left.
Truthful(o) ==
    /\ o.exit \in {0, 1, 2, Interrupted}
    /\ Succeeded(o) => Complete(o.args, o.all, o.noted)
    /\ o.exit # 0 /\ o.out # <<>> => o.args.cmd = "ldif" /\ (o.args.validate \/ o.args.format = "")
Outcomes == \A i \in DOMAIN ended : Truthful(ended[i])

\* What the last command says of the file still holds.
Standing == Written /\ Validated

CliInv == Inputs /\ Progress /\ Collected /\ Connected /\ Outcomes /\ Standing

-----------------------------------------------------------------------------
(* Lists.                                                                  *)

LEMMA BeginningFacts ==
    ASSUME NEW s, Listed(s), NEW n \in 0 .. Len(s)
    PROVE  /\ Len(SubSeq(s, 1, n)) = n /\ IsPrefix(SubSeq(s, 1, n), s)
           /\ \A m \in 0 .. n : Upto(SubSeq(s, 1, n), m) = SubSeq(s, 1, m)
<1> DEFINE t == SubSeq(s, 1, n)
<1>1. s \in Seq(ToSet(s)) /\ Len(s) \in Nat
  BY DEF Listed
<1>2. t \in Seq(ToSet(s)) /\ Len(t) = n /\ \A i \in 1 .. n : t[i] = s[i]
  BY <1>1
<1>3. ASSUME NEW m \in 0 .. n PROVE SubSeq(t, 1, m) = SubSeq(s, 1, m)
  <2> HIDE DEF t
  <2> DEFINE a == SubSeq(t, 1, m)
             b == SubSeq(s, 1, m)
  <2>1. a \in Seq(ToSet(s)) /\ Len(a) = m /\ \A i \in 1 .. m : a[i] = t[i]
    BY <1>2
  <2>2. b \in Seq(ToSet(s)) /\ Len(b) = m /\ \A i \in 1 .. m : b[i] = s[i]
    BY <1>1
  <2> HIDE DEF a, b
  <2>3. a = b
    BY <1>2, <2>1, <2>2
  <2> QED
    BY <2>3 DEF a, b
<1>4. IsPrefix(t, s)
  <2>1. SubSeq(t, 1, n) = SubSeq(s, 1, n)
    BY <1>3
  <2> HIDE DEF t
  <2>2. SubSeq(t, 1, Len(t)) = SubSeq(s, 1, Len(t)) /\ Len(t) <= Len(s)
    BY <1>1, <1>2, <2>1
  <2> QED
    BY <2>2 DEF IsPrefix
<1> QED
  BY <1>2, <1>3, <1>4 DEF Upto

\* A page is put behind the ones before it.
LEMMA PageFacts ==
    ASSUME NEW s, Listed(s), NEW m \in 0 .. Len(s), NEW n \in 0 .. Len(s) - m
    PROVE  /\ m + n \in 0 .. Len(s)
           /\ SubSeq(s, 1, m) \o SubSeq(s, m + 1, m + n) = SubSeq(s, 1, m + n)
<1> DEFINE a == SubSeq(s, 1, m)
           b == SubSeq(s, m + 1, m + n)
           c == SubSeq(s, 1, m + n)
<1>1. s \in Seq(ToSet(s)) /\ Len(s) \in Nat /\ m + n \in 0 .. Len(s)
  BY DEF Listed
<1>2. a \in Seq(ToSet(s)) /\ Len(a) = m /\ \A i \in 1 .. m : a[i] = s[i]
  BY <1>1
<1>3. b \in Seq(ToSet(s)) /\ Len(b) = n /\ \A i \in 1 .. n : b[i] = s[m + i]
  BY <1>1
<1>4. c \in Seq(ToSet(s)) /\ Len(c) = m + n /\ \A i \in 1 .. m + n : c[i] = s[i]
  BY <1>1
<1> HIDE DEF a, b, c
<1>5. /\ a \o b \in Seq(ToSet(s)) /\ Len(a \o b) = Len(a) + Len(b)
      /\ \A i \in 1 .. Len(a) + Len(b) : (a \o b)[i] = IF i <= Len(a) THEN a[i] ELSE b[i - Len(a)]
  BY <1>2, <1>3, ConcatProperties, Zenon
<1>6. ASSUME NEW i \in 1 .. m + n PROVE (a \o b)[i] = s[i]
  <2>1. CASE i <= m
    BY <1>2, <1>3, <1>5, <2>1
  <2>2. CASE i > m
    <3>1. i - m \in 1 .. n /\ m + (i - m) = i
      BY <2>2
    <3>2. (a \o b)[i] = b[i - m]
      BY <1>2, <1>3, <1>5, <2>2
    <3> QED
      BY <1>3, <3>1, <3>2
  <2>3. i <= m \/ i > m
    BY <1>1
  <2> QED
    BY <2>1, <2>2, <2>3, Zenon
<1>7. a \o b = c
  <2> DEFINE d == a \o b
  <2>1. d \in Seq(ToSet(s)) /\ Len(d) = m + n /\ \A i \in 1 .. m + n : d[i] = s[i]
    BY <1>2, <1>3, <1>5, <1>6
  <2> HIDE DEF d
  <2>2. m + n \in Nat
    BY <1>1
  <2>3. d = c
    BY <1>4, <2>1, <2>2, SeqEqual, Zenon
  <2> QED
    BY <2>3 DEF d
<1> QED
  BY <1>1, <1>7 DEF a, b, c

-----------------------------------------------------------------------------
(* Command lines.                                                          *)

LEMMA TargetsFacts ==
    ASSUME NEW t \in DOMAIN Targets
    PROVE  Targets[t].tls \in {"none", "implicit"} /\ Targets[t].bind \in {"anonymous", "simple", "sasl"}
BY DEF Targets

LEMMA ApplyFacts ==
    ASSUME NEW a, a.target \in DOMAIN Targets
    PROVE  /\ Apply(a).tls \in {"none", "starttls", "implicit"}
           /\ Apply(a).bind \in {"anonymous", "simple", "sasl"}
           /\ a.starttls => Apply(a).tls # "none"
           /\ Targets[a.target].tls = "implicit" => Apply(a).tls = "implicit"
<1> DEFINE t == Targets[a.target]
<1>1. t.tls \in {"none", "implicit"} /\ t.bind \in {"anonymous", "simple", "sasl"}
  BY TargetsFacts
<1> HIDE DEF t
<1>2. /\ Apply(a).tls = IF a.starttls /\ t.tls = "none" THEN "starttls" ELSE t.tls
      /\ Apply(a).bind = IF a.user THEN "simple" ELSE t.bind
  BY DEF Apply, t
<1>3. Targets[a.target].tls = t.tls
  BY DEF t
<1> QED
  BY <1>1, <1>2, <1>3

\* A file in which no error is found has no record that would be refused.
LEMMA NoErrsFacts ==
    ASSUME NEW recs, Errs(recs) = {}, NEW i \in DOMAIN recs
    PROVE  ~Refused(recs, i)
<1> DEFINE r == recs[i]
<1>1. /\ IsDN(r.dn)
      /\ r.change = "add" => ~AddErrs(r) /\ ~AddedBefore(recs, i)
  BY DEF Errs
<1>2. r.dn # <<>>
  BY <1>1 DEF IsDN
<1>3. ~(r.change = "add" /\ Folded(r.dn) \in Present(recs, i))
  BY <1>1 DEF Present, AddedBefore, EqualFold
<1>4. ~(r.change = "add" /\ \E a \in DOMAIN r.attrs : <<>> \in ToSet(r.attrs[a].values))
  BY <1>1 DEF AddErrs, ToSet
<1>5. Folded(<<"objectClass">>) = <<"objectclass">>
  BY LdifAssumption DEF Folded
<1>6. ~(r.change = "add" /\ <<"objectclass">> \notin {Folded(r.attrs[a].name) : a \in DOMAIN r.attrs})
  BY <1>1, <1>5 DEF AddErrs, EqualFold
<1> QED
  BY <1>1, <1>2, <1>3, <1>4, <1>6 DEF Refused

-----------------------------------------------------------------------------
(* A command that ends, and one that goes on.                              *)

LEMMA SameAnswers ==
    ASSUME UNCHANGED served, NEW o
    PROVE  Truthful(o) <=> Truthful(o)'
BY DEF Truthful, Complete, Succeeded

\* What a command that ends must not say of the file that is there.
Stands(o) ==
    /\ Succeeded(o) /\ o.args.cmd = "export" => file = Holding(Render(o.args.out, o.all))
    /\ o.exit = 0 /\ o.args.cmd = "ldif" /\ (o.args.validate \/ o.args.format = "") =>
         \A i \in DOMAIN Parse(file.text).recs : ~Refused(Parse(file.text).recs, i)

LEMMA EndKeeps ==
    ASSUME Inputs, Outcomes, script # <<>>, NEW exit, NEW out, End(exit, out),
           Truthful(Outcome(exit, out)), file'.there \in BOOLEAN,
           NEW o, o = Outcome(exit, out), Stands(o)'
    PROVE  CliInv'
<1>1. served' = served /\ script' = Tail(script) /\ run' = Idle /\ ended' = Append(ended, o)
  BY DEF End
<1>2. /\ Listed(ended') /\ ended' # <<>> /\ Last(ended') = o
      /\ \A i \in DOMAIN ended' : ended'[i] = o \/ (i \in DOMAIN ended /\ ended'[i] = ended[i])
  <2>1. Listed(ended)
    BY DEF Inputs
  <2> QED
    BY <1>1, <2>1, AppendFacts
<1>3. Inputs'
  <2>1. Listed(script') /\ ToSet(script') \subseteq ToSet(script)
    BY <1>1, TailFacts DEF Inputs
  <2>2. Listed(served')
    BY <1>1 DEF Inputs
  <2>3. \A a \in ToSet(script') : Sourced(a)
    BY <2>1 DEF Inputs
  <2> QED
    BY <1>2, <2>1, <2>2, <2>3 DEF Inputs, Listed
<1>4. Progress' /\ Collected' /\ Connected'
  <2>1. Len(served') \in Nat
    BY <1>1 DEF Inputs, Listed
  <2> QED
    BY <1>1, <2>1 DEF Idle, Progress, Shaped, SearchPhases, Collected, Connected, Bounds, Connections
<1>5. Outcomes'
  <2> SUFFICES ASSUME NEW i \in DOMAIN ended' PROVE Truthful(ended[i])'
    BY DEF Outcomes
  <2>1. Truthful(ended'[i])
    BY <1>2 DEF Outcomes
  <2> QED
    BY <1>1, <2>1 DEF Truthful, Complete, Succeeded
<1>6. Standing'
  BY <1>2 DEF Standing, Written, Validated, Stands
<1> QED
  BY <1>3, <1>4, <1>5, <1>6 DEF CliInv

LEMMA FailKeeps ==
    ASSUME Inputs, Outcomes, script # <<>>, NEW exit \in {1, 2, Interrupted}, End(exit, <<>>),
           UNCHANGED file
    PROVE  CliInv'
<1>1. exit # 0 /\ exit \in {0, 1, 2, Interrupted}
  BY DEF Interrupted
<1>2. PICK o : o = Outcome(exit, <<>>)
  OBVIOUS
<1>3. o.exit = exit /\ o.out = <<>>
  BY <1>2 DEF Outcome
<1>4. Truthful(Outcome(exit, <<>>))
  BY <1>1, <1>2, <1>3 DEF Truthful, Succeeded
<1>5. Stands(o)'
  BY <1>1, <1>3 DEF Stands, Succeeded
<1>6. file'.there \in BOOLEAN
  BY DEF Inputs
<1> QED
  BY <1>2, <1>4, <1>5, <1>6, EndKeeps

LEMMA GoesOn ==
    ASSUME CliInv, UNCHANGED <<script, served, ended>>, run'.at # "start",
           \/ UNCHANGED file /\ run.at # "writing"
           \/ file'.there \in BOOLEAN /\ run'.at = "writing"
    PROVE  Inputs' /\ Outcomes' /\ Standing'
<1>1. Inputs'
  BY DEF CliInv, Inputs, Listed
<1>2. Outcomes'
  BY DEF CliInv, Outcomes, Truthful, Complete, Succeeded
<1>3. Standing'
  <2>1. Validated'
    <3>1. run' # Idle
      BY DEF Idle
    <3> QED
      BY <3>1 DEF Validated
  <2>2. Written'
    BY DEF CliInv, Standing, Written, Succeeded
  <2> QED
    BY <2>1, <2>2 DEF Standing
<1> QED
  BY <1>1, <1>2, <1>3

-----------------------------------------------------------------------------
(* The actions.                                                            *)

LEMMA SearchFacts ==
    ASSUME CliInv, Searching
    PROVE  /\ script # <<>> /\ args.cmd \in {"search", "export"} /\ Sourced(args)
           /\ run.at \in SearchPhases =>
                /\ Apply(args).tls \in {"none", "starttls", "implicit"}
                /\ Apply(args).bind \in {"anonymous", "simple", "sasl"}
<1>1. script # <<>> /\ args.cmd \in {"search", "export"}
  BY DEF Searching
<1>2. Sourced(args)
  BY <1>1, TailFacts DEF CliInv, Inputs, args
<1>3. run.at \in SearchPhases => args.target \in DOMAIN Targets
  BY DEF CliInv, Progress, Usage, ResolveTarget
<1> QED
  BY <1>1, <1>2, <1>3, ApplyFacts

LEMMA StartKeeps ==
    ASSUME CliInv, Start
    PROVE  CliInv'
<1>1. Searching /\ run.at = "start" /\ script # <<>>
  BY DEF Start, At, Searching
<1>2. CASE Usage(args)
  <2>1. End(2, <<>>) /\ UNCHANGED file
    BY <1>2 DEF Start
  <2> QED
    BY <1>1, <2>1, FailKeeps DEF CliInv
<1>3. CASE ~Usage(args)
  <2>1. /\ run' = [run EXCEPT !.at = "password"]
        /\ UNCHANGED <<script, served, file, ended>>
    BY <1>3 DEF Start, To
  <2>2. Shaped
    BY DEF CliInv, Progress
  <2>3. run'.at = "password"
    BY <2>1, <2>2 DEF Shaped
  <2>4. Inputs' /\ Outcomes' /\ Standing'
    BY <1>1, <2>1, <2>3, GoesOn
  <2>5. Progress'
    BY <1>1, <1>3, <2>1, <2>2, <2>3 DEF CliInv, Progress, Shaped, SearchPhases, Searching, args
  <2>6. Collected' /\ Connected'
    BY <1>1, <2>1, <2>2, <2>3
       DEF CliInv, Collected, Connected, Shaped, SearchPhases, Bounds, Connections
  <2> QED
    BY <2>4, <2>5, <2>6 DEF CliInv
<1> QED
  BY <1>2, <1>3

Failing == {"password", "dial", "upgrade", "handshake", "bind"}

\* On the way to the first request.
LEMMA ConnectingKeeps ==
    ASSUME CliInv, Searching, run.at \in Failing, UNCHANGED <<script, served, file, ended>>,
           NEW at \in {"dial", "upgrade", "handshake", "bind", "collect"},
           NEW pw \in {"empty", "secret"}, NEW tls, NEW bound,
           run' = [run EXCEPT !.at = at, !.pw = pw, !.tls = tls, !.bound = bound],
           at \in {"bind", "collect"} => tls = Apply(args).tls,
           at \notin {"bind", "collect"} => tls = "none",
           at = "collect" => bound = Apply(args).bind,
           at # "collect" => bound = "none",
           bound = "simple" => pw = "secret"
    PROVE  CliInv'
<1>1. Shaped /\ run.from = 0 /\ run.all = <<>> /\ 0 \in 0 .. Len(served)
  BY DEF CliInv, Progress, Collected, Bounds, Failing
<1>2. /\ run'.at = at /\ run'.pw = pw /\ run'.tls = tls /\ run'.bound = bound
      /\ run'.from = 0 /\ run'.all = <<>> /\ run'.noted = run.noted
      /\ args' = args
  BY <1>1 DEF Shaped, args
<1>3. Shaped'
  BY <1>1 DEF Shaped
<1>4. Inputs' /\ Outcomes' /\ Standing'
  <2>1. run'.at # "start" /\ run.at # "writing"
    BY <1>2 DEF Failing
  <2> QED
    BY <2>1, GoesOn
<1>5. Progress'
  BY <1>2, <1>3 DEF CliInv, Progress, SearchPhases, Failing, Usage, ResolveTarget
<1>6. Collected'
  <2>1. SubSeq(served, 1, 0) = <<>>
    BY DEF CliInv, Inputs, Listed
  <2> QED
    BY <1>1, <1>2, <2>1 DEF Collected, Bounds
<1>7. Connected'
  BY <1>2 DEF Connected, Apply, Connections, Bounds
<1> QED
  BY <1>3, <1>4, <1>5, <1>6, <1>7 DEF CliInv

LEMMA ConnectingFails ==
    ASSUME CliInv, Searching, Fail
    PROVE  CliInv'
BY FailKeeps DEF CliInv, Searching, Fail

LEMMA ConnectingFacts ==
    ASSUME CliInv, run.at \in Failing
    PROVE  /\ Shaped
           /\ run.tls = IF run.at = "bind" THEN Apply(args).tls ELSE "none"
           /\ run.bound = "none"
           /\ run.at # "password" => run.pw \in {"empty", "secret"}
BY DEF CliInv, Progress, Connected, Failing, Bounds, Connections

LEMMA AskPasswordKeeps ==
    ASSUME CliInv, AskPassword
    PROVE  CliInv'
<1>1. Searching /\ run.at = "password" /\ script # <<>>
  BY DEF AskPassword, At, Searching
<1>2. {args.pwFile, args.pwStdin, args.pwEnv} \subseteq Sources
  BY <1>1, SearchFacts DEF Sourced
<1>3. Password(args) \in Sources
  BY <1>2 DEF Password, Sources
<1>4. PICK pw : /\ pw \in Sources
                /\ IF pw = "unreadable" THEN End(1, <<>>) /\ UNCHANGED file
                   ELSE /\ run' = [run EXCEPT !.at = "dial", !.pw = IF pw = "off" THEN "empty" ELSE pw]
                        /\ UNCHANGED <<script, served, file, ended>>
  BY <1>3 DEF AskPassword, Sources
<1>5. CASE pw = "unreadable"
  BY <1>1, <1>4, <1>5, FailKeeps DEF CliInv
<1>6. CASE pw # "unreadable"
  <2>1. PICK known : known = IF pw = "off" THEN "empty" ELSE pw
    OBVIOUS
  <2>2. known \in {"empty", "secret"}
    BY <1>4, <1>6, <2>1 DEF Sources
  <2>3. Shaped /\ run.tls = "none" /\ run.bound = "none" /\ run.at \in Failing
    BY <1>1, ConnectingFacts DEF Failing
  <2>4. run' = [run EXCEPT !.at = "dial", !.pw = known, !.tls = "none", !.bound = "none"]
    BY <1>4, <1>6, <2>1, <2>3 DEF Shaped
  <2> QED
    BY <1>1, <1>4, <1>6, <2>2, <2>3, <2>4, ConnectingKeeps
<1> QED
  BY <1>5, <1>6

\* To, on the way.
LEMMA ToKeeps ==
    ASSUME CliInv, Searching, run.at \in Failing \ {"password"},
           NEW at \in {"upgrade", "handshake", "bind"}, To(at),
           at = "bind" => run.at = "dial" /\ Apply(args).tls = "none", run.at # "bind"
    PROVE  CliInv'
<1>1. /\ Shaped /\ run.tls = "none" /\ run.bound = "none" /\ run.at \in Failing
      /\ run.pw \in {"empty", "secret"}
  BY ConnectingFacts
<1>2. run' = [run EXCEPT !.at = at] /\ UNCHANGED <<script, served, file, ended>>
  BY DEF To
<1>3. PICK pw : pw = run.pw
  OBVIOUS
<1>4. run' = [run EXCEPT !.at = at, !.pw = pw, !.tls = "none", !.bound = "none"]
  BY <1>1, <1>2, <1>3 DEF Shaped
<1>5. at \in {"bind", "collect"} => "none" = Apply(args).tls
  OBVIOUS
<1>6. at # "collect" /\ "none" # "simple" /\ pw \in {"empty", "secret"}
      /\ at \in {"dial", "upgrade", "handshake", "bind", "collect"}
  BY <1>1, <1>3
<1> QED
  BY <1>1, <1>2, <1>4, <1>5, <1>6, ConnectingKeeps

LEMMA DialKeeps ==
    ASSUME CliInv, Dial
    PROVE  CliInv'
<1>1. Searching /\ run.at = "dial" /\ run.at \in SearchPhases /\ run.at \in Failing \ {"password"}
  BY DEF Dial, At, SearchPhases, Failing
<1>2. Apply(args).tls \in {"none", "starttls", "implicit"}
  BY <1>1, SearchFacts
<1>3. CASE Fail
  BY <1>1, <1>3, ConnectingFails
<1>4. CASE To("upgrade")
  BY <1>1, <1>4, ToKeeps
<1>5. CASE To("handshake")
  BY <1>1, <1>5, ToKeeps
<1>6. CASE To("bind") /\ Apply(args).tls = "none"
  BY <1>1, <1>6, ToKeeps
<1>7. Fail \/ To("upgrade") \/ To("handshake") \/ (To("bind") /\ Apply(args).tls = "none")
  BY <1>2 DEF Dial
<1> QED
  BY <1>3, <1>4, <1>5, <1>6, <1>7

LEMMA UpgradeKeeps ==
    ASSUME CliInv, StartTLSExchange
    PROVE  CliInv'
<1>1. Searching /\ run.at = "upgrade" /\ run.at \in Failing \ {"password"}
  BY DEF StartTLSExchange, At, Failing
<1>2. CASE Fail
  BY <1>1, <1>2, ConnectingFails
<1>3. CASE To("handshake")
  BY <1>1, <1>3, ToKeeps
<1> QED
  BY <1>2, <1>3 DEF StartTLSExchange

LEMMA HandshakeKeeps ==
    ASSUME CliInv, Handshake
    PROVE  CliInv'
<1>1. Searching /\ run.at = "handshake" /\ run.at \in Failing
  BY DEF Handshake, At, Failing
<1>2. CASE Fail
  BY <1>1, <1>2, ConnectingFails
<1>3. CASE /\ run' = [run EXCEPT !.at = "bind", !.tls = Apply(args).tls]
           /\ UNCHANGED <<script, served, file, ended>>
  <2>1. Shaped /\ run.bound = "none" /\ run.pw \in {"empty", "secret"}
    BY <1>1, ConnectingFacts
  <2>2. PICK pw, tls : pw = run.pw /\ tls = Apply(args).tls
    OBVIOUS
  <2>3. run' = [run EXCEPT !.at = "bind", !.pw = pw, !.tls = tls, !.bound = "none"]
    BY <1>3, <2>1, <2>2 DEF Shaped
  <2>4. pw \in {"empty", "secret"}
    BY <2>1, <2>2
  <2>5. /\ "bind" \in {"dial", "upgrade", "handshake", "bind", "collect"}
        /\ "bind" \in {"bind", "collect"} /\ "bind" # "collect" /\ "none" # "simple"
    OBVIOUS
  <2> QED
    BY <1>1, <1>3, <2>2, <2>3, <2>4, <2>5, ConnectingKeeps, Zenon
<1> QED
  BY <1>2, <1>3 DEF Handshake

LEMMA BindKeeps ==
    ASSUME CliInv, Bind
    PROVE  CliInv'
<1>1. Searching /\ run.at = "bind" /\ run.at \in Failing
  BY DEF Bind, At, Failing
<1>2. CASE Fail
  BY <1>1, <1>2, ConnectingFails
<1>3. CASE /\ ~NeedsPassword(Apply(args).bind)
           /\ run' = [run EXCEPT !.at = "collect", !.bound = Apply(args).bind]
           /\ UNCHANGED <<script, served, file, ended>>
  <2>1. Shaped /\ run.tls = Apply(args).tls /\ run.pw \in {"empty", "secret"}
    BY <1>1, ConnectingFacts
  <2>2. PICK pw, tls, bound : pw = run.pw /\ tls = Apply(args).tls /\ bound = Apply(args).bind
    OBVIOUS
  <2>3. run' = [run EXCEPT !.at = "collect", !.pw = pw, !.tls = tls, !.bound = bound]
    BY <1>3, <2>1, <2>2 DEF Shaped
  <2>4. bound = "simple" => pw = "secret"
    BY <1>3, <2>1, <2>2 DEF NeedsPassword
  <2>5. pw \in {"empty", "secret"}
    BY <2>1, <2>2
  <2>6. /\ "collect" \in {"dial", "upgrade", "handshake", "bind", "collect"}
        /\ "collect" \in {"bind", "collect"}
    OBVIOUS
  <2> QED
    BY <1>1, <1>3, <2>2, <2>3, <2>4, <2>5, <2>6, ConnectingKeeps, Zenon
<1> QED
  BY <1>2, <1>3 DEF Bind

-----------------------------------------------------------------------------
(* The pages.                                                              *)

LEMMA DoneKeeps ==
    ASSUME CliInv, Searching, run.at = "asked", UNCHANGED <<script, served, file, ended>>,
           NEW all, NEW partial \in BOOLEAN, Complete(args, all, partial),
           run' = [run EXCEPT !.at = "output", !.noted = partial, !.text = <<>>, !.all = all]
    PROVE  CliInv'
<1>1. Shaped
  BY DEF CliInv, Progress
<1>2. /\ run'.at = "output" /\ run'.all = all /\ run'.noted = partial /\ run'.pw = run.pw
      /\ run'.tls = run.tls /\ run'.bound = run.bound /\ run'.from = run.from /\ args' = args
  BY <1>1 DEF Shaped, args
<1>3. Shaped'
  BY <1>1 DEF Shaped
<1>4. Inputs' /\ Outcomes' /\ Standing'
  BY <1>2, GoesOn
<1>5. Progress'
  BY <1>2, <1>3 DEF CliInv, Progress, SearchPhases, Usage, ResolveTarget
<1>6. Collected'
  BY <1>2 DEF CliInv, Collected, Complete, Bounds
<1>7. Connected'
  BY <1>2 DEF CliInv, Connected, Apply, Connections, Bounds
<1> QED
  BY <1>4, <1>5, <1>6, <1>7 DEF CliInv

LEMMA TurnKeeps ==
    ASSUME CliInv, Searching, run.at \in {"collect", "asked"}, UNCHANGED <<script, served, file, ended>>,
           NEW at \in {"collect", "asked"},
           NEW all, NEW from \in 0 .. Len(served), all = SubSeq(served, 1, from),
           run' = [run EXCEPT !.at = at, !.all = all, !.from = from]
    PROVE  CliInv'
<1>1. Shaped
  BY DEF CliInv, Progress
<1>2. /\ run'.at = at /\ run'.all = all /\ run'.noted = run.noted /\ run'.pw = run.pw
      /\ run'.tls = run.tls /\ run'.bound = run.bound /\ run'.from = from /\ args' = args
  BY <1>1 DEF Shaped, args
<1>3. Shaped'
  BY <1>1 DEF Shaped
<1>4. Inputs' /\ Outcomes' /\ Standing'
  BY <1>2, GoesOn
<1>5. Progress'
  BY <1>2, <1>3 DEF CliInv, Progress, SearchPhases, Usage, ResolveTarget
<1>6. Collected'
  BY <1>2 DEF CliInv, Collected, Bounds
<1>7. Connected'
  BY <1>2 DEF CliInv, Connected, Apply, Connections, Bounds
<1> QED
  BY <1>4, <1>5, <1>6, <1>7 DEF CliInv

LEMMA RequestKeeps ==
    ASSUME CliInv, Request
    PROVE  CliInv'
<1>1. /\ Searching /\ run.at = "collect" /\ run' = [run EXCEPT !.at = "asked"]
      /\ UNCHANGED <<script, served, file, ended>>
  BY DEF Request, At, To
<1>2. Shaped /\ run.from \in 0 .. Len(served) /\ run.all = SubSeq(served, 1, run.from)
  BY <1>1 DEF CliInv, Progress, Collected
<1>3. PICK all, from : all = run.all /\ from = run.from
  OBVIOUS
<1>4. run' = [run EXCEPT !.at = "asked", !.all = all, !.from = from]
  BY <1>1, <1>2, <1>3 DEF Shaped
<1>5. /\ from \in 0 .. Len(served) /\ all = SubSeq(served, 1, from)
      /\ "asked" \in {"collect", "asked"} /\ run.at \in {"collect", "asked"}
  BY <1>1, <1>2, <1>3
<1> QED
  BY <1>1, <1>4, <1>5, TurnKeeps, Zenon

\* What is there after one answer, however many entries came.
LEMMA GatheredFacts ==
    ASSUME CliInv, Searching, run.at = "asked", NEW n \in 0 .. PageSize(Len(served) - run.from),
           NEW all, all = run.all \o SubSeq(served, run.from + 1, run.from + n)
    PROVE  /\ run.from + n \in 0 .. Len(served)
           /\ all = SubSeq(served, 1, run.from + n) /\ Len(all) = run.from + n /\ IsPrefix(all, served)
           /\ \A l \in Int : l > 0 /\ Len(all) >= l =>
                Len(Upto(all, l)) = l /\ IsPrefix(Upto(all, l), served)
<1>1. Listed(served) /\ run.from \in 0 .. Len(served) /\ run.all = SubSeq(served, 1, run.from)
  BY DEF CliInv, Inputs, Collected
<1>2. Len(served) \in Nat /\ run.from \in Nat
  BY <1>1 DEF Listed
<1>3. args.page \in Int
  BY SearchFacts DEF Sourced
<1>4. n \in 0 .. Len(served) - run.from
  BY <1>1, <1>2, <1>3 DEF PageSize, Min2
<1>5. PICK m : m = run.from
  OBVIOUS
<1>6. m + n \in 0 .. Len(served) /\ all = SubSeq(served, 1, m + n)
  BY <1>1, <1>4, <1>5, PageFacts
<1>7. Len(all) = m + n /\ IsPrefix(all, served)
      /\ \A l \in 0 .. m + n : Upto(all, l) = SubSeq(served, 1, l)
  BY <1>1, <1>6, BeginningFacts
<1>8. ASSUME NEW l \in Int, l > 0, Len(all) >= l
      PROVE  Len(Upto(all, l)) = l /\ IsPrefix(Upto(all, l), served)
  <2>1. l \in 0 .. m + n /\ l \in 0 .. Len(served)
    BY <1>2, <1>6, <1>7, <1>8
  <2> QED
    BY <1>1, <1>7, <2>1, BeginningFacts
<1> QED
  BY <1>5, <1>6, <1>7, <1>8

LEMMA CollectKeeps ==
    ASSUME CliInv, Collect
    PROVE  CliInv'
<1>1. /\ Searching /\ run.at = "asked" /\ script # <<>> /\ args.limit \in Int
      /\ UNCHANGED file /\ Len(served) \in Nat /\ run.from \in 0 .. Len(served)
  <2>1. Searching /\ run.at = "asked" /\ UNCHANGED file
    BY DEF Collect, At
  <2> QED
    BY <2>1, SearchFacts DEF Sourced, CliInv, Inputs, Listed, Collected
<1>2. PICK n \in 0 .. PageSize(Len(served) - run.from), more \in BOOLEAN,
           answer \in {"success", "limit", "error"} :
        LET left == Len(served) - run.from
            all == run.all \o SubSeq(served, run.from + 1, run.from + n)
            res == SearchEx(answer, n)
            partial == res = "partial"
            done(es) == run' = [run EXCEPT !.at = "output", !.noted = partial,
                                           !.text = <<>>, !.all = es]
        IN  /\ answer = "success" =>
                  /\ n < left => more
                  /\ more => args.page > 0
                  /\ args.page <= 0 => n = left
            /\ answer # "success" => ~more
            /\ IF res = "error" THEN End(1, <<>>)
               ELSE /\ CASE partial -> done(all)
                         [] ~partial /\ Enough(all) -> done(Upto(all, args.limit))
                         [] ~partial /\ ~Enough(all) /\ ~more -> done(all)
                         [] OTHER -> run' = [run EXCEPT !.at = "collect", !.all = all,
                                                        !.from = Follow(run.from + n)]
                    /\ UNCHANGED <<script, served, ended>>
  BY DEF Collect
<1>3. PICK all : all = run.all \o SubSeq(served, run.from + 1, run.from + n)
  OBVIOUS
<1>4. PICK m : m = run.from + n
  OBVIOUS
<1>5. PICK res : res = SearchEx(answer, n)
  OBVIOUS
<1>6. /\ answer = "success" /\ n < Len(served) - run.from => more
      /\ IF res = "error" THEN End(1, <<>>)
         ELSE /\ \/ /\ res = "partial"
                    /\ run' = [run EXCEPT !.at = "output", !.noted = TRUE, !.text = <<>>, !.all = all]
                 \/ /\ res # "partial" /\ Enough(all)
                    /\ run' = [run EXCEPT !.at = "output", !.noted = FALSE, !.text = <<>>,
                                          !.all = Upto(all, args.limit)]
                 \/ /\ res # "partial" /\ ~Enough(all) /\ ~more
                    /\ run' = [run EXCEPT !.at = "output", !.noted = FALSE, !.text = <<>>, !.all = all]
                 \/ run' = [run EXCEPT !.at = "collect", !.all = all, !.from = m]
              /\ UNCHANGED <<script, served, ended>>
  BY <1>2, <1>3, <1>4, <1>5 DEF Follow
<1>7. /\ m \in 0 .. Len(served)
      /\ all = SubSeq(served, 1, m) /\ Len(all) = m /\ IsPrefix(all, served)
      /\ \A l \in Int : l > 0 /\ Len(all) >= l =>
           Len(Upto(all, l)) = l /\ IsPrefix(Upto(all, l), served)
  BY <1>1, <1>3, <1>4, GatheredFacts
<1>8. CASE res = "error"
  BY <1>1, <1>6, <1>8, FailKeeps DEF CliInv
<1>9. CASE /\ res = "partial" /\ UNCHANGED <<script, served, ended>>
            /\ run' = [run EXCEPT !.at = "output", !.noted = TRUE, !.text = <<>>, !.all = all]
  <2>1. Complete(args, all, TRUE)
    BY <1>7 DEF Complete
  <2> QED
    BY <1>1, <1>9, <2>1, DoneKeeps
<1>10. CASE /\ res # "partial" /\ Enough(all) /\ UNCHANGED <<script, served, ended>>
            /\ run' = [run EXCEPT !.at = "output", !.noted = FALSE, !.text = <<>>,
                                  !.all = Upto(all, args.limit)]
  <2>1. PICK es : es = Upto(all, args.limit)
    OBVIOUS
  <2>2. args.limit > 0 /\ Len(es) = args.limit /\ IsPrefix(es, served)
    BY <1>1, <1>7, <1>10, <2>1 DEF Enough
  <2>3. Complete(args, es, FALSE)
    BY <1>1, <2>2 DEF Complete
  <2> QED
    BY <1>1, <1>10, <2>1, <2>3, DoneKeeps
<1>11. CASE /\ res # "partial" /\ res # "error" /\ ~Enough(all) /\ ~more
            /\ UNCHANGED <<script, served, ended>>
            /\ run' = [run EXCEPT !.at = "output", !.noted = FALSE, !.text = <<>>, !.all = all]
  <2>1. answer = "success"
    BY <1>5, <1>11 DEF SearchEx
  <2>2. ~(n < Len(served) - run.from) /\ n \in Int
    BY <1>6, <1>11, <2>1
  <2>3. m = Len(served)
    BY <1>1, <1>4, <1>7, <2>2
  <2>4. Complete(args, all, FALSE)
    BY <1>1, <1>7, <1>11, <2>3 DEF Complete, Enough
  <2> QED
    BY <1>1, <1>11, <2>4, DoneKeeps
<1>12. CASE /\ UNCHANGED <<script, served, ended>>
            /\ run' = [run EXCEPT !.at = "collect", !.all = all, !.from = m]
  BY <1>1, <1>7, <1>12, TurnKeeps
<1> QED
  BY <1>6, <1>8, <1>9, <1>10, <1>11, <1>12, Zenon

-----------------------------------------------------------------------------
(* What is printed and written.                                            *)

LEMMA OutputKeeps ==
    ASSUME CliInv, Output
    PROVE  CliInv'
<1>1. /\ Searching /\ run.at = "output" /\ script # <<>> /\ args.cmd \in {"search", "export"}
      /\ Complete(args, run.all, run.noted)
  BY DEF Output, At, Searching, CliInv, Collected
<1>2. ASSUME NEW exit \in {1, 2}, End(exit, <<>>), UNCHANGED file PROVE CliInv'
  BY <1>1, <1>2, FailKeeps DEF CliInv
<1>3. CASE args.cmd = "search" /\ End(0, Render(args.format, run.all)) /\ UNCHANGED file
  <2>1. PICK o : o = Outcome(0, Render(args.format, run.all))
    OBVIOUS
  <2>2. o.args = args /\ o.exit = 0 /\ o.all = run.all /\ o.noted = run.noted
    BY <2>1 DEF Outcome
  <2>3. Truthful(o)
    BY <1>1, <2>2 DEF Truthful, Succeeded
  <2>4. Stands(o)'
    BY <1>3, <2>2 DEF Stands, Succeeded
  <2>5. file'.there \in BOOLEAN
    BY <1>3 DEF CliInv, Inputs
  <2> QED
    BY <1>1, <1>3, <2>1, <2>3, <2>4, <2>5, EndKeeps DEF CliInv
<1>4. CASE /\ args.cmd = "export"
           /\ run' = [run EXCEPT !.at = "writing", !.text = Render(args.out, run.all)]
           /\ file' = Holding(<<>>)
           /\ UNCHANGED <<script, served, ended>>
  <2>1. Shaped
    BY DEF CliInv, Progress
  <2>2. /\ run'.at = "writing" /\ run'.all = run.all /\ run'.noted = run.noted /\ run'.pw = run.pw
        /\ run'.tls = run.tls /\ run'.bound = run.bound /\ run'.from = run.from
        /\ run'.text = Render(args.out, run.all) /\ args' = args
    BY <1>4, <2>1 DEF Shaped, args
  <2>3. Shaped'
    BY <1>4, <2>1 DEF Shaped
  <2>4. file'.there \in BOOLEAN
    BY <1>4 DEF Holding
  <2>5. Inputs' /\ Outcomes' /\ Standing'
    BY <1>4, <2>2, <2>4, GoesOn
  <2>6. Progress'
    BY <1>1, <1>4, <2>2, <2>3 DEF CliInv, Progress, SearchPhases, Usage, ResolveTarget, Render
  <2>7. Collected'
    BY <1>1, <1>4, <2>2 DEF CliInv, Collected, Complete, Bounds
  <2>8. Connected'
    BY <1>1, <1>4, <2>2 DEF CliInv, Connected, Apply, Connections, Bounds
  <2> QED
    BY <2>5, <2>6, <2>7, <2>8 DEF CliInv
<1> QED
  BY <1>1, <1>2, <1>3, <1>4 DEF Output, Fail

LEMMA WriteAllKeeps ==
    ASSUME CliInv, WriteAll
    PROVE  CliInv'
<1>1. /\ Searching /\ run.at = "writing" /\ script # <<>> /\ args.cmd = "export"
      /\ Complete(args, run.all, run.noted) /\ run.text = Render(args.out, run.all)
      /\ file' = Holding(run.text) /\ End(0, <<>>)
  BY DEF WriteAll, At, Searching, CliInv, Collected, Progress
<1>2. PICK o : o = Outcome(0, <<>>)
  OBVIOUS
<1>3. o.args = args /\ o.exit = 0 /\ o.all = run.all /\ o.noted = run.noted
  BY <1>2 DEF Outcome
<1>4. Truthful(o)
  BY <1>1, <1>3 DEF Truthful, Succeeded
<1>5. Stands(o)'
  <2>1. file' = Holding(Render(o.args.out, o.all))
    BY <1>1, <1>3
  <2> QED
    BY <1>1, <1>3, <2>1 DEF Stands, Holding, Render
<1>6. file'.there \in BOOLEAN
  BY <1>1 DEF Holding
<1> QED
  BY <1>1, <1>2, <1>4, <1>5, <1>6, EndKeeps DEF CliInv

LEMMA WriteSomeKeeps ==
    ASSUME CliInv, WriteSome
    PROVE  CliInv'
<1>1. script # <<>> /\ End(1, <<>>) /\ file'.there \in BOOLEAN
  BY DEF WriteSome, At, Searching, Holding
<1>2. PICK o : o = Outcome(1, <<>>)
  OBVIOUS
<1>3. o.exit = 1 /\ o.out = <<>>
  BY <1>2 DEF Outcome
<1>4. Truthful(o)
  BY <1>3 DEF Truthful, Succeeded
<1>5. Stands(o)'
  BY <1>3 DEF Stands, Succeeded
<1> QED
  BY <1>1, <1>2, <1>4, <1>5, EndKeeps DEF CliInv

-----------------------------------------------------------------------------
(* The other commands.                                                     *)

\* A command that asks no server ends well.
LEMMA AnsweredKeeps ==
    ASSUME CliInv, script # <<>>, args.cmd \in {"connect", "help"}, NEW out, End(0, out), UNCHANGED file
    PROVE  CliInv'
<1>1. PICK o : o = Outcome(0, out)
  OBVIOUS
<1>2. o.args = args /\ o.exit = 0
  BY <1>1 DEF Outcome
<1>3. Truthful(o)
  BY <1>2 DEF Truthful, Succeeded
<1>4. Stands(o)'
  BY <1>2 DEF Stands, Succeeded
<1>5. file'.there \in BOOLEAN
  BY DEF CliInv, Inputs
<1> QED
  BY <1>1, <1>3, <1>4, <1>5, EndKeeps DEF CliInv

LEMMA OthersKeep ==
    ASSUME CliInv, RunConnect \/ RunHelp \/ RunUnknown \/ Killed
    PROVE  CliInv'
<1>1. ASSUME NEW exit \in {1, 2, Interrupted}, script # <<>>, End(exit, <<>>), UNCHANGED file
      PROVE  CliInv'
  BY <1>1, FailKeeps DEF CliInv
<1>2. CASE RunConnect
  BY <1>1, <1>2, AnsweredKeeps DEF RunConnect
<1>3. CASE RunHelp
  BY <1>3, AnsweredKeeps DEF RunHelp
<1>4. CASE RunUnknown
  BY <1>1, <1>4 DEF RunUnknown
<1>5. CASE Killed
  BY <1>1, <1>5 DEF Killed
<1> QED
  BY <1>2, <1>3, <1>4, <1>5

LEMMA ReadLDIFKeeps ==
    ASSUME CliInv, ReadLDIF
    PROVE  CliInv'
<1>1. script # <<>> /\ args.cmd = "ldif" /\ run.at = "start" /\ UNCHANGED file
  BY DEF ReadLDIF, Reading
<1>2. ASSUME NEW exit \in {1, 2}, End(exit, <<>>) PROVE CliInv'
  BY <1>1, <1>2, FailKeeps DEF CliInv
<1>3. CASE /\ run' = [run EXCEPT !.at = "report", !.read = Parse(file.text)]
           /\ UNCHANGED <<script, served, ended>>
  <2>1. Shaped
    BY DEF CliInv, Progress
  <2>2. /\ run'.at = "report" /\ run'.all = run.all /\ run'.noted = run.noted /\ run'.pw = run.pw
        /\ run'.tls = run.tls /\ run'.bound = run.bound /\ run'.from = run.from
        /\ run'.read = Parse(file.text) /\ args' = args
    BY <1>3, <2>1 DEF Shaped, args
  <2>3. Shaped'
    BY <1>3, <2>1 DEF Shaped
  <2>4. Inputs' /\ Outcomes' /\ Standing'
    BY <1>1, <1>3, <2>2, GoesOn
  <2>5. Progress'
    BY <1>1, <1>3, <2>2, <2>3 DEF CliInv, Progress, SearchPhases
  <2>6. Collected'
    BY <1>1, <1>3, <2>2 DEF CliInv, Collected, Bounds
  <2>7. Connected'
    BY <1>1, <1>3, <2>2 DEF CliInv, Connected, Connections, Bounds
  <2> QED
    BY <2>4, <2>5, <2>6, <2>7 DEF CliInv
<1> QED
  BY <1>2, <1>3 DEF ReadLDIF

LEMMA ReportKeeps ==
    ASSUME CliInv, Report
    PROVE  CliInv'
<1>1. /\ script # <<>> /\ args.cmd = "ldif" /\ UNCHANGED file /\ file'.there \in BOOLEAN
      /\ run.read = Parse(file.text)
  BY DEF Report, Reading, CliInv, Progress, Inputs
<1>2. ASSUME NEW exit \in {1, 2}, End(exit, <<>>) PROVE CliInv'
  BY <1>1, <1>2, FailKeeps DEF CliInv
<1>3. ASSUME NEW out, End(0, out), ~args.validate, args.format # "" PROVE CliInv'
  <2>1. PICK o : o = Outcome(0, out)
    OBVIOUS
  <2>2. o.args = args /\ o.exit = 0
    BY <2>1 DEF Outcome
  <2>3. Truthful(o)
    BY <1>1, <2>2 DEF Truthful, Succeeded
  <2>4. Stands(o)'
    BY <1>1, <1>3, <2>2 DEF Stands, Succeeded
  <2> QED
    BY <1>1, <1>3, <2>1, <2>3, <2>4, EndKeeps DEF CliInv
<1>4. CASE ~(args.format # "" /\ ~args.validate) /\ run.read.ok
  <2>1. PICK exit, out : /\ exit = IF Errs(run.read.recs) = {} THEN 0 ELSE 1
                         /\ out = Summary(run.read.recs)
    OBVIOUS
  <2>2. End(exit, out)
    BY <1>4, <2>1 DEF Report
  <2>3. PICK o : o = Outcome(exit, out)
    OBVIOUS
  <2>4. o.args = args /\ o.exit = exit
    BY <2>3 DEF Outcome
  <2>5. Truthful(o)
    BY <1>1, <1>4, <2>1, <2>4 DEF Truthful, Succeeded
  <2>6. Stands(o)'
    <3>1. exit = 0 => \A i \in DOMAIN run.read.recs : ~Refused(run.read.recs, i)
      BY <2>1, NoErrsFacts
    <3>2. exit = 0 => \A i \in DOMAIN Parse(file.text).recs : ~Refused(Parse(file.text).recs, i)
      BY <1>1, <3>1
    <3>3. file' = file
      BY <1>1
    <3> QED
      BY <1>1, <2>4, <3>2, <3>3 DEF Stands, Succeeded
  <2> QED
    BY <1>1, <2>2, <2>3, <2>5, <2>6, EndKeeps DEF CliInv
<1> QED
  BY <1>2, <1>3, <1>4 DEF Report, PrintRecords

-----------------------------------------------------------------------------
(* The theorems.                                                           *)

LEMMA InitInv ==
    ASSUME Init
    PROVE  CliInv
<1>1. PICK s \in Shells : /\ script = s.script /\ served = s.served /\ file = s.file
                          /\ run = Idle /\ ended = <<>>
  BY DEF Init
<1>2. Inputs
  <2>1. Listed(served) /\ Listed(script)
    BY <1>1, ShellsAssumption DEF Listed
  <2>2. Listed(ended)
    <3>1. <<>> \in Seq(ToSet(<<>>))
      OBVIOUS
    <3> QED
      BY <1>1, <3>1 DEF Listed
  <2>3. file.there \in BOOLEAN
    <3>1. file \in {NoFile, Holding(file.text)}
      BY <1>1, ShellsAssumption
    <3>2. NoFile.there = FALSE /\ Holding(file.text).there = TRUE
      BY DEF NoFile, Holding
    <3> QED
      BY <3>1, <3>2
  <2>4. ASSUME NEW a \in ToSet(script) PROVE Sourced(a)
    <3>1. a \in ToSet(s.script)
      BY <1>1
    <3> QED
      BY <3>1, ShellsAssumption DEF Sourced
  <2> QED
    BY <2>1, <2>2, <2>3, <2>4 DEF Inputs
<1>3. Len(served) \in Nat
  BY <1>2 DEF Inputs, Listed
<1>4. Progress /\ Collected /\ Connected
  BY <1>1, <1>3 DEF Idle, Progress, Shaped, SearchPhases, Collected, Connected, Bounds, Connections
<1>5. Outcomes /\ Standing
  BY <1>1 DEF Outcomes, Standing, Written, Validated
<1> QED
  BY <1>2, <1>4, <1>5 DEF CliInv

LEMMA NextKeeps ==
    ASSUME CliInv, [Next]_vars
    PROVE  CliInv'
<1>1. CASE UNCHANGED vars
  <2>1. /\ script' = script /\ served' = served /\ run' = run /\ file' = file /\ ended' = ended
        /\ args' = args
    BY <1>1 DEF vars, args
  <2>2. Inputs' /\ Outcomes'
    BY <2>1 DEF CliInv, Inputs, Listed, Outcomes, Truthful, Complete, Succeeded
  <2>3. Progress'
    BY <2>1 DEF CliInv, Progress, Shaped, Usage, ResolveTarget, Render
  <2>4. Collected' /\ Connected'
    BY <2>1 DEF CliInv, Collected, Complete, Connected, Apply
  <2>5. Standing'
    BY <2>1 DEF CliInv, Standing, Written, Validated, Succeeded, Idle
  <2> QED
    BY <2>2, <2>3, <2>4, <2>5 DEF CliInv
<1>2. CASE Ask
  BY <1>2, StartKeeps, AskPasswordKeeps, DialKeeps, UpgradeKeeps, HandshakeKeeps, BindKeeps,
     RequestKeeps, CollectKeeps DEF Ask
<1>3. CASE Output \/ WriteAll \/ WriteSome
  BY <1>3, OutputKeeps, WriteAllKeeps, WriteSomeKeeps
<1>4. CASE ReadLDIF \/ Report
  BY <1>4, ReadLDIFKeeps, ReportKeeps
<1>5. CASE RunConnect \/ RunHelp \/ RunUnknown \/ Killed
  BY <1>5, OthersKeep
<1> QED
  BY <1>1, <1>2, <1>3, <1>4, <1>5 DEF Next

LEMMA InvAlways == Spec => []CliInv
BY InitInv, NextKeeps, PTL DEF Spec

LEMMA InvTypes ==
    ASSUME CliInv
    PROVE  TypeOK
<1>1. Len(served) \in Nat
  BY DEF CliInv, Inputs, Listed
<1>2. run.tls \in {"none", "starttls", "implicit"} /\ run.bound \in {"none", "anonymous", "simple", "sasl"}
  <2>1. CASE run.at \in SearchPhases
    BY <2>1, SearchFacts DEF CliInv, Progress, Connected, Searching, SearchPhases
  <2>2. CASE run.at \notin SearchPhases
    BY <2>2 DEF CliInv, Connected, SearchPhases, Bounds
  <2> QED
    BY <2>1, <2>2
<1>3. Len(run.all) <= Len(served)
  <2>1. CASE run.at \notin Bounds
    BY <1>1, <2>1 DEF CliInv, Collected
  <2>2. CASE run.at \in {"collect", "asked"}
    <3>1. Listed(served) /\ run.from \in 0 .. Len(served) /\ run.all = SubSeq(served, 1, run.from)
      BY <2>2 DEF CliInv, Inputs, Collected
    <3> QED
      BY <1>1, <3>1, BeginningFacts
  <2>3. CASE run.at \in {"output", "writing"}
    BY <2>3 DEF CliInv, Collected, Complete, IsPrefix
  <2> QED
    BY <2>1, <2>2, <2>3 DEF Bounds
<1> QED
  BY <1>2, <1>3 DEF TypeOK, CliInv, Inputs, Progress, Collected, Connected, Outcomes, Truthful, SearchPhases

LEMMA InvCareful ==
    ASSUME CliInv
    PROVE  Careful
<1>1. CASE run.bound = "none"
  BY <1>1 DEF Careful
<1>2. CASE run.bound # "none"
  <2>1. /\ run.at \in Bounds /\ run.tls = Apply(args).tls
        /\ run.bound = "simple" => run.pw = "secret"
    BY <1>2 DEF CliInv, Connected
  <2>2. args.target \in DOMAIN Targets
    BY <2>1 DEF CliInv, Progress, SearchPhases, Bounds, Usage, ResolveTarget
  <2> QED
    BY <2>1, <2>2, ApplyFacts DEF Careful
<1> QED
  BY <1>1, <1>2

\* The phases of a command, its connection, cookie and collection stay of their
\* types, and no command holds more entries than were served (cli.go:254-428).
THEOREM CommandsTyped == Spec => []TypeOK
BY InvAlways, InvTypes, PTL

\* Exit code 0 comes with the server's answer and failure with no output; a bind
\* with a name has a password and the TLS that was asked for; a file stands as
\* it was written, and a file without errors has no record to refuse
\* (cli.go:106-178, 254-477; format.go:108-121; validate.go:28-118).
THEOREM OutputStaysHonest == Spec => []OutputHonest
<1>1. CliInv => Answered /\ Silent
  BY DEF CliInv, Outcomes, Truthful, Complete, Answered, Silent
<1>2. CliInv => OutputHonest
  BY <1>1, InvCareful DEF CliInv, Standing, OutputHonest
<1> QED
  BY <1>2, InvAlways, PTL
=============================================================================
