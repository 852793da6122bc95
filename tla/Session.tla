------------------------------ MODULE Session ------------------------------
(***************************************************************************)
(* The connection life cycle of the terminal UI (internal/tui/app.go,      *)
(* actions.go, password.go, connections.go, overlay.go).                   *)
(*                                                                         *)
(* App.Update handles one message at a time; everything slow runs in a     *)
(* goroutine (a tea.Cmd) that captures what it needs when it is created    *)
(* and posts one message when it ends.  No message names the session it    *)
(* belongs to and messages are delivered in any order.  Here                *)
(*   - attempt[c] is the connectCmd that opens connection c, from the      *)
(*     doConnectMsg that asks for it to the result that is delivered;      *)
(*   - write[w] is one modification of the directory, from the key that    *)
(*     asks for it, through roBlock, the confirmation and roBlock again,   *)
(*     to the goroutine that sends its requests and its result;            *)
(*   - loads[c] counts the Schema() goroutines that run on connection c;   *)
(*   - inbox counts the other messages posted and not yet delivered.       *)
(***************************************************************************)
EXTENDS Integers, FiniteSets

CONSTANTS
    Clients,            \* connections the program may open (bounds the attempts)
    Writes,             \* modifications the user may ask for (bounds them)
    Profiles,           \* saved connection profiles
    ReadOnlyProfiles,   \* those whose ReadOnly field is set
    Referral,           \* the profile followReferral builds: anonymous, not read-only
    None,
    MaxRecords,         \* longest LDIF import
    Keys,               \* messages the user posts (bounds the user)
    MaxPending          \* bound of the model on the keys pressed ahead of the loop

ASSUME ProfilesAssumption == ReadOnlyProfiles \subseteq Profiles /\ Referral \notin Profiles
ASSUME NoneAssumption ==
    /\ None \notin Clients \cup Writes \cup Profiles \cup {Referral, "message"}
    /\ None \notin [prof : Profiles \cup {Referral}, test : BOOLEAN]
ASSUME WritesAssumption == "message" \notin Writes
ASSUME BoundsAssumption == MaxRecords \in Nat \ {0} /\ MaxPending \in Nat

VARIABLES
    client, conf, readOnly,                     \* shared: the session
    schema, schemaLoading, wantSchema, loads,   \* shared: the schema of the session
    screen, pw, ov, connecting, initial,        \* App: what the user sees
    attempt, open,                              \* connections, and their sockets
    write,                                      \* modifications
    inbox,                                      \* messages posted
    running,                                    \* the process
    left                                        \* ghost: a disconnect or quit took the client

session == <<client, conf, readOnly>>
schemas == <<schema, schemaLoading, wantSchema, loads>>
ui == <<screen, pw, ov, connecting, initial>>
net == <<attempt, open>>
vars == <<session, schemas, ui, net, write, inbox, running, left>>

-----------------------------------------------------------------------------
AllProfiles == Profiles \cup {Referral}
Kinds == {"connect", "test", "referral"}
Screens == {"connections", "password", "browser", "search", "schema", "rootdse", "form"}
Overlays == Writes \cup {"message", None}

Msgs ==
    [type : {"connectRequest"}, prof : AllProfiles, test : BOOLEAN]
    \cup [type : {"cancelPrompt", "disconnect", "back", "goto", "openSearch", "openRootDSE",
                  "openSchema", "needSchema", "follow", "addEntry", "modDN", "formCancel",
                  "message"}]
Msg(t) == [type |-> t]

Phases == {"unused", "requested", "dialing", "securing", "binding", "bound", "failed", "current",
           "closed"}
WritePhases == {"unused", "asked", "opening", "shown", "confirmed", "running", "replied", "over"}

Prompts == [prof : AllProfiles, test : BOOLEAN]
Attempts == [phase : Phases, prof : AllProfiles \cup {None}, kind : Kinds]
Ahead == {"asked", "opening", "shown", "confirmed", "running"}
WriteStates ==
    {r \in [phase : WritePhases, kind : {"modify", "delete", "form", "import"},
            to : Clients \cup {None}, left : 0 .. MaxRecords, ok : BOOLEAN] :
       r.phase \in Ahead => r.left > 0}

TypeOK ==
    /\ client \in Clients \cup {None} /\ conf \in AllProfiles \cup {None} /\ readOnly \in BOOLEAN
    /\ schema \in Clients \cup {None} /\ schemaLoading \in BOOLEAN /\ wantSchema \in BOOLEAN
    /\ loads \in [Clients -> Nat]
    /\ screen \in Screens /\ ov \in Overlays /\ connecting \in BOOLEAN /\ initial \in BOOLEAN
    /\ pw \in Prompts \cup {None} /\ (screen = "password" => pw # None)
    /\ attempt \in [Clients -> Attempts]
    /\ open \subseteq Clients
    /\ write \in [Writes -> WriteStates]
    /\ inbox \in [Msgs -> Nat]
    /\ running \in {"running", "quitting", "quit", "crashed"} /\ left \in BOOLEAN

\* The program starts at the saved connections.  A target on the command line
\* is asked for at once, with or without the password prompt, and may come with
\* a search to run when it is connected.
Unused == [c \in Clients |-> [phase |-> "unused", prof |-> None, kind |-> "connect"]]
NoMessage == [m \in Msgs |-> 0]

Init ==
    /\ client = None /\ conf = None /\ readOnly = FALSE
    /\ schema = None /\ schemaLoading = FALSE /\ wantSchema = FALSE
    /\ loads = [c \in Clients |-> 0]
    /\ screen = "connections" /\ pw = None /\ ov = None /\ connecting = FALSE
    /\ open = {}
    /\ write = [w \in Writes |-> [phase |-> "unused", kind |-> "modify", to |-> None,
                                  left |-> 0, ok |-> FALSE]]
    /\ running = "running" /\ left = FALSE
    /\ \/ attempt = Unused /\ inbox = NoMessage /\ initial = FALSE
       \/ /\ initial \in BOOLEAN
          /\ \E p \in Profiles :
               \/ /\ \E c \in Clients : attempt = [Unused EXCEPT ![c].phase = "requested", ![c].prof = p]
                  /\ inbox = NoMessage
               \/ /\ attempt = Unused
                  /\ inbox = [NoMessage EXCEPT ![[type |-> "connectRequest", prof |-> p, test |-> FALSE]] = 1]

-----------------------------------------------------------------------------
(* Messages.                                                               *)

\* A program that is told to quit handles messages until the one that says so comes.
Up == running \in {"running", "quitting"}
Pending == {m \in Msgs : inbox[m] > 0}

Post(m) == inbox' = [inbox EXCEPT ![m] = @ + 1]
Take(m) == Up /\ inbox[m] > 0 /\ inbox' = [inbox EXCEPT ![m] = @ - 1]

\* A key of a screen posts a message; no key reaches a screen under an overlay.
OnScreen(s) == Up /\ ov = None /\ screen \in s
Press(s, m) ==
    /\ OnScreen(s) /\ m.type \in Keys /\ Cardinality(Pending) < MaxPending /\ Post(m)
    /\ UNCHANGED <<session, schemas, ui, net, write, running, left>>

\* Mutant of ConnCommand: the palette runs every command, connected or not.
ConnCommandUnchecked == Up

\* A command of the palette that needs a connection is refused without one
\* (runCommand).  It runs when the line typed is delivered (cmdMsg), whatever
\* is on the screen by then.
ConnCommand == Up /\ client # None
Command(m) ==
    /\ ConnCommand /\ m.type \in Keys /\ Cardinality(Pending) < MaxPending /\ Post(m)
    /\ UNCHANGED <<session, schemas, ui, net, write, running, left>>

ChooseProfile(p, t) == Press({"connections"}, [type |-> "connectRequest", prof |-> p, test |-> t])
Reconnect == Command([type |-> "connectRequest", prof |-> conf, test |-> FALSE])

UserPosts ==
    \/ \E p \in Profiles, t \in BOOLEAN : ChooseProfile(p, t)
    \/ Reconnect
    \/ Press({"password"}, Msg("cancelPrompt"))
    \/ Press({"form"}, Msg("formCancel"))
    \/ Press({"search", "schema", "rootdse"}, Msg("back"))
    \/ Press({"search"}, Msg("follow"))
    \/ Press({"form"}, Msg("needSchema"))
    \/ Press({"browser", "search", "rootdse"}, Msg("goto"))
    \/ \E t \in {"disconnect", "openSearch", "openRootDSE", "openSchema", "needSchema",
                 "addEntry", "modDN"} : Press({"browser"}, Msg(t))
    \/ \E t \in {"disconnect", "goto", "openSearch", "openRootDSE", "openSchema",
                 "addEntry", "modDN"} : Command(Msg(t))

-----------------------------------------------------------------------------
(* Connecting.                                                             *)

\* connectRequestMsg: the password prompt, whatever is connected now.
AskPassword(p, t) ==
    /\ Take([type |-> "connectRequest", prof |-> p, test |-> t])
    /\ pw' = [prof |-> p, test |-> t] /\ screen' = "password"
    /\ UNCHANGED <<session, schemas, ov, connecting, initial, net, write, running, left>>

\* Enter in the prompt, which stays open: enter again asks again.
SubmitPassword(c) ==
    /\ OnScreen({"password"}) /\ attempt[c].phase = "unused"
    /\ attempt' = [attempt EXCEPT ![c] = [phase |-> "requested", prof |-> pw.prof,
                                          kind |-> IF pw.test THEN "test" ELSE "connect"]]
    /\ UNCHANGED <<session, schemas, ui, open, write, inbox, running, left>>

CancelPrompt ==
    /\ Take(Msg("cancelPrompt"))
    /\ screen' = "connections"
    /\ UNCHANGED <<session, schemas, pw, ov, connecting, initial, net, write, running, left>>

SetPhase(c, ph) == attempt' = [attempt EXCEPT ![c].phase = ph]

\* doConnectMsg starts connectCmd.
DoConnect(c) ==
    /\ Up /\ attempt[c].phase = "requested"
    /\ SetPhase(c, "dialing") /\ connecting' = TRUE
    /\ UNCHANGED <<session, schemas, screen, pw, ov, initial, open, write, inbox, running, left>>

\* openFollowReferralMsg: followReferral starts followReferralConnectCmd and
\* does not set connecting.
FollowReferral(c) ==
    /\ Take(Msg("follow")) /\ attempt[c].phase = "unused"
    /\ attempt' = [attempt EXCEPT ![c] = [phase |-> "dialing", prof |-> Referral,
                                          kind |-> "referral"]]
    /\ UNCHANGED <<session, schemas, ui, open, write, running, left>>

\* ldapclient.Connect opens the socket, or the goroutine ends with its error.
Dial(c) ==
    /\ Up /\ attempt[c].phase = "dialing"
    /\ \/ SetPhase(c, "securing") /\ open' = open \cup {c}
       \/ SetPhase(c, "failed") /\ open' = open
    /\ UNCHANGED <<session, schemas, ui, write, inbox, running, left>>

\* Mutant of Secure: the socket is not closed when StartTLS or the handshake fails.
SecureLeaks(c) ==
    /\ Up /\ attempt[c].phase = "securing"
    /\ SetPhase(c, "binding") \/ SetPhase(c, "failed")
    /\ UNCHANGED <<session, schemas, ui, open, write, inbox, running, left>>

\* The TLS configuration, StartTLS and the handshake of Connect, as far as the
\* profile asks for them; a socket on which one of them fails is closed.
Secure(c) ==
    /\ Up /\ attempt[c].phase = "securing"
    /\ \/ SetPhase(c, "binding") /\ open' = open
       \/ SetPhase(c, "failed") /\ open' = open \ {c}
    /\ UNCHANGED <<session, schemas, ui, write, inbox, running, left>>

\* Bind; a connection that does not bind is closed.
Bind(c) ==
    /\ Up /\ attempt[c].phase = "binding"
    /\ \/ SetPhase(c, "bound") /\ open' = open
       \/ SetPhase(c, "failed") /\ open' = open \ {c}
    /\ UNCHANGED <<session, schemas, ui, write, inbox, running, left>>

\* connectResultMsg with an error, of a connect, a test or a referral alike.
ConnectFailed(c) ==
    /\ Up /\ attempt[c].phase = "failed"
    /\ SetPhase(c, "closed") /\ connecting' = FALSE /\ screen' = "connections"
    /\ UNCHANGED <<session, schemas, pw, ov, initial, open, write, inbox, running, left>>

\* Mutant of TestDone: the tested connection is not closed.
TestDoneOpen(c) ==
    /\ Up /\ attempt[c].phase = "bound" /\ attempt[c].kind = "test"
    /\ SetPhase(c, "closed") /\ open' = open
    /\ connecting' = FALSE /\ screen' = "connections"
    /\ Post(Msg("message"))
    /\ UNCHANGED <<session, schemas, pw, ov, initial, write, running, left>>

\* connectResultMsg of a test: the connection is closed again, a report opens.
TestDone(c) ==
    /\ Up /\ attempt[c].phase = "bound" /\ attempt[c].kind = "test"
    /\ SetPhase(c, "closed") /\ open' = open \ {c}
    /\ connecting' = FALSE /\ screen' = "connections"
    /\ Post(Msg("message"))
    /\ UNCHANGED <<session, schemas, pw, ov, initial, write, running, left>>

\* Mutants of Replace: the old connection is not closed; the profile of the
\* old connection stays.
ReplaceLeaks(c) ==
    /\ SetPhase(c, "current")
    /\ open' = open
    /\ client' = c /\ conf' = attempt[c].prof
    /\ schema' = None
ReplaceKeepsProfile(c) ==
    /\ attempt' = [x \in Clients |->
                     CASE x = c -> [attempt[x] EXCEPT !.phase = "current"]
                       [] x = client /\ x # c -> [attempt[x] EXCEPT !.phase = "closed"]
                       [] OTHER -> attempt[x]]
    /\ open' = open \ {client}
    /\ client' = c /\ conf' = IF conf = None THEN attempt[c].prof ELSE conf
    /\ schema' = None

\* closeClient, then the new client takes its place.
Replace(c) ==
    /\ attempt' = [x \in Clients |->
                     CASE x = c -> [attempt[x] EXCEPT !.phase = "current"]
                       [] x = client /\ x # c -> [attempt[x] EXCEPT !.phase = "closed"]
                       [] OTHER -> attempt[x]]
    /\ open' = open \ {client}
    /\ client' = c /\ conf' = attempt[c].prof
    /\ schema' = None

\* connectResultMsg of a connection to use.
Connected(c) ==
    /\ Up /\ attempt[c].phase = "bound" /\ attempt[c].kind = "connect"
    /\ Replace(c)
    /\ readOnly' = (attempt[c].prof \in ReadOnlyProfiles)
    /\ connecting' = FALSE /\ screen' = "browser"
    /\ IF initial THEN Post(Msg("openSearch")) /\ initial' = FALSE ELSE UNCHANGED <<inbox, initial>>
    /\ UNCHANGED <<schemaLoading, wantSchema, loads, pw, ov, write, running, left>>

\* referralConnectedMsg: the session moves to the referral's server, read-only.
ReferralConnected(c) ==
    /\ Up /\ attempt[c].phase = "bound" /\ attempt[c].kind = "referral"
    /\ Replace(c)
    /\ readOnly' = TRUE /\ screen' = "search"
    /\ UNCHANGED <<schemaLoading, wantSchema, loads, pw, ov, connecting, initial, write, inbox,
                   running, left>>

CloseClient ==
    /\ open' = open \ {client} /\ client' = None
    /\ attempt' = [x \in Clients |->
                     IF x = client THEN [attempt[x] EXCEPT !.phase = "closed"] ELSE attempt[x]]

\* disconnectMsg: browser, overlay, form and the goroutines are left as they are.
Disconnect ==
    /\ Take(Msg("disconnect"))
    /\ CloseClient
    /\ schema' = None /\ readOnly' = FALSE /\ screen' = "connections" /\ left' = TRUE
    /\ UNCHANGED <<conf, schemaLoading, wantSchema, loads, pw, ov, connecting, initial, write, running>>

\* ctrl+c and the quit command close the connection and ask for the message
\* that ends the loop; q in the list of connections asks for it only.
Quit ==
    /\ Up /\ "quit" \in Keys /\ running' = "quitting"
    /\ \/ CloseClient /\ left' = TRUE
       \/ OnScreen({"connections"}) /\ UNCHANGED <<net, client, left>>
    /\ UNCHANGED <<conf, readOnly, schemas, ui, write, inbox>>

\* QuitMsg, behind whatever was posted before it comes.
EndProgram ==
    /\ running = "quitting" /\ running' = "quit"
    /\ UNCHANGED <<session, schemas, ui, net, write, inbox, left>>

-----------------------------------------------------------------------------
(* Moving between screens.                                                 *)

Back ==
    /\ Take(Msg("back"))
    /\ screen' = IF client # None THEN "browser" ELSE "connections"
    /\ UNCHANGED <<session, schemas, pw, ov, connecting, initial, net, write, running, left>>

\* gotoMsg and openSearchMsg are refused when there is no connection.
OpenGuarded(t, s) ==
    /\ Take(Msg(t))
    /\ screen' = IF client # None THEN s ELSE screen
    /\ UNCHANGED <<session, schemas, pw, ov, connecting, initial, net, write, running, left>>

\* openRootDSEMsg uses the client without asking whether there is one.
OpenRootDSE ==
    /\ Take(Msg("openRootDSE"))
    /\ IF client # None THEN screen' = "rootdse" /\ running' = running
                        ELSE screen' = screen /\ running' = "crashed"
    /\ UNCHANGED <<session, schemas, pw, ov, connecting, initial, net, write, left>>

FormCancel ==
    /\ Take(Msg("formCancel"))
    /\ screen' = IF screen = "form" THEN "browser" ELSE screen
    /\ UNCHANGED <<session, schemas, pw, ov, connecting, initial, net, write, running, left>>

\* A key that reads the directory without a client; with one, what it does is
\* in Browser and Search.
ReadWithoutClient ==
    /\ OnScreen({"browser", "search"}) /\ client = None /\ running' = "crashed"
    /\ UNCHANGED <<session, schemas, ui, net, write, inbox, left>>

\* openOverlayMsg sets the overlay, whatever was open.
Covered(ph) ==
    [w \in Writes |-> IF ov = w THEN [write[w] EXCEPT !.phase = ph] ELSE write[w]]
OpenMessage ==
    /\ Take(Msg("message"))
    /\ ov' = "message" /\ write' = Covered("over")
    /\ UNCHANGED <<session, schemas, screen, pw, connecting, initial, net, running, left>>
CloseMessage ==
    /\ Up /\ ov = "message" /\ ov' = None
    /\ UNCHANGED <<session, schemas, screen, pw, connecting, initial, net, write, inbox, running, left>>

-----------------------------------------------------------------------------
(* The schema.                                                             *)

\* Mutant of LoadSchema: a load is started while another one runs.
LoadSchemaAgain ==
    IF client = None THEN UNCHANGED <<schemaLoading, loads>>
    ELSE schemaLoading' = TRUE /\ loads' = [loads EXCEPT ![client] = @ + 1]

\* loadSchemaCmd: one load at a time, and only when connected.
LoadSchema ==
    IF schemaLoading \/ client = None THEN UNCHANGED <<schemaLoading, loads>>
    ELSE schemaLoading' = TRUE /\ loads' = [loads EXCEPT ![client] = @ + 1]

OpenSchema ==
    /\ Take(Msg("openSchema"))
    /\ IF schema # None THEN screen' = "schema" /\ UNCHANGED <<schemaLoading, wantSchema, loads>>
                        ELSE wantSchema' = TRUE /\ LoadSchema /\ UNCHANGED screen
    /\ UNCHANGED <<session, schema, pw, ov, connecting, initial, net, write, running, left>>

NeedSchema ==
    /\ Take(Msg("needSchema"))
    /\ LoadSchema
    /\ UNCHANGED <<session, schema, wantSchema, ui, net, write, running, left>>

\* schemaLoadedMsg, from whichever connection the load ran on.
SchemaLoaded(c) ==
    /\ Up /\ loads[c] > 0
    /\ loads' = [loads EXCEPT ![c] = @ - 1]
    /\ schemaLoading' = FALSE /\ wantSchema' = FALSE
    /\ \/ UNCHANGED <<schema, screen>>
       \/ schema' = c /\ screen' = IF wantSchema THEN "schema" ELSE screen
    /\ UNCHANGED <<session, pw, ov, connecting, initial, net, write, inbox, running, left>>

-----------------------------------------------------------------------------
(* Modifying the directory.                                                *)

SetWrite(w, ph) == write' = [write EXCEPT ![w].phase = ph]

Asked(w, k, n, ph) ==
    /\ write[w].phase = "unused"
    /\ write' = [write EXCEPT ![w] = [phase |-> ph, kind |-> k, to |-> None, left |-> n, ok |-> FALSE]]

\* A key of the browser, or the delete or the import command, asks for a modification.
AskWrite(w, k, n) ==
    /\ \/ k \in {"modify", "delete"} /\ n = 1 /\ OnScreen({"browser"})
       \/ k = "delete" /\ n = 1 /\ ConnCommand
       \/ k = "import" /\ ConnCommand /\ ~readOnly
    /\ Asked(w, k, n, "asked")
    /\ UNCHANGED <<session, schemas, ui, net, inbox, running, left>>

\* editValueMsg, addValueMsg, delValueMsg, deleteEntryMsg: refused by roBlock,
\* else on the way to the confirmation.  importParsedMsg does not ask roBlock.
ReviewWrite(w) ==
    /\ Up /\ write[w].phase = "asked"
    /\ SetWrite(w, IF write[w].kind # "import" /\ readOnly THEN "over" ELSE "opening")
    /\ UNCHANGED <<session, schemas, ui, net, inbox, running, left>>

\* addEntryMsg and modDNMsg open a form; the one for a new entry needs a schema.
OpenForm(t) ==
    /\ Take(Msg(t))
    /\ IF readOnly THEN UNCHANGED <<screen, schemaLoading, loads>>
       ELSE /\ screen' = "form"
            /\ IF t = "addEntry" /\ schema = None THEN LoadSchema
                                                ELSE UNCHANGED <<schemaLoading, loads>>
    /\ UNCHANGED <<session, schema, wantSchema, pw, ov, connecting, initial, net, write, running, left>>

\* The form stays on the screen until the write it asks for is started, and
\* can be submitted again.
SubmitForm(w) ==
    /\ OnScreen({"form"})
    /\ Asked(w, "form", 1, "opening")
    /\ UNCHANGED <<session, schemas, ui, net, inbox, running, left>>

\* openOverlayMsg with the confirmation of w.
ShowConfirm(w) ==
    /\ Up /\ write[w].phase = "opening"
    /\ ov' = w
    /\ write' = [Covered("over") EXCEPT ![w].phase = "shown"]
    /\ UNCHANGED <<session, schemas, screen, pw, connecting, initial, net, inbox, running, left>>

Confirm(w) ==
    /\ Up /\ ov = w /\ write[w].phase = "shown" /\ ov' = None
    /\ SetWrite(w, "confirmed")
    /\ UNCHANGED <<session, schemas, screen, pw, connecting, initial, net, inbox, running, left>>

Refuse(w) ==
    /\ Up /\ ov = w /\ write[w].phase = "shown" /\ ov' = None
    /\ SetWrite(w, "over")
    /\ UNCHANGED <<session, schemas, screen, pw, connecting, initial, net, inbox, running, left>>

\* Mutant of DoWrite: the confirmation is taken for granted, roBlock is not asked again.
DoWriteUnchecked(w) ==
    /\ Up /\ write[w].phase = "confirmed"
    /\ write' = [write EXCEPT ![w].phase = "running", ![w].to = client]
    /\ screen' = IF write[w].kind = "form" THEN "browser" ELSE screen
    /\ UNCHANGED <<session, schemas, pw, ov, connecting, initial, net, inbox, running, left>>

\* doModifyMsg, doAddMsg, doDeleteMsg, doModDNMsg, doImportMsg: roBlock again,
\* then a goroutine on the client of this moment.
DoWrite(w) ==
    /\ Up /\ write[w].phase = "confirmed"
    /\ IF readOnly THEN SetWrite(w, "over") /\ UNCHANGED screen
       ELSE /\ write' = [write EXCEPT ![w].phase = "running", ![w].to = client]
            /\ screen' = IF write[w].kind = "form" THEN "browser" ELSE screen
    /\ UNCHANGED <<session, schemas, pw, ov, connecting, initial, net, inbox, running, left>>

\* One more request has been answered; the last one ends the goroutine.
Sent(r) ==
    [phase |-> IF r.left > 1 THEN "running" ELSE "replied", kind |-> r.kind, to |-> r.to,
     left |-> r.left - 1, ok |-> r.left = 1]

\* Mutants of WriteRequest: the loop of an import runs one record too far; a
\* request that fails is tried again for ever.
WriteRequestTooMany(w) ==
    /\ Up /\ write[w].phase = "running" /\ write[w].to \in open
    /\ write' = [write EXCEPT ![w].left = @ - 1,
                             ![w].phase = IF write[w].left > 0 THEN "running" ELSE "replied"]
    /\ UNCHANGED <<session, schemas, ui, net, inbox, running, left>>
WriteRequestRetries(w) ==
    /\ Up /\ write[w].phase = "running" /\ write[w].to \in open
    /\ write' = [write EXCEPT ![w] = Sent(@)]
    /\ UNCHANGED <<session, schemas, ui, net, inbox, running, left>>

\* The goroutine sends its next request.  A nil client ends the program; a
\* closed connection is an error; an import stops at its first error.
WriteRequest(w) ==
    /\ Up /\ write[w].phase = "running"
    /\ IF write[w].to = None THEN running' = "crashed" /\ UNCHANGED write
       ELSE /\ \/ /\ write[w].to \in open
                  /\ write' = [write EXCEPT ![w] = Sent(@)]
               \/ write' = [write EXCEPT ![w].phase = "replied"]
            /\ UNCHANGED running
    /\ UNCHANGED <<session, schemas, ui, net, inbox, left>>

\* opDoneMsg reads the entry, or lists its parent where the tree shows it, on
\* the client of this moment; importDoneMsg only reports.
Refreshes(k) ==
    CASE k = "import" -> {FALSE} [] k = "delete" -> BOOLEAN [] OTHER -> {TRUE}
WriteDone(w) ==
    /\ Up /\ write[w].phase = "replied"
    /\ SetWrite(w, "over")
    /\ \E r \in Refreshes(write[w].kind) :
         running' = IF write[w].ok /\ r /\ client = None THEN "crashed" ELSE running
    /\ UNCHANGED <<session, schemas, ui, net, inbox, left>>

\* :readonly on, and :readonly off, refused by a read-only profile.
ReadOnlyOn ==
    /\ ConnCommand /\ readOnly' = TRUE
    /\ UNCHANGED <<client, conf, schemas, ui, net, write, inbox, running, left>>
ReadOnlyOff ==
    /\ ConnCommand /\ conf \notin ReadOnlyProfiles /\ readOnly' = FALSE
    /\ UNCHANGED <<client, conf, schemas, ui, net, write, inbox, running, left>>

-----------------------------------------------------------------------------
\* Steps of the loop and of the goroutines; the rest is the user's.
ConnStep(c) ==
    DoConnect(c) \/ Dial(c) \/ Secure(c) \/ Bind(c) \/ ConnectFailed(c) \/ TestDone(c) \/ Connected(c)
    \/ ReferralConnected(c) \/ SchemaLoaded(c)
WriteStep(w) == ReviewWrite(w) \/ ShowConfirm(w) \/ DoWrite(w) \/ WriteRequest(w) \/ WriteDone(w)
Deliver ==
    \/ \E p \in AllProfiles, t \in BOOLEAN : AskPassword(p, t)
    \/ EndProgram \/ CancelPrompt \/ Disconnect \/ Back \/ OpenRootDSE \/ FormCancel \/ OpenMessage
    \/ OpenGuarded("goto", "browser") \/ OpenGuarded("openSearch", "search")
    \/ OpenSchema \/ NeedSchema \/ OpenForm("addEntry") \/ OpenForm("modDN")
    \/ \E c \in Clients : FollowReferral(c)
User ==
    \/ UserPosts \/ ReadWithoutClient \/ CloseMessage \/ Quit \/ ReadOnlyOn \/ ReadOnlyOff
    \/ \E c \in Clients : SubmitPassword(c)
    \/ \E w \in Writes :
         \/ \E k \in {"modify", "delete", "import"}, n \in 1 .. MaxRecords : AskWrite(w, k, n)
         \/ SubmitForm(w) \/ Confirm(w) \/ Refuse(w)

Next ==
    \/ \E c \in Clients : ConnStep(c)
    \/ \E w \in Writes : WriteStep(w)
    \/ Deliver
    \/ User

Spec == Init /\ [][Next]_vars

\* Every goroutine ends: dials, TLS and StartTLS exchanges have deadlines and
\* every request a timeout (Connect); the loop handles every message posted.
\* Nothing obliges the user.
Fairness ==
    /\ \A c \in Clients : WF_vars(ConnStep(c))
    /\ \A w \in Writes : WF_vars(WriteStep(w))
    /\ WF_vars(Deliver)

FairSpec == Spec /\ Fairness

-----------------------------------------------------------------------------
(* What must hold.                                                         *)

InFlight ==
    {c \in Clients : attempt[c].phase \in {"dialing", "securing", "binding", "bound", "failed"}}

\* No connection is forgotten: a socket that is open is that of the session, or
\* a goroutine holds it and its result is still to come, however connects,
\* tests, referrals and disconnects overlap (connectCmd, closeClient).
NoLeakedConnection ==
    open \subseteq {client} \cup {c \in Clients : attempt[c].phase \in {"securing", "binding", "bound"}}

\* The session is of one piece: its connection is open, was opened to be used
\* and not for a test, is the one of the profile the program shows and consults,
\* and that profile's ReadOnly field is in force.
SessionCoherent ==
    client # None =>
        /\ client \in open
        /\ attempt[client].phase = "current" /\ attempt[client].kind # "test"
        /\ attempt[client].prof = conf
        /\ conf \in ReadOnlyProfiles => readOnly

\* "connecting" is never left on: while the spinner says so a result of some
\* attempt is still to come (doConnectMsg, onConnectResult).
ConnectingHonest == connecting => InFlight # {}

\* The server of a read-only profile is sent no modification: not by a
\* confirmation opened in an earlier session, not by :readonly off, not by a
\* form or an import begun before the connection was replaced.
ReadOnlyProfileNeverWritten ==
    \A w \in Writes :
        write[w].phase \in {"running", "replied"} /\ write[w].to # None =>
            attempt[write[w].to].prof \notin ReadOnlyProfiles

\* schemaLoading says exactly whether a load runs, and there is never a second
\* one, whatever sessions come and go meanwhile (loadSchemaCmd, schemaLoadedMsg).
OneSchemaLoad ==
    /\ schemaLoading <=> \E c \in Clients : loads[c] > 0
    /\ \A c, d \in Clients : loads[c] <= 1 /\ (loads[c] > 0 /\ loads[d] > 0 => c = d)

\* The program only panics on a nil client after a disconnect, or while it quits,
\* which closes the client before the loop ends: the keys, handlers and goroutines
\* that use the client unasked are out of reach until then, also between a
\* connection and the one that replaces it (app.go:180-182, 332, 366; actions.go:727).
CrashNeedsClose == running = "crashed" => left

\* The spinner stops, whatever becomes of an attempt (onConnectResult) and of a
\* schema load (schemaLoadedMsg), after which another one can be made.
SpinnerStops ==
    /\ connecting ~> (~connecting \/ ~Up)
    /\ schemaLoading ~> (~schemaLoading \/ ~Up)

\* A connection that is not that of the session is closed in the end, or becomes it.
OrphansClosed ==
    \A c \in Clients : (c \in open /\ client # c) ~> (c \notin open \/ client = c \/ ~Up)

\* Whatever becomes of the attempts, the program says so and keeps no socket of
\* theirs (app.go:535-570).
AttemptsSettle == SpinnerStops /\ OrphansClosed

\* A confirmed modification comes to an end the user is told of, applied,
\* refused by roBlock or failed, even when the session it was for is gone.
ConfirmedWritesEnd ==
    \A w \in Writes : (write[w].phase = "confirmed") ~> (write[w].phase = "over" \/ ~Up)
=============================================================================
