------------------------------- MODULE Search -------------------------------
(***************************************************************************)
(* The search screen (internal/tui/search.go) and what the program does to *)
(* it.  A run sends a request from a goroutine; n asks for the next page   *)
(* with the cookie of the one on show; the answers come back in any order  *)
(* and say only which page they are for, not which search and not which    *)
(* session asked.  The model is replaced when a search is opened anew, and *)
(* emptied when a connection is made.                                      *)
(*                                                                         *)
(* A page is known by the request that brought it; run numbers the         *)
(* searches in the order they were started and is not in the code.         *)
(***************************************************************************)
EXTENDS Integers, Sequences, FiniteSets, SavedSearches

CONSTANTS Asks,        \* what the form can ask for, but for the scope
          Scopes,      \* the scopes of the form
          FirstScope,  \* the one a new form has
          Paged,       \* what is asked with a page size
          LastPage,    \* the server has pages 0 .. LastPage
          HistoryMax,  \* the length of the history
          MaxRuns,     \* bound: searches started
          MaxRequests, \* bound: requests in flight
          MaxSessions  \* bound: connections made

ASSUME SearchesAssumption == Paged \subseteq Asks /\ FirstScope \in Scopes
ASSUME BoundsAssumption ==
    /\ LastPage \in Nat /\ HistoryMax \in Nat
    /\ MaxRuns \in Nat /\ MaxRequests \in Nat /\ MaxSessions \in Nat \ {0}

VARIABLES
    client,   \* shared.client: the number of the session, 0 when not connected
    sessions, \* sessions begun
    screen,   \* App.screen: "search" or any "other", the filter builder too
    search,   \* App.search
    requests, \* SearchEx under way, by the goroutine that waits: [id -> request]
    inbox,    \* messages the program has sent to itself
    history,  \* shared.history.Items
    runs,     \* searches started
    late,     \* runs not answered when something newer began, or gone on from such a page
    crashed   \* a handler or a goroutine has panicked

vars == <<client, sessions, screen, search, requests, inbox, history, runs, late, crashed>>

None == [none |-> TRUE]
Searches == [ask : Asks, scope : Scopes]
\* A form holds what it asks for, or no fields.
Forms == [ask : Asks \cup {None}, scope : Scopes]
Tags == [run : 1 .. MaxRuns, params : Searches, session : 1 .. MaxSessions, page : 0 .. LastPage]

\* A new searchModel; the zero value has a form without fields and is not opened.
Opened(p) ==
    [opened |-> TRUE, form |-> p, inForm |-> TRUE, running |-> FALSE, pages |-> <<>>,
     nexts |-> <<>>, page |-> 0, last |-> None, lastScp |-> None, run |-> 0]
NewForm(a) == [ask |-> a, scope |-> FirstScope]
Zero == [Opened(NewForm(None)) EXCEPT !.opened = FALSE, !.inForm = FALSE]

Init ==
    /\ client = 1 /\ sessions = 1
    /\ screen = "other"
    /\ search = Zero
    /\ requests = <<>>
    /\ inbox = {}
    /\ history = <<>>
    /\ runs = 0
    /\ late = {}
    /\ crashed = FALSE

-----------------------------------------------------------------------------
(* Requests.                                                               *)

\* The page a request brings.
PageOf(r) ==
    [run |-> r.run, params |-> r.params, session |-> r.session,
     page |-> IF r.cookie = None THEN 0 ELSE r.cookie.page + 1]

Loaded(s) == {i \in DOMAIN s.pages : s.pages[i] # None}
InFlight == {requests[i].run : i \in DOMAIN requests}

\* The runs of l that still matter: asked for, shown, or continued by a cookie.
StillLate(l, rs, s) ==
    l \cap ({rs[i].run : i \in DOMAIN rs} \cup {s.pages[i].run : i \in Loaded(s)}
           \cup {rs[i].cookie.run : i \in {j \in DOMAIN rs : rs[j].cookie # None}})

Free == CHOOSE i \in 1 .. MaxRequests : i \notin DOMAIN requests

\* run: the goroutine and the model it leaves; page and cookie say what is asked.
\* The scope is remembered from the form, the rest from what is asked; edited
\* says of a first page that they differ and is not in the code.  Without a
\* client the goroutine reads through a nil pointer.
Send(s, p, page, cookie, run) ==
    /\ Cardinality(DOMAIN requests) < MaxRequests
    /\ search' = [s EXCEPT !.last = p, !.lastScp = s.form.scope, !.running = TRUE, !.run = run]
    /\ crashed' = (client = 0)
    /\ requests' =
         IF client = 0 THEN requests
         ELSE [i \in DOMAIN requests \cup {Free} |->
                 IF i = Free
                 THEN [run |-> run, params |-> p, page |-> page, cookie |-> cookie,
                       session |-> client, state |-> "sent", next |-> None,
                       edited |-> page = 0 /\ p # None /\ p.scope # s.form.scope]
                 ELSE requests[i]]

\* Mutant of Start: the cookies of the run before stay.
StartKeepsCookies(s, p) ==
    /\ runs < MaxRuns
    /\ runs' = runs + 1
    /\ late' = late \cup InFlight
    /\ Send([s EXCEPT !.pages = <<>>], p, 0, None, runs + 1)

\* A new run: requests that are still out belong to what is no longer on show.
Start(s, p) ==
    /\ runs < MaxRuns
    /\ runs' = runs + 1
    /\ late' = late \cup InFlight
    /\ Send([s EXCEPT !.pages = <<>>, !.nexts = <<>>], p, 0, None, runs + 1)

-----------------------------------------------------------------------------
(* The form and the results (searchModel.update, resultKey).               *)

On(s) == ~crashed /\ screen = s
Say(m) == inbox' = inbox \cup {m}
RunMsg == [kind |-> "run", ask |-> None]
FilterMsg(a) == [kind |-> "filter", ask |-> a]

EditForm(p) ==
    /\ On("search") /\ search.inForm
    /\ search' = [search EXCEPT !.form = p]
    /\ UNCHANGED <<client, sessions, screen, requests, inbox, history, runs, late, crashed>>

\* applySavedMsg, applyPresetMsg, and b: the picker may have been opened
\* before the results came.
ApplySaved(p) ==
    /\ On("search")
    /\ search' = [search EXCEPT !.form = p, !.inForm = TRUE]
    /\ UNCHANGED <<client, sessions, screen, requests, inbox, history, runs, late, crashed>>

\* e or s on the results.
BackToForm ==
    /\ On("search") /\ ~search.inForm
    /\ search' = [search EXCEPT !.inForm = TRUE]
    /\ UNCHANGED <<client, sessions, screen, requests, inbox, history, runs, late, crashed>>

Enter ==
    /\ On("search") /\ search.inForm
    /\ Say(RunMsg)
    /\ UNCHANGED <<client, sessions, screen, search, requests, history, runs, late, crashed>>

\* runSearchMsg: the form is read only now, and paramsFrom may refuse what a
\* field says.
RunSearch ==
    /\ ~crashed /\ RunMsg \in inbox
    /\ inbox' = inbox \ {RunMsg}
    /\ \/ /\ ~search.opened
          /\ crashed' = TRUE
          /\ UNCHANGED <<search, requests, runs, late>>
       \/ /\ search.opened
          /\ UNCHANGED <<search, requests, runs, late, crashed>>
       \/ /\ search.opened /\ search.form \in Searches
          /\ Start(search, search.form)
    /\ UNCHANGED <<client, sessions, screen, history>>

\* r: the last search again, whatever the form says by now; it is remembered
\* with the scope the form has.
Rerun ==
    /\ On("search") /\ ~search.inForm
    /\ search.pages # <<>>
    /\ Start(search, search.last)
    /\ UNCHANGED <<client, sessions, screen, inbox, history>>

\* n: a page that is loaded is shown, any other asked for with the cookie.  A
\* loaded page without entries is not told from one that is not there.
NextPage ==
    LET here == search.page + 1
    IN  /\ On("search") /\ ~search.inForm
        /\ here \in DOMAIN search.nexts /\ search.nexts[here] # None
        /\ \/ /\ here + 1 \in Loaded(search)
              /\ search' = [search EXCEPT !.page = here]
              /\ UNCHANGED <<requests, late, crashed>>
           \/ /\ Send(search, search.last, here, search.nexts[here], search.run)
              /\ late' = IF search.nexts[here].run \in late THEN late \cup {search.run} ELSE late
        /\ UNCHANGED <<client, sessions, screen, inbox, history, runs>>

PrevPage ==
    /\ On("search") /\ ~search.inForm
    /\ search.page > 0
    /\ search' = [search EXCEPT !.page = @ - 1]
    /\ UNCHANGED <<client, sessions, screen, requests, inbox, history, runs, late, crashed>>

-----------------------------------------------------------------------------
(* Answers.                                                                *)

\* The server answers the search, with another page to come or not, or not at
\* all: it knows a cookie only with the search it was given out for, and the
\* request of no search has an empty filter, which is not even sent.
Answer(i) ==
    LET r == requests[i]
        tag == PageOf(r)
        known == /\ r.params # None
                 /\ r.cookie # None => r.cookie.params = r.params /\ r.cookie.session = r.session
    IN  /\ ~crashed /\ i \in DOMAIN requests /\ r.state = "sent"
        /\ \/ requests' = [requests EXCEPT ![i].state = "failed"]
           \/ /\ known /\ tag.page <= LastPage
              /\ \E next \in {None} \cup (IF r.params.ask \in Paged /\ tag.page < LastPage THEN {tag} ELSE {}) :
                   requests' = [requests EXCEPT ![i].state = "ok", ![i].next = next]
        /\ UNCHANGED <<client, sessions, screen, search, inbox, history, runs, late, crashed>>

Without(i) == [j \in DOMAIN requests \ {i} |-> requests[j]]

\* The page at n, with empty pages before it if there are none yet.
Filled(s, n, x) == [i \in 1 .. IF Len(s) < n THEN n ELSE Len(s) |->
                      IF i = n THEN x ELSE IF i <= Len(s) THEN s[i] ELSE None]

\* Mutant of Failed: the spinner goes on.
FailedBusy(s) == [s EXCEPT !.inForm = TRUE]

Failed(s) == [s EXCEPT !.running = FALSE, !.inForm = TRUE]
Shown(s, r) ==
    LET n == r.page + 1
    IN  [s EXCEPT !.running = FALSE, !.inForm = FALSE, !.page = r.page,
                  !.pages = IF r.page = 0 THEN <<PageOf(r)>> ELSE Filled(@, n, PageOf(r)),
                  !.nexts = IF r.page = 0 THEN <<r.next>> ELSE Filled(@, n, r.next)]
\* Mutant of Remembered: what the form says when the answer comes.
RememberedForm(s) == Saved(Unnamed, s.form)

\* The search a first page is remembered as.
Remembered(s) ==
    Saved(Unnamed, [ask |-> IF s.last = None THEN None ELSE s.last.ask, scope |-> s.lastScp])
\* searchDoneMsg; a model that was never opened has no shared state to read
\* the history from.
Deliver(i) ==
    LET r == requests[i]
    IN  /\ ~crashed /\ i \in DOMAIN requests /\ r.state # "sent"
        /\ requests' = Without(i)
        /\ \/ /\ r.state = "failed"
              /\ search' = Failed(search)
              /\ UNCHANGED <<history, crashed>>
           \/ /\ r.state = "ok" /\ search.opened
              /\ search' = Shown(search, r)
              /\ history' = IF r.page = 0 THEN Push(history, Remembered(search), HistoryMax) ELSE history
              /\ UNCHANGED crashed
           \/ /\ r.state = "ok" /\ ~search.opened
              /\ crashed' = TRUE
              /\ UNCHANGED <<search, history>>
        /\ late' = StillLate(late, requests', search')
        /\ UNCHANGED <<client, sessions, screen, inbox, runs>>

-----------------------------------------------------------------------------
(* Screens and sessions (app.go, actions.go).                              *)

\* The search the program now has; what is still out belonged to the old one.
Replace(s) ==
    /\ search' = s
    /\ late' = StillLate(late \cup InFlight, requests', s)

\* openSearchMsg and the commands search, presets, history and bookmarks.
OpenSearch(a) ==
    /\ ~crashed /\ client # 0
    /\ UNCHANGED requests
    /\ Replace(Opened(NewForm(a)))
    /\ screen' = "search"
    /\ UNCHANGED <<client, sessions, inbox, history, runs, crashed>>

\* openScreenMsg for the search screen: a search that is there is kept.
ShowSearch(a) ==
    /\ ~crashed /\ client # 0
    /\ search' = IF search.opened THEN search ELSE Opened(NewForm(a))
    /\ screen' = "search"
    /\ UNCHANGED <<client, sessions, requests, inbox, history, runs, late, crashed>>

\* backMsg, enter on a result, which goes to its entry, or openFilterMsg, which
\* ctrl+f in the form and the command filter on any screen send.
LeaveSearch ==
    /\ On("search")
    /\ screen' = "other"
    /\ UNCHANGED <<client, sessions, search, requests, inbox, history, runs, late, crashed>>

\* enter in the filter builder, which is opened with a connection and left
\* without.
UseFilter(a) ==
    /\ On("other") /\ client # 0
    /\ Say(FilterMsg(a))
    /\ UNCHANGED <<client, sessions, screen, search, requests, history, runs, late, crashed>>

\* applyFilterMsg sets a field of the form, which only an opened search has.
ApplyFilter(a) ==
    /\ ~crashed /\ FilterMsg(a) \in inbox
    /\ inbox' = inbox \ {FilterMsg(a)}
    /\ IF search.opened
       THEN /\ search' = [search EXCEPT !.form.ask = a, !.inForm = TRUE]
            /\ screen' = "search"
            /\ UNCHANGED crashed
       ELSE /\ crashed' = TRUE
            /\ UNCHANGED <<search, screen>>
    /\ UNCHANGED <<client, sessions, requests, history, runs, late>>

\* closeClient: the goroutines that wait for an answer get an error.
Closed == [i \in DOMAIN requests |->
             IF requests[i].state = "sent" THEN [requests[i] EXCEPT !.state = "failed"]
             ELSE requests[i]]

Disconnect ==
    /\ ~crashed /\ client # 0
    /\ client' = 0
    /\ requests' = Closed
    /\ screen' = "other"
    /\ UNCHANGED <<sessions, search, inbox, history, runs, late, crashed>>

NewSession ==
    /\ ~crashed /\ sessions < MaxSessions
    /\ sessions' = sessions + 1
    /\ client' = sessions + 1
    /\ requests' = Closed

\* onConnectResult.
Connect ==
    /\ NewSession
    /\ Replace(Zero)
    /\ screen' = "other"
    /\ UNCHANGED <<inbox, history, runs, crashed>>

\* onReferralConnected: a search of the referral's is opened.
Referral(p) ==
    /\ NewSession
    /\ Replace(Opened(p))
    /\ screen' = "search"
    /\ UNCHANGED <<inbox, history, runs, crashed>>

-----------------------------------------------------------------------------
Ids == 1 .. MaxRequests

Keys ==
    \/ \E p \in Searches : EditForm(p) \/ ApplySaved(p)
    \/ BackToForm \/ Enter \/ RunSearch
    \/ Rerun \/ NextPage \/ PrevPage

Screens ==
    \/ \E a \in Asks : OpenSearch(a) \/ ShowSearch(a) \/ UseFilter(a) \/ ApplyFilter(a)
    \/ LeaveSearch

Sessions == Disconnect \/ Connect \/ \E p \in Searches : Referral(p)

Next == Keys \/ Screens \/ Sessions \/ \E i \in Ids : Answer(i) \/ Deliver(i)

Spec == Init /\ [][Next]_vars

\* A goroutine gets an answer or the deadline of the connection
\* (client.go:263), and the event loop takes the messages it is sent; which
\* of them first is open.
FairSpec == Spec /\ WF_vars(\E i \in Ids : Answer(i) \/ Deliver(i))

-----------------------------------------------------------------------------
(* Properties.                                                             *)

Requests ==
    [run : 0 .. MaxRuns, params : {None} \cup Searches, page : 0 .. LastPage, cookie : {None} \cup Tags,
     session : 1 .. MaxSessions, state : {"sent", "ok", "failed"}, next : {None} \cup Tags,
     edited : BOOLEAN]

\* A search as the history keeps it, or one of which nothing is known.
Items == {Saved(Unnamed, k) : k \in [ask : {None} \cup Asks, scope : {None} \cup Scopes]}

\* Every variable is in its domain, pages and their cookies go together, and
\* the history is never longer than its bound (search.go:50, connections.go:221).
TypeOK ==
    /\ client \in 0 .. MaxSessions /\ sessions \in 1 .. MaxSessions
    /\ client \in {0, sessions}
    /\ screen \in {"search", "other"}
    /\ DOMAIN search = DOMAIN Zero
    /\ {search.opened, search.inForm, search.running} \subseteq BOOLEAN
    /\ search.form \in Forms /\ search.last \in {None} \cup Searches
    /\ search.lastScp \in {None} \cup Scopes
    /\ search.pages \in Seq({None} \cup Tags) /\ search.nexts \in Seq({None} \cup Tags)
    /\ Len(search.pages) = Len(search.nexts)
    /\ search.page \in 0 .. LastPage /\ search.run \in 0 .. runs
    /\ DOMAIN requests \subseteq Ids
    /\ \A i \in DOMAIN requests : requests[i] \in Requests
    /\ inbox \subseteq {RunMsg} \cup {FilterMsg(a) : a \in Asks}
    /\ history \in Seq(Items)
    /\ HistoryMax > 0 => Len(history) <= HistoryMax
    /\ runs \in 0 .. MaxRuns /\ late \subseteq 0 .. MaxRuns
    /\ crashed \in BOOLEAN

\* The pages n and p walk through are each at its place, whatever order answers
\* arrive in, and all of the last search started, unless one of them was asked
\* for by a search that had not been answered when a newer one began
\* (search.go:309-322).
PagesOfOneRun ==
    \A i \in Loaded(search) :
        /\ search.pages[i].page = i - 1
        /\ search.pages[i].run = search.run \/ search.pages[i].run \in late

\* A cookie goes back to the server with the search, in the session and for
\* the page it was given out for, unless the page it came with was late
\* (search.go:605-614).
CookieGoesBack ==
    \A i \in DOMAIN requests :
        LET c == requests[i].cookie
        IN  c # None =>
              \/ c.run \in late
              \/ /\ c.params = requests[i].params
                 /\ c.session = requests[i].session
                 /\ c.page + 1 = requests[i].page

\* With the results in front and nothing late, the page on show is one that
\* has been loaded, unless it is being asked for again (search.go:477, 645).
ResultsShown ==
    ~crashed /\ search.opened /\ ~search.inForm /\ late = {} /\ requests = <<>>
        => search.page + 1 \in Loaded(search)

\* What is on show, walked through and asked for next belongs together: the
\* page on show is loaded, the pages are each at its place and of one search,
\* and their cookies go back with it (search.go:309-322, 477, 605-614, 645).
PagesHonest == PagesOfOneRun /\ CookieGoesBack /\ ResultsShown

\* The history gains the search whose first page has just come, not one being
\* typed, unless that page was late; only its scope may be another one, when
\* the search was sent again after the form's had been edited (search.go:287,
\* 330-333).
HistoryTellsWhatRan ==
    [][history' # history =>
         \E i \in DOMAIN requests :
            LET r == requests[i]
                item == history'[1].key
            IN  /\ i \notin DOMAIN requests' /\ r.state = "ok" /\ r.page = 0
                /\ \/ r.run \in late
                   \/ /\ item.ask = r.params.ask
                      /\ item.scope = r.params.scope \/ r.edited]_vars

\* The spinner of a search stops (search.go:310).
SearchEnds == []<>(~search.running \/ crashed)

=============================================================================
