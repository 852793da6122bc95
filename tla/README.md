# A TLA+ model of ldapview

ldapview is a terminal LDAP client: a bubbletea program whose state changes in
one event loop (`App.Update`), while goroutines started by that loop (`tea.Cmd`)
dial, search, read and write, and post their results back as messages. Nothing
orders those results, nothing cancels a goroutine, and the messages carry no mark
of the session that asked for them. Most of what is hard to test in this code
comes from there, and this directory is about it.

Paths below are relative to `src/`; `tui/` and `ldapclient/` stand for
`internal/tui/` and `internal/ldapclient/`.

## 1. Inventory

| Part | Source | State it keeps | Operations | Interacts with | Hard behaviour | What makes it correct |
|---|---|---|---|---|---|---|
| Session | `tui/app.go`, `actions.go`, `password.go`, `messages.go` | `shared.client`, `conf`, `schema`, `readOnly`, `schemaLoading`, `wantSchemaView`; `App.screen`, `ov`, `connecting` | connect, test, follow referral, disconnect, quit; open screens; load schema; write and import | browser (messages), client (goroutines), store (profiles) | overlapping connects, a session replaced under a goroutine or under an open confirmation | no connection is lost, client, profile and read-only mode fit each other, a read-only profile is never written, spinners stop |
| Entry cache | `ldapclient/client.go`, `read.go`, `write.go` | `Client.ents` under a mutex | cached read, fresh read, invalidation by every write | browser reads, session writes | a read and a write on two goroutines; timeouts; other clients of the server | bounded; a read is not older than a write that returned before it |
| Browser | `tui/browser.go`, `internal/model/tree.go` | tree of nodes, cursor, goto chain, entry, `loading` | expand, refresh, goto, read, move, find | session, client | answers of expansions and reads in any order, the tree replaced under them | spinners stop, goto ends, what is marked as loading is under way |
| Search | `tui/search.go`, `filterbuilder.go` | form, results, page cookies, running | run, next page, rerun, order, export, save | session, store, client | pages of an earlier run | the pages shown are of one search, cookies go back with it |
| Store | `internal/store/connections.go`, `tui/connections.go` | profiles, history, bookmarks, three YAML files | upsert, delete, push, remove, clear, load, save | connection screen, search | rename onto another name, a write that fails half way, restarts | no profile lost silently, no item twice, the file follows the list |
| Protocol tap | `internal/proto/proto.go` | partial frames of two directions, bounded log | feed, add, clear | client's socket | pieces cut anywhere, two goroutines | the log has the messages sent, in order |
| Filter builder | `tui/filterbuilder.go`, `internal/filter` | tree of conditions, cursor | add, edit, toggle, delete, raw text, use in search | search screen (messages), prompts | answers of prompts come after other keys; values escaped and parsed again | what is handed over means what the tree says, and opens as the same tree |
| Add-entry form | `tui/actions.go`, `form.go` | fields, cursor | type, move, pick classes, submit, confirm | schema, picker, confirmation | the schema and the picker's answer arrive while the form is open | fields follow the classes, nothing typed is lost, the entry offered has what its classes demand |
| Command line | `internal/cli` | connection, collected entries, the export's file | search, export, ldif, connect | client, store, LDIF | limits, empty pages, errors on a later page, a full disk, an interrupt | exit code 0 only with an answer, which is the server's |
| Schema | `internal/schema` | classes and attributes by name | parse, lineage, resolve, effective | session, add-entry form | cyclic SUP, names in use twice | ends, includes every ancestor |
| LDIF | `internal/ldif` | none | write, parse, validate | command line, import, editor | folding, base64, blocks | what is written is read as the same |
| DN, URL | `internal/dn`, `ldapurl` | none | parse and print | | | |
| AD decoding, OIDs, views | `internal/ad`, `oid`, `tui/*view.go` | none | decode, draw | | | |

`PROJECT.json` lists these parts with their modules and status, and under
`hazards` the lines where this code is hard to test, each with the properties
that watch it.

## 2. Modules

| Module | Models | Built from |
|---|---|---|
| `EntryCache` | the cache, its readers and writers, the server and other clients of it | |
| `Session` | connection attempts, session, schema loads, modifications, prompts and overlays | |
| `ClientProofs` | theorems about cache and session | `EntryCache`, `Session`, TLAPS |
| `Browser` | tree, goto, entry pane and their goroutines | |
| `Search` | the search screen, its requests and the history they feed | `SavedSearches` |
| `SavedSearches` | push and remove of a saved-search list, as pure operators | |
| `ConfigFile` | a YAML file and what a failed write leaves of it | |
| `Profiles` | saved profiles, their file, form and cursor | `ConfigFile` |
| `SearchLists` | history and bookmarks with their files | `SavedSearches`, `ConfigFile` |
| `Capture` | abstract: messages are recorded one by one, whole, in order | |
| `ProtocolTap` | the tap: framing, two goroutines, bounded log; refines `Capture` | `Capture` |
| `Filter` | filters as trees and as texts: print, escape, parse, and what they mean | |
| `FilterBuilder` | the builder's tree, cursor, prompts and messages | `Filter` |
| `Schema` | definitions, index, lineage, resolution, effective syntax, and reference definitions of them | |
| `AddForm` | the form for a new entry, the schema load, picker and confirmation | `Schema` |
| `Ldif` | LDIF written, read and validated, as pure operators | |
| `Cli` | the commands, one after another in one directory | `Ldif` |
| `ListLemmas` | induction and recursion on numbers, cuts of sequences, loops over lists, sequences one after another, and what `Push` keeps of a list | `SavedSearches`, TLAPS |
| `BrowserProofs`, `ProtocolTapProofs` | theorems about the module of that name | `ListLemmas`, TLAPS |
| `SearchProofs` | theorems about the search screen and the filter builder on it | `Search`, `FilterBuilder`, `ListLemmas`, TLAPS |
| `StoreProofs` | theorems about the two parts of the store | `Profiles`, `SearchLists`, `ListLemmas`, TLAPS |
| `CliProofs` | theorems about the commands | `Cli`, `ListLemmas` |
| `AddFormProofs` | theorems about the form and about what the schema answers it | `AddForm`, `ListLemmas`, TLAPS |
| `MC*` | the values TLC uses | |

Definitions that begin with "Mutant of" are faulty variants of the definition
after them; no specification uses them. `PROJECT.json` pairs each checked
property with the variant that breaks it.

### EntryCache

`cache` is `Client.ents` as a partial function from DN to version and age; a key
is lower-cased in the code, so a DN stands for its lower-cased form. A reader goes
idle, wire, answered, done: `CacheHit` is `ReadEntry` served by `cacheGet`, and
otherwise `ReadEntryFresh` is split where the code holds no lock, between the
server's answer and `cachePut`. A writer goes idle, sent, replied; `WriteReturns`
is `InvalidateEntries`, which runs whatever the outcome. `WriteTimesOut` leaves
the request with the server (`late`), which may still apply it. Age saturates
one tick above `TTL`. `committed` and `raced` are ghosts: what has been written
by calls that returned, and answers that a reader held when a write returned. Names
that `Session` uses too carry the component, so that the theorems about both
stand in one module; so do those of `Profiles` below.

### Session

`attempt[c]` follows one `connectCmd` from the message that asks for it through
dial, TLS (`Secure`) and bind to its result; `open` is the set of open sockets. `write[w]` follows
one modification: key, `roBlock`, confirmation, `roBlock`, request(s), result; an
import has several records and stops at the first that fails. `loads[c]` counts
schema goroutines, `inbox` the other messages posted and not handled, delivered
in any order. A palette command checks for a connection when it is entered and
posts its message, which is handled later (`ConnCommand`); a handler or goroutine
that uses a nil client makes `running` "crashed". `Quit` closes the client and
makes it "quitting"; whatever was posted is handled before the message that ends
the loop (`EndProgram`), keys included. `initial` is the target of the
command line. The prompt that leads to an edit or add is part of its
confirmation; screens that share no state with the session (filter builder,
operation log, protocol view) are one screen. A refresh after a write is any of
those the browser may ask for, which `Browser` models.

### Browser

A node is `<<slot, dn>>`, the root it hangs under and its DN. `inflight` counts
the goroutines per kind and DN. The cursor can stand on any visible node, so keys
act on any of them; the server may answer anything, since others change the
directory. Requests survive `Connected`, because their late answers are
applied to the new session's tree (messages carry only a DN). `cut` is a ghost:
the roots were replaced while a goto waited.

### Search

What a form asks for is its scope and the rest (`ask`), since a run takes the
scope it is remembered with from the form as it is when the request is sent
(`lastScp`), and the rest from what is asked, which are not the same when `r` or
`n` sends again after the form was edited (`edited`, a ghost). A page is known by
the request that brought it: run, parameters, session and number. `run`, `runs`
and `late` are ghosts too; `late` holds the runs that were not
answered when a newer search, a new search screen or a new session began, and
those that went on with the cookie of such a page. Whether `paramsFrom` refuses
what a field says is left open, and the filter builder is one of the other screens.
The server knows a cookie only
with the search and the session it gave it out for. `closeClient` makes
pending requests fail, but an answer already on its way still comes.

### Profiles, SearchLists

The list in memory is changed first and the file written after it.
`os.WriteFile` truncates and then writes: a write that fails, or in which the
program is killed, leaves what was there, a beginning of the list, or something
that is no YAML (an item cut in the middle counts as not there; the code may read
its beginning as an item). `Stop` and
`Start` (`Quit` and `Launch` in `Profiles`) are the restart, `Removed` the user who
deletes a damaged file. One program runs at a time. `unsaved` (`unwritten`) says
that the last write failed; several call sites drop that error, which the models
keep. A delete is a confirmation on its way, in front, or answered with a message
that is on its way (`deletes`); it carries the name that was under the cursor when
it was asked for, and the form may be opened, saved and closed before it is carried
out. A form is closed by a message too, `connFormDoneMsg` or `formCancelMsg`, and
`fresh` is a ghost: the form was not saved, nor its profile deleted, since it was
opened.

### ProtocolTap

Messages are byte sequences. `Feed` is the step that takes `Tap.mu`; `FeedFrame`,
`FeedMore` and `FeedAlien` are the loop of `feed`. The two goroutines of go-ldap,
one that writes and one that reads, call it. `recorded`, `sent` and `lost` are
ghosts. `FrameLimit` and `LogMax` stand for 64 MiB and 1000. Decoding a message
into fields (`describeOp`) is not modelled.

### Filter, FilterBuilder

Trees and texts are lists of rows with a depth each, as `Flatten` lists the nodes
and as the screen shows them; `Below`, `Kids` and `Parent` read the pointers of
`filter.Node` off the depths, and `Nested` says which lists are trees. A text has a
row for each parenthesis that is opened and not its characters; of a value
it matters what the code treats apart (letters, a lone star, stars among letters,
blanks at an end, characters that must be escaped) and how often it was escaped.
`Judged` says whether the first row holds when it is known which conditions do;
`Accepts` asks it of a tree, `Matches` of a text, both not in the code, and
`OutputFaithful` compares the two. `Sound` says which texts are filters and stands
for both readers of the code, go-ldap's `CompileFilter` and `Parse`; they differ on
texts that no tree prints, such as `!!cn=a`, which the models leave out. `building` tells the builder from the search
form around it. A prompt is opened and answered by a message that waits in
`posted` while keys go on, as `tea.Cmd` delivers it. No operator is RECURSIVE; the
only recursion is in the function `Holds`.

### Schema, AddForm

`Schema` starts at the tokens of a definition. Its operators are those of
`schema.go`; `Ancestors`, `Demanded`, `Allowed` and the `...Sound` predicates
restate by sets what the answers should be. `SupSteps` bounds their length only.
The loops of the code are recursive functions: `Only` and `Once` are its loops with
a condition and with a set of what was seen, `Lineage` goes through the
classes to come one by one (`Visit`), at most `Visits` times, which is as often
as the recursion in the code can be entered, and `Effective` climbs the SUP links
of attributes (`Climb`) `SupSteps` times. `Warnings` is a record of the classes and
of the attributes the form warns of.
`AddForm` has one action per key or message; leaving the RDN or the classes
rebuilds the fields in the same step, as does the schema's arrival. The picker
and the confirmation open and answer by messages.

### Ldif, Cli

A text is a sequence of tokens: names, words and RDNs are one token each and the
characters the codec treats apart are themselves, so that lines are cut where the
code cuts them; `FirstWidth` and `NextWidth` stand for 76 and 75. `Parse` finds
the blocks between blank lines and makes a record of each. `Cli` runs a script of
command lines; `run` is the process at work, `file` what is at the path of
`-o`, `ended` what each command left. `Dial`, `StartTLSExchange`, `Handshake`
and `Bind` are the parts of `Connect` and `Dial` that can fail; `Request` and
`Collect` are one turn of the loop of `Collect`, in which the server cuts the
answer as it likes: an empty page with a cookie may follow another for ever
(`EmptyPage`). `WriteFile` is
two steps, since a full disk or an interrupt (`Killed`) may come between.

## 3. Runs

Passing runs check safety and, under the fairness of section 4, liveness of the
same instance.
`CHECK_DEADLOCK FALSE` is said where the user may stop pressing keys, which all
bounded instances do.

| Run | Configuration | What it asks | Bounds |
|---|---|---|---|
| `cache` | `EntryCache.cfg` | capacity (`CacheBounded`), reads follow writes (`ReadsFollowWrites`), what went stale heals (`StalenessHeals`) | two names, two readers, a writer, one change asked for, a cache of one entry: eviction, put over put, rename and late write all occur |
| `session` | `Session.cfg` | sockets, coherence, schema loads, spinner, orphaned connections, no nil client before a disconnect or a quit | two attempts in all, which overlap or replace each other (the theorems hold for any number), a read-only profile and a referral that is not; every message that needs a connection, one key ahead of the loop |
| `writes` | `SessionWrites.cfg` | read-only profiles are not written, confirmed writes end | two attempts in all, one modification of any kind, an import of two records, a writable and a read-only profile |
| `browser` | `Browser.cfg` | what is marked as loading is under way, gotos are woken, both end | a chain of three DNs, a naming context or none, three keys, gotos, modifications or connects |
| `tap` | `ProtocolTap.cfg` | bytes, log, refinement of `Capture`, every message recorded in the end | two messages each way, one in the long form and one over the limit whose tail is a message in the short form; a log of two, cleared once |
| `search` | `Search.cfg` | pages, cookies, results (`PagesHonest`), what the history gains is what was sent (`HistoryTellsWhatRan`), the spinner stops (`SearchEnds`) | one search in two pages with two scopes, so that form, last search and request can all differ; two runs, two requests at once, two sessions |
| `filter_builder` | `FilterBuilder.cfg` | what is handed over means what the tree says and reopens as it; an edit left as it was changes nothing | trees of up to five rows; conditions that are plain, negated or without a proper attribute, with special characters or stars; texts that parse and one that does not; values escaped up to twice |
| `add_form` | `AddForm.cfg` | fields follow the classes, typed values stay, the schema's answers are right and the offer is complete (`SchemaHonoured`) | 343 class graphs over three classes and 2592 chains of attributes, cycles and missing superiors included; the form over two of the schemas, one message besides the schema on its way |
| `cli` | `Cli.cfg` | what is printed and written is what the server has and exit codes tell the truth (`OutputHonest`), records are read back as they were written (`ReadBack`), requests end unless empty pages never do (`Ends`) | three entries under every limit and page size up to three and every way to cut them; every combination of password sources, targets and TLS; every value of up to three tokens, written to lines of four and two; files of every two kinds of records |
| `profiles` | `Profiles.cfg` | the list and its file (`ListAndFile`), only what was meant is changed (`OnlyMeant`) | three names: two to collide and one to move to, two contents, two ends of a form and one delete on their way |
| `search_lists` | `SearchLists.cfg` | no item twice, files follow (`ListsSound`), an unreadable file is kept | three searches, named and unnamed, a history of two |
| `search_lists_seed` | `SearchListsSeed.cfg` | a statement of the repository that the code breaks, section 6 | as `search_lists` |

Several properties are conjunctions of named parts that ask one question of one
run: `PagesHonest`, `WaitsAwaited`, `LogFaithful`, `OutputHonest`, `SchemaHonoured` and
their like.

The faults these runs look for take two actors and one change of what they
share, so two of each kind and a bound one above the least that makes them meet
are enough to show them; the theorems of section 5 do not depend on the bounds.

## 4. Fairness

- Session, Browser: weak fairness of every goroutine and of the delivery of
  every message; Search: of all its goroutines and deliveries together, which
  is less and enough, since the requests in flight are finite. A dial has a timeout and the TLS handshake a deadline
  (`ldapclient/client.go:226-253`), requests `conn.SetTimeout`
  (`client.go:263-268`), so each goroutine ends, and bubbletea delivers what it
  posts. None on keys: the user may stop at any time.
- Cli: weak fairness of what the command does up to the last page of its search,
  the server's answers included, for the same reason. That each answer comes does
  not bound their number: `Ends` says that a search goes on for ever only with
  infinitely many empty pages that have a cookie. None on the rest, which has
  no loop.
- FilterBuilder, AddForm, Profiles, SearchLists: none; they have safety only.
- EntryCache: weak fairness of the reader's and the writer's steps, of late
  writes and of time. None on new reads and writes.
- ProtocolTap: weak fairness of the reader and strong fairness of `Tap`, since
  `sync.Mutex` does not starve a goroutine (its starvation mode hands the lock
  over) while the other direction holds it again and again.

## 5. Theorems

All proof modules follow one line: the type invariant is inductive, and each
further invariant is strengthened until a step preserves it, with one step of
the proof per action. TLC checked each strengthened invariant first.

- `ClientProofs`, of the cache: `CacheTypeCorrect`; `CapacityKept`, where `EvictionMakesRoom`
  counts what is evicted against what is put; `ReadsFollowWritesAlways`.
  `ReadsFollowWrites` speaks of reads that are done only. `Recency` adds what must
  hold of the requests on the wire (`AnswersAreRecent`), of the entries a later
  read will hit (`CacheIsRecent`) and of the writes about to return
  (`MadeIsInServer`). It is the place where the ghost `raced` is needed: without
  it the step `CachePut` breaks the invariant, and that is the first observation
  of section 6.
  Of the session: `TypeCorrect`; `NoConnectionLeaks` and `SessionStaysCoherent`
  from `ConnInv`, which ties `open` to the phases of the attempts in both
  directions and makes the session's client the only attempt in phase "current";
  `ReadOnlyProfilesAreNeverWritten` from `ConnInv` and `Targets` (a write under
  way knows its attempt, and an attempt keeps its profile); `OneSchemaLoadAtATime`;
  `ConnectingStaysHonest` from `ConnectingAwaits`, which says which kind of
  attempt the spinner waits for (a referral does not count, it never sets it);
  `CrashesNeedClose`: before the first connection nothing that uses the
  client is within reach, not on the screen, in the inbox or in a goroutine
  (`Untouched`); only the steps of `CrashSteps` meet a nil client, and a
  replacement leaves none, so that nil is met after a disconnect, or while the
  program quits, only.
- `BrowserProofs`: `TreesTyped`, that the trees keep their shape, and
  `WaitsAnswered`, both from `BrowserInv`. `GotoAwaited` alone is not inductive:
  the answer to an expansion whose node is gone is dropped, so `Waits` demands
  that the listing that wakes a goto is of a node that is in the tree (`Woken`).
  The lemmas about a tree (`FilledFacts`, `ResetFacts`, `RefreshFacts` and
  others) say of each change of it what becomes of the shape, of loading marks
  and of waiting gotos; those about DNs that the ancestors of one DN are in line.
- `SearchProofs`: `SearchTyped`; `PagesStayHonest`, of pages, cookies and the page on
  show; `HistoryTells`, an action property, which rests on `ScopeInv`: while a first
  page of the last run is awaited, the scope remembered is the one it was asked
  with, unless it was `edited` (`ScopeNext`). `SearchInv` says what is on show and
  what is under way together: a request that was not overtaken is of the search
  started last, and so is its cookie (`InTime`); while a first page is awaited
  there is nothing else of its run (`FirstAlone`), which is why a first page may
  throw all other pages away; a page follows pages that are loaded, unless the
  first of them is a late one (`NoGap`: `n` then asks from a page of another
  run); and with the results in front there is a page to show or a request to
  wait for (`InFront`). Without `NoGap` the page on show could be one of the empty
  places `searchDoneMsg` fills up with. `LateGrows` and `LateForgets` show that
  the ghost `late` may be cleared of runs nothing speaks of any more, so that a
  long session does not excuse ever more.
  Of the filter builder: `BuilderTyped`; `OutputStaysFaithful`; `EditsKeep`, an action
  property. `BuilderInv` adds to the type that a special character in a value that
  was parsed stands escaped there (`Escaped`), that what is offered and answered is
  a condition or a text, and that nothing is posted while a prompt is open.
  Induction over trees is induction over positions in a list: a row comes before
  those below it (`BelowFacts`, `EndFacts`), and each change of a tree replaces
  one cut of the list by another (`SpliceTree` and, for each key or message,
  `AddTree`, `PutTree`, `RemovedTree`, `ToggledTree`, `TreeOfTree`).
  `OutputStaysFaithful` compares what a tree and its text come to for every set of
  conditions that hold: two lists of rows come to one verdict when one reads as
  the other (`SameVerdicts`), where a row reads as one of its kind, as a negation of
  a conjunction, or as the only row below it (`Reads`). So do a tree and what is
  left of it without the rows that say nothing (`PrunedWeighs`), that and what is left
  without groups of one at the top (`CollapsedWeighs`), and that and its text
  (`PrintedMatches`); the last two rest on every group having something in it
  (`Full`), which holds after the first (`PrunedFacts`). A builder opened on the text
  prints it again because the text is read row by row as itself, values as they
  stand there (`ParsedText`, `RereadPrints`), and the conjunction that may be put at
  the root goes again (`RootedOutput`). `EditsKeep` rests on `Alike`: rows that are
  spelled alike, whether parsed or typed, are pruned, collapsed and printed alike
  (`AlikeOutput`), and what a row that is `Exact` says is read again as such a row
  (`RepeatedRow`).
- `ProtocolTapProofs`: `TapTypes`; `LogStaysFaithful`; `TapCaptures`, that
  `ProtocolTap` implements `Capture`. `TapInv` says of each direction that what
  was recorded, what is buffered, what the socket handed over and what is on the
  wire are together what was sent (`Steady`; after a failed write, a beginning of
  it); of a direction that was refused, that what is recorded since parts from
  what was sent at a message `frameLen` does not take, so that no accident brings
  it back into step; and that each message recorded is whole, which is why it
  cannot be that one (`Wholes`). The heart is `NextMessage`: the buffer begins like
  the next message sent, and `FrameLen` cannot tell them apart. Under `InStep` each
  action is then a step of `Capture` or none (`FrameRecords`, `InStepKept`). `LogInv` counts,
  for each message of the log, the later ones of its direction.
- `StoreProofs`, of the profiles: `ProfilesTyped`, `ListAndFileAgree` and
  `OnlyMeantChanges`, an action property. `ListInv` adds that a form opened on a
  profile still finds it in the list while it is `fresh` (`FormInv`): that a delete
  carried out under the form ends that, is what a delete of several steps asks for.
  `CursorNear` needs `CursorInv`, that the cursor is on the list while the form of
  a profile in it is open, since saving that form may take a place away. That `Upsert` and the deletion by
  name keep names distinct is shown of the filtering loop. Of history and
  bookmarks: `ListsTyped`, `ListsStaySound`, and `UnreadableStays`, an action
  property. `SearchInv` has the invariant of each list and its file apart; the
  lemmas about `Push`, `RemoveItem` and what a failed write leaves keep items
  distinct.
- `CliProofs`: `CommandsTyped`, `OutputStaysHonest`. `OutputHonest` speaks of commands
  that ended, so `CliInv` says what a command under way has: a script and entries
  that are lists, and command lines with sources and numbers (`Inputs`); at each
  point what was read or made on the way there (`Progress`); collected pages that
  are the beginning of what is served, as far as the cookie, and at the end all of
  it, `-limit` entries, or what a limit of the server's let through (`Collected`);
  a connection as the phase and the command line demand it (`Connected`); the exit
  code and the output of what ended (`Outcomes`), and the file at the path of `-o`
  (`Standing`). The lemmas are about lists, about what a page does to the pages
  collected, and about one step each.
- `AddFormProofs`: `CursorOnField`, `NothingTypedMoves`, `FieldsAreDemanded`,
  `ClassesAreResolved` and `SchemaIsHonoured`. The
  form reads the field under the cursor without a look at how many there are;
  that it is there is a matter of what the schema answers. `FormInv`: no schema or
  the parse of this server's definitions, a form whose required fields differ in
  their names (`FormSound`), the cursor on one of its fields, and off the RDN and
  the classes the fields that are to be shown (`UpToDate`). Fields go only by
  leaving the two fields above them, where the cursor is counted from the top, and
  by a picker's answer, where the cursor may be anywhere: picked classes are
  appended, so what they demand is too, and what was to be shown begins what is
  (`MustBegins`, `ShownBegins`). Fields that differ in their names are also what
  keeps a value with its attribute. `FieldsAreDemanded` compares a walk with a set:
  the walk over a graph with cycles ends within `Visits`, because each visit takes
  a class from those to come or a class with its links from those not met
  (`VisitLeaves`, `WalkEnds`), and when nothing is to come, what was met is closed
  under superclasses, and every set that is so contains it (`Reaching`,
  `LineageAncestors`). It needs `NamesApart`: where a name was taken over by a later
  definition, the name in a lineage is of another class than the one visited.
  `ClassesAreResolved` goes on from there: each class of a lineage is met once and
  after a class below it (`InLine`), what some classes require and allow is what
  their ancestors list (`InheritanceFacts`), and an attribute that says nothing
  itself has what its superior has, where the SUP links end within `SupSteps`, and
  what some attribute says in any case (`Climbs`, `SameAbove`, `EndMeets`). The last
  needs `NamesPlain`: the look-up cuts
  a name at ";", so that an attribute defined with one in its name is
  never found by it. `SchemaIsHonoured` adds the entry that is offered: an attribute for
  each that is demanded (`EntryFacts`), a warning where one is due and nowhere else
  (`WarningFacts`), and that nothing else leads to the question (`OfferStep`); it
  rests on a second invariant, that what is typed for the RDN and the further
  attributes are lists (`TypedSound`).
- `ListLemmas`: induction over the natural numbers in the form the provers can
  use, as a fact about sets that follows from there being no endless descent, and
  from it the recursive functions of the models (`Rest`, `BigEndian`, loops over a
  list, a walk, and the flattening of a sequence of messages); that a loop over a
  longer list begins like the one over its beginning; what `Rest` keeps of a list.

The assumptions are those named `...Assumption` in the modules: of `EntryCache`
and `Session`, finite DNs, a cache of at least one entry, values told apart; of
`Browser`, that DNs are sequences and a DN's parent is one too; of `ProtocolTap`,
that messages are BER sequences, which is what the LDAP library and the server
write; of `Search`, that a form refused is no search and the first scope one of the form's; of `Profiles`, that the empty
name is no profile's and the bound on deletes a number; of `Cli` and `Ldif`, that the entries and the script are lists,
that lines are at least one token long and lower case of a word is a word; of
`AddForm`, that definitions are lists of tokens, classes lists of words, RDNs and
further attributes lists too, and that `objectClass` is `objectclass` in lower
case; of `Filter` and `FilterBuilder`, that names are strings, conditions that are
typed are expressions and typed texts lists of rows; of `SearchLists`, that the
default bookmarks are distinct, as `DefaultBookmarks` has them (`store/connections.go:236-244`). No theorem uses a
bound of the runs; the counters `MaxWrites`, `MaxRecords`, `MaxPending`, `MaxKeys`,
`MaxSent`, `MaxClears`, `MaxRuns`, `MaxRequests` and `MaxSessions`, and the server's
`LastPage`, `MaxDone` and `MaxDeletes`, are any natural number (there is at least one session).

Only model-checked: liveness under fairness and what speaks of ENABLED, which are
out of the prover's reach; and `ReadBack` of `Cli`, which is about what the codec of
`Ldif` computes for every text.

## 6. What disagrees with the code

This run ends in a counterexample, and `PROJECT.json` quotes the lines.

- `search_lists_seed`: `SearchList.Fresh` is exported without a yaml tag, is
  written with the list and read back as true: each start takes the bookmarks for
  fresh and replaces them by the defaults (`store/connections.go:165`,
  `tui/app.go:107-109`).

### Observations

Found while modelling. The properties that would meet one say by name what they
leave out:

- An answer that left the server before a write is cached after the write's
  invalidation, and the entry is shown as it was until the TTL has passed
  (`ldapclient/client.go:107`, `read.go:163-172`; `raced`).
- A page of an earlier search is stored among those of the run since
  (`tui/search.go:309-322`; `late`).
- The palette's `filter` opens the builder on any screen; its
  result is handed to a search that was never opened, and indexes the fields of a
  form that has none: the program panics (`tui/search.go:379`; "crashed").
- `connecting` is a flag and not a count: of two attempts under way the first
  result turns the spinner off (`tui/app.go:535`).
- Quitting closes the client and ends the program by a message
  (`tui/app.go:180-182`, `tui/actions.go:727`): an `openRootDSEMsg`, a refresh after
  a write or a key that is handled before it meets a nil client and panics
  (`tui/app.go:332`). So do they after a disconnect (`CrashNeedsClose`; `left`).
- Roots, children, entries and a schema say nothing of the session that asked: late
  answers of a closed one are shown in the next (`tui/app.go:443`, `374`), and a
  schema load of a closed session holds up the next one's (`:625`), which then gets
  that schema.
- `:readonly on` does not stop the records of an import that runs
  (`tui/actions.go:319-353`).
- `childrenLoadedMsg` goes to the first node with its DN: when roots overlap,
  another one stays marked as loading (`tui/browser.go:310`; `RootsApart`).
- A node on the path of a goto that is collapsed while it waits is not expanded
  again, and the goto ends at a node nobody sees (`tui/browser.go:286`).
- A search sent again (`r`, or a page that is asked for again) after the form's
  scope was edited goes out with the old scope and is remembered, and headed, with
  the form's (`tui/search.go:287`, `332`, `696`; `edited`).
- `n` asks again for a page that was loaded and is empty (`tui/search.go:607`).
- Results that come after the search was opened anew push an item without base,
  scope and filter into the history (`tui/search.go:332`).
- A new profile, a duplicate or a referral's replaces a profile of the same name
  (`tui/connections.go:148`); a rename tried again under another name after a
  failed write leaves two (`:146`; `EditAddsNone` speaks of a `fresh` form), as does
  a form that is saved a second time before it is closed; a delete that was not
  written is reported as done (`:171`).
- A confirmed delete is a message and looks at no form: a form that was opened on
  the profile in between adds it again when it is saved
  (`tui/connections.go:216-221`, `169-175`; `fresh`). Two deletes, or a rename onto
  another profile, leave the cursor behind the last profile, where keys find none
  (`:172`, `187`; `CursorNear`).
- `:clear history` reports success when the file was not written, or not read
  (`tui/actions.go:974-976`).
- After a message longer than the limit the tap takes its tail for messages
  (`internal/proto/proto.go:156`; `lost`).
- Editing a condition that came from a text escapes its value again, since the
  prompt shows it as it was parsed (`tui/filterbuilder.go:87`, `:118`;
  `filter/filter.go:25`; `Exact`); so do stars where they are no wildcards, as in
  `cn>=a*` (`:37`). The answer of a prompt carries no node: it is
  applied to whatever is selected when it comes.
- The cursor of the add-entry form keeps its number and not its field when
  required fields come or go above the extra ones (`tui/app.go:376`,
  `tui/actions.go:202`).
- `cn=` among the extra attributes satisfies the strict check, whose comment asks
  for the required attributes filled in (`tui/actions.go:419-420`); an alias of a
  required attribute (`commonName`) does not. Two aliases of one single-valued
  attribute, or an RDN attribute the classes do not allow, are not warned of.
- "Nearest first" (`internal/schema/schema.go:178`) does not hold when a class has
  two superiors with a common one. A definition that takes over a name of an
  earlier one changes what `Resolve` finds for the earlier one's OID; the
  schema's properties speak of servers that use a name once (`NamesApart`), and
  where attributes are looked up, of names without options (`NamesPlain`).
- `-limit` is not applied to a page that comes with a size or time limit
  (`internal/cli/cli.go:264-267`), and such a limit on a later page without
  entries is an error, for which what came before is thrown away (`:407-410`).
- A server that answers every page empty and with a cookie is asked for ever; no
  count and no time ends `Collect` (`cli.go:256-279`; `EmptyPage`).
- The error of a write to stdout is dropped, so that a search whose output was cut
  off exits with 0 (`cli.go:425`); `Cli` prints whole.
- An unknown `-format` is noticed after the search has run (`cli.go:420`).
- A failed or interrupted export has emptied the file before (`format.go:117`); a
  part that ends between two records is read by `ldif` without complaint.
- An export with `-attrs` that leaves out objectClass does not pass
  `ldif -validate` (`internal/ldif/validate.go:73`).
- Validation notices a name added twice, but also when it was deleted in between,
  and not when a rename leads to it (`validate.go:43-49`; `Present`).
- In a modify record without "-" the next `replace:` is taken for a value
  (`ldif.go:299-302`); a line of blanks between records continues the line before
  it and joins them (`ldif.go:169`).

## 7. Not modelled

Drawing, completion, scrolling, text editing, clipboard, the views of entries,
schema, protocol and operations, the export of the terminal program: they show
or write state modelled elsewhere and keep none that outlives a key. The Active
Directory decoders and OID names are tables and byte offsets. Decoding a message
into fields, syntaxes and matching rules of a schema, the layout of JSON, CSV and
text are left out of the modules that stand next to them; DNs and URLs are parsed
by go-ldap and net/url. The find, related and security tabs of the browser;
sorting, quick filter and columns of results; two programs at once on one
configuration directory. The LDAP server and go-ldap are modelled as their
callers see them and marked external in `PROJECT.json`.

## 8. Plan

Order of the modules, the most important first; those with a mark are done.

1. [x] `EntryCache` with proofs: reads and writes over one cache.
2. [x] `Session` with proofs: connections, read-only mode, writes, schema loads.
3. [x] `Browser`, `Search`: answers without a mark of who asked.
4. [x] `ProtocolTap` over the abstract `Capture`.
5. [x] `Profiles`, `SearchLists` over `ConfigFile` and `SavedSearches`.
6. [x] `Filter`, `FilterBuilder`: a tree under edits, printed and parsed.
7. [x] `Schema`, `AddForm`: the resolution of classes and the form that follows it.
8. [x] `Ldif`, `Cli`: the codec, the paging loop and the commands around them.
9. [ ] Two instances of `Profiles` on one file.

Theorems to come: that what `Ldif` writes is read back, for values of any length
(`ReadBack`).
