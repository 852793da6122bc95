------------------------------ MODULE Browser ------------------------------
(***************************************************************************)
(* The directory browser (internal/tui/browser.go): a tree that is loaded  *)
(* one level at a time, a goto that walks down it while it loads, and the  *)
(* entry pane.  Keys start goroutines that list or read an entry; their    *)
(* answers come back as messages in any order, and carry neither the node  *)
(* nor the session that asked, only a DN.                                  *)
(*                                                                         *)
(* A DN is the sequence of its RDNs with the root's first, <<>> the empty  *)
(* DN.  A node is <<slot, dn>>: the root it hangs under and its DN, which  *)
(* is unique below one root though not in the tree.  The server may answer *)
(* anything, since others change the directory; whether it answers in time *)
(* to be of this session or late of a closed one makes no difference to    *)
(* what the browser does.  The cursor can be on any visible node, so a key *)
(* acts on any visible node.                                               *)
(***************************************************************************)
EXTENDS Integers, Sequences, FiniteSets

CONSTANTS RDNs,       \* relative distinguished names
          DNs,        \* the DNs of the directory, non-empty sequences of RDNs
          Contexts,   \* the naming contexts a root DSE can list, a set of sequences of DNs
          MaxKeys     \* bound: keys, commands, finished modifications and connects

ASSUME DNAssumption == \A d \in DNs : d \in Seq(RDNs) /\ d # <<>>
ASSUME ContextsAssumption == Contexts \subseteq Seq(DNs)
ASSUME KeysAssumption == MaxKeys \in Nat

VARIABLES
    roots,     \* browserModel.roots
    tree,      \* the nodes below the roots: [node -> its flags]
    chain,     \* browserModel.gotoChain
    pending,   \* browserModel.pendingSel, <<>> for none
    entry,     \* browserModel.entry: its DN, <<>> for none
    loading,   \* browserModel.loading
    inflight,  \* goroutines under way: [Jobs -> Nat]
    keys,      \* how many things the user and the session have done
    cut        \* the roots were replaced while a goto waited

shown == <<roots, tree, chain, pending, entry, loading>>
vars == <<roots, tree, chain, pending, entry, loading, inflight, keys, cut>>

\* d is e or an ancestor of e.
Prefix(d, e) == Len(d) <= Len(e) /\ \A i \in 1 .. Len(d) : d[i] = e[i]
Parent(d) == SubSeq(d, 1, Len(d) - 1)
Kids(d) == {e \in DNs : Len(e) = Len(d) + 1 /\ Prefix(d, e)}

\* The names above a name are names too, whether there are entries of them or not.
ASSUME ParentsAssumption == \A d \in DNs : Len(d) > 1 => Parent(d) \in DNs

Jobs == [kind : {"expand", "read"}, dn : DNs]
        \cup [kind : {"roots"}, dn : {<<>>}]
Job(k, d) == [kind |-> k, dn |-> d]
Flags == [loaded : BOOLEAN, expanded : BOOLEAN, loading : BOOLEAN, leaf : BOOLEAN]

-----------------------------------------------------------------------------
(* The tree.                                                               *)

Slots(t, d) == {n[1] : n \in {x \in DOMAIN t : x[2] = d}}
Has(t, d) == Slots(t, d) # {}

\* findNode: the node with this DN below the first root that has one.
Find(t, d) == <<CHOOSE s \in Slots(t, d) : \A r \in Slots(t, d) : s <= r, d>>

\* rootFor: the first root at or above d, 0 if there is none.
RootsFor(d) == {s \in DOMAIN roots : Prefix(roots[s], d)}
RootFor(d) == IF RootsFor(d) = {} THEN 0
              ELSE CHOOSE s \in RootsFor(d) : \A r \in RootsFor(d) : s <= r

Under(t, n) == {x \in DOMAIN t : x[1] = n[1] /\ x # n /\ Prefix(n[2], x[2])}
Childless(t, n) == [x \in DOMAIN t \ Under(t, n) |-> t[x]]

\* Visible: every node above it is expanded.
Visible(t) ==
    {n \in DOMAIN t : \A x \in DOMAIN t : n \in Under(t, x) => t[x].expanded}

Fresh(leaf) == [loaded |-> FALSE, expanded |-> FALSE, loading |-> FALSE, leaf |-> leaf]
Forest(rs) == [n \in {<<s, rs[s]>> : s \in DOMAIN rs} |-> Fresh(FALSE)]

\* A node whose children are asked for anew, by r or after a modification.
Reset(t, n) ==
    [Childless(t, n) EXCEPT ![n].loaded = FALSE, ![n].expanded = FALSE, ![n].loading = TRUE]

Refreshed(t, d) == IF Has(t, d) THEN Reset(t, Find(t, d)) ELSE t

\* Mutant of Filled: the children are hung below the first root.
FilledFirstRoot(t, n, kids, leaves) ==
    LET bare == Childless(t, n)
        new  == {<<1, e>> : e \in kids}
    IN  [x \in DOMAIN bare \cup new |->
            IF x \in new THEN Fresh(x[2] \in leaves)
            ELSE IF x = n THEN [bare[n] EXCEPT !.loading = FALSE, !.loaded = TRUE, !.expanded = TRUE]
            ELSE bare[x]]

\* The children of an answer take the place of those the node had.
Filled(t, n, kids, leaves) ==
    LET bare == Childless(t, n)
        new  == {<<n[1], e>> : e \in kids}
    IN  [x \in DOMAIN bare \cup new |->
            IF x \in new THEN Fresh(x[2] \in leaves)
            ELSE IF x = n THEN [bare[n] EXCEPT !.loading = FALSE, !.loaded = TRUE, !.expanded = TRUE]
            ELSE bare[x]]

-----------------------------------------------------------------------------
(* Goroutines.                                                             *)

Asking(fl, js) == [j \in Jobs |-> IF j \in js THEN fl[j] + 1 ELSE fl[j]]
Answered(j) == [inflight EXCEPT ![j] = @ - 1]
Awaited(k, d) == inflight[Job(k, d)] > 0
Reading == \E d \in DNs : Awaited("read", d)

Key == keys < MaxKeys /\ keys' = keys + 1

-----------------------------------------------------------------------------
(* Goto.  The chain holds the DNs from the root's to the target's.         *)

\* How far advanceGoto comes: it passes what is loaded and stops at the rest.
Stop(t, ch) ==
    LET stops == {i \in 1 .. Len(ch) :
                    i = Len(ch) \/ ~Has(t, ch[i]) \/ ~t[Find(t, ch[i])].loaded}
    IN  CHOOSE i \in stops : \A k \in stops : i <= k

Passed(t, ch) ==
    LET passed == {Find(t, ch[i]) : i \in 1 .. Stop(t, ch) - 1}
    IN  [x \in DOMAIN t |-> IF x \in passed THEN [t[x] EXCEPT !.expanded = TRUE] ELSE t[x]]

\* Mutant of AdvanceGoto: a node that has not been listed yet is waited for
\* without being asked for.
AdvanceGotoWaits(t, ch, fl, ld) ==
    LET head == ch[Stop(t, ch)]
        rest == SubSeq(ch, Stop(t, ch), Len(ch))
        u    == Passed(t, ch)
    IN  \/ /\ ~Has(t, head)
           /\ tree' = u /\ chain' = <<>> /\ loading' = ld /\ inflight' = fl
        \/ /\ Has(t, head) /\ Len(rest) = 1
           /\ tree' = u /\ chain' = <<>> /\ loading' = TRUE
           /\ inflight' = Asking(fl, {Job("read", head)})
        \/ /\ Has(t, head) /\ Len(rest) > 1
           /\ tree' = [u EXCEPT ![Find(u, head)].loading = TRUE]
           /\ chain' = rest /\ loading' = ld /\ inflight' = fl

\* advanceGoto: gives up at a node that is not there, reads the target when it
\* is reached, asks for the children of a node that has not been listed.
AdvanceGoto(t, ch, fl, ld) ==
    LET head == ch[Stop(t, ch)]
        rest == SubSeq(ch, Stop(t, ch), Len(ch))
        u    == Passed(t, ch)
        n    == Find(t, head)
    IN  \/ /\ ~Has(t, head)
           /\ tree' = u /\ chain' = <<>> /\ loading' = ld /\ inflight' = fl
        \/ /\ Has(t, head) /\ Len(rest) = 1
           /\ tree' = u /\ chain' = <<>> /\ loading' = TRUE
           /\ inflight' = Asking(fl, {Job("read", head)})
        \/ /\ Has(t, head) /\ Len(rest) > 1
           /\ chain' = rest /\ loading' = ld
           /\ tree' = [u EXCEPT ![n].loading = TRUE]
           /\ inflight' = IF t[n].loading THEN fl ELSE Asking(fl, {Job("expand", head)})

\* startGoto: a target below no root becomes a root.  It takes the place of a
\* goto under way.
StartGoto(d) ==
    LET s   == RootFor(d)
        new == [n \in DOMAIN tree \cup {<<Len(roots) + 1, d>>} |->
                    IF n \in DOMAIN tree THEN tree[n] ELSE Fresh(FALSE)]
    IN  /\ Key
        /\ \/ /\ s = 0
              /\ roots' = Append(roots, d)
              /\ AdvanceGoto(new, <<d>>, inflight, loading)
           \/ /\ s # 0
              /\ roots' = roots
              /\ AdvanceGoto(tree,
                             [i \in 1 .. Len(d) - Len(roots[s]) + 1 |->
                                  SubSeq(d, 1, Len(roots[s]) + i - 1)],
                             inflight, loading)
        /\ cut' = FALSE
        /\ UNCHANGED <<pending, entry>>

-----------------------------------------------------------------------------
(* Keys in the tree.                                                       *)

\* l, right, enter: list the node once, show what is listed, read the entry.
Open(n) ==
    LET list == ~tree[n].loaded /\ ~tree[n].loading /\ ~tree[n].leaf
    IN  /\ Key
        /\ tree' = [tree EXCEPT ![n].loading = @ \/ list, ![n].expanded = @ \/ tree[n].loaded]
        /\ loading' = TRUE
        /\ inflight' = Asking(inflight, {Job("read", n[2])}
                                        \cup IF list THEN {Job("expand", n[2])} ELSE {})
        /\ UNCHANGED <<roots, chain, pending, entry, cut>>

\* h, left on an expanded node.
Collapse(n) ==
    /\ Key /\ tree[n].expanded
    /\ tree' = [tree EXCEPT ![n].expanded = FALSE]
    /\ UNCHANGED <<roots, chain, pending, entry, loading, inflight, cut>>

\* r: list and read anew, whatever is under way.
Refresh(n) ==
    /\ Key
    /\ tree' = Reset(tree, n)
    /\ loading' = TRUE
    /\ inflight' = Asking(inflight, {Job("read", n[2]), Job("expand", n[2])})
    /\ UNCHANGED <<roots, chain, pending, entry, cut>>

-----------------------------------------------------------------------------
(* opDoneMsg of a modification that succeeded.  Two nodes may have to be   *)
(* listed anew, and resetting the first may remove the second.             *)

\* Mutant of OpDone: the spinner is started when no entry is read again.
OpDoneBusy(d1, d2, sel, read, clear) ==
    LET t1 == Refreshed(tree, d1)
        listed == {d \in {d1} : Has(tree, d)}
    IN  /\ Key /\ tree' = t1 /\ loading' = TRUE
        /\ inflight' = Asking(inflight, {Job("expand", d) : d \in listed}
                                        \cup {Job("read", d) : d \in {read} \ {<<>>}})
        /\ UNCHANGED <<roots, chain, pending, entry, cut>>

OpDone(d1, d2, sel, read, clear) ==
    LET t1 == Refreshed(tree, d1)
        t2 == IF d2 = d1 THEN t1 ELSE Refreshed(t1, d2)
        listed == {d \in {d1} : Has(tree, d)} \cup {d \in {d2} : Has(t1, d)}
    IN  /\ Key
        /\ entry' = IF clear THEN <<>> ELSE entry
        /\ pending' = IF sel # <<>> THEN sel ELSE pending
        /\ tree' = t2
        /\ loading' = (loading \/ read # <<>>)
        /\ inflight' = Asking(inflight, {Job("expand", d) : d \in listed}
                                        \cup {Job("read", d) : d \in {read} \ {<<>>}})
        /\ UNCHANGED <<roots, chain, cut>>

Modified(d) == OpDone(<<>>, <<>>, <<>>, d, FALSE)
Added(d)    == OpDone(Parent(d), Parent(d), d, d, FALSE)
Deleted(d)  == OpDone(Parent(d), Parent(d), Parent(d), <<>>, TRUE)
Moved(d, e) == OpDone(Parent(d), Parent(e), e, e, TRUE)

-----------------------------------------------------------------------------
(* Answers.                                                                *)

\* rootsLoadedMsg: the tree is begun anew, what was expanded is forgotten.
RootsLoaded(j, rs) ==
    /\ inflight[j] > 0 /\ j.kind = "roots"
    /\ roots' = rs /\ tree' = Forest(rs)
    /\ inflight' = Answered(j)
    /\ cut' = (cut \/ chain # <<>>)
    /\ UNCHANGED <<chain, pending, entry, loading, keys>>

\* childrenLoadedMsg: the answer goes to the node the DN is found at, and lets
\* a goto go on, whichever node it waits for.
ChildrenLoaded(j, kids, leaves) ==
    LET n == Find(tree, j.dn)
        t == Filled(tree, n, kids, leaves)
    IN  /\ inflight[j] > 0 /\ j.kind = "expand" /\ Has(tree, j.dn)
        /\ pending' = IF pending # <<>> /\ Has(t, pending) THEN <<>> ELSE pending
        /\ IF chain # <<>> THEN AdvanceGoto(t, chain, Answered(j), loading)
           ELSE tree' = t /\ inflight' = Answered(j) /\ UNCHANGED <<chain, loading>>
        /\ UNCHANGED <<roots, entry, keys, cut>>

\* childrenLoadedMsg with an error: the goto under way ends.
ExpandFailed(j) ==
    /\ inflight[j] > 0 /\ j.kind = "expand" /\ Has(tree, j.dn)
    /\ tree' = [tree EXCEPT ![Find(tree, j.dn)].loading = FALSE]
    /\ chain' = <<>> /\ inflight' = Answered(j)
    /\ UNCHANGED <<roots, pending, entry, loading, keys, cut>>

\* childrenLoadedMsg for a node that is gone, and rootsLoadedMsg with an error.
AnswerDropped(j) ==
    /\ inflight[j] > 0 /\ (j.kind = "expand" => ~Has(tree, j.dn)) /\ j.kind # "read"
    /\ inflight' = Answered(j)
    /\ UNCHANGED <<shown, keys, cut>>

\* entryLoadedMsg with an error.
ReadFailed(j) ==
    /\ inflight[j] > 0 /\ j.kind = "read"
    /\ loading' = FALSE /\ inflight' = Answered(j)
    /\ UNCHANGED <<roots, tree, chain, pending, entry, keys, cut>>

\* entryLoadedMsg: whichever answer comes last is shown.
EntryLoaded(j) ==
    /\ inflight[j] > 0 /\ j.kind = "read"
    /\ loading' = FALSE /\ entry' = j.dn /\ inflight' = Answered(j)
    /\ UNCHANGED <<roots, tree, chain, pending, keys, cut>>

-----------------------------------------------------------------------------
(* Sessions.                                                               *)

\* A connect or a referral takes effect: newBrowserModel and loadRootCmd.  What
\* goroutines of the session before were asked is still to be answered.
Connected ==
    /\ Key
    /\ roots' = <<>> /\ tree' = Forest(<<>>) /\ chain' = <<>> /\ pending' = <<>>
    /\ entry' = <<>> /\ loading' = FALSE /\ cut' = FALSE
    /\ inflight' = Asking(inflight, {Job("roots", <<>>)})

\* The first session has just begun.
Init ==
    /\ roots = <<>> /\ tree = Forest(<<>>) /\ chain = <<>> /\ pending = <<>>
    /\ entry = <<>> /\ loading = FALSE /\ cut = FALSE /\ keys = 0
    /\ inflight = [j \in Jobs |-> IF j = Job("roots", <<>>) THEN 1 ELSE 0]

User ==
    \/ \E n \in Visible(tree) : Open(n) \/ Collapse(n) \/ Refresh(n)
    \/ \E d \in DNs : StartGoto(d) \/ Modified(d) \/ Added(d) \/ Deleted(d)
    \/ \E d, e \in DNs : d # e /\ Moved(d, e)
    \/ Connected

Answer(j) ==
    \/ \E rs \in Contexts : RootsLoaded(j, rs)
    \/ \E kids \in SUBSET Kids(j.dn) : \E leaves \in SUBSET kids : ChildrenLoaded(j, kids, leaves)
    \/ ExpandFailed(j) \/ AnswerDropped(j) \/ EntryLoaded(j) \/ ReadFailed(j)

Next == User \/ \E j \in Jobs : Answer(j)

Spec == Init /\ [][Next]_vars

\* Every request ends, by an answer, an error or the connection's timeout, and
\* its message is handled.  Nothing makes the user press a key.
FairSpec == Spec /\ \A j \in Jobs : WF_vars(Answer(j))

-----------------------------------------------------------------------------
(* Properties.                                                             *)

Types ==
    /\ roots \in Seq(DNs) /\ chain \in Seq(DNs)
    /\ pending \in DNs \cup {<<>>} /\ entry \in DNs \cup {<<>>}
    /\ loading \in BOOLEAN /\ cut \in BOOLEAN /\ keys \in 0 .. MaxKeys
    /\ inflight \in [Jobs -> Nat]
    /\ DOMAIN tree \subseteq (DOMAIN roots) \X DNs
    /\ \A n \in DOMAIN tree : tree[n] \in Flags /\ Prefix(roots[n[1]], n[2])

\* Below a root hang DNs below its own, each next to its parent, which has been
\* listed.
TreeShape ==
    /\ \A s \in DOMAIN roots : <<s, roots[s]>> \in DOMAIN tree
    /\ \A n \in DOMAIN tree :
        n[2] # roots[n[1]] => /\ <<n[1], Parent(n[2])>> \in DOMAIN tree
                              /\ tree[<<n[1], Parent(n[2])>>].loaded

\* The types, and the shape of the tree.
TypeOK == Types /\ TreeShape

\* No root lies at or below another.
RootsApart ==
    \A s, r \in DOMAIN roots : s # r => ~Prefix(roots[s], roots[r])

\* What is marked as loading is under way, through refreshes, replaced parents,
\* gotos and late answers, so that the mark will be taken away: a request for the
\* DN of a node, unless roots overlap, and of some entry for the entry pane
\* (childrenLoadedMsg, entryLoadedMsg, browser.go:309-350).
LoadingAwaited ==
    /\ RootsApart => \A n \in DOMAIN tree : tree[n].loading => Awaited("expand", n[2])
    /\ loading => Reading

\* A goto that waits is going to be woken: unless roots overlap or were replaced
\* under it, a listing of the node it waits for or of one above is under way.
GotoAwaited ==
    RootsApart /\ ~cut /\ chain # <<>> =>
        \E d \in DNs : Prefix(d, chain[1]) /\ Awaited("expand", d)

\* Whatever the browser waits for will be answered.
WaitsAwaited == LoadingAwaited /\ GotoAwaited

Busy == loading \/ \E n \in DOMAIN tree : tree[n].loading

\* The spinner of the tree and the entry pane stops when the user does, unless
\* roots overlap.
SpinnerStops == <>[](RootsApart => ~Busy)

\* A goto comes to an end, by reading its target or by giving up, unless the
\* roots were replaced while it waited or overlap.
GotoEnds == <>[](chain = <<>> \/ cut \/ ~RootsApart)

\* No wait is for ever: neither the spinner's nor a goto's (browser.go:264, 341).
WaitsEnd == SpinnerStops /\ GotoEnds
=============================================================================
