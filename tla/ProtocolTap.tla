---------------------------- MODULE ProtocolTap ----------------------------
(***************************************************************************)
(* The protocol tap (internal/proto/proto.go) sits on a connection's       *)
(* socket, cuts the bytes that pass into LDAP messages and adds them to a  *)
(* bounded log.  Two goroutines of the LDAP library use it, one that       *)
(* writes requests and one that reads answers, and the user clears the     *)
(* log.  A message is the sequence of its bytes; the socket delivers them  *)
(* in pieces of any size.                                                  *)
(***************************************************************************)
EXTENDS Integers, Sequences, SequencesExt

CONSTANTS Frames,      \* the messages, each a BER sequence of bytes
          FrameLimit,  \* the longest message frameLen accepts, 64 MiB in the code
          LogMax,      \* the size of the log, 1000 in the code
          MaxSent,     \* bound: messages in each direction
          MaxClears    \* bound: how often the user clears the log

ASSUME LimitsAssumption ==
    FrameLimit \in Nat /\ LogMax \in Nat /\ MaxSent \in Nat /\ MaxClears \in Nat

Dirs == {"out", "in"}

VARIABLES
    sent,      \* the messages given to Write, and those the server wrote
    wire,      \* bytes of the server that have not been read
    handed,    \* [direction -> bytes the socket took or gave, not yet fed]
    feeding,   \* the direction whose feed holds Tap.mu, "none" if none does
    buf,       \* Tap.buf
    log,       \* Log.msgs
    seq,       \* Log.seq
    closed,    \* a write failed: the library gives the connection up
    recorded,  \* every message ever added to the log, by direction
    lost,      \* directions in which bytes were thrown away
    clears     \* how often the log was cleared

vars == <<sent, wire, handed, feeding, buf, log, seq, closed, recorded, lost, clears>>

-----------------------------------------------------------------------------
(* frameLen: "whole", "more" (bytes are needed) or "alien", and the length *)
(* of the frame at the start of b.                                         *)

\* A length in k bytes, the first the most significant.
BigEndian(b, k) ==
    LET n[i \in 0 .. k] == IF i = 0 THEN 0 ELSE n[i - 1] * 256 + b[2 + i]
    IN  n[k]

\* A BER sequence: the tag, a length in the short or the long form, and as many
\* bytes as the length says.
Sequence(f) ==
    /\ f \in Seq(0 .. 255) /\ Len(f) >= 2 /\ f[1] = 48
    /\ \/ f[2] < 128 /\ Len(f) = 2 + f[2]
       \/ LET k == f[2] - 128
          IN  k > 0 /\ Len(f) >= 2 + k /\ Len(f) = 2 + k + BigEndian(f, k)

ASSUME FramesAssumption == \A f \in Frames : Sequence(f)

Frame(b, n) == IF Len(b) >= n THEN [is |-> "whole", len |-> n] ELSE [is |-> "more", len |-> 0]

\* Mutants of FrameLen: the header is not counted in the short form; the
\* length's own bytes are not counted in the long form.
FrameLenBody(b) ==
    IF Len(b) < 2 THEN [is |-> "more", len |-> 0]
    ELSE IF b[1] # 48 THEN [is |-> "alien", len |-> 0]
    ELSE IF b[2] < 128 THEN Frame(b, b[2])
    ELSE IF Len(b) < 3 THEN [is |-> "more", len |-> 0]
    ELSE [is |-> "alien", len |-> 0]

FrameLenShort(b) ==
    IF Len(b) < 2 THEN [is |-> "more", len |-> 0]
    ELSE IF b[1] # 48 THEN [is |-> "alien", len |-> 0]
    ELSE IF b[2] < 128 THEN Frame(b, 2 + b[2])
    ELSE LET k == b[2] - 128
         IN  IF k = 0 \/ k > 4 THEN [is |-> "alien", len |-> 0]
             ELSE IF Len(b) < 2 + k THEN [is |-> "more", len |-> 0]
             ELSE IF BigEndian(b, k) > FrameLimit THEN [is |-> "alien", len |-> 0]
             ELSE Frame(b, 2 + BigEndian(b, k))

FrameLen(b) ==
    IF Len(b) < 2 THEN [is |-> "more", len |-> 0]
    ELSE IF b[1] # 48 THEN [is |-> "alien", len |-> 0]
    ELSE IF b[2] < 128 THEN Frame(b, 2 + b[2])
    ELSE LET k == b[2] - 128
         IN  IF k = 0 \/ k > 4 THEN [is |-> "alien", len |-> 0]
             ELSE IF Len(b) < 2 + k THEN [is |-> "more", len |-> 0]
             ELSE IF BigEndian(b, k) > FrameLimit THEN [is |-> "alien", len |-> 0]
             ELSE Frame(b, 2 + k + BigEndian(b, k))

-----------------------------------------------------------------------------
(* The log.  A note has no direction and no bytes.                         *)

\* Mutant of Add: a full log refuses the new message.
AddRefused(dir, f) ==
    /\ seq' = seq + 1
    /\ log' = IF Len(log) < LogMax THEN Append(log, [seq |-> seq + 1, dir |-> dir, raw |-> f]) ELSE log

\* Log.Add: numbers the message and drops the oldest of a full log.
Add(dir, f) ==
    LET all == Append(log, [seq |-> seq + 1, dir |-> dir, raw |-> f])
    IN  /\ seq' = seq + 1
        /\ log' = IF LogMax > 0 /\ Len(all) > LogMax
                  THEN SubSeq(all, Len(all) - LogMax + 1, Len(all)) ELSE all

\* Log.Clear: the numbers go on.
Clear ==
    /\ clears < MaxClears /\ clears' = clears + 1
    /\ log' = <<>>
    /\ UNCHANGED <<sent, wire, handed, feeding, buf, seq, closed, recorded, lost>>

-----------------------------------------------------------------------------
(* The socket.                                                             *)

\* The library writes a request, and Tap.Write has what the socket took.
Write(f) ==
    /\ ~closed /\ feeding # "out" /\ handed["out"] = <<>> /\ Len(sent["out"]) < MaxSent
    /\ sent' = [sent EXCEPT !["out"] = Append(@, f)]
    /\ handed' = [handed EXCEPT !["out"] = f]
    /\ UNCHANGED <<wire, feeding, buf, log, seq, closed, recorded, lost, clears>>

\* The socket takes a part and fails.
WriteFails(f) ==
    /\ ~closed /\ feeding # "out" /\ handed["out"] = <<>> /\ Len(sent["out"]) < MaxSent
    /\ sent' = [sent EXCEPT !["out"] = Append(@, f)]
    /\ \E n \in 0 .. Len(f) - 1 : handed' = [handed EXCEPT !["out"] = SubSeq(f, 1, n)]
    /\ closed' = TRUE
    /\ UNCHANGED <<wire, feeding, buf, log, seq, recorded, lost, clears>>

ServerSends(f) ==
    /\ Len(sent["in"]) < MaxSent
    /\ sent' = [sent EXCEPT !["in"] = Append(@, f)]
    /\ wire' = wire \o f
    /\ UNCHANGED <<handed, feeding, buf, log, seq, closed, recorded, lost, clears>>

\* Tap.Read: the next bytes, as many as the socket has ready.
Read(n) ==
    /\ ~closed /\ feeding # "in" /\ handed["in"] = <<>> /\ n \in 1 .. Len(wire)
    /\ handed' = [handed EXCEPT !["in"] = SubSeq(wire, 1, n)]
    /\ wire' = SubSeq(wire, n + 1, Len(wire))
    /\ UNCHANGED <<sent, feeding, buf, log, seq, closed, recorded, lost, clears>>

-----------------------------------------------------------------------------
(* feed, one turn of its loop at a time: the log can be cleared between    *)
(* two turns, and the other direction waits for Tap.mu.                    *)

Feed(d) ==
    /\ feeding = "none" /\ handed[d] # <<>>
    /\ feeding' = d
    /\ buf' = [buf EXCEPT ![d] = @ \o handed[d]]
    /\ handed' = [handed EXCEPT ![d] = <<>>]
    /\ UNCHANGED <<sent, wire, log, seq, closed, recorded, lost, clears>>

FeedFrame(d) ==
    LET n == FrameLen(buf[d]).len
    IN  /\ feeding = d /\ FrameLen(buf[d]).is = "whole"
        /\ Add(d, SubSeq(buf[d], 1, n))
        /\ buf' = [buf EXCEPT ![d] = SubSeq(@, n + 1, Len(@))]
        /\ recorded' = [recorded EXCEPT ![d] = Append(@, SubSeq(buf[d], 1, n))]
        /\ UNCHANGED <<sent, wire, handed, feeding, closed, lost, clears>>

\* Mutant of FeedMore: only one message is taken from each piece.
FeedOnce(d) ==
    /\ feeding = d
    /\ feeding' = "none"
    /\ UNCHANGED <<sent, wire, handed, buf, log, seq, closed, recorded, lost, clears>>

FeedMore(d) ==
    /\ feeding = d /\ FrameLen(buf[d]).is = "more"
    /\ feeding' = "none"
    /\ UNCHANGED <<sent, wire, handed, buf, log, seq, closed, recorded, lost, clears>>

\* Bytes that begin no message: all that is buffered is thrown away.
FeedAlien(d) ==
    /\ feeding = d /\ FrameLen(buf[d]).is = "alien"
    /\ Add("note", <<>>)
    /\ buf' = [buf EXCEPT ![d] = <<>>] /\ lost' = lost \cup {d}
    /\ feeding' = "none"
    /\ UNCHANGED <<sent, wire, handed, closed, recorded, clears>>

-----------------------------------------------------------------------------

\* Connect notes that the connection is made, then hands the tap to the library.
Init ==
    /\ sent = [d \in Dirs |-> <<>>] /\ wire = <<>>
    /\ handed = [d \in Dirs |-> <<>>] /\ feeding = "none"
    /\ buf = [d \in Dirs |-> <<>>]
    /\ log = <<[seq |-> 1, dir |-> "note", raw |-> <<>>]>> /\ seq = 1
    /\ closed = FALSE /\ recorded = [d \in Dirs |-> <<>>] /\ lost = {} /\ clears = 0

Reader == (\E n \in 1 .. Len(wire) : Read(n))
Tap(d) == Feed(d) \/ FeedFrame(d) \/ FeedMore(d) \/ FeedAlien(d)

Next ==
    \/ Clear \/ Reader
    \/ \E f \in Frames : Write(f) \/ WriteFails(f) \/ ServerSends(f)
    \/ \E d \in Dirs : Tap(d)

Spec == Init /\ [][Next]_vars

\* The library reads in a loop; feed runs to its end, and a goroutine that waits
\* for Tap.mu gets it in the end (sync.Mutex is fair to waiters).
FairSpec == Spec /\ WF_vars(Reader) /\ \A d \in Dirs : SF_vars(Tap(d))

-----------------------------------------------------------------------------
(* Properties.                                                             *)

Bytes == Seq(0 .. 255)

TypeOK ==
    /\ sent \in [Dirs -> Seq(Frames)] /\ wire \in Bytes
    /\ handed \in [Dirs -> Bytes] /\ buf \in [Dirs -> Bytes]
    /\ feeding \in Dirs \cup {"none"}
    /\ log \in Seq([seq : Nat, dir : Dirs, raw : Bytes \ {<<>>}]
                    \cup [seq : Nat, dir : {"note"}, raw : {<<>>}])
    /\ seq \in Nat
    /\ closed \in BOOLEAN /\ recorded \in [Dirs -> Seq(Bytes)]
    /\ lost \subseteq Dirs /\ clears \in 0 .. MaxClears

\* The later messages of the same direction in the log.
After(i) == {j \in DOMAIN log : j > i /\ log[j].dir = log[i].dir}

\* The log is bounded, its numbers have no gap and end with the last one given,
\* and what it shows of a direction is the end of what was recorded of it, after
\* any number of clears and drops (proto.go:50-81).
LogIsRecent ==
    /\ LogMax > 0 => Len(log) <= LogMax
    /\ \A i \in DOMAIN log :
         /\ log[i].seq = seq - Len(log) + i
         /\ log[i].dir \in Dirs =>
              LET all == recorded[log[i].dir]
                  k   == Cardinality(After(i))
              IN  k < Len(all) /\ log[i].raw = all[Len(all) - k]

\* No byte is lost or taken twice between the socket and the log: what was sent
\* is what was recorded, what is buffered and what is still on its way.
NoByteLost ==
    \A d \in Dirs : d \notin lost =>
        IsPrefix(FlattenSeq(recorded[d]) \o buf[d] \o handed[d]
                    \o (IF d = "in" THEN wire ELSE <<>>),
                 FlattenSeq(sent[d]))

\* Every byte is in the log, was dropped from its old end, or is on its way.
LogFaithful == NoByteLost /\ LogIsRecent

\* What is recorded of a direction until bytes of it were thrown away.
InStep ==
    [d \in Dirs |-> IF d \in lost THEN LongestCommonPrefix({recorded[d], sent[d]}) ELSE recorded[d]]

\* However the bytes are cut, the messages recorded are those sent, whole and in
\* order, up to the first of a direction whose length frameLen refuses.
Promise == INSTANCE Capture WITH recorded <- InStep
Captured == Promise!Spec

\* Every message of either side is recorded in the end, however its bytes are
\* cut, if the connection lives and its direction was never out of step.
EverySentRecorded ==
    \A d \in Dirs : \A i \in 1 .. MaxSent :
        (Len(sent[d]) >= i) ~> (Len(recorded[d]) >= i \/ closed \/ d \in lost)
=============================================================================
