------------------------------ MODULE Capture ------------------------------
(***************************************************************************)
(* What the protocol viewer promises: the messages of each direction are   *)
(* recorded one by one, whole, and in the order they were sent.            *)
(***************************************************************************)
EXTENDS Naturals, Sequences

CONSTANTS Dirs,      \* the directions of a connection
          Frames     \* the messages

VARIABLES sent,      \* [direction -> the messages sent]
          recorded   \* [direction -> the messages recorded]

Init ==
    /\ sent = [d \in Dirs |-> <<>>]
    /\ recorded = [d \in Dirs |-> <<>>]

Send(d, f) ==
    /\ sent' = [sent EXCEPT ![d] = Append(@, f)]
    /\ UNCHANGED recorded

Record(d) ==
    /\ Len(recorded[d]) < Len(sent[d])
    /\ recorded' = [recorded EXCEPT ![d] = Append(@, sent[d][Len(recorded[d]) + 1])]
    /\ UNCHANGED sent

Next == \E d \in Dirs : Record(d) \/ \E f \in Frames : Send(d, f)

Spec == Init /\ [][Next]_<<sent, recorded>>
=============================================================================
