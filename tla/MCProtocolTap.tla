--------------------------- MODULE MCProtocolTap ---------------------------
(***************************************************************************)
(* Messages for ProtocolTap: one whose length is in the long form and      *)
(* whose body is like the start of a message, and one longer than the      *)
(* limit, whose end is like a whole message in the short form.             *)
(***************************************************************************)
EXTENDS ProtocolTap

Long    == <<48, 129, 1, 48>>
TooLong == <<48, 129, 2, 48, 0>>

LongAndTooLong == {Long, TooLong}
=============================================================================
