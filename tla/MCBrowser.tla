----------------------------- MODULE MCBrowser -----------------------------
(***************************************************************************)
(* A directory for Browser: dc=x, with ou=a below it and cn=1 below that,  *)
(* of which the server announces the naming context or none.               *)
(***************************************************************************)
EXTENDS Browser

X  == <<"x">>
A  == <<"x", "a">>
A1 == <<"x", "a", "1">>

MCRDNs  == {"x", "a", "1"}
DeepDNs == {X, A, A1}

OneContext == {<<X>>, <<>>}
=============================================================================
