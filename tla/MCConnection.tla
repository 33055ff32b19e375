---------------------------- MODULE MCConnection ----------------------------
(* Model-checking instance of Connection: two connection objects, two     *)
(* handle addresses, two hub addresses and one result.                   *)
EXTENDS Connection, TLC

CONSTANTS c1, c2, h1, h2, w1, w2, x1

MCConn == {c1, c2}
MCHandle == {h1, h2}
MCHub == {w1, w2}
MCResult == {x1}

(* One object, one handle and one hub, for a single connection's calls. *)
MCConnOne == {c1}
MCHandleOne == {h1}
MCHubOne == {w1}

=============================================================================
