---------------------------- MODULE MCNoticeHub ----------------------------
(* NoticeHub for TLC: connection objects, handles, hubs and errorhandlers *)
(* are interchangeable addresses, so each set is a symmetry set.          *)
EXTENDS NoticeHub, TLC

MCSymmetry ==
  Permutations(Conn) \cup Permutations(Handle) \cup Permutations(Hub)
    \cup Permutations(Observer)
=============================================================================
