--------------------------- MODULE MCGetRidOnPool ---------------------------
(* Two frames, one other client, one file of two pages plus one new page. *)
EXTENDS GetRidOnPool

CONSTANTS c1, fd1, noPage

MCClients == {c1}
MCFds == {fd1}
=============================================================================
