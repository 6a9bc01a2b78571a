---------------------------- MODULE MCBufferPool ----------------------------
(* Two frames, two clients, one file of two pages plus one new page. *)
EXTENDS BufferPool, TLC

CONSTANTS c1, c2, fd1, noPage

MCClients == {c1, c2}
MCFds == {fd1}
MCSymmetry == Permutations(MCClients)
=============================================================================
