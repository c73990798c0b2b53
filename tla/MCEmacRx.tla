------------------------------- MODULE MCEmacRx -------------------------------
(* EmacRx for TLC: the first pbufs fill the ring. *)
EXTENDS EmacRx

CONSTANTS p1, p2, p3, p4

MCPbufs      == {p1, p2, p3, p4}
MCFirstPbufs == [i \in 0 .. NumRxFrag - 1 |-> <<p1, p2, p3>>[i + 1]]
===============================================================================
