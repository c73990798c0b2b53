------------------------------- MODULE MCEmacTx -------------------------------
(* EmacTx for TLC. *)
EXTENDS EmacTx

\* Bound: a spoiled ring is not followed further.  spoiled never becomes FALSE
\* again, so nothing the properties about an unspoiled ring speak of is cut off.
RingUnspoiled == ~spoiled
===============================================================================
