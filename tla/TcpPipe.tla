-------------------------------- MODULE TcpPipe --------------------------------
(***************************************************************************)
(* What one direction of a TCP connection promises to the two applications *)
(* at its ends: what is read is what was written, in order, each unit once *)
(* and none left out; and the reader is only told of the end of the stream *)
(* when the writer has closed its end and everything written was read.     *)
(* Either side may fail, and then nothing more has to arrive.              *)
(***************************************************************************)
EXTENDS Naturals, Sequences

VARIABLES written, closed, got, eof

vars == <<written, closed, got, eof>>

Init == written = <<>> /\ ~closed /\ got = <<>> /\ ~eof

\* More is handed to the connection, which cuts it into pieces as it likes.
Write ==
    /\ ~closed
    /\ Len(written') > Len(written) /\ SubSeq(written', 1, Len(written)) = written
    /\ UNCHANGED <<closed, got, eof>>

Close == ~closed /\ closed' /\ UNCHANGED <<written, got, eof>>

Read ==
    /\ ~eof
    /\ Len(got') > Len(got) /\ Len(got') <= Len(written)
    /\ got' = SubSeq(written, 1, Len(got'))
    /\ UNCHANGED <<written, closed, eof>>

End == closed /\ got = written /\ ~eof /\ eof' /\ UNCHANGED <<written, closed, got>>

Next == Write \/ Close \/ Read \/ End

Spec == Init /\ [][Next]_vars
===============================================================================
