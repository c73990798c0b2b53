--------------------------------- MODULE MCTcp ---------------------------------
(* Values of the constants of Tcp for model checking.                           *)
EXTENDS Tcp

UploadAndReply == [e \in Ends |-> IF e = "client" THEN 6 ELSE 1]
===============================================================================
