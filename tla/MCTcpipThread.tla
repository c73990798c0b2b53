---------------------------- MODULE MCTcpipThread ----------------------------
(* TLC instance of TcpipThread. *)
EXTENDS TcpipThread
MCCyclic == <<"arp", "dhcp">>
MCPeriod == [h \in {"arp", "dhcp", "tcp"} |->
               CASE h = "arp" -> 2 [] h = "dhcp" -> 1 [] h = "tcp" -> 1]
=============================================================================
