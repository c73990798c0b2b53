-------------------------------- MODULE MCDhcp --------------------------------
(* Dhcp for TLC: interchangeable addresses. *)
EXTENDS Dhcp, TLC

AddressSymmetry == Permutations(Addresses)
===============================================================================
