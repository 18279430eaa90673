------------------------------ MODULE MCArmSim ------------------------------
(* Model-checking instance of ArmSim: three accesses over at most two or   *)
(* three cells, sizes of one or two bytes, a four-byte address space.      *)
EXTENDS ArmSim

MCAddrMod   == 4
MCMaxSize   == 2
MCMaxOffset == 1
=============================================================================
