----------------------------- MODULE MC_TcpClient -----------------------------
(* Bounds for TcpClient.  The queue lengths are Kconfig values that are   *)
(* not in the repository; small lengths make every full-queue branch      *)
(* reachable.                                                             *)
EXTENDS TcpClient

MCNumBufs == 2
MCCmdQMax == 2
MCSendQMax == 2
MCRxQMax == 2
MCEvQMax == 3
MCMaxFaults == 1
=============================================================================
