------------------------------ MODULE MC_Update ------------------------------
EXTENDS Update

StartMsg(dev, hw, fw, url, policy) ==
  [type |-> "start", dev |-> dev, hw |-> hw, fw |-> fw, url |-> url, policy |-> policy]
InstallMsg(delay) == [type |-> "install", fw |-> 2, delay |-> delay]

(* Versions: 1 runs at power-on, 2 is in the image on the server.       *)
(* UPDATE_INSTALL with a delay before any update; UPDATE_START for       *)
(* another device type, for another hardware version, for the installed  *)
(* version, with a URL set_new_fw_url rejects; then two good ones.       *)
MC_Msgs ==
  << InstallMsg(1),
     StartMsg(FALSE, TRUE, 2, TRUE, "immediate"),
     StartMsg(TRUE, FALSE, 2, TRUE, "immediate"),
     StartMsg(TRUE, TRUE, 1, TRUE, "immediate"),
     StartMsg(TRUE, TRUE, 2, FALSE, "immediate"),
     StartMsg(TRUE, TRUE, 2, TRUE, "immediate"),
     StartMsg(TRUE, TRUE, 2, TRUE, "immediate") >>

(* A second good UPDATE_START with the delayed policy. *)
MC_DelayedMsgs == [MC_Msgs EXCEPT ![7] = StartMsg(TRUE, TRUE, 2, TRUE, "delayed")]
=============================================================================
