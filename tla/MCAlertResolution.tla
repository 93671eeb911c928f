------------------------------ MODULE MCAlertResolution ------------------------------
(* One alert is enough to see whether it closes.                                      *)
EXTENDS AlertResolution
MCStored == [c \in Crossbow |-> 0]
=====================================================================================
