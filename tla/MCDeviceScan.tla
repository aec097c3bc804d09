----------------------------- MODULE MCDeviceScan -----------------------------
(* Instances of DeviceScan for TLC. *)
EXTENDS DeviceScan

FourTargets == <<2, 3, 5, 6>>
ThreeTargets == <<2, 3, 5>>
=============================================================================
