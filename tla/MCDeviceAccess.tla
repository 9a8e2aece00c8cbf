--------------------------- MODULE MCDeviceAccess ---------------------------
(* DeviceAccess on small devices. *)
EXTENDS DeviceAccess
=============================================================================
