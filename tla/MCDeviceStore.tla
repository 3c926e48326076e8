--------------------------- MODULE MCDeviceStore ----------------------------
(* Instances of DeviceStore.  When a thread creates the temporary, the other *)
(* bodies in use are devices.json and those the other threads hold open.     *)
EXTENDS DeviceStore

MCInodes == 1..(Cardinality(Threads) + 1)
=============================================================================
