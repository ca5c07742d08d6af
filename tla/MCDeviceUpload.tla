--------------------------- MODULE MCDeviceUpload ---------------------------
(* Instances of DeviceUpload for TLC. *)
EXTENDS DeviceUpload

CONSTANT take

(* Every upload declares the same recording. *)
Same == [u \in Uploads |-> take]

=============================================================================
