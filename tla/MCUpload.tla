------------------------------- MODULE MCUpload -------------------------------
(* Small instances of Upload: the two versions of a file differ in size.   *)
EXTENDS Upload, TLC

CONSTANTS v1, v2

MCVersions == {v1, v2}
MCSizeOf == v1 :> 1 @@ v2 :> 2
=============================================================================
