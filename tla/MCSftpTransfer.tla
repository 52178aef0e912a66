---------------------------- MODULE MCSftpTransfer ----------------------------
(* Small instances of SftpTransfer.                                        *)
EXTENDS SftpTransfer, TLC
=============================================================================
