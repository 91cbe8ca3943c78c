--------------------------- MODULE MCFileTransfer ---------------------------
(***************************************************************************)
(* The file transfer with small constants for TLC.                         *)
(***************************************************************************)
EXTENDS FileTransfer

Lossy == {"loss"}

(* Every length up to four buffers of three bytes: empty, shorter than a   *)
(* buffer, multiples and what lies between.                                *)
UpToFourBuffers == 0 .. 12
=============================================================================
