-------------------------- MODULE MCTransferQueue --------------------------
(* Small instances of TransferQueue for TLC. *)
EXTENDS TransferQueue
MCDirections == {"DOWNLOAD", "LOCAL_COPY"}
=============================================================================
