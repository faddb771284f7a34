-------------------------- MODULE MCTransferLoop --------------------------
(* Instances of TransferLoop for TLC. *)
EXTENDS TransferLoop

MCErrorCodes == {"CURLE_OPERATION_TIMEDOUT", "CURLE_ABORTED_BY_CALLBACK"}

AllFaults    == FaultKinds
=============================================================================
