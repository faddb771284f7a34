--------------------------- MODULE MCDownloadCall ---------------------------
(* An instance of DownloadCall for TLC. *)
EXTENDS DownloadCall

MCErrorCodes    == {WriteErrorCode, "CURLE_OPERATION_TIMEDOUT"}
LoopFaults      == FaultKinds \ {"add_handle"}
OpenWriteFaults == {"open", "write"}
=============================================================================
