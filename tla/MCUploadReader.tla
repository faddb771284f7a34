-------------------------- MODULE MCUploadReader --------------------------
(* Instances of UploadReader for TLC. *)
EXTENDS UploadReader

SharedFile == {"open", "read", "tell", "change"}
=============================================================================
