--------------------------- MODULE MCFtpCommands ---------------------------
(* Instances of FtpCommands for TLC. *)
EXTENDS FtpCommands

TenCommands == AllCommands
RootHome    == {<<>>}
BothHomes   == {<<>>, <<HomeName>>}
=============================================================================
