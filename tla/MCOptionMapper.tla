-------------------------- MODULE MCOptionMapper ---------------------------
(* Instances of OptionMapper for TLC. *)
EXTENDS OptionMapper

AllSchemes == {"direct", "http", "https", "socks4", "socks5", "other"}
=============================================================================
