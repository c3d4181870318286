------------------------------ MODULE MCAddrObj ------------------------------
(* Small instances of AddrObj for TLC. *)
EXTENDS AddrObj
=============================================================================
