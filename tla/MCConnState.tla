----------------------------- MODULE MCConnState -----------------------------
(* Small instances of ConnState for TLC. *)
EXTENDS ConnState

(* Values of the uninitialised new_state that tdi_disconnect_complete and  *)
(* later reads of the state tell apart.                                    *)
MCGarbage == {"CLOSED", Junk}
=============================================================================
