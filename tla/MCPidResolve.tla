---------------------------- MODULE MCPidResolve ----------------------------
(* Small instances of PidResolve for TLC: two processes, one of which has  *)
(* two threads that create TDI objects.                                    *)
EXTENDS PidResolve

CONSTANTS web, update, t1, t2

MCNames == {web, update}
MCPids == {4, 8}
MCThreads == {t1, t2}
MCProcessOf == [t \in MCThreads |-> 4]
=============================================================================
