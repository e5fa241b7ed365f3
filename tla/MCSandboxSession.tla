--------------------------- MODULE MCSandboxSession ---------------------------
(* Two sessions that may pick the same of three ports; each may hold one and   *)
(* another program a third, less than all that the OS can hand out.            *)
EXTENDS SandboxSession

ASSUME Cardinality(Sessions) + MaxStrangers <= Cardinality(Ports)
================================================================================
