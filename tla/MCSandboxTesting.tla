--------------------------- MODULE MCSandboxTesting ---------------------------
(* Helpers that ask for no block or for two, or for a patch.                   *)
EXTENDS SandboxTesting

BlockCounts == {0, 2}
===============================================================================
