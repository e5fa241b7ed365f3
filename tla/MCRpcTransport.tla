---------------------------- MODULE MCRpcTransport ----------------------------
(* Calls of every method, with one status and one name of each kind the client *)
(* treats alike.                                                               *)
EXTENDS ClientCalls

NameSample == {"UNKNOWN_ACCOUNT", "UNKNOWN_GAS_KEY", "NO_GLOBAL_CONTRACT_CODE",
               "INVALID_TRANSACTION", "TIMEOUT_ERROR", "PARSE_ERROR"}

StatusSample == {200, 429, 500}
===============================================================================
