------------------------------ MODULE ClientConfig ------------------------------
(* How Near(...) finds its network, its URL and its signer: in its arguments,   *)
(* in the environment and in the files of ~/.near-credentials (_core.py,        *)
(* client.py, keys.py).                                                         *)
EXTENDS Sequences, FiniteSets

CONSTANTS
    Networks,       \* those with a URL of their own, "mainnet" among them
    Files           \* network -> account -> what its credentials file holds

\* A text that is absent or empty.  Both are false to Python's `or`.
Nothing == ""

Or(a, b) == IF a # Nothing THEN a ELSE b

ASSUME ConfigAssumption == "mainnet" \in Networks

\* A secret as text: NoSecret, or its prefix, the number of bytes after it, the seed,
\* and the seed whose public key the last half of 64 bytes is.
NoSecret == [curve |-> Nothing, length |-> 0, seed |-> Nothing, embedded |-> Nothing]

OrSecret(a, b) == IF a # NoSecret THEN a ELSE b

\* The secrets the constructors of the key pairs accept: no 64-byte key that
\* contradicts itself, no expanded ML-DSA key.
Ed25519KeyPair(secret) ==
    \/ secret.length = 32
    \/ secret.length = 64 /\ secret.embedded = secret.seed

MlDsa65KeyPair(secret) == secret.length = 32

\* parse_key: a hash handle and a secp256k1 key are errors.
ParsesAsKey(secret) ==
    \/ secret.curve = "ed25519" /\ Ed25519KeyPair(secret)
    \/ secret.curve = "ml-dsa-65" /\ MlDsa65KeyPair(secret)

KeyOf(secret) == [curve |-> secret.curve, seed |-> secret.seed]

\* key_from_test_seed of 1 to 32 bytes, and the sandbox's signer (testing.py).
TestKey(seed) == [curve |-> "ed25519", seed |-> seed]
SandboxSigner(account, seed) == [account |-> account, key |-> TestKey(Or(seed, account))]

\* A result: a signer, no signer, or an error.
NoSigner == [account |-> Nothing, key |-> KeyOf(NoSecret)]
Error == [account |-> "error", key |-> KeyOf(NoSecret)]

Missing == [account_id |-> Nothing, private_key |-> NoSecret, secret_key |-> NoSecret, found |-> FALSE]

\* The file of an account, if there is one.
FileOf(account, network) ==
    IF network \in DOMAIN Files /\ account \in DOMAIN Files[network]
    THEN Files[network][account] ELSE Missing

\* load_credentials: the file's own account_id, when it has one (Nothing: none), is
\* the signer's.
LoadCredentials(account, network) ==
    LET file == FileOf(account, network)
        secret == OrSecret(file.private_key, file.secret_key)
    IN IF file.found /\ ParsesAsKey(secret)
       THEN [account |-> Or(file.account_id, account), key |-> KeyOf(secret)]
       ELSE Error

ResolveNetwork(given, env) == Or(Or(given.network, env.network), "mainnet")

\* The URL of a network is named after it; no URL is an error.
ResolveRpcUrl(network, given, env) ==
    Or(Or(given.rpc_url, env.rpc_url), IF network \in Networks THEN network ELSE Nothing)

\* Defect: a key without an account counts for nothing.
ResolveQuietly(network, given, env) ==
    LET account == Or(given.account_id, env.account_id)
        secret == OrSecret(given.private_key, env.private_key)
    IN IF given.signer # NoSigner THEN given.signer
       ELSE IF secret # NoSecret /\ account # Nothing
       THEN IF ParsesAsKey(secret) THEN [account |-> account, key |-> KeyOf(secret)] ELSE Error
       ELSE IF account # Nothing /\ LoadCredentials(account, network) # Error
       THEN LoadCredentials(account, network) ELSE NoSigner

\* resolve_signer: a key needs an account, a key that does not parse is an error, and
\* a file that cannot be used is no error.
ResolveSigner(network, given, env) ==
    LET account == Or(given.account_id, env.account_id)
        secret == OrSecret(given.private_key, env.private_key)
    IN IF given.signer # NoSigner THEN given.signer
       ELSE IF secret # NoSecret
       THEN IF account # Nothing /\ ParsesAsKey(secret)
            THEN [account |-> account, key |-> KeyOf(secret)] ELSE Error
       ELSE IF account # Nothing /\ LoadCredentials(account, network) # Error
       THEN LoadCredentials(account, network) ELSE NoSigner

Client(network, url, signer) == [network |-> network, rpc_url |-> url, signer |-> signer]
NoClient == Client(Nothing, Nothing, Error)

\* Near.__init__
Construct(given, env) ==
    LET network == ResolveNetwork(given, env)
        url == ResolveRpcUrl(network, given, env)
        signer == ResolveSigner(network, given, env)
    IN IF url = Nothing \/ signer = Error THEN NoClient ELSE Client(network, url, signer)

\* Near.from_file: an unusable file is an error here, the network is mainnet unless
\* it is given, and only the URL may come from the environment.
FromFile(given, env) ==
    LET network == Or(given.network, "mainnet")
        signer == LoadCredentials(given.account_id, network)
        url == ResolveRpcUrl(network, given, env)
    IN IF url = Nothing \/ signer = Error THEN NoClient ELSE Client(network, url, signer)

\* with_signer
WithSigner(client, signer) == [client EXCEPT !.signer = signer]

\* require_signer(signer or self.signer)
Active(client, signer) == IF signer # NoSigner THEN signer ELSE client.signer
===============================================================================
