-------------------------------- MODULE Actions --------------------------------
(* The action constructors (actions.py): what each makes of its arguments.  A   *)
(* result is a sequence of at most one value: an empty one stands for an error. *)
EXTENDS Wire

ASSUME ActionsAssumption == "{}" \in Texts

MAX_GAS_KEY_NONCES == 1024

\* An argument that may be left out, and one of several values.
Optional(S) == {o \in Seq(S) : Len(o) <= 1}
Several(S) == {s \in Seq(S) : Len(s) \in Numbers}

\* A public key as text: its prefix and the bytes after it.
Curves == {"ed25519", "secp256k1", "ml-dsa-65", "ml-dsa-65-hash"}
Keys == [curve : Curves, data : Bytestring]

\* The calls of the constructors: which one, and its arguments.
Constructions ==
    [builder : {"create_account"}]
    \cup [builder : {"deploy_contract"}, code : Texts]
    \cup [builder : {"function_call"}, method : Texts, args : Optional(Texts), gas : Numbers, deposit : Numbers]
    \cup [builder : {"transfer"}, amount : Numbers]
    \cup [builder : {"stake", "transfer_to_gas_key", "withdraw_from_gas_key"}, amount : Numbers, key : Keys]
    \cup [builder : {"add_full_access_key", "delete_key"}, key : Keys]
    \cup [builder : {"add_function_call_key"}, key : Keys, contract_id : {<<t>> : t \in Texts},
          method_names : Several(Texts), allowance : Optional(Numbers)]
    \cup [builder : {"add_gas_key"}, key : Keys, contract_id : Optional(Texts),
          method_names : Several(Texts), num_nonces : Numbers]
    \cup [builder : {"delete_account"}, beneficiary_id : Texts]
    \cup [builder : {"publish_contract"}, code : Texts, identified_by : STRING]
    \cup [builder : {"use_global_contract"}, code_hash : Optional(Bytestring), account_id : Optional(Texts)]
    \cup [builder : {"deterministic_state_init"}, code_hash : Optional(Bytestring),
          account_id : Optional(Texts), deposit : Numbers, data : Several([key : Texts, value : Texts])]

\* A result, if the arguments are good.
When(good, value) == IF good THEN <<value>> ELSE <<>>

\* PublicKey.parse. Python's default value `data or {}` and the like need no case of
\* their own: an absent text, mapping or sequence is the empty one.
ParsesAsPublicKey(key) ==
    CASE key.curve = "ed25519"   -> Len(key.data) = 32
      [] key.curve = "secp256k1" -> Len(key.data) = 64
      [] key.curve = "ml-dsa-65" -> Len(key.data) = 1952
      [] OTHER -> FALSE

\* to_global_contract_identifier: exactly one of the two, a hash of 32 bytes.
ContractIdentifier(code_hash, account_id) ==
    IF account_id # <<>>
    THEN When(code_hash = <<>>, [variant |-> "AccountId", account_id |-> account_id[1]])
    ELSE When(code_hash # <<>> /\ Len(code_hash[1]) = 32,
              [variant |-> "CodeHash", code_hash |-> code_hash[1]])

\* encode_args: without arguments, {}.
EncodeArgs(args) == IF args = <<>> THEN "{}" ELSE args[1]

Permission(c) ==
    [variant |-> "FunctionCall", allowance |-> c.allowance,
     receiver_id |-> c.contract_id[1], method_names |-> c.method_names]

\* add_gas_key: a number of lanes in 1..=1024, methods only with a contract, and
\* never an allowance.
GasKeyPermission(c) ==
    LET info == [balance |-> 0, num_nonces |-> c.num_nonces]
    IN IF \/ c.num_nonces \notin 1 .. MAX_GAS_KEY_NONCES
          \/ c.contract_id = <<>> /\ c.method_names # <<>>
       THEN <<>>
       ELSE IF c.contract_id = <<>>
       THEN <<[variant |-> "GasKeyFullAccess", gas_key_info |-> info]>>
       ELSE <<[variant |-> "GasKeyFunctionCall", gas_key_info |-> info,
               function_call |-> [allowance |-> <<>>, receiver_id |-> c.contract_id[1],
                                  method_names |-> c.method_names]]>>

\* AddKey with a permission, if there is one and the key can be parsed.
AddKey(key, permission) ==
    When(permission # <<>> /\ ParsesAsPublicKey(key),
         [variant |-> "AddKey", public_key |-> PublicKeyValue(key),
          access_key |-> [nonce |-> 0, permission |-> permission[1]]])

DeployMode(identified_by) ==
    CASE identified_by = "hash"    -> [variant |-> "CodeHash"]
      [] identified_by = "account" -> [variant |-> "AccountId"]

PublishContract(c) ==
    When(c.identified_by \in {"hash", "account"},
         [variant |-> "DeployGlobalContract", code |-> c.code,
          deploy_mode |-> DeployMode(c.identified_by)])

UseGlobalContract(c) ==
    LET identifier == ContractIdentifier(c.code_hash, c.account_id)
    IN When(identifier # <<>>,
            [variant |-> "UseGlobalContract", contract_identifier |-> identifier[1]])

DeterministicStateInit(c) ==
    LET identifier == ContractIdentifier(c.code_hash, c.account_id)
    IN When(~HasDuplicates(c.data) /\ identifier # <<>>,
            [variant |-> "DeterministicStateInit", deposit |-> c.deposit,
             state_init |-> [version |-> 0, code |-> identifier[1],
                             data |-> CanonicalEntries(c.data)]])

\* What the constructor called c.builder returns.
Build(c) ==
    CASE c.builder = "create_account" -> <<[variant |-> "CreateAccount"]>>
      [] c.builder = "deploy_contract" -> <<[variant |-> "DeployContract", code |-> c.code]>>
      [] c.builder = "function_call" ->
            <<[variant |-> "FunctionCall", method_name |-> c.method, args |-> EncodeArgs(c.args),
               gas |-> c.gas, deposit |-> c.deposit]>>
      [] c.builder = "transfer" -> <<[variant |-> "Transfer", deposit |-> c.amount]>>
      [] c.builder = "stake" -> When(ParsesAsPublicKey(c.key),
                 [variant |-> "Stake", stake |-> c.amount, public_key |-> PublicKeyValue(c.key)])
      [] c.builder = "add_full_access_key" -> AddKey(c.key, <<[variant |-> "FullAccess"]>>)
      [] c.builder = "add_function_call_key" -> AddKey(c.key, <<Permission(c)>>)
      [] c.builder = "add_gas_key" -> AddKey(c.key, GasKeyPermission(c))
      [] c.builder = "delete_key" -> When(ParsesAsPublicKey(c.key), [variant |-> "DeleteKey", public_key |-> PublicKeyValue(c.key)])
      [] c.builder = "delete_account" ->
            <<[variant |-> "DeleteAccount", beneficiary_id |-> c.beneficiary_id]>>
      [] c.builder = "transfer_to_gas_key" ->
            When(ParsesAsPublicKey(c.key),
                 [variant |-> "TransferToGasKey", public_key |-> PublicKeyValue(c.key), deposit |-> c.amount])
      [] c.builder = "withdraw_from_gas_key" ->
            When(ParsesAsPublicKey(c.key),
                 [variant |-> "WithdrawFromGasKey", public_key |-> PublicKeyValue(c.key), amount |-> c.amount])
      [] c.builder = "publish_contract" -> PublishContract(c)
      [] c.builder = "use_global_contract" -> UseGlobalContract(c)
      [] c.builder = "deterministic_state_init" -> DeterministicStateInit(c)

\* The actions of several calls; no call may fail.
BuildAll(calls) == [i \in DOMAIN calls |-> Build(calls[i])[1]]
Builds(calls) == \A i \in DOMAIN calls : Build(calls[i]) # <<>>
===============================================================================
