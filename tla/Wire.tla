---------------------------------- MODULE Wire ----------------------------------
(* The Borsh schema of wire.py: the bytes that each value is written as, those  *)
(* that transactions, delegate actions and messages are signed over.            *)
EXTENDS Integers, Sequences, SequencesExt

CONSTANTS
    Utf8,           \* the bytes of every text in use, and no two texts' the same
    MaxNumber       \* bound: of the numbers in use, and the lengths of what is sent

Numbers == 0 .. MaxNumber
Byte == 0 .. 255
FitsTwoBytes(n) == n \in Numbers /\ n \div 256 \in Byte
Bytestring == Seq(Byte)
Texts == DOMAIN Utf8

ASSUME Utf8Assumption ==
    /\ MaxNumber \in Nat \ {0} /\ MaxNumber \div (256 * 256 * 256) < 128
    /\ \A t \in Texts : Utf8[t] \in Bytestring /\ Len(Utf8[t]) \in Numbers
    /\ \A a, b \in Texts : Utf8[a] = Utf8[b] => a = b

-------------------------------------------------------------------------------
(* Borsh.  A text is a name, a string of bytes is the bytes themselves.        *)

\* One after the other.
a ++ b == a \o b

\* Of a number below 2^31, the bytes from the fifth on are zero.
LittleEndian(n, width) ==
    [i \in 1 .. width |-> CASE i = 1 -> n % 256
                            [] i = 2 -> (n \div 256) % 256
                            [] i = 3 -> (n \div (256 * 256)) % 256
                            [] i = 4 -> (n \div (256 * 256 * 256)) % 256
                            [] OTHER -> 0]

U8(n) == LittleEndian(n, 1)
U16(n) == LittleEndian(n, 2)
U32(n) == LittleEndian(n, 4)
U64(n) == LittleEndian(n, 8)
U128(n) == LittleEndian(n, 16)

Text(t) == U32(Len(Utf8[t])) ++ Utf8[t]

\* An option is a sequence of at most one.  These two take what is already written.
Option(o) == IF o = <<>> THEN <<0>> ELSE <<1>> ++ o[1]
Vector(s) == U32(Len(s)) ++ FlattenSeq(s)

-------------------------------------------------------------------------------
(* The schema: a struct is its fields in the order they are declared, a variant *)
(* of an enum its place in the declaration and its fields.                      *)

PublicKeyWire(k) ==
    CASE k.variant = "Ed25519"   -> <<0>> ++ k.data
      [] k.variant = "Secp256k1" -> <<1>> ++ k.data
      [] k.variant = "MlDsa65"   -> <<2>> ++ k.data

SignatureWire(s) ==
    CASE s.variant = "Ed25519"   -> <<0>> ++ s.data
      [] s.variant = "Secp256k1" -> <<1>> ++ s.data
      [] s.variant = "MlDsa65"   -> <<2>> ++ s.data

GasKeyInfo(g) == U128(g.balance) ++ U16(g.num_nonces)

FunctionCallPermission(p) ==
    Option([i \in DOMAIN p.allowance |-> U128(p.allowance[i])]) ++ Text(p.receiver_id)
    ++ Vector([i \in DOMAIN p.method_names |-> Text(p.method_names[i])])

AccessKeyPermission(p) ==
    CASE p.variant = "FunctionCall" -> <<0>> ++ FunctionCallPermission(p)
      [] p.variant = "FullAccess" -> <<1>>
      [] p.variant = "GasKeyFunctionCall" ->
            <<2>> ++ GasKeyInfo(p.gas_key_info) ++ FunctionCallPermission(p.function_call)
      [] p.variant = "GasKeyFullAccess" -> <<3>> ++ GasKeyInfo(p.gas_key_info)

AccessKey(a) == U64(a.nonce) ++ AccessKeyPermission(a.permission)

GlobalContractDeployMode(m) ==
    CASE m.variant = "CodeHash"  -> <<0>>
      [] m.variant = "AccountId" -> <<1>>

GlobalContractIdentifier(c) ==
    CASE c.variant = "CodeHash"  -> <<0>> ++ c.code_hash
      [] c.variant = "AccountId" -> <<1>> ++ Text(c.account_id)

StateEntry(e) == Text(e.key) ++ Text(e.value)

StateInit(s) ==
    U8(s.version) ++ GlobalContractIdentifier(s.code)
    ++ Vector([i \in DOMAIN s.data |-> StateEntry(s.data[i])])

TransactionNonce(n) ==
    CASE n.variant = "Nonce"       -> <<0>> ++ U64(n.nonce)
      [] n.variant = "GasKeyNonce" -> <<1>> ++ U64(n.nonce) ++ U16(n.nonce_index)

NonceMode(m) ==
    CASE m.variant = "Monotonic" -> <<0>>
      [] m.variant = "Strict"    -> <<1>>

\* All variants of Action but SignedDelegate, with the same places.
NonDelegateAction(a) ==
    CASE a.variant = "CreateAccount" -> <<0>>
      [] a.variant = "DeployContract" -> <<1>> ++ Text(a.code)
      [] a.variant = "FunctionCall" ->
            <<2>> ++ Text(a.method_name) ++ Text(a.args) ++ U64(a.gas) ++ U128(a.deposit)
      [] a.variant = "Transfer" -> <<3>> ++ U128(a.deposit)
      [] a.variant = "Stake" -> <<4>> ++ U128(a.stake) ++ PublicKeyWire(a.public_key)
      [] a.variant = "AddKey" -> <<5>> ++ PublicKeyWire(a.public_key) ++ AccessKey(a.access_key)
      [] a.variant = "DeleteKey" -> <<6>> ++ PublicKeyWire(a.public_key)
      [] a.variant = "DeleteAccount" -> <<7>> ++ Text(a.beneficiary_id)
      [] a.variant = "DeployGlobalContract" ->
            <<9>> ++ Text(a.code) ++ GlobalContractDeployMode(a.deploy_mode)
      [] a.variant = "UseGlobalContract" ->
            <<10>> ++ GlobalContractIdentifier(a.contract_identifier)
      [] a.variant = "DeterministicStateInit" -> <<11>> ++ StateInit(a.state_init) ++ U128(a.deposit)
      [] a.variant = "TransferToGasKey" -> <<12>> ++ PublicKeyWire(a.public_key) ++ U128(a.deposit)
      [] a.variant = "WithdrawFromGasKey" -> <<13>> ++ PublicKeyWire(a.public_key) ++ U128(a.amount)

DelegateAction(d) ==
    Text(d.sender_id) ++ Text(d.receiver_id)
    ++ Vector([i \in DOMAIN d.actions |-> NonDelegateAction(d.actions[i])])
    ++ U64(d.nonce) ++ U64(d.max_block_height) ++ PublicKeyWire(d.public_key)

AnyAction(a) ==
    IF a.variant = "SignedDelegate"
    THEN <<8>> ++ DelegateAction(a.delegate_action) ++ SignatureWire(a.signature)
    ELSE NonDelegateAction(a)

AnyActions(actions) == Vector([i \in DOMAIN actions |-> AnyAction(actions[i])])

Transaction(t) ==
    Text(t.signer_id) ++ PublicKeyWire(t.public_key) ++ U64(t.nonce)
    ++ Text(t.receiver_id) ++ t.block_hash ++ AnyActions(t.actions)

\* The tag of a V1 transaction is its first field.
TransactionV1(t) ==
    U8(t.version) ++ Text(t.signer_id) ++ PublicKeyWire(t.public_key) ++ TransactionNonce(t.nonce)
    ++ Text(t.receiver_id) ++ t.block_hash ++ AnyActions(t.actions) ++ NonceMode(t.nonce_mode)

Nep413Payload(p) ==
    Text(p.message) ++ p.nonce ++ Text(p.recipient)
    ++ Option([i \in DOMAIN p.callback_url |-> Text(p.callback_url[i])])

-------------------------------------------------------------------------------
(* Values.                                                                     *)

\* Bytewise order.
Before(a, b) ==
    \E n \in 0 .. Len(a) :
        /\ n < Len(b) /\ \A j \in 1 .. n : a[j] = b[j]
        /\ n = Len(a) \/ a[n + 1] < b[n + 1]

\* Defect: the entries stay in the order they were given.
GivenEntries(entries) == entries

\* The data of a state init, sorted by key: no two keys are the same.
CanonicalEntries(entries) ==
    CHOOSE s \in [DOMAIN entries -> ToSet(entries)] :
        \A i, j \in DOMAIN entries : i < j => Before(Utf8[s[i].key], Utf8[s[j].key])

HasDuplicates(entries) ==
    \E i, j \in DOMAIN entries : i # j /\ entries[i].key = entries[j].key

PublicKeyValue(key) ==
    [variant |-> CASE key.curve = "ed25519" -> "Ed25519"
                   [] key.curve = "secp256k1" -> "Secp256k1"
                   [] key.curve = "ml-dsa-65" -> "MlDsa65",
     data |-> key.data]
===============================================================================
