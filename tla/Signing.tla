--------------------------------- MODULE Signing ---------------------------------
(* What a client signs, with the signer its configuration gave it, and how that *)
(* is verified: transactions of both versions by a node, delegate actions by    *)
(* the node of a relayer, off-chain messages by verify_message with a clock of  *)
(* its own (client.py, _core.py, wire.py, delegate.py, nep413.py).              *)
EXTENDS ClientConfig, Actions

CONSTANTS
    Sessions,       \* what a program does: how it makes its client, what it signs
    Claims,         \* what a verifier may be told that was signed
    Accounts,       \* names of accounts, of 2 to 64 bytes
    KeyData,        \* the bytes of every public key
    Hash,           \* the hash of the final block
    Random,         \* what os.urandom(24) returns
    Skews,          \* verifier's clock less the signer's, in half milliseconds
    MaxAge,         \* verify_message's max_age_ms, in milliseconds
    MaxClock        \* bound: of the signer's clock, in half milliseconds

\* Those who can sign.
Who == [account : Accounts, key : DOMAIN KeyData]

\* A message's nonce is a timestamp and random bytes; of the rest, it is a number.
MessageNonces == [timestamp : Numbers, random : Bytestring]

\* What can be asked for: one transaction, delegate action or message.
Requests ==
    [kind : {"send"}, signer : Who \cup {NoSigner}, receiver : Texts, calls : Several(Constructions),
     nonce : Numbers, lane : Optional(Numbers), strict : BOOLEAN]
    \cup [kind : {"delegate"}, signer : Who \cup {NoSigner}, receiver : Texts,
          calls : Several(Constructions), nonce : Numbers, max_block_height : Numbers]
    \cup [kind : {"message"}, signer : Who \cup {NoSigner}, message : Texts, recipient : Texts,
          nonce : Optional(MessageNonces), callback_url : Optional(Texts)]

\* The accounts and keys a program is configured with are real ones.
ASSUME ProgramAssumption ==
    /\ \A s \in Sessions :
         /\ s.made \in {"Near", "from_file", "with_signer"} /\ s.request \in Requests
         /\ {s.given.signer, s.signer} \subseteq Who \cup {NoSigner}
         /\ s.made = "with_signer" => s.signer # NoSigner
         /\ {s.given.account_id, s.env.account_id} \subseteq Accounts \cup {Nothing}
         /\ \A secret \in {s.given.private_key, s.env.private_key} :
              ParsesAsKey(secret) => KeyOf(secret) \in DOMAIN KeyData
    /\ \A network \in DOMAIN Files : \A name \in DOMAIN Files[network] :
         LET file == Files[network][name]
         IN /\ name \in Accounts /\ file.account_id \in Accounts \cup {Nothing}
            /\ \A secret \in {file.private_key, file.secret_key} :
                 ParsesAsKey(secret) => KeyOf(secret) \in DOMAIN KeyData

ASSUME SigningAssumption ==
    /\ Claims \subseteq Requests
    /\ Accounts \subseteq Texts \ {Nothing} /\ \A name \in Accounts : Len(Utf8[name]) \in 2 .. 64
    /\ \A key \in DOMAIN KeyData :
         key.curve \in {"ed25519", "secp256k1", "ml-dsa-65"} /\ KeyData[key] \in Bytestring
    /\ Hash \in Bytestring /\ Len(Hash) = 32 /\ Random \in Bytestring /\ Len(Random) = 24
    /\ Skews \subseteq Int /\ MaxAge \in Nat /\ MaxClock \in Numbers

VARIABLES
    session,
    client,
    pc,             \* "start", "ready", "signed", "failed" or "refused"
    now,            \* the signer's clock, in half milliseconds
    skew,
    signature,      \* what was signed by whom when, once it is
    checked         \* the last verification and its result

vars == <<session, client, pc, now, skew, signature, checked>>

IsMessage == session.request.kind = "message"

Init ==
    /\ session \in Sessions
    /\ client = NoClient
    /\ pc = "start"
    /\ now \in {0, 1}
    /\ skew \in IF IsMessage THEN Skews ELSE {0}
    /\ signature = <<>>
    /\ checked = <<>>

-------------------------------------------------------------------------------
(* The bytes that are signed.                                                  *)

\* (1 << 30) + 366 and (1 << 31) + 413, little-endian.
NEP366_DELEGATE_PREFIX == <<110, 1, 0, 64>>
NEP413_MESSAGE_TAG == <<157, 1, 0, 128>>

PublicKeyOf(signer) ==
    PublicKeyValue([curve |-> signer.key.curve, data |-> KeyData[signer.key]])

\* build_transaction: a V1 transaction only for a lane or for strict mode.
TransactionBytes(signer, r) ==
    IF r.lane = <<>> /\ ~r.strict
    THEN Transaction(
            [signer_id |-> signer.account, public_key |-> PublicKeyOf(signer), nonce |-> r.nonce,
             receiver_id |-> r.receiver, block_hash |-> Hash, actions |-> BuildAll(r.calls)])
    ELSE TransactionV1(
            [version |-> 1, signer_id |-> signer.account, public_key |-> PublicKeyOf(signer),
             nonce |-> IF r.lane = <<>> THEN [variant |-> "Nonce", nonce |-> r.nonce]
                       ELSE [variant |-> "GasKeyNonce", nonce |-> r.nonce, nonce_index |-> r.lane[1]],
             receiver_id |-> r.receiver, block_hash |-> Hash, actions |-> BuildAll(r.calls),
             nonce_mode |-> [variant |-> IF r.strict THEN "Strict" ELSE "Monotonic"]])

\* The delegate action that is asked for.
DelegateOf(signer, r) ==
    [sender_id |-> signer.account, receiver_id |-> r.receiver, actions |-> BuildAll(r.calls),
     nonce |-> r.nonce, max_block_height |-> r.max_block_height, public_key |-> PublicKeyOf(signer)]

\* Defect: the bytes of the delegate action alone.
DelegateUntagged(signer, r) == DelegateAction(DelegateOf(signer, r))

\* delegate_action_signing_hash
DelegateBytes(signer, r) == NEP366_DELEGATE_PREFIX ++ DelegateAction(DelegateOf(signer, r))

\* A message's nonce: a timestamp, big-endian, and random bytes.
NonceBytes(nonce) == Reverse(LittleEndian(nonce.timestamp, 8)) ++ nonce.random

\* nep413_hash
MessageBytes(r) ==
    NEP413_MESSAGE_TAG ++
    Nep413Payload(
        [message |-> r.message, nonce |-> NonceBytes(r.nonce[1]), recipient |-> r.recipient,
         callback_url |-> r.callback_url])

Bytes(signer, r) ==
    CASE r.kind = "send" -> TransactionBytes(signer, r)
      [] r.kind = "delegate" -> DelegateBytes(signer, r)
      [] r.kind = "message" -> MessageBytes(r)

-------------------------------------------------------------------------------
(* The client.                                                                 *)

Make(s) ==
    CASE s.made = "Near" -> Construct(s.given, s.env)
      [] s.made = "from_file" -> FromFile(s.given, s.env)
      [] s.made = "with_signer" -> WithSigner(Construct(s.given, s.env), s.signer)

MakeClient ==
    /\ pc = "start"
    /\ client' = Make(session)
    /\ pc' = IF client'.rpc_url = Nothing THEN "failed" ELSE "ready"
    /\ UNCHANGED <<session, now, skew, signature, checked>>

\* Defect: the timestamp is rounded up.
TimestampRounded == (now + 1) \div 2

\* generate_nonce: int(time.time() * 1000)
Timestamp == now \div 2

\* sign_message takes a nonce that is given, and makes one otherwise.
Asked ==
    IF IsMessage /\ session.request.nonce = <<>>
    THEN [session.request EXCEPT !.nonce = <<[timestamp |-> Timestamp, random |-> Random]>>]
    ELSE session.request

\* What an operation needs before it signs: a signer, and arguments in range.
Signable(signer, r) ==
    /\ signer # NoSigner
    /\ CASE r.kind = "send" -> Builds(r.calls) /\ \A n \in ToSet(r.lane) : FitsTwoBytes(n)
         [] r.kind = "delegate" -> Builds(r.calls)
         [] r.kind = "message" -> signer.key.curve = "ed25519" /\ Len(NonceBytes(r.nonce[1])) = 32

Sign ==
    /\ pc = "ready"
    /\ LET signer == Active(client, session.request.signer)
       IN IF Signable(signer, Asked)
          THEN /\ signature' = <<[signer |-> signer, request |-> Asked, at |-> now]>>
               /\ pc' = "signed"
          ELSE pc' = "refused" /\ UNCHANGED signature
    /\ UNCHANGED <<session, client, now, skew, checked>>

Tick ==
    /\ IsMessage /\ pc = "signed" /\ checked = <<>> /\ now < MaxClock
    /\ now' = now + 1
    /\ UNCHANGED <<session, client, pc, skew, signature, checked>>

-------------------------------------------------------------------------------
(* The verifiers.                                                              *)

\* What the signature is over.
SignedBytes == Bytes(signature[1].signer, signature[1].request)

\* Twice the age in milliseconds, by the verifier's clock.
Age(nonce) == now + skew - 2 * nonce.timestamp

TooOld(nonce) == Age(nonce) > 2 * MaxAge \/ Age(nonce) < 0

\* verify_message: the key is the one that comes with the signature.
VerifyMessage(claim, checksAge) ==
    /\ ~(checksAge /\ Len(NonceBytes(claim.nonce[1])) = 32 /\ TooOld(claim.nonce[1]))
    /\ Len(NonceBytes(claim.nonce[1])) = 32
    /\ MessageBytes(claim) = SignedBytes

\* A verifier is told what was signed; of a message without a nonce, with the nonce
\* it was signed with.
Told(claim) ==
    IF claim.kind = "message" /\ claim.nonce = <<>> /\ IsMessage
    THEN [claim EXCEPT !.nonce = signature[1].request.nonce] ELSE claim

\* What a verifier may be told: of a message, anything that has a nonce; of the rest,
\* what can be built.
Claimable(claim) ==
    IF claim.kind = "message" THEN claim.nonce # <<>> ELSE Signable(signature[1].signer, claim)

Result(claim, checksAge) ==
    IF claim.kind = "message" THEN VerifyMessage(claim, checksAge)
    ELSE Bytes(signature[1].signer, claim) = SignedBytes

\* One verification is enough: a verifier keeps nothing.
Verify ==
    /\ pc = "signed" /\ checked = <<>>
    /\ \E c \in Claims, checksAge \in (IF IsMessage THEN BOOLEAN ELSE {FALSE}) :
         /\ Claimable(Told(c))
         /\ checked' = <<[claim |-> Told(c), checksAge |-> checksAge, at |-> now,
                          result |-> Result(Told(c), checksAge)]>>
    /\ UNCHANGED <<session, client, pc, now, skew, signature>>

Done == (pc \in {"failed", "refused"} \/ checked # <<>>) /\ UNCHANGED vars

Next == MakeClient \/ Sign \/ Tick \/ Verify \/ Done

Spec == Init /\ [][Next]_vars

-------------------------------------------------------------------------------
(* Properties.                                                                 *)

\* A state is the same in whatever order its data is given, and a call without
\* arguments one with none in them.
Meaning(call) ==
    CASE call.builder = "deterministic_state_init" -> [call EXCEPT !.data = ToSet(call.data)]
      [] call.builder = "function_call" -> [call EXCEPT !.args = EncodeArgs(call.args)]
      [] OTHER -> call

\* What is asked for, whoever signs it.
Intent(r) ==
    IF r.kind = "message" THEN [r EXCEPT !.signer = NoSigner]
    ELSE [r EXCEPT !.signer = NoSigner, !.calls = [i \in DOMAIN r.calls |-> Meaning(r.calls[i])]]

SameIntent(a, b) == a.kind = b.kind /\ Intent(a) = Intent(b)

\* A signature is good for what the caller asked to be signed, and for nothing that
\* differs from it in a field, an action's argument, a lane, a mode, an option, or
\* in what kind of thing it is; whoever builds the same state from data in another
\* order builds the same bytes (wire.py:197-208, 481-505, nep413.py:34-48).
SignatureMeansOneThing ==
    checked # <<>> /\ ~checked[1].checksAge =>
        (checked[1].result <=> SameIntent(checked[1].claim, signature[1].request))

Format(r) == <<r.kind, r.kind = "send" /\ r.lane = <<>> /\ ~r.strict>>

\* The first four bytes tell what was signed: no transaction, of any account with a
\* valid name, starts as a delegate action or a message does, and no transaction of
\* one version as one of the other (wire.py:33-36, 375-399).
DomainsApart ==
    pc = "signed" /\ checked = <<>> =>
        \A c \in Claims, name \in Accounts :
            LET r == Told(c)
                signer == [signature[1].signer EXCEPT !.account = name]
            IN /\ Claimable(r) /\ (r.kind = "message" => Len(NonceBytes(r.nonce[1])) = 32)
               /\ Format(r) # Format(session.request)
               => SubSeq(Bytes(signer, r), 1, 4) # SubSeq(SignedBytes, 1, 4)

\* A verifier whose clock is not behind the signer's accepts a message with a
\* timestamp from the moment it is signed until max_age_ms have passed, less what the
\* timestamp, in whole milliseconds, is short of that moment, and never after
\* (nep413.py:57, 96-100).  In half milliseconds that is at most one.
MessageLivesItsTime ==
    checked # <<>> /\ checked[1].checksAge /\ checked[1].claim = signature[1].request
    /\ session.request.nonce = <<>> =>
        LET age == checked[1].at + skew - signature[1].at
        IN /\ age \in 0 .. 2 * MaxAge - 1 => checked[1].result
           /\ checked[1].result => age \in -1 .. 2 * MaxAge

\* A client cannot sign only because nothing gave it a key: no argument, no variable
\* of the environment, and no usable file of its account, whose error alone is
\* forgiven.  Near.from_file never makes such a client (_core.py:51-69, client.py:96-98).
ReadOnlyForAReason ==
    pc = "ready" /\ client.signer = NoSigner =>
        LET account == Or(session.given.account_id, session.env.account_id)
        IN /\ session.made # "from_file"
           /\ session.given.signer = NoSigner
           /\ session.given.private_key = NoSecret /\ session.env.private_key = NoSecret
           /\ account # Nothing => LoadCredentials(account, client.network) = Error
=================================================================================
