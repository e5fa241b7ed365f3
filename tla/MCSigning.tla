------------------------------- MODULE MCSigning -------------------------------
(* Every way to configure a client with one thing to sign, and everything there *)
(* is to sign with one client.                                                  *)
EXTENDS Signing

Fill(b, n) == [i \in 1 .. n |-> b]

AccountNames == {"al", "bo", "long"}

TextBytes ==
    ("" :> <<>>) @@ ("{}" :> <<123, 125>>) @@ ("al" :> <<97, 108>>) @@ ("bo" :> <<98, 111>>)
    @@ ("long" :> Fill(97, 64)) @@ ("a" :> <<97>>) @@ ("b" :> <<98>>)

Seeds == {"s1", "s2", "al"}
KeyBytes ==
    [k \in [curve : {"ed25519", "ml-dsa-65"}, seed : Seeds] |->
        Fill(CASE k.seed = "s1" -> 1 [] k.seed = "s2" -> 2 [] OTHER -> 3,
             IF k.curve = "ed25519" THEN 32 ELSE 1952)]

BlockHash == Fill(9, 32)
RandomBytes == Fill(7, 24)

-------------------------------------------------------------------------------
(* Requests.                                                                   *)

Key(b) == [curve |-> "ed25519", data |-> Fill(b, 32)]
HashHandle == [curve |-> "ml-dsa-65-hash", data |-> Fill(5, 32)]

Pair(key, value) == [key |-> key, value |-> value]

Calls ==
    {[builder |-> b] : b \in {"create_account"}}
    \cup [builder : {"deploy_contract"}, code : {"a", "b"}]
    \cup [builder : {"function_call"}, method : {"a"}, args : {<<>>, <<"">>, <<"{}">>}, gas : {1}, deposit : {0, 1}]
    \cup [builder : {"transfer"}, amount : {1, 256}]
    \cup [builder : {"stake", "transfer_to_gas_key", "withdraw_from_gas_key"}, amount : {1}, key : {Key(1)}]
    \cup [builder : {"add_full_access_key", "delete_key"}, key : {Key(1), Key(2), HashHandle}]
    \cup [builder : {"add_function_call_key"}, key : {Key(1)}, contract_id : {<<"al">>},
          method_names : {<<>>, <<"a">>, <<"a", "b">>}, allowance : {<<>>, <<0>>}]
    \cup [builder : {"add_gas_key"}, key : {Key(1)}, contract_id : {<<>>, <<"al">>},
          method_names : {<<>>, <<"a">>}, num_nonces : {0, 1, 1024, 1025}]
    \cup [builder : {"delete_account"}, beneficiary_id : {"al"}]
    \cup [builder : {"publish_contract"}, code : {"a"}, identified_by : {"hash", "account", "name"}]
    \cup [builder : {"use_global_contract"}, code_hash : {<<>>, <<Fill(4, 32)>>, <<Fill(4, 31)>>},
          account_id : {<<>>, <<"al">>}]
    \cup [builder : {"deterministic_state_init"}, code_hash : {<<>>}, account_id : {<<"al">>}, deposit : {1},
          data : {<<>>, <<Pair("a", "b"), Pair("b", "a")>>, <<Pair("b", "a"), Pair("a", "b")>>,
                  <<Pair("a", "a"), Pair("a", "b")>>}]

Transfer == [builder |-> "transfer", amount |-> 1]
Create == [builder |-> "create_account"]

Send == [kind |-> "send", signer |-> NoSigner, receiver |-> "al", calls |-> <<Transfer>>,
         nonce |-> 1, lane |-> <<>>, strict |-> FALSE]

Sends ==
    {[Send EXCEPT !.calls = <<c>>] : c \in Calls}
    \cup {[Send EXCEPT !.calls = cs] : cs \in {<<>>, <<Create, Transfer>>, <<Transfer, Create>>}}
    \cup {[Send EXCEPT !.lane = l, !.strict = s] : l \in {<<>>, <<0>>, <<1>>, <<65535>>, <<65536>>}, s \in BOOLEAN}
    \cup {[Send EXCEPT !.receiver = "bo"], [Send EXCEPT !.nonce = 256]}

Delegate == [kind |-> "delegate", signer |-> NoSigner, receiver |-> "al", calls |-> <<Transfer>>,
             nonce |-> 1, max_block_height |-> 2]

Delegates ==
    {Delegate, [Delegate EXCEPT !.receiver = "bo"], [Delegate EXCEPT !.nonce = 2, !.max_block_height = 1],
     [Delegate EXCEPT !.calls = <<Create, Transfer>>]}

Nonces == {<<>>, <<[timestamp |-> 1, random |-> RandomBytes]>>, <<[timestamp |-> 0, random |-> <<7>>]>>}

Messages ==
    [kind : {"message"}, signer : {NoSigner}, message : {"al", "a"}, recipient : {"al"}, nonce : Nonces,
     callback_url : {<<>>, <<"">>, <<"a">>}]

AllClaims == Sends \cup Delegates \cup Messages

-------------------------------------------------------------------------------
(* Configurations.                                                             *)

Secret(curve, length, seed, embedded) ==
    [curve |-> curve, length |-> length, seed |-> seed, embedded |-> embedded]
Good == Secret("ed25519", 64, "s1", "s1")
Contradicting == Secret("ed25519", 64, "s1", "s2")
PostQuantum == Secret("ml-dsa-65", 32, "s1", "")
Expanded == Secret("ml-dsa-65", 4032, "s1", "")

File(account, private, secret) ==
    [found |-> TRUE, account_id |-> account, private_key |-> private, secret_key |-> secret]

\* A usable file, one with an old field and another account's name, a broken one.
CredentialFiles ==
    ("mainnet" :> ("al" :> File("", Good, NoSecret)))
    @@ ("testnet" :> (("al" :> File("long", NoSecret, Good)) @@ ("bo" :> File("", Expanded, Good))))

Givens ==
    [network : {"", "other"}, rpc_url : {"", "http"}, account_id : {"", "al"},
     private_key : {NoSecret, Good, Contradicting, PostQuantum}, signer : {NoSigner, SandboxSigner("al", "")}]
Envs ==
    [network : {"", "testnet"}, rpc_url : {""}, account_id : {"", "bo"},
     private_key : {NoSecret, Secret("ed25519", 32, "s2", "")}]

Plain == [network |-> "", rpc_url |-> "", account_id |-> "al", private_key |-> NoSecret, signer |-> NoSigner]
Empty == [network |-> "", rpc_url |-> "", account_id |-> "", private_key |-> NoSecret]

SomeMessage ==
    [kind |-> "message", signer |-> NoSigner, message |-> "al", recipient |-> "al", nonce |-> <<>>,
     callback_url |-> <<>>]

Configured ==
    [made : {"Near"}, given : Givens, env : Envs, request : {Send}, signer : {NoSigner}]
    \cup [made : {"Near"}, given : {g \in Givens : g.private_key = PostQuantum}, env : {Empty},
          request : {SomeMessage}, signer : {NoSigner}]
    \cup [made : {"from_file"}, given : {g \in Givens : g.account_id # "" /\ g.private_key = NoSecret /\ g.signer = NoSigner},
          env : Envs, request : {Send}, signer : {NoSigner}]
    \cup [made : {"with_signer"}, given : {Plain}, env : Envs, request : {Send},
          signer : {SandboxSigner("bo", "s2")}]

MCSessions ==
    Configured
    \cup [made : {"Near"}, given : {Plain}, env : {Empty}, request : AllClaims, signer : {NoSigner}]

ClockSkews == {-2, 0, 1}
===============================================================================
