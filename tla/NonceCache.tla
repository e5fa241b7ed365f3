------------------------------ MODULE NonceCache ------------------------------
(* One entry of the client's NonceCache (_core.py): the highest nonce this     *)
(* client has reserved, or been told of, on one access key or gas-key lane.    *)
(* Every method of the class runs under the cache's own lock, so each operator *)
(* here is one atomic step of the modules that use it.                         *)
EXTENDS Integers

CONSTANT None       \* Python's None: no entry, no on-chain value, no ak_nonce

\* A nonce is an integer; None is not one.
ASSUME NoneAssumption == None \notin Int

Larger(a, b) == IF a >= b THEN a ELSE b

\* self._nonces.get(key, 0)
Base(stored) == IF stored = None THEN 0 ELSE stored

\* has: key in self._nonces
Has(stored) == stored # None

\* Defect: a fetched value replaces the entry even when it is behind it.
NextNonceOfChain(stored, onChain) ==
    (IF onChain = None THEN Base(stored) ELSE onChain) + 1

\* reserve: the nonce handed out, which is also the entry from now on.
NextNonce(stored, onChain) ==
    (IF onChain = None THEN Base(stored) ELSE Larger(Base(stored), onChain)) + 1

\* Defect: the last report wins.
SyncToLast(stored, akNonce) == akNonce

\* sync_to: a late or reordered report never moves the entry back.
SyncTo(stored, akNonce) == Larger(Base(stored), akNonce)
===============================================================================
