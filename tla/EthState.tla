------------------------------ MODULE EthState ------------------------------
(***************************************************************************)
(* The account states the extractor carries around: EthState is a map from *)
(* addresses to accounts, an account holds a nonce, a balance, a code and  *)
(* the storage slots the transaction accessed (src/src/extractor/types.rs).*)
(*                                                                         *)
(* Balances are U256 in the code.  Every arithmetic step of the extractor  *)
(* is checked there (an overflow panics); the sum of all balances is far   *)
(* below 2^256, so only the lower bound 0 can be met and Nat models it.    *)
(***************************************************************************)
EXTENDS Naturals, FiniteSets, Sequences

CONSTANTS
    Address,    \* every address (H160) a trace can name
    Key,        \* storage keys (H256)
    Data,       \* storage values (H256)
    Code,       \* runtime codes (Bytes)
    NoCode      \* the empty code, Bytes::default()

ASSUME NoCodeIsCode == NoCode \in Code

(* 20-byte words *)
ASSUME AddressAssumption == IsFiniteSet(Address)

(* BTreeMap<H256, H256>: a partial map, whose domain is the accessed slots *)
Storage == UNION {[K -> Data] : K \in SUBSET Key}

EthAccountState ==
    [nonce : Nat, balance : Nat, code : Code, storage : Storage]

(* BTreeMap<H160, EthAccountState>: the accounts the transaction involves *)
IsEthState(state) ==
    /\ DOMAIN state \subseteq Address
    /\ state \in [DOMAIN state -> EthAccountState]

(* no account gained or lost since pre, no accessed slot forgotten *)
Covers(state, pre) ==
    /\ DOMAIN state = DOMAIN pre
    /\ \A a \in DOMAIN pre : DOMAIN pre[a].storage \subseteq DOMAIN state[a].storage

(* BTreeMap::insert *)
Insert(map, k, v) ==
    [x \in DOMAIN map \cup {k} |-> IF x = k THEN v ELSE map[x]]

(* mutant: the storage is rebuilt from the written slot alone *)
StoreAlone(state, a, k, v) == [state EXCEPT ![a].storage = [x \in {k} |-> v]]

Store(state, a, k, v) == [state EXCEPT ![a].storage = Insert(@, k, v)]

Debit(state, a, v)  == [state EXCEPT ![a].balance = @ - v]
Credit(state, a, v) == [state EXCEPT ![a].balance = @ + v]

(* mutant: both balances are read before either is written *)
TransferStale(state, from, to, v) ==
    [state EXCEPT ![from].balance = state[from].balance - v,
                  ![to].balance   = state[to].balance + v]

(* Debit first: a transfer to oneself leaves the balance as it was. *)
Transfer(state, from, to, v) == Credit(Debit(state, from, v), to, v)
=============================================================================
