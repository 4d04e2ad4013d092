------------------------------ MODULE StateTree ------------------------------
(***************************************************************************)
(* load_evm_contract_input (src/src/lib.rs) and Mock (src/src/mock.rs):    *)
(* from the prestate and the poststate of a transaction, two Filecoin      *)
(* state trees are built in a content-addressed store that traces every    *)
(* block it is asked for (src/src/tracing_blockstore.rs).                  *)
(*                                                                         *)
(* A Cid is the block it identifies, a pair <<kind, content>>.  A HAMT or  *)
(* a KAMT is one block that holds the whole map.                           *)
(***************************************************************************)
EXTENDS EthState, Conversions

CONSTANTS
    Inputs,     \* the transactions: EthTransactionTestVector
    Zero,       \* H160::zero()
    Created,    \* compute_address_create(from, nonce) of the transaction
    None        \* what is not there yet

IsInput(input) ==
    /\ {"from", "to", "nonce", "prestate", "poststate"} \subseteq DOMAIN input
    /\ {input.from, input.to} \subseteq Address
    /\ input.nonce \in Nat
    /\ IsEthState(input.prestate) /\ IsEthState(input.poststate)

ASSUME TreeAssumption ==
    /\ \A input \in Inputs : IsInput(input)
    /\ {Zero, Created} \subseteq Address
    /\ Key \cup Data \subseteq [1 .. Width -> 0 .. 255]

VARIABLES
    input,          \* the transaction
    pc,             \* "setup", "pre", "post", "roots", "done" or "panic"
    todo,           \* the accounts the current loop has not come to
    mock,           \* the actors' root, the base store, the traced Cids
    contract_addrs, \* the accounts whose actors will be compared
    pre_actors, post_actors,    \* the roots of the two maps of actors
    state_roots     \* the roots of the car

vars == <<input, pc, todo, mock, contract_addrs, pre_actors, post_actors,
          state_roots>>

(* create_contract(): the recipient is zero *)
CreateContract == input.to = Zero

-----------------------------------------------------------------------------
(* TracingBlockStore, as functions of the whole Mock m *)

(* Blockstore::get traces the Cid, whether or not there is a block. *)
Read(m, cids) == [m EXCEPT !.traced = @ \cup cids]

(* Blockstore::put_keyed *)
Put(m, blocks) == [m EXCEPT !.base = @ \cup blocks, !.traced = @ \cup blocks]

-----------------------------------------------------------------------------
(* Mock *)

InitId  == 1    \* INIT_ACTOR_ADDR
FirstId == 100  \* the first id the init actor gives out

EmptyArr == <<"array", <<>>>>       \* EMPTY_ARR_CID

(* the delegated (f4) and the robust (f2) address of an Ethereum address *)
Delegated(a) == <<"f4", a>>
Robust(a)    == <<"f2", a>>

(* actor(..); balances of builtin actors are in whole FIL *)
Actor(code, head, nonce, balance, address) ==
    [code |-> code, head |-> head, nonce |-> nonce, balance |-> balance,
     predictable_address |-> address]

Actors(root) == root[2]

(* set_actor: the map is loaded, changed and flushed. *)
SetActor(m, id, a) ==
    LET root == <<"actors", Insert(Actors(m.actors), id, a)>>
    IN  [Put(Read(m, {m.actors}), {root}) EXCEPT !.actors = root]

InitHead(addresses, next_id) ==
    <<"init", [address_map |-> <<"addresses", addresses>>, next_id |-> next_id]>>

(* the state of the init actor, and its address map *)
InitState(root)  == Actors(root)[InitId].head[2]
AddressMap(root) == InitState(root).address_map[2]

(* normalize_address fails on an address that is not in the map *)
Known(root, a) == Delegated(a) \in DOMAIN AddressMap(root)
IdOf(root, a)  == AddressMap(root)[Delegated(a)]
ActorOf(root, a) == Actors(root)[IdOf(root, a)]

(* normalize_address, then get_actor *)
ReadActor(m) ==
    Read(m, {m.actors, Actors(m.actors)[InitId].head,
             InitState(m.actors).address_map})

(* mutant: SystemState::new is not called *)
MockBuiltinWithoutSystem ==
    LET addresses == <<"addresses", <<>>>>
        none      == <<"actors", <<>>>>
        init      == InitHead(<<>>, FirstId)
        reward    == <<"reward", <<>>>>
        burnt     == <<"account", 99>>
        actors    == <<"actors",
            [id \in {InitId, 2, 10, 99} |->
                CASE id = InitId -> Actor("init", init, 0, 1000000000, None)
                  [] id = 2  -> Actor("reward", reward, 0, 1100000000, None)
                  [] id = 10 -> Actor("eam", EmptyArr, 0, 0, None)
                  [] id = 99 -> Actor("account", burnt, 0, 0, None)]>>
        written   == {none, addresses, init, reward, burnt, actors}
    IN  [actors |-> actors, base |-> written, traced |-> written]

(***************************************************************************)
(* Mock::new and mock_builtin_actor.  The maps with some of the builtin    *)
(* actors are written too; nothing refers to them.                         *)
(***************************************************************************)
MockBuiltin ==
    LET addresses == <<"addresses", <<>>>>
        none      == <<"actors", <<>>>>
        system    == <<"system", EmptyArr>>
        init      == InitHead(<<>>, FirstId)
        reward    == <<"reward", <<>>>>
        burnt     == <<"account", 99>>
        actors    == <<"actors",
            [id \in {0, InitId, 2, 10, 99} |->
                CASE id = 0  -> Actor("system", system, 0, 1000000000, None)
                  [] id = InitId -> Actor("init", init, 0, 1000000000, None)
                  [] id = 2  -> Actor("reward", reward, 0, 1100000000, None)
                  [] id = 10 -> Actor("eam", EmptyArr, 0, 0, None)
                  [] id = 99 -> Actor("account", burnt, 0, 0, None)]>>
        written   == {none, EmptyArr, system, addresses, init, reward, burnt,
                      actors}
    IN  [actors |-> actors, base |-> written, traced |-> written]

(* the assertion of both callers of map_addresses_to_id, and its unwrap *)
Unmapped(m, addrs) == addrs \cap DOMAIN AddressMap(m.actors) = {}

(* mutant: the next id is not written back *)
MapAddressesToSameId(m, addrs) ==
    LET st   == InitState(m.actors)
        map  == [x \in DOMAIN AddressMap(m.actors) \cup addrs |->
                    IF x \in addrs THEN st.next_id ELSE AddressMap(m.actors)[x]]
        head == InitHead(map, st.next_id)
    IN  SetActor(Put(ReadActor(m), {<<"addresses", map>>, head}), InitId,
                 [Actors(m.actors)[InitId] EXCEPT !.head = head])

(* mutate_state(INIT_ACTOR_ADDR, map_addresses_to_id) *)
MapAddresses(m, addrs) ==
    LET st   == InitState(m.actors)
        map  == [x \in DOMAIN AddressMap(m.actors) \cup addrs |->
                    IF x \in addrs THEN st.next_id ELSE AddressMap(m.actors)[x]]
        head == InitHead(map, st.next_id + 1)
    IN  SetActor(Put(ReadActor(m), {<<"addresses", map>>, head}), InitId,
                 [Actors(m.actors)[InitId] EXCEPT !.head = head])

(* mock_embryo_address_actor *)
MockEmbryoAddressActor(m, a, balance, nonce) ==
    SetActor(MapAddresses(m, {Delegated(a)}), InitState(m.actors).next_id,
             Actor("placeholder", EmptyArr, nonce, balance, a))

(* mock_evm_actor *)
MockEvmActor(m, a, balance, nonce) ==
    SetActor(MapAddresses(m, {Robust(a), Delegated(a)}),
             InitState(m.actors).next_id,
             Actor("evm", EmptyArr, nonce, balance, a))

EvmHead(code, slots, nonce) ==
    <<"evm", [bytecode |-> <<"raw", code>>, bytecode_hash |-> code,
              contract_state |-> <<"slots", slots>>, nonce |-> nonce]>>

(* lib.rs 256-260 and 281-285: the HashMap of slots *)
Words(storage) ==
    LET word(w) == HexToU256(HexDigits(w))
    IN  [n \in {word(k) : k \in DOMAIN storage} |->
            word(storage[CHOOSE k \in DOMAIN storage : word(k) = n])]

(* mutant: a slot that became zero is left alone *)
KeepSlots(slots, storage) ==
    LET written == {k \in DOMAIN storage : storage[k] # 0}
    IN  [k \in DOMAIN slots \cup written |->
            IF k \in written THEN storage[k] ELSE slots[k]]

(* a zero deletes the slot, any other value is set: lines 290-301 *)
ApplySlots(slots, storage) ==
    LET deleted == {k \in DOMAIN storage : storage[k] = 0}
    IN  [k \in (DOMAIN slots \cup DOMAIN storage) \ deleted |->
            IF k \in DOMAIN storage THEN storage[k] ELSE slots[k]]

(* mutant: only the code is looked at *)
UnchangedCode(st, code, slots) == st.bytecode = <<"raw", code>>

(* the flag that lets mock_evm_actor_state return without a write *)
Unchanged(st, code, slots) ==
    st.bytecode = <<"raw", code>> /\ st.contract_state[2] = slots

(***************************************************************************)
(* mock_evm_actor_state.  A head that is no EvmState - a fresh actor's -   *)
(* stands for no slots, no code and nonce 1.  The bytecode is always given.*)
(***************************************************************************)
MockEvmActorState(m, a, storage, code) ==
    LET actor == ActorOf(m.actors, a)
        old   == actor.head[2]
        found == actor.head \in m.base /\ actor.head[1] = "evm"
        slots == ApplySlots(IF found THEN old.contract_state[2] ELSE <<>>, storage)
        head  == EvmHead(code, slots, IF found THEN old.nonce ELSE 1)
        read  == Read(ReadActor(m),
                      {actor.head} \cup IF found
                                        THEN {old.contract_state, old.bytecode}
                                        ELSE {})
    IN  IF found /\ Unchanged(old, code, slots) THEN read
        ELSE SetActor(Put(read, {<<"raw", code>>, <<"slots", slots>>, head}),
                      IdOf(m.actors, a), [actor EXCEPT !.head = head])

(* mutant: the balance is set to what the account lost *)
MockActorBalanceLost(m, a, balance, nonce) ==
    SetActor(ReadActor(m), IdOf(m.actors, a),
             [ActorOf(m.actors, a) EXCEPT !.balance = @ - balance, !.nonce = nonce])

(* mock_actor_balance; an unchanged actor is not written again *)
MockActorBalance(m, a, balance, nonce) ==
    LET actor == [ActorOf(m.actors, a) EXCEPT !.balance = balance, !.nonce = nonce]
    IN  IF actor = ActorOf(m.actors, a) THEN ReadActor(m)
        ELSE SetActor(ReadActor(m), IdOf(m.actors, a), actor)

(* print_evm_actors reads the state of every actor, and what it refers to. *)
PrintEvmActors(m) ==
    LET heads == {actor.head : actor \in Range(Actors(m.actors))}
        evm   == {head[2] : head \in {h \in heads : h[1] = "evm"}}
    IN  Read(ReadActor(m), heads \cup {st.bytecode : st \in evm}
                                 \cup {st.contract_state : st \in evm})

-----------------------------------------------------------------------------
(* load_evm_contract_input and the state roots *)

Init ==
    /\ input \in Inputs
    /\ pc = "setup"
    /\ todo = {}
    /\ mock = [actors |-> None, base |-> {}, traced |-> {}]
    /\ contract_addrs = {}
    /\ pre_actors = None
    /\ post_actors = None
    /\ state_roots = <<>>

(* lib.rs 222-239 *)
Setup ==
    /\ pc = "setup"
    /\ mock' = MockEmbryoAddressActor(MockBuiltin, input.from, 100000000,
                                      input.nonce)
    /\ todo' = DOMAIN input.prestate
    /\ pc' = "pre"
    /\ UNCHANGED <<input, contract_addrs, pre_actors, post_actors, state_roots>>

(* mutant: the created contract is looked for at the recipient *)
IsCreatedAtRecipient(a) == CreateContract /\ a = input.to

(* the contract that the transaction creates *)
IsCreated(a) == CreateContract /\ a = Created

(* mutant: the contract is already there before it is created *)
InPreTreeAlways(a) == a # input.from

(* lib.rs 243-253: who gets an actor in the first tree *)
InPreTree(a) == a # input.from /\ ~IsCreated(a)

(* the two calls at lib.rs 254-261 *)
MockAccount(m, a, account) ==
    MockEvmActorState(MockEvmActor(m, a, GetBalance(account.balance), account.nonce),
                      a, Words(account.storage), account.code)

(* mutant: an account is compared only when it was there before *)
PreAccountComparesOld(a) ==
    /\ pc = "pre"
    /\ a \in todo
    /\ InPreTree(a) => Unmapped(mock, {Robust(a), Delegated(a)})
    /\ todo' = todo \ {a}
    /\ contract_addrs' = contract_addrs \cup (IF InPreTree(a) THEN {a} ELSE {})
    /\ mock' = IF InPreTree(a) THEN MockAccount(mock, a, input.prestate[a])
               ELSE mock
    /\ UNCHANGED <<input, pc, pre_actors, post_actors, state_roots>>

(* lib.rs 239-262 *)
PreAccount(a) ==
    /\ pc = "pre"
    /\ a \in todo
    /\ InPreTree(a) => Unmapped(mock, {Robust(a), Delegated(a)})
    /\ todo' = todo \ {a}
    /\ contract_addrs' = contract_addrs \cup ({a} \ {input.from})
    /\ mock' = IF InPreTree(a) THEN MockAccount(mock, a, input.prestate[a])
               ELSE mock
    /\ UNCHANGED <<input, pc, pre_actors, post_actors, state_roots>>

(* lib.rs 263-264 *)
EndPre ==
    /\ pc = "pre"
    /\ todo = {}
    /\ pre_actors' = mock.actors
    /\ mock' = PrintEvmActors(mock)
    /\ todo' = DOMAIN input.poststate
    /\ pc' = "post"
    /\ UNCHANGED <<input, contract_addrs, post_actors, state_roots>>

(* the unwrap and the expect that an account of the second loop meets *)
Expected(a) ==
    IF IsCreated(a) THEN Unmapped(mock, {Robust(a), Delegated(a)})
                    ELSE Known(mock.actors, a)

(* lib.rs 267-287 *)
PostAccount(a) ==
    LET account == input.poststate[a]
        balance == GetBalance(account.balance)
        there   == IF IsCreated(a)
                   THEN MockEvmActor(mock, a, balance, account.nonce)
                   ELSE mock
    IN
    /\ pc = "post"
    /\ a \in todo
    /\ a # input.from => Expected(a)
    /\ todo' = todo \ {a}
    /\ mock' = IF a = input.from THEN mock
               ELSE MockActorBalance(
                        MockEvmActorState(there, a, Words(account.storage), account.code),
                        a, balance, account.nonce)
    /\ UNCHANGED <<input, pc, contract_addrs, pre_actors, post_actors, state_roots>>

(* assert!(!exist), or "failed to normalize address" *)
Panic(a) ==
    /\ pc \in {"pre", "post"}
    /\ a \in todo \ {input.from}
    /\ IF pc = "post" THEN ~Expected(a)
       ELSE InPreTree(a) /\ ~Unmapped(mock, {Robust(a), Delegated(a)})
    /\ pc' = "panic"
    /\ UNCHANGED <<input, todo, mock, contract_addrs, pre_actors, post_actors,
                   state_roots>>

(* lib.rs 288-289 *)
EndPost ==
    /\ pc = "post"
    /\ todo = {}
    /\ post_actors' = mock.actors
    /\ mock' = PrintEvmActors(mock)
    /\ pc' = "roots"
    /\ UNCHANGED <<input, todo, contract_addrs, pre_actors, state_roots>>

(* lib.rs 76-94 *)
StateRoots ==
    /\ pc = "roots"
    /\ state_roots' = <<<<"root", pre_actors>>, <<"root", post_actors>>>>
    /\ mock' = Put(mock, Range(state_roots'))
    /\ pc' = "done"
    /\ UNCHANGED <<input, todo, contract_addrs, pre_actors, post_actors>>

Next ==
    \/ Setup
    \/ \E a \in Address : PreAccount(a) \/ PostAccount(a) \/ Panic(a)
    \/ EndPre \/ EndPost \/ StateRoots

Spec == Init /\ [][Next]_vars

-----------------------------------------------------------------------------
(* Properties *)

IsActors(root) ==
    /\ root[1] = "actors"
    /\ \A actor \in Range(Actors(root)) :
          /\ actor.nonce \in Nat /\ actor.balance \in Nat
          /\ actor.predictable_address \in Address \cup {None}

TypeOK ==
    /\ IsInput(input)
    /\ pc \in {"setup", "pre", "post", "roots", "done", "panic"}
    /\ todo \in SUBSET Address
    /\ pc # "setup" => IsActors(mock.actors)
    /\ contract_addrs \in SUBSET Address
    /\ pre_actors # None => IsActors(pre_actors)
    /\ post_actors # None => IsActors(post_actors)
    /\ Len(state_roots) \in {0, 2}

(***************************************************************************)
(* What a tree says of an account: an EVM actor under the delegated        *)
(* address, with the balance as the conversion reads it, the nonce of the  *)
(* account, the code, its hash, and the slots that are not zero.  The      *)
(* nonce in the EvmState is left out: the code gives it to every contract  *)
(* as 1 and never changes it, where evm_state.rs:23 says that it tracks    *)
(* how many times CREATE or CREATE2 have been called.                      *)
(***************************************************************************)
Nonzero(storage) ==
    LET kept == {k \in DOMAIN storage : FromBigEndian(storage[k]) # 0}
    IN  [n \in {FromBigEndian(k) : k \in kept} |->
            FromBigEndian(storage[ToBigEndian(n)])]

Shows(root, a, account) ==
    /\ Known(root, a)
    /\ LET actor == ActorOf(root, a)
           st    == actor.head[2]
       IN  /\ actor = Actor("evm", actor.head, account.nonce,
                            GetBalance(account.balance), a)
           /\ actor.head[1] = "evm"
           /\ st.bytecode = <<"raw", account.code>>
           /\ st.bytecode_hash = account.code
           /\ st.contract_state = <<"slots", Nonzero(account.storage)>>

(* the accounts a tree knows of *)
AccountsOf(root) == {a \in Address : Known(root, a)}

(***************************************************************************)
(* The first tree is the prestate: all its accounts and no other, with     *)
(* what they hold; but not the contract the transaction will create, whose *)
(* address must be free.  The sender is there without code.                *)
(***************************************************************************)
PreTreeMirrors ==
    pre_actors # None =>
        LET created == IF input.to = Zero THEN {Created} ELSE {}
            mocked  == DOMAIN input.prestate \ ({input.from} \cup created)
        IN  /\ AccountsOf(pre_actors) = mocked \cup {input.from}
            /\ \A a \in mocked : Shows(pre_actors, a, input.prestate[a])

(***************************************************************************)
(* The second tree is the poststate, for the poststates the extraction     *)
(* makes: it is built by changing the first tree, account by account, and  *)
(* what the changes leave over from the prestate is right.                 *)
(***************************************************************************)
PostTreeMirrors ==
    post_actors # None /\ Covers(input.poststate, input.prestate) =>
        LET mocked == DOMAIN input.poststate \ {input.from}
        IN  /\ AccountsOf(post_actors) = mocked \cup {input.from}
            /\ \A a \in mocked : Shows(post_actors, a, input.poststate[a])

(***************************************************************************)
(* The two directions between addresses and actors agree: an actor with an *)
(* address is found under it, whichever other actors came after it, and    *)
(* the id that is given out next is free.                                  *)
(***************************************************************************)
OneActorPerAddress ==
    pc # "setup" =>
        LET actors == Actors(mock.actors) IN
        /\ \A id \in DOMAIN actors :
              /\ id < InitState(mock.actors).next_id
              /\ actors[id].predictable_address # None =>
                    /\ Known(mock.actors, actors[id].predictable_address)
                    /\ IdOf(mock.actors, actors[id].predictable_address) = id
        /\ \A address \in DOMAIN AddressMap(mock.actors) :
              LET id == AddressMap(mock.actors)[address]
              IN  id \in DOMAIN actors
                  /\ actors[id].predictable_address = address[2]

(* the blocks a block refers to; the code Cids are those of the bundle *)
Links(block) ==
    CASE block[1] = "actors" -> {actor.head : actor \in Range(Actors(block))}
      [] block[1] = "init"   -> {block[2].address_map}
      [] block[1] = "system" -> {block[2]}
      [] block[1] = "evm"    -> {block[2].bytecode, block[2].contract_state}
      [] block[1] = "root"   -> {block[2], EmptyArr}
      [] OTHER               -> {}

(***************************************************************************)
(* The car of the traced blocks is complete: each of them is in the store, *)
(* so the export does not panic on a missing block, and so is everything   *)
(* they refer to, down to the empty array no actor ever writes.            *)
(***************************************************************************)
SelfContained ==
    /\ Range(state_roots) \subseteq mock.traced
    /\ \A block \in mock.traced :
          block \in mock.base /\ Links(block) \subseteq mock.traced

(***************************************************************************)
(* Building the trees never panics on a poststate that has no account the  *)
(* prestate lacks, other than the created one.                             *)
(***************************************************************************)
NeverPanics ==
    pc = "panic" =>
        ~(DOMAIN input.poststate \subseteq
            DOMAIN input.prestate \cup (IF input.to = Zero THEN {Created} ELSE {}))

(***************************************************************************)
(* The trees hold the balances of the two states: README.md says that the  *)
(* transaction file has the "balance changes", and that the vector is      *)
(* generated from it.                                                      *)
(***************************************************************************)
BalancesKept ==
    post_actors # None /\ Covers(input.poststate, input.prestate) =>
        \A a \in DOMAIN input.poststate \ {input.from} :
            ActorOf(post_actors, a).balance = input.poststate[a].balance
=============================================================================
