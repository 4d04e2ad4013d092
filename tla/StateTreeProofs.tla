---------------------------- MODULE StateTreeProofs ----------------------------
(***************************************************************************)
(* The two state trees of any transaction, however many accounts it has    *)
(* and whatever they hold.                                                 *)
(***************************************************************************)
EXTENDS MockProofs

(* the accounts of the first tree, and those the second loop changes *)
CreatedBy(t) == IF t.to = Zero THEN {Created} ELSE {}
Mocked(t)    == DOMAIN t.prestate \ ({t.from} \cup CreatedBy(t))
Changed(t)   == DOMAIN t.poststate \ {t.from}

SenderOf(t) == Actor("placeholder", EmptyArr, t.nonce, 100000000, t.from)

PreSlots(t, a)  == ApplySlots(<<>>, Words(t.prestate[a].storage))
PostSlots(t, a) == ApplySlots(IF a \in Mocked(t) THEN PreSlots(t, a) ELSE <<>>,
                              Words(t.poststate[a].storage))
PreActor(t, a)  == ActorWith(PreSlots(t, a), t.prestate[a], a)
PostActor(t, a) == ActorWith(PostSlots(t, a), t.poststate[a], a)

(***************************************************************************)
(* What a root holds when the second loop is through with some accounts;   *)
(* when it is with none, the first loop is with others.                    *)
(***************************************************************************)
Holds(t, root, pre, post) ==
    /\ \A b : Known(root, b) <=> b = t.from \/ b \in pre \/ b \in post
    /\ ActorOf(root, t.from) = SenderOf(t)
    /\ \A a \in pre \ post : ActorOf(root, a) = PreActor(t, a)
    /\ \A a \in post : ActorOf(root, a) = PostActor(t, a)

(* the phases of load_evm_contract_input *)
Building ==
    /\ input \in Inputs
    /\ pc \in {"setup", "pre", "post", "roots", "done", "panic"}
    /\ pc # "setup" => IsMock(mock)
    /\ pc = "setup" => todo = {} /\ mock.traced = {} /\ contract_addrs = {}
    /\ pc = "pre" =>
          /\ todo \subseteq DOMAIN input.prestate
          /\ Holds(input, mock.actors, Mocked(input) \ todo, {})
    /\ pc = "post" =>
          /\ todo \subseteq DOMAIN input.poststate
          /\ Holds(input, mock.actors, Mocked(input), Changed(input) \ todo)

PreDone ==
    Indexed(pre_actors) /\ Holds(input, pre_actors, Mocked(input), {})

PostDone ==
    Indexed(post_actors) /\ Holds(input, post_actors, Mocked(input), Changed(input))

Finished ==
    /\ pre_actors = None \/ PreDone
    /\ post_actors = None \/ PostDone
    /\ pc \in {"post", "roots", "done"} => PreDone
    /\ pc \in {"roots", "done"} => PostDone
    /\ pc \in {"post", "roots"} => pre_actors \in mock.traced
    /\ pc = "roots" => post_actors \in mock.traced
    /\ state_roots = IF pc = "done" THEN <<<<"root", pre_actors>>, <<"root", post_actors>>>>
                     ELSE <<>>
    /\ Range(state_roots) \subseteq mock.traced

(* the accounts that will be compared *)
Compared ==
    /\ pc = "pre" => contract_addrs = (DOMAIN input.prestate \ todo) \ {input.from}
    /\ pc \in {"post", "roots", "done"} =>
          contract_addrs = DOMAIN input.prestate \ {input.from}

IndInv ==
    /\ Building /\ Finished /\ Compared
    /\ todo \in SUBSET Address /\ contract_addrs \in SUBSET Address
    /\ NeverPanics

-----------------------------------------------------------------------------
(* The accounts of a transaction the specification is given *)
LEMMA InputType ==
    ASSUME NEW t \in Inputs
    PROVE  /\ t.from \in Address /\ t.to \in Address /\ t.nonce \in Nat
           /\ DOMAIN t.prestate \subseteq Address
           /\ DOMAIN t.poststate \subseteq Address
           /\ \A a \in DOMAIN t.prestate : t.prestate[a] \in EthAccountState
           /\ \A a \in DOMAIN t.poststate : t.poststate[a] \in EthAccountState
BY TreeAssumption DEF IsInput, IsEthState

LEMMA AccountType ==
    ASSUME NEW x \in EthAccountState
    PROVE  x.nonce \in Nat /\ x.balance \in Nat /\ x.storage \in Storage
BY DEF EthAccountState

(* An address without its account is not in the map at all. *)
LEMMA UnmappedWhenUnknown ==
    ASSUME NEW m, IsMock(m), NEW a, ~Known(m.actors, a)
    PROVE  Unmapped(m, {Robust(a), Delegated(a)})
<1> DEFINE map == AddressMap(m.actors)
<1> SUFFICES ASSUME NEW k \in {Robust(a), Delegated(a)}, k \in DOMAIN map
             PROVE  FALSE
    BY DEF Unmapped
<1>1. k[2] = a
    BY DEF Robust, Delegated
<1>2. Known(m.actors, k[2])
  <2> DEFINE id == map[k]
             x  == Actors(m.actors)[id]
  <2>1. /\ id \in DOMAIN Actors(m.actors) /\ id >= FirstId
        /\ k = <<k[1], x.predictable_address>>
      BY DEF IsMock, Indexed
  <2>2. id \in Nat /\ ~(id < FirstId)
      BY <2>1 DEF IsMock, Indexed, FirstId
  <2>3. Known(m.actors, x.predictable_address)
    <3> HIDE DEF id
    <3> QED BY <2>1, <2>2 DEF IsMock, Indexed
  <2> QED BY <2>1, <2>3
<1> QED BY <1>1, <1>2

LEMMA KnownIsMapped ==
    ASSUME NEW m, NEW a, Unmapped(m, {Robust(a), Delegated(a)})
    PROVE  ~Known(m.actors, a)
BY DEF Unmapped, Known

LEMMA InitEstablishes == Init => IndInv
<1> SUFFICES ASSUME Init PROVE IndInv
    OBVIOUS
<1>1. Range(state_roots) = {} /\ state_roots = <<>>
    BY DEF Init, Range
<1>2. mock.traced = {}
    BY DEF Init
<1> QED BY <1>1, <1>2 DEF Init, IndInv, Building, Finished, Compared, NeverPanics

-----------------------------------------------------------------------------
(* The steps *)

(* Each action keeps the invariant. *)
LEMMA SetupStep ==
    ASSUME IndInv, Setup
    PROVE  IndInv'
<1> DEFINE t == input
           m == MockEmbryoAddressActor(MockBuiltin, t.from, 100000000, t.nonce)
<1>1. t \in Inputs /\ t.from \in Address /\ t.nonce \in Nat
      /\ DOMAIN t.prestate \subseteq Address
    BY InputType DEF IndInv, Building
<1>2. /\ IsMock(m)
      /\ Includes(MockBuiltin.actors, m.actors, t.from, SenderOf(t))
  <2>1. Unmapped(MockBuiltin, {Delegated(t.from)})
      BY BuiltinIsMock DEF Unmapped
  <2>2. 100000000 \in Nat
      OBVIOUS
  <2> QED BY <1>1, <2>1, <2>2, BuiltinIsMock, EmbryoIncludes DEF SenderOf
<1>3. \A b : ~Known(MockBuiltin.actors, b)
    BY BuiltinIsMock DEF Known
<1> HIDE DEF m
<1>4. Holds(t, m.actors, {}, {})
    BY <1>2, <1>3 DEF Includes, Holds
<1>5. mock' = m /\ input' = t /\ pc' = "pre" /\ todo' = DOMAIN t.prestate
      /\ Mocked(t) \ todo' = {}
    BY DEF Setup, m, Mocked
<1>6. /\ pre_actors' = pre_actors /\ post_actors' = post_actors
      /\ state_roots' = state_roots /\ contract_addrs' = contract_addrs
    BY DEF Setup
<1>7. Building'
    BY <1>1, <1>2, <1>4, <1>5 DEF Building
<1>8. Finished'
  <2>1. pc = "setup" /\ Range(state_roots) = {}
      BY DEF Setup, IndInv, Finished, Range
  <2> QED BY <1>5, <1>6, <2>1 DEF IndInv, Finished, PreDone, PostDone
<1>9. Compared'
  <2>1. contract_addrs = {}
      BY DEF Setup, IndInv, Building
  <2> QED BY <1>5, <1>6, <2>1 DEF Compared
<1> QED BY <1>1, <1>5, <1>6, <1>7, <1>8, <1>9 DEF IndInv, NeverPanics

(* the first loop adds one account *)
LEMMA HoldsOneMore ==
    ASSUME NEW t, NEW old, NEW new, NEW pre, NEW a,
           Holds(t, old, pre, {}), Includes(old, new, a, PreActor(t, a))
    PROVE  Holds(t, new, pre \cup {a}, {})
<1>1. a # t.from /\ a \notin pre
    BY DEF Holds, Includes
<1> QED BY <1>1 DEF Holds, Includes

(* the second loop adds the created account, or changes another one *)
LEMMA HoldsCreated ==
    ASSUME NEW t, NEW old, NEW new, NEW pre, NEW post, NEW a,
           Holds(t, old, pre, post), Includes(old, new, a, PostActor(t, a))
    PROVE  Holds(t, new, pre, post \cup {a})
<1>1. a # t.from /\ a \notin pre /\ a \notin post
    BY DEF Holds, Includes
<1> QED BY <1>1 DEF Holds, Includes

LEMMA HoldsChanged ==
    ASSUME NEW t, NEW old, NEW new, NEW pre, NEW post, NEW a, a # t.from,
           Known(old, a),
           Holds(t, old, pre, post), Changes(old, new, a, PostActor(t, a))
    PROVE  Holds(t, new, pre, post \cup {a})
<1>1. \A b : Known(new, b) <=> Known(old, b)
    BY DEF Changes, Known
<1>2. a \in pre \/ a \in post
    BY DEF Holds
<1> QED BY <1>1, <1>2 DEF Holds, Changes

(* what has been finished stays so while the store only grows *)
LEMMA FinishedStays ==
    ASSUME IndInv, mock.traced \subseteq mock'.traced,
           UNCHANGED <<input, pc, pre_actors, post_actors, state_roots>>
    PROVE  Finished'
<1>1. PreDone' <=> PreDone
    BY DEF PreDone
<1>2. PostDone' <=> PostDone
    BY DEF PostDone
<1> QED BY <1>1, <1>2 DEF IndInv, Finished

LEMMA PreStep ==
    ASSUME IndInv, NEW a \in Address, PreAccount(a)
    PROVE  IndInv'
<1> DEFINE t == input
           m == MockAccount(mock, a, t.prestate[a])
<1>1. /\ t \in Inputs /\ IsMock(mock) /\ pc = "pre" /\ a \in todo
      /\ todo \subseteq DOMAIN t.prestate
      /\ Holds(t, mock.actors, Mocked(t) \ todo, {})
    BY DEF IndInv, Building, PreAccount
<1>2. t.prestate[a].nonce \in Nat /\ t.prestate[a].balance \in Nat
    BY <1>1, InputType, AccountType
<1>3. InPreTree(a) <=> a \in Mocked(t)
    BY <1>1 DEF InPreTree, IsCreated, CreateContract, Mocked, CreatedBy
<1>4. /\ IsMock(mock') /\ mock.traced \subseteq mock'.traced
      /\ Holds(t, mock'.actors, Mocked(t) \ todo', {})
  <2>1. CASE InPreTree(a)
    <3>1. Unmapped(mock, {Robust(a), Delegated(a)}) /\ mock' = m
        BY <2>1 DEF PreAccount, m
    <3>2. /\ IsMock(m) /\ mock.traced \subseteq m.traced
          /\ Includes(mock.actors, m.actors, a, PreActor(t, a))
        BY <1>1, <1>2, <3>1, AccountIncludes DEF PreActor, PreSlots
    <3>3. Mocked(t) \ todo' = (Mocked(t) \ todo) \cup {a}
        BY <1>1, <1>3, <2>1 DEF PreAccount
    <3> HIDE DEF m
    <3>4. Holds(t, m.actors, (Mocked(t) \ todo) \cup {a}, {})
        BY <1>1, <3>2, HoldsOneMore
    <3> QED BY <3>1, <3>2, <3>3, <3>4
  <2>2. CASE ~InPreTree(a)
    <3>1. mock' = mock
        BY <2>2 DEF PreAccount
    <3>2. Mocked(t) \ todo' = Mocked(t) \ todo
        BY <1>3, <2>2 DEF PreAccount
    <3> QED BY <1>1, <3>1, <3>2
  <2> QED BY <2>1, <2>2
<1>5. UNCHANGED <<input, pc, pre_actors, post_actors, state_roots>>
    BY DEF PreAccount
<1>6. Building'
  <2>1. todo' \subseteq todo
      BY DEF PreAccount
  <2> QED BY <1>1, <1>4, <1>5, <2>1 DEF Building
<1>7. Finished'
    BY <1>4, <1>5, FinishedStays
<1>8. todo' \in SUBSET Address /\ contract_addrs' \in SUBSET Address
    BY DEF PreAccount, IndInv
<1>9. Compared'
    BY <1>1, <1>5 DEF IndInv, Compared, PreAccount
<1> QED BY <1>1, <1>5, <1>6, <1>7, <1>8, <1>9 DEF IndInv, NeverPanics

LEMMA EndPreStep ==
    ASSUME IndInv, EndPre
    PROVE  IndInv'
<1> DEFINE t == input
<1>1. /\ t \in Inputs /\ IsMock(mock) /\ pc = "pre" /\ todo = {}
      /\ Holds(t, mock.actors, Mocked(t), {})
    BY DEF IndInv, Building, EndPre
<1>2. mock' = mock /\ pre_actors' = mock.actors /\ input' = t /\ pc' = "post"
      /\ todo' = DOMAIN t.poststate
    BY <1>1, PrintReads DEF EndPre
<1>3. /\ post_actors' = post_actors /\ state_roots' = state_roots
      /\ contract_addrs' = contract_addrs
    BY DEF EndPre
<1>4. Changed(t) \ todo' = {}
    BY <1>2 DEF Changed
<1>5. Building'
    BY <1>1, <1>2, <1>4 DEF Building
<1>6. PreDone'
    BY <1>1, <1>2 DEF PreDone, IsMock
<1>7. mock.actors \in mock.traced
    BY <1>1 DEF IsMock, Closed
<1>8. Finished'
  <2>1. PostDone' <=> PostDone
      BY <1>2, <1>3 DEF PostDone
  <2> QED BY <1>1, <1>2, <1>3, <1>6, <1>7, <2>1 DEF IndInv, Finished
<1>9. todo' \in SUBSET Address
    BY <1>1, <1>2, InputType
<1>10. Compared'
    BY <1>1, <1>2, <1>3 DEF IndInv, Compared
<1> QED BY <1>2, <1>3, <1>5, <1>8, <1>9, <1>10 DEF IndInv, NeverPanics

(* The second loop on an account that is there, or on the created one. *)
LEMMA SettleKnown ==
    ASSUME IndInv, pc = "post", NEW a \in todo, a # input.from,
           Known(mock.actors, a)
    PROVE  LET t == input
               m == Settle(mock, a, t.poststate[a])
           IN  /\ IsMock(m) /\ mock.traced \subseteq m.traced
               /\ Holds(t, m.actors, Mocked(t), (Changed(t) \ todo) \cup {a})
<1> DEFINE t == input
           account == t.poststate[a]
           m == Settle(mock, a, account)
<1>1. /\ t \in Inputs /\ IsMock(mock) /\ a \in DOMAIN t.poststate
      /\ Holds(t, mock.actors, Mocked(t), Changed(t) \ todo)
    BY DEF IndInv, Building
<1>2. account.nonce \in Nat /\ account.balance \in Nat
    BY <1>1, InputType, AccountType
<1>3. a \in Mocked(t) /\ ActorOf(mock.actors, a) = PreActor(t, a)
    BY <1>1 DEF Holds
<1>4. LET x == ActorOf(mock.actors, a)
      IN  x.code = "evm" /\ StateNonce(x) = 1 /\ SlotsOf(x) = PreSlots(t, a)
    BY <1>3, ActorWithParts DEF PreActor
<1>5. PostActor(t, a)
        = ActorWith(ApplySlots(SlotsOf(ActorOf(mock.actors, a)), Words(account.storage)),
                    account, a)
    BY <1>3, <1>4 DEF PostActor, PostSlots
<1>6. /\ IsMock(m) /\ mock.traced \subseteq m.traced
      /\ Changes(mock.actors, m.actors, a, PostActor(t, a))
    BY SMTT(30), <1>1, <1>2, <1>4, <1>5, SettleChanges
<1> HIDE DEF m, t
<1>7. Holds(t, m.actors, Mocked(t), (Changed(t) \ todo) \cup {a})
    BY <1>1, <1>6, HoldsChanged DEF t
<1> QED BY <1>6, <1>7 DEF m, t

LEMMA SettleCreated ==
    ASSUME IndInv, pc = "post", NEW a \in todo, IsCreated(a),
           Unmapped(mock, {Robust(a), Delegated(a)})
    PROVE  LET t == input
               account == t.poststate[a]
               m == Settle(MockEvmActor(mock, a, GetBalance(account.balance),
                                        account.nonce), a, account)
           IN  /\ IsMock(m) /\ mock.traced \subseteq m.traced
               /\ Holds(t, m.actors, Mocked(t), (Changed(t) \ todo) \cup {a})
<1> DEFINE t == input
           account == t.poststate[a]
           balance == GetBalance(account.balance)
           mid == MockEvmActor(mock, a, balance, account.nonce)
           x == Actor("evm", EmptyArr, account.nonce, balance, a)
           m == Settle(mid, a, account)
<1>1. /\ t \in Inputs /\ IsMock(mock) /\ a \in DOMAIN t.poststate
      /\ Holds(t, mock.actors, Mocked(t), Changed(t) \ todo)
    BY DEF IndInv, Building
<1>2. /\ account.nonce \in Nat /\ account.balance \in Nat /\ a \in Address
      /\ balance \in Nat
    BY <1>1, InputType, AccountType, GetBalanceType
<1>3. /\ IsMock(mid) /\ mock.traced \subseteq mid.traced
      /\ Includes(mock.actors, mid.actors, a, x)
    BY <1>1, <1>2, EvmActorIncludes
<1>4. Known(mid.actors, a) /\ ActorOf(mid.actors, a) = x
    BY <1>3 DEF Includes
<1>5. x.code = "evm" /\ StateNonce(x) = 1 /\ SlotsOf(x) = <<>>
  <2>1. x.code = "evm" /\ x.head = EmptyArr
      BY ActorFields
  <2>2. x.head[1] # "evm"
      BY <2>1 DEF EmptyArr
  <2> QED BY <2>1, <2>2 DEF SlotsOf, StateNonce
<1>6. a \notin Mocked(t)
    BY DEF IsCreated, CreateContract, Mocked, CreatedBy
<1>7. PostActor(t, a) = ActorWith(ApplySlots(<<>>, Words(account.storage)), account, a)
    BY <1>6 DEF PostActor, PostSlots
<1> HIDE DEF x, mid
<1>8. /\ IsMock(m) /\ mid.traced \subseteq m.traced
      /\ Changes(mid.actors, m.actors, a, PostActor(t, a))
    BY <1>2, <1>3, <1>4, <1>5, <1>7, SettleChanges
<1> HIDE DEF m, t
<1>9. Includes(mock.actors, m.actors, a, PostActor(t, a))
    BY <1>3, <1>8, IncludesChanges
<1>10. Holds(t, m.actors, Mocked(t), (Changed(t) \ todo) \cup {a})
    BY <1>1, <1>9, HoldsCreated
<1> QED BY <1>3, <1>8, <1>10 DEF m, mid, t

LEMMA PostStep ==
    ASSUME IndInv, NEW a \in Address, PostAccount(a)
    PROVE  IndInv'
<1> DEFINE t == input
<1>1. /\ t \in Inputs /\ IsMock(mock) /\ pc = "post" /\ a \in todo
      /\ todo \subseteq DOMAIN t.poststate
      /\ Holds(t, mock.actors, Mocked(t), Changed(t) \ todo)
    BY DEF IndInv, Building, PostAccount
<1>2. todo' = todo \ {a}
    BY DEF PostAccount
<1>3. /\ IsMock(mock') /\ mock.traced \subseteq mock'.traced
      /\ Holds(t, mock'.actors, Mocked(t), Changed(t) \ todo')
  <2>1. CASE a = t.from
    <3>1. mock' = mock
        BY <2>1 DEF PostAccount
    <3>2. Changed(t) \ todo' = Changed(t) \ todo
        BY <1>2, <2>1 DEF Changed
    <3> QED BY <1>1, <3>1, <3>2
  <2>2. CASE a # t.from
    <3>1. Changed(t) \ todo' = (Changed(t) \ todo) \cup {a}
        BY <1>1, <1>2, <2>2 DEF Changed
    <3>2. CASE IsCreated(a)
      <4>1. /\ Unmapped(mock, {Robust(a), Delegated(a)})
            /\ mock' = LET account == t.poststate[a]
                       IN  Settle(MockEvmActor(mock, a, GetBalance(account.balance),
                                               account.nonce), a, account)
          BY <2>2, <3>2 DEF PostAccount, Expected, Settle
      <4> QED BY <1>1, <3>1, <3>2, <4>1, SettleCreated
    <3>3. CASE ~IsCreated(a)
      <4>1. /\ Known(mock.actors, a)
            /\ mock' = Settle(mock, a, t.poststate[a])
          BY <2>2, <3>3 DEF PostAccount, Expected, Settle
      <4> QED BY <1>1, <2>2, <3>1, <4>1, SettleKnown
    <3> QED BY <3>2, <3>3
  <2> QED BY <2>1, <2>2
<1>4. UNCHANGED <<input, pc, contract_addrs, pre_actors, post_actors, state_roots>>
    BY DEF PostAccount
<1>5. Building'
    BY <1>1, <1>2, <1>3, <1>4 DEF Building
<1>6. Finished'
    BY <1>3, <1>4, FinishedStays
<1>7. Compared'
    BY <1>1, <1>4 DEF IndInv, Compared
<1> QED BY <1>1, <1>2, <1>4, <1>5, <1>6, <1>7 DEF IndInv, NeverPanics

LEMMA EndPostStep ==
    ASSUME IndInv, EndPost
    PROVE  IndInv'
<1> DEFINE t == input
<1>1. /\ t \in Inputs /\ IsMock(mock) /\ pc = "post" /\ todo = {}
      /\ Holds(t, mock.actors, Mocked(t), Changed(t))
    BY DEF IndInv, Building, EndPost
<1>2. mock' = mock /\ post_actors' = mock.actors /\ input' = t /\ pc' = "roots"
      /\ todo' = todo
    BY <1>1, PrintReads DEF EndPost
<1>3. /\ pre_actors' = pre_actors /\ state_roots' = state_roots
      /\ contract_addrs' = contract_addrs
    BY DEF EndPost
<1>4. Building'
    BY <1>1, <1>2 DEF Building
<1>5. PostDone'
    BY <1>1, <1>2 DEF PostDone, IsMock
<1>6. mock.actors \in mock.traced
    BY <1>1 DEF IsMock, Closed
<1>7. Finished'
  <2>1. PreDone' <=> PreDone
      BY <1>2, <1>3 DEF PreDone
  <2> QED BY <1>1, <1>2, <1>3, <1>5, <1>6, <2>1 DEF IndInv, Finished
<1>8. Compared'
    BY <1>1, <1>2, <1>3 DEF IndInv, Compared
<1> QED BY <1>2, <1>3, <1>4, <1>7, <1>8 DEF IndInv, NeverPanics

(* the root blocks refer to the two maps of actors and to the empty array *)
LEMMA RootsStep ==
    ASSUME IndInv, StateRoots
    PROVE  IndInv'
<1> DEFINE r1 == <<"root", pre_actors>>
           r2 == <<"root", post_actors>>
           m  == Put(mock, {r1, r2})
<1>1. /\ input \in Inputs /\ IsMock(mock) /\ pc = "roots"
      /\ pre_actors \in mock.traced /\ post_actors \in mock.traced
      /\ PreDone /\ PostDone
    BY DEF IndInv, Building, Finished, StateRoots
<1>2. /\ state_roots' = <<r1, r2>> /\ pc' = "done"
      /\ UNCHANGED <<input, todo, contract_addrs, pre_actors, post_actors>>
    BY DEF StateRoots
<1>3. Range(state_roots') = {r1, r2}
  <2>1. DOMAIN <<r1, r2>> = {1, 2}
      OBVIOUS
  <2> HIDE DEF r1, r2
  <2> QED BY <1>2, <2>1 DEF Range
<1>4. mock' = m
    BY <1>3 DEF StateRoots
<1>5. IsMock(m)
  <2>1. IsStore(m) /\ m.actors = mock.actors
      BY <1>1, PutFields DEF IsMock
  <2>2. \A b \in {r1, r2} : Links(b) \subseteq mock.traced
      BY <1>1, LinksOf DEF IsMock, Closed
  <2>3. Closed(m)
    <3> HIDE DEF r1, r2
    <3> QED BY <1>1, <2>2, PutCloses DEF IsMock
  <2> HIDE DEF m
  <2> QED BY <1>1, <2>1, <2>3 DEF IsMock
<1>6. m.traced = mock.traced \cup {r1, r2}
    BY <1>1, PutFields DEF IsMock
<1> HIDE DEF m
<1>7. Building'
    BY <1>1, <1>2, <1>4, <1>5 DEF Building
<1>8. PreDone' /\ PostDone'
    BY <1>1, <1>2 DEF PreDone, PostDone
<1>9. Finished'
    BY <1>2, <1>3, <1>4, <1>6, <1>8 DEF Finished
<1>10. Compared'
    BY <1>1, <1>2 DEF IndInv, Compared, StateRoots
<1> QED BY <1>2, <1>7, <1>9, <1>10 DEF IndInv, NeverPanics

(***************************************************************************)
(* A panic: the first loop meets no account twice, so only the second one  *)
(* panics, on an account that the first tree lacks.                        *)
(***************************************************************************)
LEMMA PanicStep ==
    ASSUME IndInv, NEW a \in Address, Panic(a)
    PROVE  IndInv'
<1> DEFINE t == input
<1>1. /\ t \in Inputs /\ IsMock(mock) /\ a \in todo /\ a # t.from
      /\ pc \in {"pre", "post"}
    BY DEF IndInv, Building, Panic
<1>2. UNCHANGED <<input, todo, mock, contract_addrs, pre_actors, post_actors,
                  state_roots>> /\ pc' = "panic"
    BY DEF Panic
<1>3. pc # "pre"
  <2> SUFFICES ASSUME pc = "pre" PROVE FALSE
      OBVIOUS
  <2>1. Holds(t, mock.actors, Mocked(t) \ todo, {})
      BY DEF IndInv, Building
  <2>2. ~Known(mock.actors, a)
      BY <1>1, <2>1 DEF Holds
  <2> QED BY <1>1, <2>2, UnmappedWhenUnknown DEF Panic
<1>4. /\ pc = "post" /\ ~Expected(a) /\ a \in DOMAIN t.poststate
      /\ Holds(t, mock.actors, Mocked(t), Changed(t) \ todo)
    BY <1>1, <1>3 DEF IndInv, Building, Panic
<1>5. a \notin DOMAIN t.prestate \cup CreatedBy(t)
  <2>1. ~IsCreated(a)
    <3> SUFFICES ASSUME IsCreated(a) PROVE FALSE
        OBVIOUS
    <3>1. a \notin Mocked(t)
        BY DEF IsCreated, CreateContract, Mocked, CreatedBy
    <3>2. ~Known(mock.actors, a)
        BY <1>1, <1>4, <3>1 DEF Holds
    <3> QED BY <1>1, <1>4, <3>2, UnmappedWhenUnknown DEF Expected
  <2>2. ~Known(mock.actors, a)
      BY <1>4, <2>1 DEF Expected
  <2>3. a \notin Mocked(t)
      BY <1>4, <2>2 DEF Holds
  <2> QED BY <1>1, <2>1, <2>3 DEF Mocked, IsCreated, CreateContract, CreatedBy
<1>6. NeverPanics'
    BY <1>2, <1>4, <1>5 DEF NeverPanics, CreatedBy
<1>7. Building'
    BY <1>1, <1>2 DEF IndInv, Building
<1>8. Finished'
  <2>1. PreDone' <=> PreDone
      BY <1>2 DEF PreDone
  <2>2. PostDone' <=> PostDone
      BY <1>2 DEF PostDone
  <2> QED BY <1>1, <1>2, <2>1, <2>2 DEF IndInv, Finished
<1> QED BY <1>2, <1>6, <1>7, <1>8 DEF IndInv, Compared

LEMMA StutterStep ==
    ASSUME IndInv, UNCHANGED vars
    PROVE  IndInv'
<1>1. UNCHANGED <<input, pc, todo, mock, contract_addrs, pre_actors, post_actors,
                  state_roots>>
    BY DEF vars
<1>2. Building' /\ NeverPanics'
    BY <1>1 DEF IndInv, Building, NeverPanics
<1>3. Finished'
    BY <1>1, FinishedStays
<1> QED BY <1>1, <1>2, <1>3 DEF IndInv, Compared

LEMMA NextStep ==
    ASSUME IndInv, [Next]_vars
    PROVE  IndInv'
<1>1. CASE Setup
    BY <1>1, SetupStep
<1>2. ASSUME NEW a \in Address, PreAccount(a) \/ PostAccount(a) \/ Panic(a)
      PROVE  IndInv'
    BY <1>2, PreStep, PostStep, PanicStep
<1>3. CASE EndPre
    BY <1>3, EndPreStep
<1>4. CASE EndPost
    BY <1>4, EndPostStep
<1>5. CASE StateRoots
    BY <1>5, RootsStep
<1>6. CASE UNCHANGED vars
    BY <1>6, StutterStep
<1> QED BY <1>1, <1>2, <1>3, <1>4, <1>5, <1>6 DEF Next

(* The invariant holds for every transaction that has the right types. *)
THEOREM Invariance == Spec => []IndInv
<1>1. IndInv /\ [Next]_vars => IndInv'
    BY NextStep
<1> QED BY InitEstablishes, <1>1, PTL DEF Spec

-----------------------------------------------------------------------------
(* The slots *)

(* Keys and values of a storage are words. *)
LEMMA StorageWords ==
    ASSUME NEW s \in Storage
    PROVE  \A k \in DOMAIN s : k \in Word /\ s[k] \in Word
BY TreeAssumption DEF Storage, Word, Byte

(* No two keys are the same number: the words read back. *)
LEMMA WordsRead ==
    ASSUME NEW s \in Storage
    PROVE  Words(s) = [n \in {FromBigEndian(k) : k \in DOMAIN s} |->
                          FromBigEndian(s[ToBigEndian(n)])]
<1> DEFINE word(w) == HexToU256(HexDigits(w))
           numbers == {FromBigEndian(k) : k \in DOMAIN s}
<1>1. \A k \in DOMAIN s : /\ word(k) = FromBigEndian(k)
                         /\ word(s[k]) = FromBigEndian(s[k])
                         /\ ToBigEndian(FromBigEndian(k)) = k
    BY StorageWords, HexReadsBack, WordsReadBack
<1> HIDE DEF word
<1>2. {word(k) : k \in DOMAIN s} = numbers
    BY <1>1
<1>3. ASSUME NEW n \in numbers
      PROVE  word(s[CHOOSE k \in DOMAIN s : word(k) = n])
                = FromBigEndian(s[ToBigEndian(n)])
  <2>1. PICK k \in DOMAIN s : n = FromBigEndian(k)
      OBVIOUS
  <2>2. ToBigEndian(n) = k
      BY <1>1, <2>1
  <2>3. \A j \in DOMAIN s : word(j) = n => j = k
      BY <1>1, <2>1, <2>2
  <2>4. (CHOOSE j \in DOMAIN s : word(j) = n) = k
      BY <1>1, <2>1, <2>3
  <2> QED BY <1>1, <2>2, <2>4
<1>4. Words(s) = [n \in {word(k) : k \in DOMAIN s} |->
                    word(s[CHOOSE k \in DOMAIN s : word(k) = n])]
    BY DEF Words, word
<1>5. Words(s) = [n \in numbers |-> FromBigEndian(s[ToBigEndian(n)])]
  <2> HIDE DEF numbers
  <2> QED BY <1>2, <1>3, <1>4
<1> QED BY <1>5

(* the number of a key, and what the slot of that number holds *)
LEMMA WordsAt ==
    ASSUME NEW s \in Storage
    PROVE  /\ DOMAIN Words(s) = {FromBigEndian(k) : k \in DOMAIN s}
           /\ \A k \in DOMAIN s : Words(s)[FromBigEndian(k)] = FromBigEndian(s[k])
<1>1. \A k \in DOMAIN s : ToBigEndian(FromBigEndian(k)) = k
    BY StorageWords, WordsReadBack
<1> QED BY ZenonT(30), <1>1, WordsRead

(* the slots of a storage are those of a map of numbers without its zeros *)
LEMMA NonzeroIs ==
    ASSUME NEW s \in Storage
    PROVE  Nonzero(s) = [n \in {n \in DOMAIN Words(s) : Words(s)[n] # 0} |-> Words(s)[n]]
<1> DEFINE kept == {k \in DOMAIN s : FromBigEndian(s[k]) # 0}
           w    == Words(s)
<1>1. /\ DOMAIN w = {FromBigEndian(k) : k \in DOMAIN s}
      /\ \A k \in DOMAIN s : w[FromBigEndian(k)] = FromBigEndian(s[k])
    BY WordsAt
<1>2. \A k \in DOMAIN s : ToBigEndian(FromBigEndian(k)) = k
    BY StorageWords, WordsReadBack
<1> HIDE DEF w
<1>3. {FromBigEndian(k) : k \in kept} = {n \in DOMAIN w : w[n] # 0}
    BY <1>1
<1>4. \A n \in {FromBigEndian(k) : k \in kept} :
          FromBigEndian(s[ToBigEndian(n)]) = w[n]
    BY <1>1, <1>2
<1>5. Nonzero(s) = [n \in {FromBigEndian(k) : k \in kept} |->
                      FromBigEndian(s[ToBigEndian(n)])]
    BY DEF Nonzero
<1> HIDE DEF kept
<1> QED BY <1>3, <1>4, <1>5 DEF w

(* Slots of an actor that had none *)
LEMMA FreshSlots ==
    ASSUME NEW s \in Storage
    PROVE  ApplySlots(<<>>, Words(s)) = Nonzero(s)
<1> DEFINE w == Words(s)
<1> HIDE DEF w
<1>1. ApplySlots(<<>>, w) = [n \in {n \in DOMAIN w : w[n] # 0} |-> w[n]]
    BY DEF ApplySlots
<1> QED BY <1>1, NonzeroIs DEF w

(* Every slot that was there is written again or deleted. *)
LEMMA CoveredSlots ==
    ASSUME NEW s \in Storage, NEW r \in Storage, DOMAIN s \subseteq DOMAIN r
    PROVE  ApplySlots(Nonzero(s), Words(r)) = Nonzero(r)
<1> DEFINE w == Words(r)
           old == Nonzero(s)
<1>1. DOMAIN old \subseteq DOMAIN Words(s)
    BY NonzeroIs
<1>2. DOMAIN Words(s) \subseteq DOMAIN w
  <2>1. DOMAIN Words(s) = {FromBigEndian(k) : k \in DOMAIN s}
      BY WordsAt
  <2>2. DOMAIN w = {FromBigEndian(k) : k \in DOMAIN r}
      BY WordsAt
  <2> HIDE DEF w
  <2> QED BY <2>1, <2>2
<1> HIDE DEF w, old
<1>3. ApplySlots(old, w) = [n \in {n \in DOMAIN w : w[n] # 0} |-> w[n]]
  <2> DEFINE deleted == {k \in DOMAIN w : w[k] = 0}
  <2>1. (DOMAIN old \cup DOMAIN w) \ deleted = {n \in DOMAIN w : w[n] # 0}
      BY <1>1, <1>2
  <2>2. \A n \in {n \in DOMAIN w : w[n] # 0} : (IF n \in DOMAIN w THEN w[n] ELSE old[n]) = w[n]
      OBVIOUS
  <2>3. ApplySlots(old, w) = [k \in (DOMAIN old \cup DOMAIN w) \ deleted |->
                                IF k \in DOMAIN w THEN w[k] ELSE old[k]]
      BY DEF ApplySlots
  <2> HIDE DEF deleted
  <2> QED BY <2>1, <2>2, <2>3
<1> QED BY <1>3, NonzeroIs DEF w, old

-----------------------------------------------------------------------------
(* What the invariant says of the trees *)

(* Roots and stores, and then the properties, from the invariant *)
LEMMA RootType ==
    ASSUME NEW root, Indexed(root)
    PROVE  IsActors(root)
<1>1. root[1] = "actors"
    BY DEF Indexed
<1>2. ASSUME NEW id \in DOMAIN Actors(root)
      PROVE  LET x == Actors(root)[id]
             IN  /\ x.nonce \in Nat /\ x.balance \in Nat
                 /\ x.predictable_address \in Address \cup {None}
    BY DEF Indexed, IsActor
<1> QED BY <1>1, <1>2 DEF IsActors, Range

LEMMA TreesTyped == IndInv => TypeOK
<1> SUFFICES ASSUME IndInv PROVE TypeOK
    OBVIOUS
<1>1. IsInput(input)
    BY TreeAssumption DEF IndInv, Building
<1>2. pc # "setup" => IsActors(mock.actors)
    BY RootType DEF IndInv, Building, IsMock
<1>3. /\ pre_actors # None => IsActors(pre_actors)
      /\ post_actors # None => IsActors(post_actors)
    BY RootType DEF IndInv, Finished, PreDone, PostDone
<1>4. Len(state_roots) \in {0, 2}
    BY DEF IndInv, Finished
<1> QED BY <1>1, <1>2, <1>3, <1>4 DEF IndInv, Building, TypeOK

LEMMA AddressesAgree == IndInv => OneActorPerAddress
<1> SUFFICES ASSUME IndInv, pc # "setup" PROVE OneActorPerAddress
    BY DEF OneActorPerAddress
<1> DEFINE root == mock.actors
<1>1. Indexed(root)
    BY DEF IndInv, Building, IsMock
<1> HIDE DEF root
<1>2. ASSUME NEW id \in DOMAIN Actors(root)
      PROVE  /\ id < NextId(root)
             /\ LET a == Actors(root)[id].predictable_address
                IN  a # None => Known(root, a) /\ IdOf(root, a) = id
    BY <1>1 DEF Indexed
<1>3. ASSUME NEW k \in DOMAIN AddressMap(root)
      PROVE  LET id == AddressMap(root)[k]
             IN  id \in DOMAIN Actors(root) /\ Actors(root)[id].predictable_address = k[2]
  <2> DEFINE id == AddressMap(root)[k]
             x  == Actors(root)[id]
  <2>1. id \in DOMAIN Actors(root) /\ k = <<k[1], x.predictable_address>>
      BY <1>1 DEF Indexed
  <2> HIDE DEF id
  <2> QED BY <2>1 DEF id
<1> QED BY <1>2, <1>3 DEF OneActorPerAddress, NextId, root

LEMMA StoreComplete == IndInv => SelfContained
<1> SUFFICES ASSUME IndInv PROVE SelfContained
    OBVIOUS
<1>1. Range(state_roots) \subseteq mock.traced
    BY DEF IndInv, Finished
<1>2. CASE pc = "setup"
    BY <1>1, <1>2 DEF IndInv, Building, SelfContained
<1>3. CASE pc # "setup"
    BY <1>1, <1>3 DEF IndInv, Building, IsMock, Closed, SelfContained
<1> QED BY <1>2, <1>3

(* The actor that the loops make is one that shows the account. *)
LEMMA MadeShows ==
    ASSUME NEW root, NEW a, NEW account, Known(root, a),
           ActorOf(root, a) = ActorWith(Nonzero(account.storage), account, a)
    PROVE  Shows(root, a, account)
<1> DEFINE actor   == ActorOf(root, a)
           slots   == Nonzero(account.storage)
           balance == GetBalance(account.balance)
           head    == EvmHead(account.code, slots, 1)
<1>1. actor = Actor("evm", head, account.nonce, balance, a)
    BY DEF ActorWith
<1> HIDE DEF actor, balance
<1>2. head[1] = "evm" /\ head[2].bytecode = <<"raw", account.code>>
      /\ head[2].bytecode_hash = account.code
      /\ head[2].contract_state = <<"slots", slots>>
    BY DEF EvmHead
<1> HIDE DEF head, slots
<1>3. actor.head = head
    BY <1>1 DEF Actor
<1> QED BY <1>1, <1>2, <1>3 DEF Shows, actor, balance, slots

LEMMA PreMirrors == IndInv => PreTreeMirrors
<1> SUFFICES ASSUME IndInv, pre_actors # None PROVE PreTreeMirrors
    BY DEF PreTreeMirrors
<1> DEFINE t == input
<1>1. t \in Inputs /\ Holds(t, pre_actors, Mocked(t), {})
    BY DEF IndInv, Building, Finished, PreDone
<1>2. Mocked(t) \subseteq DOMAIN t.prestate /\ Mocked(t) \subseteq Address
      /\ t.from \in Address
    BY <1>1, InputType DEF Mocked
<1>3. AccountsOf(pre_actors) = Mocked(t) \cup {t.from}
    BY <1>1, <1>2 DEF Holds, AccountsOf
<1>4. ASSUME NEW a \in Mocked(t)
      PROVE  Shows(pre_actors, a, t.prestate[a])
  <2>1. t.prestate[a].storage \in Storage
      BY <1>1, <1>2, InputType, AccountType
  <2>2. PreSlots(t, a) = Nonzero(t.prestate[a].storage)
      BY <2>1, FreshSlots DEF PreSlots
  <2>3. Known(pre_actors, a) /\ ActorOf(pre_actors, a) = PreActor(t, a)
      BY <1>1 DEF Holds
  <2> QED BY <2>2, <2>3, MadeShows DEF PreActor
<1> QED BY <1>3, <1>4 DEF PreTreeMirrors, Mocked, CreatedBy

LEMMA PostSlotsAre ==
    ASSUME NEW t \in Inputs, Covers(t.poststate, t.prestate), NEW a \in Changed(t)
    PROVE  PostSlots(t, a) = Nonzero(t.poststate[a].storage)
<1>1. /\ a \in DOMAIN t.prestate /\ a \in DOMAIN t.poststate
      /\ DOMAIN t.prestate[a].storage \subseteq DOMAIN t.poststate[a].storage
    BY DEF Covers, Changed
<1>2. t.prestate[a].storage \in Storage /\ t.poststate[a].storage \in Storage
    BY <1>1, InputType, AccountType
<1>3. PreSlots(t, a) = Nonzero(t.prestate[a].storage)
    BY <1>2, FreshSlots DEF PreSlots
<1> QED BY <1>1, <1>2, <1>3, FreshSlots, CoveredSlots DEF PostSlots

LEMMA PostMirrors == IndInv => PostTreeMirrors
<1> SUFFICES ASSUME IndInv, post_actors # None, Covers(input.poststate, input.prestate)
             PROVE  PostTreeMirrors
    BY DEF PostTreeMirrors
<1> DEFINE t == input
<1>1. t \in Inputs /\ Holds(t, post_actors, Mocked(t), Changed(t))
    BY DEF IndInv, Building, Finished, PostDone
<1>2. /\ DOMAIN t.poststate = DOMAIN t.prestate
      /\ \A a \in DOMAIN t.prestate :
            DOMAIN t.prestate[a].storage \subseteq DOMAIN t.poststate[a].storage
    BY DEF Covers
<1>3. /\ Changed(t) \subseteq DOMAIN t.poststate /\ Changed(t) \subseteq Address
      /\ t.from \in Address /\ Mocked(t) \subseteq Changed(t)
    BY <1>1, <1>2, InputType DEF Mocked, Changed
<1>4. AccountsOf(post_actors) = Changed(t) \cup {t.from}
    BY <1>1, <1>3 DEF Holds, AccountsOf
<1>5. ASSUME NEW a \in Changed(t)
      PROVE  Shows(post_actors, a, t.poststate[a])
  <2>1. PostSlots(t, a) = Nonzero(t.poststate[a].storage)
      BY <1>1, PostSlotsAre
  <2>2. Known(post_actors, a) /\ ActorOf(post_actors, a) = PostActor(t, a)
      BY <1>1 DEF Holds
  <2> QED BY <2>1, <2>2, MadeShows DEF PostActor
<1> QED BY <1>4, <1>5 DEF PostTreeMirrors, Changed

-----------------------------------------------------------------------------
(* The results *)

(* The state has its type, whatever the transaction. *)
THEOREM TypeCorrect == Spec => []TypeOK
BY Invariance, TreesTyped, PTL

(***************************************************************************)
(* set_actor and map_addresses_to_id keep the address map and the actors   *)
(* consistent in both directions, and no id is given out twice.            *)
(***************************************************************************)
THEOREM AddressesConsistent == Spec => []OneActorPerAddress
BY Invariance, AddressesAgree, PTL

(***************************************************************************)
(* At every moment the traced Cids are a complete car: what TracingBlock-  *)
(* Store has been asked for is in the base store, with all it refers to.   *)
(***************************************************************************)
THEOREM TracedIsComplete == Spec => []SelfContained
BY Invariance, StoreComplete, PTL

(***************************************************************************)
(* The assertions and unwraps of load_evm_contract_input fail only when    *)
(* the poststate has an account that the prestate lacks.                   *)
(***************************************************************************)
THEOREM BuildsWithoutPanic == Spec => []NeverPanics
<1>1. IndInv => NeverPanics
    BY DEF IndInv
<1> QED BY Invariance, <1>1, PTL

(* The first tree holds the accounts of the prestate and what they hold. *)
THEOREM PreTreeRight == Spec => []PreTreeMirrors
BY Invariance, PreMirrors, PTL

(***************************************************************************)
(* The second tree, changed from the first one account by account, holds   *)
(* the poststate, when that has the accounts and slots of the prestate.    *)
(***************************************************************************)
THEOREM PostTreeRight == Spec => []PostTreeMirrors
BY Invariance, PostMirrors, PTL
================================================================================
