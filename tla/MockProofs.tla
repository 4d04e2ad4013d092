------------------------------ MODULE MockProofs ------------------------------
(***************************************************************************)
(* The operations of Mock (src/src/mock.rs) on the store and the map of    *)
(* actors, whatever the number of actors: each keeps the store closed      *)
(* under links and the address map consistent (IsMock), and changes what   *)
(* its address stands for and nothing else (Includes, Changes).            *)
(***************************************************************************)
EXTENDS StateTree, ConversionsProofs

(* the record Mock, whose blocks may be any *)
IsStore(m) == \E a, b, t : m = [actors |-> a, base |-> b, traced |-> t]

(* an actor, with or without the state of a contract *)
IsActor(x) ==
    /\ \E code, head, nonce, balance, address :
          x = Actor(code, head, nonce, balance, address)
    /\ x.nonce \in Nat /\ x.balance \in Nat
    /\ x.head[1] = "evm" =>
          \E code, slots, nonce : x.head = EvmHead(code, slots, nonce)

(* the ids of the actors of Mock::new *)
Builtin == {0, InitId, 2, 10, 99}

NextId(root) == InitState(root).next_id

(***************************************************************************)
(* The address map of a root and its actors fit: ids above the builtin     *)
(* ones are given once, an actor is found by its own address, and every    *)
(* address of the map leads to an actor that has it.                       *)
(***************************************************************************)
Indexed(root) ==
    /\ root = <<"actors", Actors(root)>>
    /\ Builtin \subseteq DOMAIN Actors(root)
    /\ Actors(root) = [id \in DOMAIN Actors(root) |-> Actors(root)[id]]
    /\ \A id \in DOMAIN Actors(root) : IsActor(Actors(root)[id])
    /\ Actors(root)[InitId].head = InitHead(AddressMap(root), NextId(root))
    /\ Actors(root)[10].code = "eam"
    /\ NextId(root) \in Nat /\ NextId(root) >= FirstId
    /\ \A id \in DOMAIN Actors(root) :
          /\ id \in Nat /\ id < NextId(root)
          /\ IF id < FirstId THEN Actors(root)[id].predictable_address = None
             ELSE LET a == Actors(root)[id].predictable_address
                  IN  a \in Address /\ Known(root, a) /\ IdOf(root, a) = id
    /\ \A address \in DOMAIN AddressMap(root) :
          LET id == AddressMap(root)[address]
          IN  /\ id \in DOMAIN Actors(root) /\ id >= FirstId
              /\ address[1] \in {"f2", "f4"}
              /\ address = <<address[1], Actors(root)[id].predictable_address>>

(* what is traced is stored, and what it refers to is traced *)
Closed(m) ==
    /\ {m.actors, EmptyArr} \subseteq m.traced
    /\ \A block \in m.traced :
          block \in m.base /\ Links(block) \subseteq m.traced

IsMock(m) == IsStore(m) /\ Closed(m) /\ Indexed(m.actors)

(* The operations of the store, field by field *)
LEMMA StoreIs ==
    ASSUME NEW a, NEW b, NEW t, NEW m, m = [actors |-> a, base |-> b, traced |-> t]
    PROVE  IsStore(m) /\ m.actors = a /\ m.base = b /\ m.traced = t
<1>1. m.actors = a /\ m.base = b /\ m.traced = t
    OBVIOUS
<1>2. IsStore(m)
    BY Zenon DEF IsStore
<1> QED BY <1>1, <1>2

(* Reading blocks that were traced before changes nothing. *)
LEMMA ReadTraced ==
    ASSUME NEW m, IsStore(m), NEW cids, cids \subseteq m.traced
    PROVE  Read(m, cids) = m
<1>1. m.traced \cup cids = m.traced
    OBVIOUS
<1>2. PICK a, b, t : m = [actors |-> a, base |-> b, traced |-> t]
    BY DEF IsStore
<1>3. [m EXCEPT !.traced = t] = m
    BY <1>2
<1>4. t = m.traced
    BY <1>2
<1> QED BY <1>1, <1>3, <1>4 DEF Read

LEMMA PutFields ==
    ASSUME NEW m, IsStore(m), NEW blocks
    PROVE  LET r == Put(m, blocks)
           IN  /\ IsStore(r)
               /\ r.actors = m.actors /\ r.base = m.base \cup blocks
               /\ r.traced = m.traced \cup blocks
<1> PICK a, b, t : m = [actors |-> a, base |-> b, traced |-> t]
    BY DEF IsStore
<1> DEFINE p == [m EXCEPT !.base = b \cup blocks]
<1>1. p = [actors |-> a, base |-> b \cup blocks, traced |-> t]
    OBVIOUS
<1>2. Put(m, blocks) = [p EXCEPT !.traced = t \cup blocks]
    BY DEF Put
<1> HIDE DEF p
<1>3. Put(m, blocks) = [actors |-> a, base |-> b \cup blocks, traced |-> t \cup blocks]
    BY <1>1, <1>2
<1> QED BY <1>3, StoreIs

LEMMA SetActorFields ==
    ASSUME NEW m, IsStore(m), m.actors \in m.traced, NEW id, NEW x
    PROVE  LET root == <<"actors", Insert(Actors(m.actors), id, x)>>
               r    == SetActor(m, id, x)
           IN  /\ IsStore(r)
               /\ r.actors = root
               /\ r.base = m.base \cup {root}
               /\ r.traced = m.traced \cup {root}
<1> DEFINE root == <<"actors", Insert(Actors(m.actors), id, x)>>
<1>1. Read(m, {m.actors}) = m
    BY ReadTraced
<1>2. SetActor(m, id, x) = [Put(m, {root}) EXCEPT !.actors = root]
    BY <1>1 DEF SetActor
<1> HIDE DEF root
<1> DEFINE p == Put(m, {root})
<1>3. IsStore(p) /\ p.base = m.base \cup {root} /\ p.traced = m.traced \cup {root}
    BY PutFields
<1> HIDE DEF p
<1>4. PICK a, b, t : p = [actors |-> a, base |-> b, traced |-> t]
    BY <1>3 DEF IsStore
<1>5. [p EXCEPT !.actors = root] = [actors |-> root, base |-> b, traced |-> t]
    BY <1>4
<1>6. b = m.base \cup {root} /\ t = m.traced \cup {root}
    BY <1>3, <1>4
<1>7. SetActor(m, id, x)
         = [actors |-> root, base |-> m.base \cup {root}, traced |-> m.traced \cup {root}]
    BY <1>2, <1>5, <1>6 DEF p
<1>8. LET r == SetActor(m, id, x)
      IN  IsStore(r) /\ r.actors = root /\ r.base = m.base \cup {root}
          /\ r.traced = m.traced \cup {root}
    BY <1>7, StoreIs
<1> QED BY <1>8 DEF root

(* The state of the Init actor: the address map and the next id *)
LEMMA InitHeadParts ==
    ASSUME NEW map, NEW n
    PROVE  /\ InitHead(map, n)[1] = "init"
           /\ InitHead(map, n)[2].next_id = n
           /\ InitHead(map, n)[2].address_map = <<"addresses", map>>
BY DEF InitHead

(* What the blocks of each kind refer to *)
LEMMA LinksOf ==
    /\ \A map : Links(<<"actors", map>>) = {x.head : x \in Range(map)}
    /\ \A map : Links(<<"addresses", map>>) = {}
    /\ \A map, n : Links(InitHead(map, n)) = {<<"addresses", map>>}
    /\ \A code : Links(<<"raw", code>>) = {}
    /\ \A slots : Links(<<"slots", slots>>) = {}
    /\ \A code, slots, n : Links(EvmHead(code, slots, n))
                              = {<<"raw", code>>, <<"slots", slots>>}
    /\ \A root : Links(<<"root", root>>) = {root, EmptyArr}
    /\ Links(EmptyArr) = {}
<1>1. \A map : Links(<<"actors", map>>) = {x.head : x \in Range(map)}
    BY DEF Links, Actors
<1>2. \A map, n : Links(InitHead(map, n)) = {<<"addresses", map>>}
    BY DEF Links, InitHead
<1>3. \A code, slots, n : Links(EvmHead(code, slots, n))
                              = {<<"raw", code>>, <<"slots", slots>>}
    BY DEF Links, EvmHead
<1>4. Links(EmptyArr) = {}
    BY DEF Links, EmptyArr
<1>5. /\ \A map : Links(<<"addresses", map>>) = {}
      /\ \A code : Links(<<"raw", code>>) = {}
      /\ \A slots : Links(<<"slots", slots>>) = {}
    BY DEF Links
<1>6. \A root : Links(<<"root", root>>) = {root, EmptyArr}
    BY DEF Links
<1> QED BY <1>1, <1>2, <1>3, <1>4, <1>5, <1>6

(* Blocks whose links are traced may be put into the store. *)
LEMMA PutCloses ==
    ASSUME NEW m, IsStore(m), Closed(m), NEW blocks,
           \A b \in blocks : Links(b) \subseteq m.traced \cup blocks
    PROVE  Closed(Put(m, blocks))
<1> QED BY PutFields DEF Closed

LEMMA SetActorCloses ==
    ASSUME NEW m, IsStore(m), Closed(m), NEW id, NEW x, x.head \in m.traced,
           m.actors = <<"actors", Actors(m.actors)>>
    PROVE  Closed(SetActor(m, id, x))
<1> DEFINE map  == Insert(Actors(m.actors), id, x)
           root == <<"actors", map>>
<1>1. Links(m.actors) = {y.head : y \in Range(Actors(m.actors))}
    BY LinksOf
<1>2. Links(root) = {y.head : y \in Range(map)}
    BY LinksOf
<1>3. Range(map) \subseteq Range(Actors(m.actors)) \cup {x}
    BY DEF Range, Insert
<1>4. Links(root) \subseteq m.traced
  <2>1. Links(m.actors) \subseteq m.traced
      BY DEF Closed
  <2> HIDE DEF map
  <2> QED BY <1>1, <1>2, <1>3, <2>1
<1> HIDE DEF root, map
<1>5. LET r == SetActor(m, id, x)
      IN  r.actors = root /\ r.base = m.base \cup {root}
          /\ r.traced = m.traced \cup {root}
    BY SetActorFields DEF Closed, root, map
<1> QED BY <1>4, <1>5 DEF Closed

(* An actor is found without a new block: the map of actors is traced. *)
LEMMA ReadActorTraced ==
    ASSUME NEW m, IsMock(m)
    PROVE  ReadActor(m) = m
<1> DEFINE head == Actors(m.actors)[InitId].head
<1>1. m.actors \in m.traced /\ m.actors = <<"actors", Actors(m.actors)>>
      /\ InitId \in DOMAIN Actors(m.actors)
      /\ head = InitHead(AddressMap(m.actors), NextId(m.actors))
    BY DEF IsMock, Closed, Indexed, Builtin
<1>2. head \in Links(m.actors)
    BY <1>1, LinksOf DEF Range
<1>3. head \in m.traced
    BY <1>1, <1>2 DEF IsMock, Closed
<1>4. Links(head) = {<<"addresses", AddressMap(m.actors)>>}
      /\ InitState(m.actors).address_map = <<"addresses", AddressMap(m.actors)>>
    BY <1>1, LinksOf, InitHeadParts DEF InitState
<1>5. InitState(m.actors).address_map \in m.traced
    BY <1>3, <1>4 DEF IsMock, Closed
<1>6. {m.actors, head, InitState(m.actors).address_map} \subseteq m.traced
    BY <1>1, <1>3, <1>5
<1> QED BY <1>6, ReadTraced DEF ReadActor, IsMock

-----------------------------------------------------------------------------
(* Actors *)

(* Actors, field by field *)
LEMMA ActorFields ==
    ASSUME NEW code, NEW head, NEW nonce, NEW balance, NEW address
    PROVE  LET x == Actor(code, head, nonce, balance, address)
           IN  /\ x.code = code /\ x.head = head /\ x.nonce = nonce
               /\ x.balance = balance /\ x.predictable_address = address
BY DEF Actor

LEMMA ActorForm ==
    ASSUME NEW x, IsActor(x)
    PROVE  x = Actor(x.code, x.head, x.nonce, x.balance, x.predictable_address)
<1> PICK code, head, nonce, balance, address :
        x = Actor(code, head, nonce, balance, address)
    BY DEF IsActor
<1> QED BY ActorFields

LEMMA HeadChanged ==
    ASSUME NEW x, IsActor(x), NEW head
    PROVE  [x EXCEPT !.head = head]
              = Actor(x.code, head, x.nonce, x.balance, x.predictable_address)
<1> PICK code, old, nonce, balance, address :
        x = Actor(code, old, nonce, balance, address)
    BY DEF IsActor
<1>1. /\ x.code = code /\ x.nonce = nonce
      /\ x.balance = balance /\ x.predictable_address = address
    BY ActorFields
<1>2. [x EXCEPT !.head = head] = Actor(code, head, nonce, balance, address)
    BY DEF Actor
<1> QED BY <1>1, <1>2

LEMMA BalanceChanged ==
    ASSUME NEW x, IsActor(x), NEW balance, NEW nonce
    PROVE  [x EXCEPT !.balance = balance, !.nonce = nonce]
              = Actor(x.code, x.head, nonce, balance, x.predictable_address)
<1> PICK code, head, nonce1, balance1, address :
        x = Actor(code, head, nonce1, balance1, address)
    BY DEF IsActor
<1>1. x.code = code /\ x.head = head /\ x.predictable_address = address
    BY ActorFields
<1> DEFINE y == [x EXCEPT !.balance = balance]
<1>2. y = [code |-> code, head |-> head, nonce |-> nonce1, balance |-> balance,
           predictable_address |-> address]
    BY DEF Actor
<1>3. [x EXCEPT !.balance = balance, !.nonce = nonce] = [y EXCEPT !.nonce = nonce]
    OBVIOUS
<1> HIDE DEF y
<1>4. [y EXCEPT !.nonce = nonce] = Actor(code, head, nonce, balance, address)
    BY <1>2 DEF Actor
<1> QED BY <1>1, <1>3, <1>4

-----------------------------------------------------------------------------
(* A new actor *)

NewMap(root, addrs) ==
    [x \in DOMAIN AddressMap(root) \cup addrs |->
        IF x \in addrs THEN NextId(root) ELSE AddressMap(root)[x]]

NewInit(root, addrs) ==
    [Actors(root)[InitId] EXCEPT
        !.head = InitHead(NewMap(root, addrs), NextId(root) + 1)]

(* Assigning an id: the Init actor of the new root has one more address. *)
LEMMA MapAddressesFields ==
    ASSUME NEW m, IsMock(m), NEW addrs
    PROVE  LET r == MapAddresses(m, addrs)
           IN  /\ IsStore(r) /\ Closed(r) /\ m.traced \subseteq r.traced
               /\ r.actors = <<"actors", Insert(Actors(m.actors), InitId,
                                                NewInit(m.actors, addrs))>>
<1> DEFINE map  == NewMap(m.actors, addrs)
           head == InitHead(map, NextId(m.actors) + 1)
           new  == {<<"addresses", map>>, head}
           p    == Put(m, new)
           x    == NewInit(m.actors, addrs)
<1>1. MapAddresses(m, addrs) = SetActor(p, InitId, x)
  <2>1. ReadActor(m) = m
      BY ReadActorTraced
  <2> QED BY <2>1 DEF MapAddresses, NewMap, NewInit, NextId
<1>2. IsStore(m) /\ Closed(m) /\ m.actors = <<"actors", Actors(m.actors)>>
      /\ IsActor(Actors(m.actors)[InitId])
    BY DEF IsMock, Indexed, Builtin
<1>3. x.head = head
    BY <1>2, HeadChanged, ActorFields DEF NewInit
<1>4. Links(head) = {<<"addresses", map>>} /\ Links(<<"addresses", map>>) = {}
    BY LinksOf
<1> HIDE DEF map, head, x
<1>5. IsStore(p) /\ p.actors = m.actors /\ head \in p.traced
      /\ p.traced = m.traced \cup new
    BY <1>2, PutFields
<1>6. Closed(p)
    BY <1>2, <1>4, PutCloses
<1> HIDE DEF p, new
<1>7. Closed(SetActor(p, InitId, x))
    BY <1>2, <1>3, <1>5, <1>6, SetActorCloses
<1>8. p.actors \in p.traced
    BY <1>6 DEF Closed
<1>9. /\ IsStore(SetActor(p, InitId, x))
      /\ p.traced \subseteq SetActor(p, InitId, x).traced
      /\ SetActor(p, InitId, x).actors
            = <<"actors", Insert(Actors(p.actors), InitId, x)>>
    BY <1>5, <1>8, SetActorFields
<1> QED BY <1>1, <1>5, <1>7, <1>9 DEF x

(* the root after an actor was added under some addresses *)
Adds(old, new, addrs, x) ==
    LET id == NextId(old) IN
    /\ new = <<"actors", Actors(new)>>
    /\ Actors(new) = [i \in DOMAIN Actors(old) \cup {id} |-> Actors(new)[i]]
    /\ Actors(new)[id] = x
    /\ \A i \in DOMAIN Actors(old) \ {InitId} : Actors(new)[i] = Actors(old)[i]
    /\ Actors(new)[InitId] = NewInit(old, addrs)
    /\ AddressMap(new) = NewMap(old, addrs)
    /\ NextId(new) = id + 1

(* An actor with a new id, as mock_builtin_actor and its callers add it *)
LEMMA AddActor ==
    ASSUME NEW m, IsMock(m), NEW addrs, NEW x, x.head = EmptyArr
    PROVE  LET r == SetActor(MapAddresses(m, addrs), NextId(m.actors), x)
           IN  /\ IsStore(r) /\ Closed(r) /\ m.traced \subseteq r.traced
               /\ Adds(m.actors, r.actors, addrs, x)
<1> DEFINE id  == NextId(m.actors)
           i   == NewInit(m.actors, addrs)
           p   == MapAddresses(m, addrs)
           r   == SetActor(p, id, x)
           old == Actors(m.actors)
           map == Insert(Insert(old, InitId, i), id, x)
<1>1. /\ IsStore(p) /\ Closed(p) /\ m.traced \subseteq p.traced
      /\ p.actors = <<"actors", Insert(old, InitId, i)>>
    BY MapAddressesFields
<1>2. InitId \in DOMAIN old /\ id \in Nat /\ id >= FirstId /\ id \notin DOMAIN old
      /\ IsActor(old[InitId])
    BY DEF IsMock, Indexed, Builtin
<1>3. i.head = InitHead(NewMap(m.actors, addrs), id + 1)
    BY <1>2, HeadChanged, ActorFields DEF NewInit
<1>4. /\ DOMAIN map = DOMAIN old \cup {id}
      /\ map = [k \in DOMAIN old \cup {id} |-> map[k]]
      /\ map[id] = x /\ map[InitId] = i
      /\ \A k \in DOMAIN old \ {InitId} : map[k] = old[k]
  <2> HIDE DEF i, id, old
  <2>1. InitId # id
      BY <1>2 DEF InitId, FirstId
  <2> QED BY <1>2, <2>1 DEF Insert
<1> HIDE DEF i, p, old
<1>5. Actors(p.actors) = Insert(old, InitId, i)
      /\ p.actors = <<"actors", Actors(p.actors)>>
    BY <1>1 DEF Actors
<1>6. IsStore(r) /\ r.actors = <<"actors", map>> /\ p.traced \subseteq r.traced
    BY <1>1, <1>5, SetActorFields DEF Closed
<1>7. Closed(r)
  <2>1. EmptyArr \in p.traced
      BY <1>1 DEF Closed
  <2> QED BY <1>1, <1>5, <2>1, SetActorCloses
<1> HIDE DEF r, map
<1>8. Actors(r.actors) = map
    BY <1>6 DEF Actors
<1>9. AddressMap(r.actors) = NewMap(m.actors, addrs) /\ NextId(r.actors) = id + 1
  <2> HIDE DEF id
  <2> DEFINE new == NewMap(m.actors, addrs)
  <2>1. Actors(r.actors)[InitId].head = InitHead(new, id + 1)
      BY <1>3, <1>4, <1>8
  <2> HIDE DEF new
  <2>2. /\ InitState(r.actors).next_id = id + 1
        /\ InitState(r.actors).address_map = <<"addresses", new>>
      BY <2>1, InitHeadParts DEF InitState
  <2> QED BY <2>2 DEF AddressMap, NextId, new
<1>10. Adds(m.actors, r.actors, addrs, x)
    BY <1>4, <1>6, <1>8, <1>9 DEF Adds, i, old
<1> QED BY <1>1, <1>6, <1>7, <1>10 DEF r, p

(* an actor that fits the address under which it is found *)
LEMMA AddsIndexed ==
    ASSUME NEW old, NEW new, NEW x, NEW a \in Address, Indexed(old),
           NEW addrs, Delegated(a) \in addrs, addrs \subseteq {Robust(a), Delegated(a)},
           addrs \cap DOMAIN AddressMap(old) = {},
           IsActor(x), x.predictable_address = a, Adds(old, new, addrs, x)
    PROVE  Indexed(new)
<1> DEFINE id == NextId(old)
<1>1. /\ id \in Nat /\ id >= FirstId /\ id \notin DOMAIN Actors(old)
      /\ InitId \in DOMAIN Actors(old) /\ InitId # id /\ InitId < FirstId
      /\ IsActor(Actors(old)[InitId])
    BY DEF Indexed, Builtin, InitId, FirstId
<1>2. /\ DOMAIN AddressMap(new) = DOMAIN AddressMap(old) \cup addrs
      /\ \A b \in addrs : AddressMap(new)[b] = id
      /\ \A b \in DOMAIN AddressMap(old) : AddressMap(new)[b] = AddressMap(old)[b]
      /\ NextId(new) = id + 1
    BY DEF Adds, NewMap
<1>3. /\ new = <<"actors", Actors(new)>>
      /\ DOMAIN Actors(new) = DOMAIN Actors(old) \cup {id}
      /\ Actors(new) = [i \in DOMAIN Actors(new) |-> Actors(new)[i]]
      /\ Actors(new)[id] = x
      /\ \A i \in DOMAIN Actors(old) \ {InitId} : Actors(new)[i] = Actors(old)[i]
    BY DEF Adds
<1> DEFINE i  == Actors(new)[InitId]
           i0 == Actors(old)[InitId]
           head == InitHead(NewMap(old, addrs), id + 1)
<1>4. i = Actor(i0.code, head, i0.nonce, i0.balance, i0.predictable_address)
    BY <1>1, HeadChanged DEF Adds, NewInit
<1>5. i.head = InitHead(AddressMap(new), NextId(new))
      /\ i.predictable_address = i0.predictable_address
  <2>1. i.head = head /\ i.predictable_address = i0.predictable_address
      BY <1>4, ActorFields
  <2>2. NewMap(old, addrs) = AddressMap(new)
      BY DEF Adds
  <2> QED BY <1>2, <2>1, <2>2
<1>6. IsActor(i)
  <2>1. i.head[1] = "init" /\ i.nonce = i0.nonce /\ i.balance = i0.balance
      BY <1>4, ActorFields, InitHeadParts
  <2>2. i0.nonce \in Nat /\ i0.balance \in Nat
      BY <1>1 DEF IsActor
  <2> HIDE DEF i, i0, head
  <2>3. i.head[1] # "evm"
      BY <2>1
  <2>4. \E code, h, nonce, balance, address : i = Actor(code, h, nonce, balance, address)
      BY <1>4
  <2> QED BY <2>1, <2>2, <2>3, <2>4 DEF IsActor
<1> HIDE DEF i, i0, head
<1>7. \A k \in DOMAIN Actors(new) : IsActor(Actors(new)[k])
  <2>1. \A k \in DOMAIN Actors(old) : IsActor(Actors(old)[k])
      BY DEF Indexed
  <2> QED BY <1>3, <1>6, <2>1 DEF i
<1>8. ASSUME NEW b \in DOMAIN AddressMap(new)
      PROVE  LET k == AddressMap(new)[b]
             IN  /\ k \in DOMAIN Actors(new) /\ k >= FirstId
                 /\ b[1] \in {"f2", "f4"}
                 /\ b = <<b[1], Actors(new)[k].predictable_address>>
  <2>1. CASE b \in addrs
    <3>1. b[1] \in {"f2", "f4"} /\ b = <<b[1], a>>
        BY <2>1 DEF Robust, Delegated
    <3> QED BY <1>1, <1>2, <1>3, <2>1, <3>1
  <2>2. CASE b \in DOMAIN AddressMap(old)
    <3> DEFINE k == AddressMap(old)[b]
    <3>1. /\ k \in DOMAIN Actors(old) /\ k >= FirstId /\ k \in Nat
          /\ b[1] \in {"f2", "f4"}
          /\ b = <<b[1], Actors(old)[k].predictable_address>>
        BY <2>2 DEF Indexed
    <3>2. k # InitId
        BY <3>1 DEF InitId, FirstId
    <3>3. AddressMap(new)[b] = k /\ Actors(new)[k] = Actors(old)[k]
        BY <1>2, <1>3, <2>2, <3>1, <3>2
    <3> HIDE DEF k
    <3> QED BY <1>3, <3>1, <3>3
  <2> QED BY <1>2, <2>1, <2>2
<1>9. ASSUME NEW k \in DOMAIN Actors(new)
      PROVE  /\ k \in Nat /\ k < NextId(new)
             /\ IF k < FirstId THEN Actors(new)[k].predictable_address = None
                ELSE LET b == Actors(new)[k].predictable_address
                     IN  b \in Address /\ Known(new, b) /\ IdOf(new, b) = k
  <2>1. CASE k = id
    <3>1. Known(new, a) /\ IdOf(new, a) = id
        BY <1>2 DEF Known, IdOf
    <3>2. k \in Nat /\ k < NextId(new) /\ ~(k < FirstId)
        BY <1>1, <1>2, <2>1 DEF FirstId
    <3>3. Actors(new)[k].predictable_address = a
        BY <1>3, <2>1
    <3> QED BY <2>1, <3>1, <3>2, <3>3
  <2>2. CASE k \in DOMAIN Actors(old)
    <3>1. /\ k \in Nat /\ k < id
          /\ IF k < FirstId THEN Actors(old)[k].predictable_address = None
             ELSE LET b == Actors(old)[k].predictable_address
                  IN  b \in Address /\ Known(old, b) /\ IdOf(old, b) = k
        BY <2>2 DEF Indexed
    <3>2. Actors(new)[k].predictable_address = Actors(old)[k].predictable_address
        BY <1>3, <1>5, <2>2 DEF i, i0
    <3>3. k < NextId(new)
        BY <1>1, <1>2, <3>1
    <3>4. \A b : Known(old, b) => Known(new, b) /\ IdOf(new, b) = IdOf(old, b)
        BY <1>2 DEF Known, IdOf
    <3> QED BY <3>1, <3>2, <3>3, <3>4
  <2> QED BY <1>3, <2>1, <2>2
<1>10. Builtin \subseteq DOMAIN Actors(new) /\ Actors(new)[10].code = "eam"
    BY <1>3 DEF Indexed, Builtin, InitId
<1>11. NextId(new) \in Nat /\ NextId(new) >= FirstId
    BY <1>1, <1>2 DEF FirstId
<1> QED BY <1>3, <1>5, <1>7, <1>8, <1>9, <1>10, <1>11 DEF Indexed, i

-----------------------------------------------------------------------------
(* A change of an actor *)

Replaces(old, new, a, x) ==
    new = <<"actors", Insert(Actors(old), IdOf(old, a), x)>>

(* Another state or balance for an actor that is there already *)
LEMMA ReplacesIndexed ==
    ASSUME NEW old, NEW new, NEW x, NEW a, Indexed(old), Known(old, a),
           IsActor(x), x.predictable_address = a, Replaces(old, new, a, x)
    PROVE  /\ Indexed(new)
           /\ AddressMap(new) = AddressMap(old) /\ NextId(new) = NextId(old)
           /\ ActorOf(new, a) = x
           /\ \A b : Known(old, b) /\ b # a => ActorOf(new, b) = ActorOf(old, b)
<1> DEFINE id == IdOf(old, a)
<1>1. /\ id \in DOMAIN Actors(old) /\ id >= FirstId /\ id \in Nat
      /\ Delegated(a)[2] = Actors(old)[id].predictable_address
  <2>1. Delegated(a) \in DOMAIN AddressMap(old) /\ id = AddressMap(old)[Delegated(a)]
      BY DEF Known, IdOf
  <2> HIDE DEF id
  <2>2. id \in DOMAIN Actors(old) /\ id >= FirstId
        /\ Delegated(a) = <<Delegated(a)[1], Actors(old)[id].predictable_address>>
      BY <2>1 DEF Indexed
  <2> QED BY <2>2 DEF Indexed
<1>2. Actors(old)[id].predictable_address = a
    BY <1>1 DEF Delegated
<1>3. id # InitId /\ id # 10
    BY <1>1 DEF InitId, FirstId
<1> HIDE DEF id
<1>4. /\ Actors(new) = Insert(Actors(old), id, x)
      /\ new = <<"actors", Actors(new)>>
    BY DEF Replaces, Actors, id
<1>5. /\ DOMAIN Actors(new) = DOMAIN Actors(old)
      /\ Actors(new) = [i \in DOMAIN Actors(new) |-> Actors(new)[i]]
      /\ Actors(new)[id] = x
      /\ \A i \in DOMAIN Actors(old) \ {id} : Actors(new)[i] = Actors(old)[i]
    BY <1>1, <1>4 DEF Insert
<1>6. InitId \in DOMAIN Actors(old) \ {id}
    BY <1>3 DEF Indexed, Builtin
<1>7. /\ AddressMap(new) = AddressMap(old) /\ NextId(new) = NextId(old)
      /\ Actors(new)[InitId] = Actors(old)[InitId]
    BY <1>5, <1>6 DEF AddressMap, NextId, InitState
<1>8. \A i \in DOMAIN Actors(old) :
          Actors(new)[i].predictable_address = Actors(old)[i].predictable_address
    BY <1>2, <1>5
<1>9. Indexed(new)
  <2>1. \A i \in DOMAIN Actors(new) : IsActor(Actors(new)[i])
      BY <1>5 DEF Indexed
  <2>2. \A b : (Known(new, b) <=> Known(old, b)) /\ IdOf(new, b) = IdOf(old, b)
      BY <1>7 DEF Known, IdOf
  <2>3. ASSUME NEW k \in DOMAIN Actors(new)
        PROVE  /\ k \in Nat /\ k < NextId(new)
               /\ IF k < FirstId THEN Actors(new)[k].predictable_address = None
                  ELSE LET b == Actors(new)[k].predictable_address
                       IN  b \in Address /\ Known(new, b) /\ IdOf(new, b) = k
    <3>1. /\ k \in Nat /\ k < NextId(old)
          /\ IF k < FirstId THEN Actors(old)[k].predictable_address = None
             ELSE LET b == Actors(old)[k].predictable_address
                  IN  b \in Address /\ Known(old, b) /\ IdOf(old, b) = k
        BY <1>5 DEF Indexed
    <3> QED BY <1>5, <1>7, <1>8, <2>2, <3>1
  <2>4. ASSUME NEW b \in DOMAIN AddressMap(new)
        PROVE  LET k == AddressMap(new)[b]
               IN  /\ k \in DOMAIN Actors(new) /\ k >= FirstId
                   /\ b[1] \in {"f2", "f4"}
                   /\ b = <<b[1], Actors(new)[k].predictable_address>>
    <3> DEFINE k == AddressMap(old)[b]
    <3>1. /\ k \in DOMAIN Actors(old) /\ k >= FirstId
          /\ b[1] \in {"f2", "f4"}
          /\ b = <<b[1], Actors(old)[k].predictable_address>>
        BY <1>7 DEF Indexed
    <3> HIDE DEF k
    <3> QED BY <1>5, <1>7, <1>8, <3>1 DEF k
  <2>5. /\ Builtin \subseteq DOMAIN Actors(new)
        /\ Actors(new)[InitId].head = InitHead(AddressMap(new), NextId(new))
        /\ NextId(new) \in Nat /\ NextId(new) >= FirstId
      BY <1>5, <1>7 DEF Indexed
  <2>6. Actors(new)[10].code = "eam"
      BY <1>3, <1>5 DEF Indexed, Builtin
  <2> QED BY <1>4, <1>5, <2>1, <2>3, <2>4, <2>5, <2>6 DEF Indexed
<1>10. ActorOf(new, a) = x
    BY <1>5, <1>7 DEF ActorOf, IdOf, id
<1>11. ASSUME NEW b, Known(old, b), b # a
       PROVE  ActorOf(new, b) = ActorOf(old, b)
  <2> DEFINE k == IdOf(old, b)
  <2>1. Delegated(b) \in DOMAIN AddressMap(old) /\ k = AddressMap(old)[Delegated(b)]
      BY <1>11 DEF Known, IdOf
  <2> HIDE DEF k
  <2>2. k \in DOMAIN Actors(old)
        /\ Delegated(b) = <<Delegated(b)[1], Actors(old)[k].predictable_address>>
      BY <2>1 DEF Indexed
  <2>3. k # id
      BY <1>2, <1>11, <2>2 DEF Delegated
  <2>4. Actors(new)[k] = Actors(old)[k]
      BY <1>5, <2>2, <2>3
  <2>5. IdOf(new, b) = k
      BY <1>7, <2>1 DEF IdOf
  <2> QED BY <2>4, <2>5 DEF ActorOf, k
<1> QED BY <1>7, <1>9, <1>10, <1>11

(* what an account has after a change of its own actor or of another one *)
Changes(old, new, a, x) ==
    /\ AddressMap(new) = AddressMap(old)
    /\ ActorOf(new, a) = x
    /\ \A b : Known(old, b) /\ b # a => ActorOf(new, b) = ActorOf(old, b)

(* An address that has an id has an actor, which is no builtin one. *)
LEMMA KnownActor ==
    ASSUME NEW root, Indexed(root), NEW a, Known(root, a)
    PROVE  /\ IdOf(root, a) \in DOMAIN Actors(root)
           /\ IsActor(ActorOf(root, a)) /\ a \in Address
           /\ ActorOf(root, a).predictable_address = a
<1> DEFINE id == IdOf(root, a)
<1>1. Delegated(a) \in DOMAIN AddressMap(root) /\ id = AddressMap(root)[Delegated(a)]
    BY DEF Known, IdOf
<1> HIDE DEF id
<1>2. /\ id \in DOMAIN Actors(root) /\ id >= FirstId /\ id \in Nat
      /\ Delegated(a) = <<Delegated(a)[1], Actors(root)[id].predictable_address>>
    BY <1>1 DEF Indexed
<1>3. Actors(root)[id].predictable_address = a
    BY <1>2 DEF Delegated
<1>4. IsActor(Actors(root)[id])
    BY <1>2 DEF Indexed
<1>5. a \in Address
  <2>1. ~(id < FirstId)
      BY <1>2 DEF FirstId
  <2> QED BY <1>2, <1>3, <2>1 DEF Indexed
<1> QED BY <1>2, <1>3, <1>4, <1>5 DEF ActorOf, id

(* The head of an actor is traced, and so is what it refers to. *)
LEMMA HeadTraced ==
    ASSUME NEW m, IsMock(m), NEW id \in DOMAIN Actors(m.actors)
    PROVE  LET head == Actors(m.actors)[id].head
           IN  head \in m.traced /\ head \in m.base /\ Links(head) \subseteq m.traced
<1> DEFINE head == Actors(m.actors)[id].head
<1>1. m.actors \in m.traced /\ m.actors = <<"actors", Actors(m.actors)>>
    BY DEF IsMock, Closed, Indexed
<1>2. head \in Links(m.actors)
    BY <1>1, LinksOf DEF Range
<1> HIDE DEF head
<1>3. head \in m.traced
    BY <1>1, <1>2 DEF IsMock, Closed
<1> QED BY <1>3 DEF IsMock, Closed, head

LEMMA EvmHeadParts ==
    ASSUME NEW code, NEW slots, NEW nonce
    PROVE  LET head == EvmHead(code, slots, nonce)
           IN  /\ head[1] = "evm"
               /\ head[2].bytecode = <<"raw", code>>
               /\ head[2].contract_state = <<"slots", slots>>
               /\ head[2].nonce = nonce
BY DEF EvmHead

SlotsOf(x)    == IF x.head[1] = "evm" THEN x.head[2].contract_state[2] ELSE <<>>
StateNonce(x) == IF x.head[1] = "evm" THEN x.head[2].nonce ELSE 1

(* the actor with the state that is given to it *)
WithState(x, storage, code) ==
    Actor(x.code, EvmHead(code, ApplySlots(SlotsOf(x), storage), StateNonce(x)),
          x.nonce, x.balance, x.predictable_address)

(* mock_evm_account_state on an actor that is there: only that one changes. *)
LEMMA StateChanges ==
    ASSUME NEW m, IsMock(m), NEW a, Known(m.actors, a), NEW storage, NEW code
    PROVE  LET r == MockEvmActorState(m, a, storage, code)
           IN  /\ IsMock(r) /\ m.traced \subseteq r.traced
               /\ Changes(m.actors, r.actors, a,
                          WithState(ActorOf(m.actors, a), storage, code))
<1> DEFINE x     == ActorOf(m.actors, a)
           id    == IdOf(m.actors, a)
           old   == x.head[2]
           found == x.head \in m.base /\ x.head[1] = "evm"
           slots == ApplySlots(SlotsOf(x), storage)
           head  == EvmHead(code, slots, StateNonce(x))
           y     == WithState(x, storage, code)
           r     == MockEvmActorState(m, a, storage, code)
<1>1. /\ IsStore(m) /\ Closed(m) /\ Indexed(m.actors)
      /\ id \in DOMAIN Actors(m.actors) /\ x = Actors(m.actors)[id]
      /\ IsActor(x) /\ x.predictable_address = a
    BY KnownActor DEF IsMock, ActorOf
<1>2. /\ x.head \in m.traced /\ x.head \in m.base
      /\ Links(x.head) \subseteq m.traced
    BY <1>1, HeadTraced
<1>3. x.head[1] = "evm" => {old.contract_state, old.bytecode} \subseteq m.traced
  <2> SUFFICES ASSUME x.head[1] = "evm"
               PROVE  {old.contract_state, old.bytecode} \subseteq m.traced
      OBVIOUS
  <2>1. PICK c, s, n : x.head = EvmHead(c, s, n)
      BY <1>1 DEF IsActor
  <2>2. Links(x.head) = {<<"raw", c>>, <<"slots", s>>}
      BY <2>1, LinksOf
  <2>3. old.bytecode = <<"raw", c>> /\ old.contract_state = <<"slots", s>>
      BY <2>1, EvmHeadParts
  <2> QED BY <1>2, <2>2, <2>3
<1>4. [x EXCEPT !.head = head] = y /\ y.head = head /\ IsActor(y)
      /\ y.predictable_address = a
  <2>1. [x EXCEPT !.head = head] = y
      BY <1>1, HeadChanged DEF WithState
  <2>2. y.head = head /\ y.nonce = x.nonce /\ y.balance = x.balance
        /\ y.predictable_address = a
      BY <1>1, ActorFields DEF WithState
  <2>3. y.nonce \in Nat /\ y.balance \in Nat
      BY <1>1, <2>2 DEF IsActor
  <2>4. \E c, h, n, b, p : y = Actor(c, h, n, b, p)
      BY DEF WithState
  <2>5. \E c, s, n : head = EvmHead(c, s, n)
      OBVIOUS
  <2> HIDE DEF y, head
  <2> QED BY <2>1, <2>2, <2>3, <2>4, <2>5 DEF IsActor
<1>5. r = IF found /\ Unchanged(old, code, slots) THEN m
          ELSE SetActor(Put(m, {<<"raw", code>>, <<"slots", slots>>, head}), id, y)
  <2> DEFINE more == {x.head} \cup IF found THEN {old.contract_state, old.bytecode}
                                            ELSE {}
  <2>1. Read(ReadActor(m), more) = m
    <3>1. more \subseteq m.traced
        BY <1>2, <1>3
    <3> HIDE DEF more
    <3> QED BY <1>1, <3>1, ReadActorTraced, ReadTraced
  <2>2. found <=> x.head[1] = "evm"
      BY SMTT(30), <1>2
  <2>3. r = IF found /\ Unchanged(old, code, slots) THEN m
            ELSE SetActor(Put(m, {<<"raw", code>>, <<"slots", slots>>, head}),
                          id, [x EXCEPT !.head = head])
      BY <2>1, <2>2 DEF MockEvmActorState, SlotsOf, StateNonce
  <2> QED BY <1>4, <2>3
<1>6. CASE found /\ Unchanged(old, code, slots)
  <2>1. PICK c, s, n : x.head = EvmHead(c, s, n)
      BY <1>1, <1>6 DEF IsActor
  <2>2. old.bytecode = <<"raw", c>> /\ old.contract_state = <<"slots", s>>
        /\ old.nonce = n
      BY <2>1, EvmHeadParts
  <2>3. c = code /\ s = slots /\ StateNonce(x) = n
    <3> HIDE DEF slots
    <3>1. <<"raw", c>> = <<"raw", code>> /\ s = slots
        BY <1>6, <2>2 DEF Unchanged
    <3> QED BY <1>6, <2>2, <3>1 DEF StateNonce
  <2>4. x.head = head
      BY <2>1, <2>3
  <2>5. x = y
    <3>1. x = Actor(x.code, x.head, x.nonce, x.balance, x.predictable_address)
        BY <1>1, ActorForm
    <3> QED BY <2>4, <3>1 DEF WithState
  <2>6. r = m
      BY <1>5, <1>6
  <2> HIDE DEF r, y
  <2> QED BY <2>5, <2>6 DEF Changes, r, y
<1>7. CASE ~(found /\ Unchanged(old, code, slots))
  <2> DEFINE new == {<<"raw", code>>, <<"slots", slots>>, head}
             p   == Put(m, new)
  <2>1. r = SetActor(p, id, y)
      BY <1>5, <1>7
  <2>2. Links(head) \subseteq new /\ Links(<<"raw", code>>) = {}
        /\ Links(<<"slots", slots>>) = {}
      BY LinksOf
  <2> HIDE DEF r, y, head, slots, x, id
  <2>3. Closed(p)
      BY <1>1, <2>2, PutCloses
  <2>4. IsStore(p) /\ p.actors = m.actors /\ head \in p.traced
        /\ m.traced \subseteq p.traced
      BY <1>1, PutFields
  <2> HIDE DEF p
  <2>5. /\ IsStore(r) /\ p.traced \subseteq r.traced
        /\ r.actors = <<"actors", Insert(Actors(m.actors), id, y)>>
      BY <2>1, <2>3, <2>4, SetActorFields DEF Closed
  <2>6. Closed(r)
    <3>1. m.actors = <<"actors", Actors(m.actors)>>
        BY <1>1 DEF Indexed
    <3> QED BY <1>4, <2>1, <2>3, <2>4, <3>1, SetActorCloses
  <2>7. Replaces(m.actors, r.actors, a, y)
      BY <2>5 DEF Replaces, id
  <2>8. Indexed(r.actors) /\ Changes(m.actors, r.actors, a, y)
    <3>1. Known(m.actors, a) /\ Indexed(m.actors) /\ IsActor(y)
          /\ y.predictable_address = a
        BY <1>1, <1>4
    <3>2. /\ Indexed(r.actors) /\ AddressMap(r.actors) = AddressMap(m.actors)
          /\ ActorOf(r.actors, a) = y
          /\ \A b : Known(m.actors, b) /\ b # a =>
                        ActorOf(r.actors, b) = ActorOf(m.actors, b)
        BY <2>7, <3>1, ReplacesIndexed
    <3> QED BY <3>2 DEF Changes
  <2> QED BY <2>4, <2>5, <2>6, <2>8 DEF IsMock, r, y, x
<1> QED BY <1>6, <1>7

(* mock_actor_balance on an actor that is there *)
LEMMA BalanceChanges ==
    ASSUME NEW m, IsMock(m), NEW a, Known(m.actors, a),
           NEW balance \in Nat, NEW nonce \in Nat
    PROVE  LET x == ActorOf(m.actors, a)
               r == MockActorBalance(m, a, balance, nonce)
           IN  /\ IsMock(r) /\ m.traced \subseteq r.traced
               /\ Changes(m.actors, r.actors, a,
                          Actor(x.code, x.head, nonce, balance, a))
<1> DEFINE x  == ActorOf(m.actors, a)
           id == IdOf(m.actors, a)
           y  == Actor(x.code, x.head, nonce, balance, a)
           r  == MockActorBalance(m, a, balance, nonce)
<1>1. /\ IsStore(m) /\ Closed(m) /\ Indexed(m.actors)
      /\ id \in DOMAIN Actors(m.actors) /\ x = Actors(m.actors)[id]
      /\ IsActor(x) /\ x.predictable_address = a
    BY KnownActor DEF IsMock, ActorOf
<1>2. r = IF y = x THEN m ELSE SetActor(m, id, y)
  <2>1. [x EXCEPT !.balance = balance, !.nonce = nonce] = y
      BY Zenon, <1>1, BalanceChanged
  <2>2. ReadActor(m) = m
      BY ReadActorTraced
  <2> QED BY <2>1, <2>2 DEF MockActorBalance
<1>3. IsActor(y) /\ y.predictable_address = a /\ y.head = x.head
  <2>1. /\ y.nonce = nonce /\ y.balance = balance /\ y.head = x.head
        /\ y.predictable_address = a
      BY ActorFields
  <2>2. x.head[1] = "evm" => \E c, s, n : x.head = EvmHead(c, s, n)
      BY <1>1 DEF IsActor
  <2>3. \E c, h, n, b, p : y = Actor(c, h, n, b, p)
      OBVIOUS
  <2> HIDE DEF x, y
  <2> QED BY <2>1, <2>2, <2>3 DEF IsActor
<1>4. CASE y = x
  <2> HIDE DEF y, x, r
  <2> QED BY <1>2, <1>4 DEF Changes, y, x, r
<1>5. CASE y # x
  <2>1. r = SetActor(m, id, y)
      BY <1>2, <1>5
  <2>2. x.head \in m.traced
      BY <1>1, HeadTraced
  <2> HIDE DEF y, x, r, id
  <2>3. /\ IsStore(r) /\ m.traced \subseteq r.traced
        /\ r.actors = <<"actors", Insert(Actors(m.actors), id, y)>>
      BY <1>1, <2>1, SetActorFields DEF Closed
  <2>4. Closed(r)
      BY <1>1, <1>3, <2>1, <2>2, SetActorCloses DEF Indexed
  <2>5. Replaces(m.actors, r.actors, a, y)
      BY <2>3 DEF Replaces, id
  <2>6. /\ Indexed(r.actors) /\ AddressMap(r.actors) = AddressMap(m.actors)
        /\ ActorOf(r.actors, a) = y
        /\ \A b : Known(m.actors, b) /\ b # a =>
                      ActorOf(r.actors, b) = ActorOf(m.actors, b)
      BY <1>1, <1>3, <2>5, ReplacesIndexed
  <2> QED BY <2>3, <2>4, <2>6 DEF IsMock, Changes, r, y, x
<1> QED BY <1>4, <1>5

-----------------------------------------------------------------------------
(* The accounts after one was added *)

Includes(old, new, a, x) ==
    /\ ~Known(old, a)
    /\ \A b : Known(new, b) <=> Known(old, b) \/ b = a
    /\ ActorOf(new, a) = x
    /\ \A b : Known(old, b) => ActorOf(new, b) = ActorOf(old, b)

(* A new address: what was known before is as it was. *)
LEMMA AddIncludes ==
    ASSUME NEW m, IsMock(m), NEW a \in Address, NEW addrs,
           Delegated(a) \in addrs, addrs \subseteq {Robust(a), Delegated(a)},
           Unmapped(m, addrs),
           NEW code, NEW nonce \in Nat, NEW balance \in Nat
    PROVE  LET x == Actor(code, EmptyArr, nonce, balance, a)
               r == SetActor(MapAddresses(m, addrs), NextId(m.actors), x)
           IN  /\ IsMock(r) /\ m.traced \subseteq r.traced
               /\ Includes(m.actors, r.actors, a, x)
<1> DEFINE x   == Actor(code, EmptyArr, nonce, balance, a)
           r   == SetActor(MapAddresses(m, addrs), NextId(m.actors), x)
           id  == NextId(m.actors)
           old == m.actors
           new == r.actors
<1>1. IsActor(x) /\ x.predictable_address = a /\ x.head = EmptyArr
  <2>1. /\ x.head = EmptyArr /\ x.nonce = nonce /\ x.balance = balance
        /\ x.predictable_address = a
      BY ActorFields
  <2>2. x.head[1] # "evm"
      BY <2>1 DEF EmptyArr
  <2>3. \E c, h, n, b, p : x = Actor(c, h, n, b, p)
      OBVIOUS
  <2> HIDE DEF x
  <2> QED BY <2>1, <2>2, <2>3 DEF IsActor
<1> HIDE DEF x
<1>2. /\ IsStore(r) /\ Closed(r) /\ m.traced \subseteq r.traced
      /\ Adds(old, new, addrs, x)
    BY <1>1, AddActor
<1> HIDE DEF r
<1>3. Indexed(old) /\ addrs \cap DOMAIN AddressMap(old) = {}
    BY DEF IsMock, Unmapped
<1>4. Indexed(new)
    BY <1>1, <1>2, <1>3, AddsIndexed
<1>5. ~Known(old, a)
    BY <1>3 DEF Known
<1>6. /\ DOMAIN AddressMap(new) = DOMAIN AddressMap(old) \cup addrs
      /\ \A k \in addrs : AddressMap(new)[k] = id
      /\ \A k \in DOMAIN AddressMap(old) : AddressMap(new)[k] = AddressMap(old)[k]
    BY <1>2, <1>3 DEF Adds, NewMap
<1>7. \A b : Delegated(b) \in addrs <=> b = a
    BY DEF Delegated, Robust
<1>8. \A b : Known(new, b) <=> Known(old, b) \/ b = a
    BY <1>6, <1>7 DEF Known
<1>9. ActorOf(new, a) = x
    BY <1>2, <1>6 DEF ActorOf, IdOf, Adds
<1>10. ASSUME NEW b, Known(old, b) PROVE ActorOf(new, b) = ActorOf(old, b)
  <2> DEFINE k == IdOf(old, b)
  <2>1. Delegated(b) \in DOMAIN AddressMap(old) /\ k = AddressMap(old)[Delegated(b)]
      BY <1>10 DEF Known, IdOf
  <2> HIDE DEF k
  <2>2. k \in DOMAIN Actors(old) /\ k # InitId
      BY <1>3, <2>1 DEF Indexed, InitId, FirstId
  <2>3. Actors(new)[k] = Actors(old)[k]
      BY <1>2, <2>2 DEF Adds
  <2>4. IdOf(new, b) = k
      BY <1>6, <2>1 DEF IdOf
  <2> QED BY <2>3, <2>4 DEF ActorOf, k
<1> QED BY <1>2, <1>4, <1>5, <1>8, <1>9, <1>10 DEF IsMock, Includes, r, x

(* mock_evm_actor and mock_embryo_address_actor, for a new address *)
LEMMA EvmActorIncludes ==
    ASSUME NEW m, IsMock(m), NEW a \in Address,
           Unmapped(m, {Robust(a), Delegated(a)}),
           NEW nonce \in Nat, NEW balance \in Nat
    PROVE  LET r == MockEvmActor(m, a, balance, nonce)
           IN  /\ IsMock(r) /\ m.traced \subseteq r.traced
               /\ Includes(m.actors, r.actors, a,
                           Actor("evm", EmptyArr, nonce, balance, a))
BY AddIncludes DEF MockEvmActor, NextId

LEMMA EmbryoIncludes ==
    ASSUME NEW m, IsMock(m), NEW a \in Address, Unmapped(m, {Delegated(a)}),
           NEW nonce \in Nat, NEW balance \in Nat
    PROVE  LET r == MockEmbryoAddressActor(m, a, balance, nonce)
           IN  /\ IsMock(r) /\ m.traced \subseteq r.traced
               /\ Includes(m.actors, r.actors, a,
                           Actor("placeholder", EmptyArr, nonce, balance, a))
BY AddIncludes DEF MockEmbryoAddressActor, NextId

-----------------------------------------------------------------------------
(* The tree of the builtin actors, before there is any account *)

(* Mock::new and the builtin actors: the invariant of the store begins. *)
LEMMA BuiltinIsMock ==
    /\ IsMock(MockBuiltin)
    /\ DOMAIN AddressMap(MockBuiltin.actors) = {}
<1> DEFINE addresses == <<"addresses", <<>>>>
           none      == <<"actors", <<>>>>
           system    == <<"system", EmptyArr>>
           init      == InitHead(<<>>, FirstId)
           reward    == <<"reward", <<>>>>
           burnt     == <<"account", 99>>
           map       == [id \in {0, InitId, 2, 10, 99} |->
                CASE id = 0  -> Actor("system", system, 0, 1000000000, None)
                  [] id = InitId -> Actor("init", init, 0, 1000000000, None)
                  [] id = 2  -> Actor("reward", reward, 0, 1100000000, None)
                  [] id = 10 -> Actor("eam", EmptyArr, 0, 0, None)
                  [] id = 99 -> Actor("account", burnt, 0, 0, None)]
           actors    == <<"actors", map>>
           written   == {none, EmptyArr, system, addresses, init, reward, burnt,
                         actors}
           m         == MockBuiltin
<1>1. m = [actors |-> actors, base |-> written, traced |-> written]
    BY DEF MockBuiltin
<1>2. IsStore(m) /\ m.actors = actors /\ m.base = written /\ m.traced = written
  <2> HIDE DEF actors, written, m
  <2> QED BY <1>1, StoreIs
<1> HIDE DEF m
<1>3. /\ map[0] = Actor("system", system, 0, 1000000000, None)
      /\ map[InitId] = Actor("init", init, 0, 1000000000, None)
      /\ map[2] = Actor("reward", reward, 0, 1100000000, None)
      /\ map[10] = Actor("eam", EmptyArr, 0, 0, None)
      /\ map[99] = Actor("account", burnt, 0, 0, None)
      /\ DOMAIN map = Builtin /\ map = [id \in Builtin |-> map[id]]
      /\ Builtin = {0, InitId, 2, 10, 99}
    BY DEF InitId, Builtin
<1> HIDE DEF map
<1>4. /\ map[0].head = system /\ map[InitId].head = init /\ map[2].head = reward
      /\ map[10].head = EmptyArr /\ map[99].head = burnt /\ map[10].code = "eam"
      /\ \A id \in Builtin :
            /\ map[id].nonce = 0 /\ map[id].balance \in Nat
            /\ map[id].predictable_address = None
            /\ \E c, h, n, b, p : map[id] = Actor(c, h, n, b, p)
    BY <1>3, ActorFields
<1>5. Actors(actors) = map /\ actors = <<"actors", Actors(actors)>>
    BY DEF Actors
<1>6. \A block \in written : Links(block) \subseteq written
  <2>1. Links(none) = {}
    <3>1. Range(<<>>) = {}
        BY DEF Range
    <3> QED BY <3>1, LinksOf
  <2>2. Links(EmptyArr) = {} /\ Links(addresses) = {} /\ Links(init) = {addresses}
      BY LinksOf
  <2>3. Links(system) = {EmptyArr} /\ Links(reward) = {} /\ Links(burnt) = {}
      BY DEF Links
  <2>4. Links(actors) \subseteq {system, init, reward, EmptyArr, burnt}
    <3>1. Links(actors) = {x.head : x \in Range(map)}
        BY LinksOf
    <3> HIDE DEF actors, init, system, reward, burnt
    <3>2. DOMAIN map = {0, InitId, 2, 10, 99}
        BY <1>3
    <3>3. \A id \in DOMAIN map : map[id].head \in {system, init, reward, EmptyArr, burnt}
        BY <1>4, <3>2
    <3> QED BY <3>1, <3>3 DEF Range
  <2> HIDE DEF none, addresses, init, system, reward, burnt, actors
  <2> QED BY <2>1, <2>2, <2>3, <2>4
<1>7. AddressMap(actors) = <<>> /\ NextId(actors) = FirstId
    BY <1>4, <1>5, InitHeadParts DEF AddressMap, NextId, InitState
<1>8. DOMAIN AddressMap(actors) = {}
    BY <1>7
<1>9. \A id \in Builtin : IsActor(map[id])
  <2>1. \A id \in Builtin : map[id].head[1] # "evm"
    <3>1. /\ system[1] = "system" /\ init[1] = "init" /\ reward[1] = "reward"
          /\ EmptyArr[1] = "array" /\ burnt[1] = "account"
        BY InitHeadParts DEF EmptyArr
    <3> HIDE DEF init, system, reward, burnt
    <3> QED BY <1>3, <1>4, <3>1
  <2> QED BY <1>4, <2>1 DEF IsActor
<1>10. Closed(m)
    BY <1>2, <1>6 DEF Closed
<1>11. Indexed(actors)
  <2>1. \A id \in Builtin : id \in Nat /\ id < FirstId
      BY DEF Builtin, InitId, FirstId
  <2>2. FirstId \in Nat
      BY DEF FirstId
  <2>3. InitId \in Builtin
      BY DEF Builtin
  <2> HIDE DEF actors, init
  <2> QED BY SMTT(30), <1>3, <1>4, <1>5, <1>7, <1>8, <1>9, <2>1, <2>2, <2>3 DEF Indexed, init
<1> QED BY <1>2, <1>8, <1>10, <1>11 DEF IsMock, m

-----------------------------------------------------------------------------
(* What the loops do to an account *)

(* print_actor_state at the end of a tree reads blocks that are traced. *)
LEMMA PrintReads ==
    ASSUME NEW m, IsMock(m)
    PROVE  PrintEvmActors(m) = m
<1> DEFINE heads == {actor.head : actor \in Range(Actors(m.actors))}
           evm   == {head[2] : head \in {h \in heads : h[1] = "evm"}}
           reads == heads \cup {st.bytecode : st \in evm}
                          \cup {st.contract_state : st \in evm}
<1>1. \A h \in heads : h \in m.traced /\ Links(h) \subseteq m.traced
    BY HeadTraced DEF Range
<1>2. ASSUME NEW st \in evm
      PROVE  st.bytecode \in m.traced /\ st.contract_state \in m.traced
  <2>1. PICK id \in DOMAIN Actors(m.actors) :
            LET h == Actors(m.actors)[id].head IN h[1] = "evm" /\ st = h[2]
      BY DEF Range
  <2> DEFINE h == Actors(m.actors)[id].head
  <2>2. PICK c, s, n : h = EvmHead(c, s, n)
      BY <2>1 DEF IsMock, Indexed, IsActor
  <2>3. Links(h) = {<<"raw", c>>, <<"slots", s>>}
        /\ st.bytecode = <<"raw", c>> /\ st.contract_state = <<"slots", s>>
      BY <2>1, <2>2, LinksOf, EvmHeadParts
  <2>4. Links(h) \subseteq m.traced
      BY HeadTraced
  <2> QED BY <2>3, <2>4
<1>3. reads \subseteq m.traced
  <2> HIDE DEF heads, evm
  <2> QED BY <1>1, <1>2
<1>4. ReadActor(m) = m /\ IsStore(m)
    BY ReadActorTraced DEF IsMock
<1>5. PrintEvmActors(m) = Read(m, reads)
    BY <1>4 DEF PrintEvmActors
<1> HIDE DEF reads
<1> QED BY <1>3, <1>4, <1>5, ReadTraced

(* the actor of an account, in a tree that has these slots of it *)
ActorWith(slots, account, a) ==
    Actor("evm", EvmHead(account.code, slots, 1), account.nonce,
          GetBalance(account.balance), a)

(* The actor of an account of the poststate, part by part *)
LEMMA ActorWithParts ==
    ASSUME NEW slots, NEW account, NEW a
    PROVE  LET x == ActorWith(slots, account, a)
           IN  x.code = "evm" /\ SlotsOf(x) = slots /\ StateNonce(x) = 1
<1> DEFINE x    == ActorWith(slots, account, a)
           head == EvmHead(account.code, slots, 1)
<1>1. x.code = "evm" /\ x.head = head
    BY ActorFields DEF ActorWith
<1>2. /\ head[1] = "evm" /\ head[2].contract_state = <<"slots", slots>>
      /\ head[2].nonce = 1
    BY EvmHeadParts
<1> HIDE DEF x, head
<1> QED BY <1>1, <1>2 DEF SlotsOf, StateNonce, x

(* Includes and Changes say what a root has besides, and instead. *)
LEMMA IncludesChanges ==
    ASSUME NEW old, NEW mid, NEW new, NEW a, NEW x, NEW y,
           Includes(old, mid, a, x), Changes(mid, new, a, y)
    PROVE  Includes(old, new, a, y)
<1>1. \A b : Known(new, b) <=> Known(mid, b)
    BY DEF Changes, Known
<1>2. ASSUME NEW b, Known(old, b) PROVE ActorOf(new, b) = ActorOf(old, b)
  <2>1. b # a /\ Known(mid, b) /\ ActorOf(mid, b) = ActorOf(old, b)
      BY <1>2 DEF Includes
  <2> QED BY <2>1 DEF Changes
<1> QED BY <1>1, <1>2 DEF Includes, Changes

LEMMA ChangesChanges ==
    ASSUME NEW old, NEW mid, NEW new, NEW a, NEW x, NEW y,
           Changes(old, mid, a, x), Changes(mid, new, a, y)
    PROVE  Changes(old, new, a, y)
<1>1. \A b : Known(mid, b) <=> Known(old, b)
    BY DEF Changes, Known
<1> QED BY <1>1 DEF Changes

(* The state of a fresh actor, or of one that had slots. *)
LEMMA FreshWithState ==
    ASSUME NEW nonce, NEW balance, NEW a, NEW storage, NEW code
    PROVE  WithState(Actor("evm", EmptyArr, nonce, balance, a), storage, code)
              = Actor("evm", EvmHead(code, ApplySlots(<<>>, storage), 1),
                      nonce, balance, a)
<1> DEFINE x == Actor("evm", EmptyArr, nonce, balance, a)
<1>1. /\ x.code = "evm" /\ x.head = EmptyArr /\ x.nonce = nonce
      /\ x.balance = balance /\ x.predictable_address = a
    BY ActorFields
<1>2. SlotsOf(x) = <<>> /\ StateNonce(x) = 1
  <2>1. x.head[1] # "evm"
      BY <1>1 DEF EmptyArr
  <2> QED BY <2>1 DEF SlotsOf, StateNonce
<1> HIDE DEF x
<1> QED BY <1>1, <1>2 DEF WithState, x

(* The first loop on one account of the prestate *)
LEMMA AccountIncludes ==
    ASSUME NEW m, IsMock(m), NEW a \in Address,
           Unmapped(m, {Robust(a), Delegated(a)}),
           NEW account, account.nonce \in Nat, account.balance \in Nat
    PROVE  LET r == MockAccount(m, a, account)
               x == ActorWith(ApplySlots(<<>>, Words(account.storage)), account, a)
           IN  /\ IsMock(r) /\ m.traced \subseteq r.traced
               /\ Includes(m.actors, r.actors, a, x)
<1> DEFINE balance == GetBalance(account.balance)
           p == MockEvmActor(m, a, balance, account.nonce)
           y == Actor("evm", EmptyArr, account.nonce, balance, a)
           z == WithState(y, Words(account.storage), account.code)
           r == MockEvmActorState(p, a, Words(account.storage), account.code)
<1>1. balance \in Nat
    BY GetBalanceType
<1> HIDE DEF balance
<1>2. IsMock(p) /\ m.traced \subseteq p.traced /\ Includes(m.actors, p.actors, a, y)
    BY <1>1, EvmActorIncludes
<1> HIDE DEF p, y
<1>3. Known(p.actors, a) /\ ActorOf(p.actors, a) = y
    BY <1>2 DEF Includes
<1>4. IsMock(r) /\ p.traced \subseteq r.traced /\ Changes(p.actors, r.actors, a, z)
    BY <1>2, <1>3, StateChanges
<1>5. z = ActorWith(ApplySlots(<<>>, Words(account.storage)), account, a)
    BY FreshWithState DEF y, ActorWith, balance
<1> HIDE DEF r, z
<1>6. m.traced \subseteq r.traced /\ Includes(m.actors, r.actors, a, z)
    BY <1>2, <1>4, IncludesChanges
<1> QED BY <1>4, <1>5, <1>6 DEF MockAccount, r, p, balance

(* the two calls of the second loop *)
Settle(m, a, account) ==
    MockActorBalance(
        MockEvmActorState(m, a, Words(account.storage), account.code),
        a, GetBalance(account.balance), account.nonce)

(* The second loop on one account of the poststate *)
LEMMA SettleChanges ==
    ASSUME NEW m, IsMock(m), NEW a, Known(m.actors, a),
           NEW account, account.nonce \in Nat, account.balance \in Nat,
           LET x == ActorOf(m.actors, a) IN x.code = "evm" /\ StateNonce(x) = 1
    PROVE  LET r == Settle(m, a, account)
               slots == SlotsOf(ActorOf(m.actors, a))
               x == ActorWith(ApplySlots(slots, Words(account.storage)), account, a)
           IN  /\ IsMock(r) /\ m.traced \subseteq r.traced
               /\ Changes(m.actors, r.actors, a, x)
<1> DEFINE balance == GetBalance(account.balance)
           x == ActorOf(m.actors, a)
           head == EvmHead(account.code,
                           ApplySlots(SlotsOf(x), Words(account.storage)), 1)
           p == MockEvmActorState(m, a, Words(account.storage), account.code)
           y == WithState(x, Words(account.storage), account.code)
           r == MockActorBalance(p, a, balance, account.nonce)
           z == Actor(y.code, y.head, account.nonce, balance, a)
<1>1. balance \in Nat
    BY GetBalanceType
<1>2. y.code = "evm" /\ y.head = head
    BY ActorFields DEF WithState
<1>3. IsMock(p) /\ m.traced \subseteq p.traced /\ Changes(m.actors, p.actors, a, y)
    BY StateChanges
<1> HIDE DEF balance, p, y
<1>4. Known(p.actors, a) /\ ActorOf(p.actors, a) = y
    BY <1>3 DEF Changes, Known
<1>5. IsMock(r) /\ p.traced \subseteq r.traced /\ Changes(p.actors, r.actors, a, z)
    BY <1>1, <1>3, <1>4, BalanceChanges
<1>6. z = ActorWith(ApplySlots(SlotsOf(x), Words(account.storage)), account, a)
    BY <1>2 DEF ActorWith, balance
<1> HIDE DEF r, z, x
<1>7. m.traced \subseteq r.traced /\ Changes(m.actors, r.actors, a, z)
    BY <1>3, <1>5, ChangesChanges
<1> QED BY <1>5, <1>6, <1>7 DEF Settle, r, p, x, balance
================================================================================
