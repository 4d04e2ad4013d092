----------------------------- MODULE ExportVector -----------------------------
(***************************************************************************)
(* export_test_vector_file (src/src/lib.rs) from the transaction to the    *)
(* file: after the two trees are built, the traced blocks become the car,  *)
(* the transaction a message, and both, with what the message must find    *)
(* when it is run - epoch, randomness, block hashes - and what it must     *)
(* leave, a test vector.  The car is built at one step here; CarExport     *)
(* has the two tasks that build it, and CarFile what they promise.         *)
(***************************************************************************)
EXTENDS StateTree

CONSTANTS
    NoData,         \* calldata of length 0
    Scale,          \* FVM gas for one unit of gas: 1000000
    Half,           \* the least number above an i64, half of a u64: 2^63
    Builds,         \* whether the build checks for overflow, either way
    Malformed

Json == INSTANCE VectorJson

(* the fields of EthTransactionTestVector that only the vector needs *)
IsTransaction(t) ==
    /\ {"hash", "chain_id", "value", "data", "gas", "max_fee_per_gas",
        "max_priority_fee_per_gas", "return_value", "block_number",
        "block_hashes", "random", "timestamp"} \subseteq DOMAIN t
    /\ {t.value, t.gas, t.random, t.chain_id, t.timestamp} \subseteq Nat
    /\ {t.max_fee_per_gas, t.max_priority_fee_per_gas} \subseteq Nat \cup {None}
    /\ {t.block_number} \cup DOMAIN t.block_hashes \subseteq 0 .. 2 * Half - 1

(* The address of a new contract, a hash of its sender's, is another one. *)
ASSUME VectorAssumption ==
    /\ \A t \in Inputs : IsTransaction(t) /\ (t.to = Zero => t.from # Created)
    /\ Scale \in Nat \ {0} /\ Half \in Nat \ {0} /\ Builds \subseteq BOOLEAN

VARIABLES
    stage,      \* "trees", "car", "message", "written" or "panic"
    car,        \* car_bytes
    message,    \* of to_message
    file        \* the JSON that was written

exportVars == <<stage, car, message, file>>

VectorInit ==
    /\ Init
    /\ stage = "trees"
    /\ car = None /\ message = None /\ file = None

BuildTrees == Next /\ UNCHANGED exportVars

(* lib.rs 94-116: store.base must have every block that was traced. *)
ExportCar ==
    /\ stage = "trees"
    /\ pc = "done"
    /\ IF mock.traced \subseteq mock.base
       THEN /\ stage' = "car"
            /\ car' = [roots |-> state_roots, blocks |-> mock.traced]
       ELSE stage' = "panic" /\ UNCHANGED car
    /\ UNCHANGED <<vars, message, file>>

-----------------------------------------------------------------------------
(* to_message *)

Eam == <<"f0", 10>>     \* Address::new_id(10)

(* as i64 *)
Signed(n) == IF n < Half THEN n ELSE n - 2 * Half

(* U256::as_u64 panics on a larger number *)
IsU64(n) == n < 2 * Half

(* mutant: the product is taken as an i64 *)
GasPanicsSigned(gas, checked) ==
    \/ ~IsU64(gas)
    \/ checked /\ gas > (Half - 1) \div Scale

(* that, and the multiplication of a build that checks it *)
GasPanics(gas, checked) ==
    \/ ~IsU64(gas)
    \/ checked /\ gas > (2 * Half - 1) \div Scale

GasLimit(gas) == Signed((gas * Scale) % (2 * Half))

(* get_value; get_max_fee_per_gas and get_max_priority_fee_per_gas *)
GetValue == BytesToBigInt(ToBigEndian(input.value))
GetFee(fee) == IF fee = None THEN 0 ELSE BytesToBigInt(ToBigEndian(fee))

(* mutant: a creation is sent to the zero address *)
RecipientWithoutCreate ==
    [to |-> Delegated(input.to), method_num |-> "InvokeContract",
     params |-> <<"cbor", input.data>>]

(* where the message goes, and what it asks for there *)
Recipient ==
    IF CreateContract
    THEN [to |-> Eam, method_num |-> "Create",
          params |-> <<"cbor", [initcode |-> input.data, nonce |-> input.nonce]>>]
    ELSE IF input.data # NoData
    THEN [to |-> Delegated(input.to), method_num |-> "InvokeContract",
          params |-> <<"cbor", input.data>>]
    ELSE [to |-> Delegated(input.to), method_num |-> "Send", params |-> <<>>]

ToMessage ==
    [version     |-> 0,
     from        |-> Delegated(input.from),
     to          |-> Recipient.to,
     method_num  |-> Recipient.method_num,
     params      |-> Recipient.params,
     sequence    |-> input.nonce,
     value       |-> GetValue,
     gas_limit   |-> GasLimit(input.gas),
     gas_fee_cap |-> GetFee(input.max_fee_per_gas),
     gas_premium |-> GetFee(input.max_priority_fee_per_gas)]

WriteMessage ==
    /\ stage = "car"
    /\ \E checked \in Builds :
          IF GasPanics(input.gas, checked)
          THEN stage' = "panic" /\ UNCHANGED message
          ELSE stage' = "message" /\ message' = ToMessage
    /\ UNCHANGED <<vars, car, file>>

-----------------------------------------------------------------------------
(* The test vector *)

(* lib.rs 199-204 *)
AdditionalCompareAddresses ==
    {Delegated(a) : a \in contract_addrs} \ {message.to}

(* the order in which a BTreeMap gives its keys *)
Ascending(keys) == SetToSortSeq(keys, <)

(* lib.rs 131-140 *)
TipsetCids(block_hashes) ==
    LET numbers == Ascending(DOMAIN block_hashes)
    IN  [j \in DOMAIN numbers |->
            [epoch |-> Signed(numbers[j]),
             cid   |-> <<"identity", block_hashes[numbers[j]]>>]]

(* block_number as ChainEpoch *)
Epoch == Signed(input.block_number)

(* lib.rs 142-156 *)
Randomness ==
    <<[on  |-> [kind |-> "beacon", dst |-> 10, epoch |-> Epoch,
                entropy |-> "prevrandao"],
       ret |-> ToBigEndian(input.random)]>>

(* lib.rs 121-127: whatever the status of the transaction was *)
Receipt ==
    [exit_code |-> "OK", return_data |-> <<"cbor", input.return_value>>,
     gas_used  |-> 0, events_root |-> None]

(* lib.rs 157-207; version, description and comment of the meta are empty *)
TestVector ==
    [class          |-> "message",
     chain_id       |-> input.chain_id,
     selector       |-> None,
     meta           |-> [id |-> input.hash],
     car            |-> <<"gzip", car>>,
     preconditions  |->
        [state_tree  |-> [root_cid |-> state_roots[1]],
         basefee     |-> None,
         circ_supply |-> None,
         variants    |-> <<[id |-> "test_evm", epoch |-> Epoch,
                            timestamp |-> input.timestamp, nv |-> 18]>>],
     apply_messages |-> <<[bytes |-> <<"cbor", message>>, epoch_offset |-> None]>>,
     postconditions |->
        [state_tree |-> [root_cid |-> state_roots[2]],
         receipts   |-> <<Receipt>>],
     randomness             |-> Randomness,
     skip_compare_gas_used  |-> TRUE,
     skip_compare_addresses |-> <<message.from>>,
     skip_compare_actor_ids |-> <<2, 99>>,
     additional_compare_addresses |-> SetToSeq(AdditionalCompareAddresses),
     tipset_cids            |-> TipsetCids(input.block_hashes)]

(***************************************************************************)
(* There are finitely many addresses; None is none of them, and no list,   *)
(* in memory or in the file.                                               *)
(***************************************************************************)
ASSUME NoneAssumption ==
    /\ IsFiniteSet(Address) /\ None \notin Address
    /\ None \notin Seq({Delegated(a) : a \in Address})
    /\ None \notin Seq({Json!AddressJson(Delegated(a)) : a \in Address})
    /\ \A t \in Inputs : LET tipsets == TipsetCids(t.block_hashes)
                        IN  None \notin {tipsets, Json!TipsetsJson(tipsets)}

(* File::create and to_writer_pretty; Commands has a write cut short *)
WriteVector ==
    /\ stage = "message"
    /\ IF IsU64(input.timestamp) /\ IsU64(input.chain_id)
       THEN stage' = "written" /\ file' = Json!Encode(TestVector)
       ELSE stage' = "panic" /\ UNCHANGED file
    /\ UNCHANGED <<vars, car, message>>

VectorNext == BuildTrees \/ ExportCar \/ WriteMessage \/ WriteVector

VectorSpec == VectorInit /\ [][VectorNext]_<<vars, exportVars>>

-----------------------------------------------------------------------------
(* What get_evm_actors_slots reads from the root of a map of actors, in the *)
(* base store.  It is public, and nothing in the repository calls it.       *)

EvmActorsSlots(m, root) ==
    LET evm == {actor \in Range(Actors(root)) :
                   /\ actor.head \in m.base /\ actor.head[1] = "evm"
                   /\ actor.predictable_address # None
                   /\ actor.head[2].contract_state[2] # <<>>}
        of(a) == CHOOSE actor \in evm : actor.predictable_address = a
    IN  [a \in {actor.predictable_address : actor \in evm} |->
            of(a).head[2].contract_state[2]]

-----------------------------------------------------------------------------
(* Properties, of what a reader of the file sees *)

Written == file # None

Vector   == Json!Decode(file)
Applied  == Vector.apply_messages[1].bytes[2]
PreTree  == Vector.preconditions.state_tree.root_cid[2]
PostTree == Vector.postconditions.state_tree.root_cid[2]
Blocks   == Vector.car[2].blocks

Without(object, name) == [n \in DOMAIN object \ {name} |-> object[n]]

(***************************************************************************)
(* The two halves of the serialization fit: the file reads as the vector   *)
(* that was in memory.  A reader also takes a file without the fields that *)
(* may be missing, but not one without a list of addresses, which is read  *)
(* by a function of its own.                                               *)
(***************************************************************************)
ReadsBack ==
    Written =>
        /\ Vector = TestVector
        /\ \A name \in {"chain_id", "selector", "_meta", "randomness",
                        "skip_compare_actor_ids", "tipset_cids"} :
              LET read == Json!Decode(Without(file, name))
                  lost == IF name = "_meta" THEN "meta" ELSE name
              IN  /\ read[lost] \in {None, <<>>}
                  /\ Without(read, lost) = Without(TestVector, lost)
        /\ \A name \in {"skip_compare_addresses", "additional_compare_addresses"} :
              Json!Decode(Without(file, name)) = Malformed

(***************************************************************************)
(* The file has what it takes to run the transaction, and needs nothing    *)
(* else: the car holds all that its roots lead to; the sender is in the    *)
(* first tree with the nonce of the message; a creation finds the address  *)
(* manager and an address that is free, any other message its recipient;   *)
(* it asks for the epoch the randomness is of, and has the gas of the      *)
(* transaction, as long as an i64 can say it.                              *)
(***************************************************************************)
VectorRuns ==
    Written =>
        /\ Vector.car[2].roots = <<<<"root", PreTree>>, <<"root", PostTree>>>>
        /\ Range(Vector.car[2].roots) \subseteq Blocks
        /\ \A block \in Blocks : Links(block) \subseteq Blocks
        /\ Applied.from = Delegated(input.from)
        /\ LET sender == ActorOf(PreTree, input.from)
           IN  sender.code = "placeholder" /\ sender.nonce = Applied.sequence
        /\ IF input.to = Zero
           THEN /\ Applied.method_num = "Create"
                /\ Actors(PreTree)[Applied.to[2]].code = "eam"
                /\ ~Known(PreTree, Created)
                /\ Applied.params[2].nonce = Applied.sequence
           ELSE input.to \in DOMAIN input.prestate =>
                    Known(PreTree, Applied.to[2])
        /\ Vector.randomness[1].on.epoch = Vector.preconditions.variants[1].epoch
        /\ input.gas <= (Half - 1) \div Scale =>
              Applied.gas_limit = Scale * input.gas

(***************************************************************************)
(* Every account of the poststate is compared when the vector is run - it  *)
(* is the recipient of the message or in the list - except the sender,     *)
(* whose tree is not the chain's.  What is compared can be found in the    *)
(* second tree.                                                            *)
(***************************************************************************)
AllCompared ==
    Written /\ Covers(input.poststate, input.prestate) =>
        LET compared == Range(Vector.additional_compare_addresses)
            skipped  == Range(Vector.skip_compare_addresses)
        IN  /\ {Delegated(a) : a \in DOMAIN input.poststate}
                  \subseteq compared \cup skipped \cup {Applied.to}
            /\ compared \cap skipped = {}
            /\ \A address \in compared : Known(PostTree, address[2])

(***************************************************************************)
(* Only a number that does not fit stops an export whose trees are built:  *)
(* one above a u64, or in a debug build more gas than the product may be.  *)
(* Whatever the trees hold, no traced block is missing.                    *)
(***************************************************************************)
OnlyNumbersPanic ==
    stage = "panic" =>
        \/ input.gas > (2 * Half - 1) \div Scale
        \/ input.timestamp >= 2 * Half \/ input.chain_id >= 2 * Half

(* the storages of the accounts in a tree that have a slot *)
Storages(root, state) ==
    LET shown == {a \in DOMAIN state \ {input.from} :
                     Known(root, a) /\ Nonzero(state[a].storage) # <<>>}
    IN  [a \in shown |-> Nonzero(state[a].storage)]

(***************************************************************************)
(* get_evm_actors_slots, given the base store that the trees were built    *)
(* in, finds the slots of the two states, of the contracts that have any,  *)
(* whichever actors were written between and over them.                    *)
(***************************************************************************)
SlotsReadBack ==
    stage = "written" =>
        /\ EvmActorsSlots(mock, pre_actors) = Storages(pre_actors, input.prestate)
        /\ Covers(input.poststate, input.prestate) =>
              EvmActorsSlots(mock, post_actors) = Storages(post_actors, input.poststate)
=============================================================================
