-------------------------- MODULE ExportVectorProofs --------------------------
(***************************************************************************)
(* The export of any transaction, from the two trees to the file.          *)
(***************************************************************************)
EXTENDS ExportVector, StateTreeProofs, FiniteSetTheorems

(* what an export that panics has in its transaction *)
TooLarge(t) ==
    \/ t.gas > (2 * Half - 1) \div Scale
    \/ t.timestamp >= 2 * Half \/ t.chain_id >= 2 * Half

(* the stages of export_test_vector_file after the trees *)
Exporting ==
    /\ stage \in {"trees", "car", "message", "written", "panic"}
    /\ stage \in {"car", "message", "written"} =>
          pc = "done" /\ car = [roots |-> state_roots, blocks |-> mock.traced]
    /\ stage \in {"message", "written"} => message = ToMessage
    /\ file # None => stage = "written" /\ file = Json!Encode(TestVector)
    /\ stage = "panic" => TooLarge(input)

VectorInv == IndInv /\ Exporting

-----------------------------------------------------------------------------
(* The transactions the specification is given *)
LEMMA TransactionType ==
    ASSUME NEW t \in Inputs
    PROVE  /\ t.gas \in Nat /\ t.timestamp \in Nat /\ t.chain_id \in Nat
           /\ Half \in Nat /\ Half > 0 /\ Scale \in Nat /\ Scale > 0
BY VectorAssumption DEF IsTransaction

(* The trees are built once. *)
LEMMA DoneIsDone ==
    ASSUME pc = "done"
    PROVE  ~Next
BY DEF Next, Setup, PreAccount, PostAccount, Panic, EndPre, EndPost, StateRoots

(* The transaction is not changed, whatever is built from it. *)
LEMMA InputStays ==
    ASSUME Next
    PROVE  input' = input
<1>1. CASE Setup
    BY <1>1 DEF Setup
<1>2. ASSUME NEW a \in Address, PreAccount(a) PROVE input' = input
    BY <1>2 DEF PreAccount
<1>3. ASSUME NEW a \in Address, PostAccount(a) PROVE input' = input
    BY <1>3 DEF PostAccount
<1>4. ASSUME NEW a \in Address, Panic(a) PROVE input' = input
    BY <1>4 DEF Panic
<1>5. CASE EndPre \/ EndPost \/ StateRoots
    BY <1>5 DEF EndPre, EndPost, StateRoots
<1> QED BY <1>1, <1>2, <1>3, <1>4, <1>5 DEF Next

LEMMA VectorInitEstablishes == VectorInit => VectorInv
BY InitEstablishes DEF VectorInit, VectorInv, Exporting

(* The trees change under [Next]_vars, in every step of the export. *)
LEMMA TreesStep ==
    ASSUME VectorInv, [VectorNext]_<<vars, exportVars>>
    PROVE  IndInv'
<1>1. [Next]_vars
    BY DEF VectorNext, BuildTrees, ExportCar, WriteMessage, WriteVector
<1> QED BY <1>1, NextStep DEF VectorInv

(* A step of the export leaves what the trees were built from. *)
LEMMA Same ==
    ASSUME UNCHANGED <<vars, exportVars>>
    PROVE  TestVector' = TestVector
BY DEF vars, exportVars, TestVector, AdditionalCompareAddresses, Epoch, Randomness, Receipt

(* Gas that is no u64 is more than any product leaves room for. *)
LEMMA GasPanicsAbove ==
    ASSUME NEW gas \in Nat, NEW checked, GasPanics(gas, checked)
    PROVE  gas > (2 * Half - 1) \div Scale
<1>1. Half \in Nat /\ Half > 0 /\ Scale \in Nat /\ Scale > 0
    BY VectorAssumption
<1>2. (2 * Half - 1) \div Scale <= 2 * Half - 1
    BY <1>1
<1> QED BY <1>1, <1>2 DEF GasPanics, IsU64

(* Each action keeps the invariant. *)
LEMMA VectorStep ==
    ASSUME VectorInv, [VectorNext]_<<vars, exportVars>>
    PROVE  VectorInv'
<1>1. IndInv'
    BY TreesStep
<1>2. input \in Inputs /\ SelfContained
    BY StoreComplete DEF VectorInv, IndInv, Building
<1>3. /\ input.gas \in Nat /\ input.timestamp \in Nat /\ input.chain_id \in Nat
      /\ Half \in Nat /\ Half > 0
    BY <1>2, TransactionType
<1>4. CASE BuildTrees
  <2>1. pc # "done" /\ stage' = stage /\ car' = car /\ message' = message /\ file' = file
      BY <1>4, DoneIsDone DEF BuildTrees, exportVars
  <2>2. input' = input
      BY <1>4, InputStays DEF BuildTrees
  <2>3. stage \in {"trees", "panic"}
      BY <2>1 DEF VectorInv, Exporting
  <2>4. file = None /\ (stage = "panic" => TooLarge(input))
      BY <2>3 DEF VectorInv, Exporting
  <2>5. Exporting'
      BY <2>1, <2>2, <2>3, <2>4 DEF Exporting
  <2> QED BY <1>1, <2>5 DEF VectorInv
<1>5. CASE ExportCar
  <2>1. mock.traced \subseteq mock.base
      BY <1>2 DEF SelfContained
  <2>2. /\ stage = "trees" /\ pc = "done" /\ stage' = "car"
        /\ car' = [roots |-> state_roots, blocks |-> mock.traced]
        /\ UNCHANGED <<vars, message, file>>
      BY <1>5, <2>1 DEF ExportCar
  <2> QED BY <1>1, <2>2 DEF VectorInv, Exporting, vars
<1>6. CASE WriteMessage
  <2>1. stage = "car" /\ UNCHANGED <<vars, car, file>>
      BY <1>6 DEF WriteMessage
  <2>2. PICK checked \in Builds :
            IF GasPanics(input.gas, checked)
            THEN stage' = "panic" /\ UNCHANGED message
            ELSE stage' = "message" /\ message' = ToMessage
      BY <1>6 DEF WriteMessage
  <2>3. input' = input /\ ToMessage' = ToMessage
      BY <2>1 DEF vars, ToMessage, Recipient, CreateContract, GetValue
  <2>4. GasPanics(input.gas, checked) => TooLarge(input)
      BY <1>3, GasPanicsAbove DEF TooLarge
  <2> QED BY <1>1, <2>1, <2>2, <2>3, <2>4 DEF VectorInv, Exporting, vars
<1>7. CASE WriteVector
  <2>1. stage = "message" /\ UNCHANGED <<vars, car, message>>
      BY <1>7 DEF WriteVector
  <2>2. TestVector' = TestVector
      BY <2>1 DEF vars, TestVector, AdditionalCompareAddresses, Epoch, Randomness, Receipt
  <2>3. input' = input /\ ToMessage' = ToMessage
      BY <2>1 DEF vars, ToMessage, Recipient, CreateContract, GetValue
  <2>4. CASE IsU64(input.timestamp) /\ IsU64(input.chain_id)
    <3>1. stage' = "written" /\ file' = Json!Encode(TestVector)
        BY <1>7, <2>4 DEF WriteVector
    <3> QED BY <1>1, <2>1, <2>2, <2>3, <3>1 DEF VectorInv, Exporting, vars
  <2>5. CASE ~(IsU64(input.timestamp) /\ IsU64(input.chain_id))
    <3>1. stage' = "panic" /\ file' = file
        BY <1>7, <2>5 DEF WriteVector
    <3>2. TooLarge(input)
        BY <1>3, <2>5 DEF TooLarge, IsU64
    <3> QED BY <1>1, <2>1, <2>3, <3>1, <3>2 DEF VectorInv, Exporting, vars
  <2> QED BY <2>4, <2>5
<1>8. CASE UNCHANGED <<vars, exportVars>>
  <2>1. ToMessage' = ToMessage /\ TestVector' = TestVector
      BY <1>8, Same DEF vars, ToMessage, Recipient, CreateContract, GetValue
  <2> QED BY <1>1, <1>8, <2>1 DEF VectorInv, Exporting, vars, exportVars
<1> QED BY <1>4, <1>5, <1>6, <1>7, <1>8 DEF VectorNext

(* The invariant of the whole export, from the accounts to the file *)
THEOREM VectorInvariance == VectorSpec => []VectorInv
<1>1. VectorInv /\ [VectorNext]_<<vars, exportVars>> => VectorInv'
    BY VectorStep
<1> QED BY VectorInitEstablishes, <1>1, PTL DEF VectorSpec

(* OnlyNumbersPanic: the export gives up on a number that is no integer of
   the vector, and on nothing else; no unwrap of a block ever panics. *)
THEOREM PanicsOnlyOnNumbers == VectorSpec => []OnlyNumbersPanic
<1>1. VectorInv => OnlyNumbersPanic
    BY DEF VectorInv, Exporting, TooLarge, OnlyNumbersPanic
<1> QED BY VectorInvariance, <1>1, PTL

-----------------------------------------------------------------------------
(* What a reader of the file gets back *)

AppliedJson(s) == [k \in DOMAIN s |-> Json!ApplyMessageJson(s[k])]
AppliedOf(j)   == [k \in DOMAIN j |-> Json!ApplyMessageOf(j[k])]
RulesJson(s)   == [k \in DOMAIN s |-> Json!RandomnessJson(s[k])]
RulesOf(j)     == [k \in DOMAIN j |-> Json!RandomnessOf(j[k])]

(* Fields of the JSON objects, and the records read from them *)
LEMMA EncodedFields ==
    ASSUME NEW v, NEW j, j = Json!Encode(v)
    PROVE      /\ DOMAIN j = {"class", "chain_id", "selector", "_meta", "car",
                              "preconditions", "apply_messages", "postconditions",
                              "randomness", "skip_compare_gas_used",
                              "skip_compare_addresses", "skip_compare_actor_ids",
                              "additional_compare_addresses", "tipset_cids"}
               /\ j.class = v.class /\ j.chain_id = v.chain_id
               /\ j.selector = v.selector /\ j._meta = v.meta
               /\ j.car = Json!Base64(v.car)
               /\ j.preconditions = Json!PreConditionsJson(v.preconditions)
               /\ j.apply_messages = AppliedJson(v.apply_messages)
               /\ j.postconditions = Json!PostConditionsJson(v.postconditions)
               /\ j.randomness = RulesJson(v.randomness)
               /\ j.skip_compare_gas_used = v.skip_compare_gas_used
               /\ j.skip_compare_addresses = Json!AddressesJson(v.skip_compare_addresses)
               /\ j.skip_compare_actor_ids = v.skip_compare_actor_ids
               /\ j.additional_compare_addresses
                     = Json!AddressesJson(v.additional_compare_addresses)
               /\ j.tipset_cids = Json!TipsetsJson(v.tipset_cids)
BY SMT DEF Json!Encode, Json!Each, AppliedJson, RulesJson

LEMMA DecodedFields ==
    ASSUME NEW j, Json!Required \subseteq DOMAIN j
    PROVE  LET r == Json!Decode(j)
           IN  /\ DOMAIN r = {"class", "chain_id", "selector", "meta", "car",
                              "preconditions", "apply_messages", "postconditions",
                              "randomness", "skip_compare_gas_used",
                              "skip_compare_addresses", "skip_compare_actor_ids",
                              "additional_compare_addresses", "tipset_cids"}
               /\ r = [n \in DOMAIN r |-> r[n]]
               /\ r.class = j.class /\ r.chain_id = Json!Field(j, "chain_id", None)
               /\ r.selector = Json!Field(j, "selector", None)
               /\ r.meta = Json!Field(j, "_meta", None)
               /\ r.car = Json!Base64Of(j.car)
               /\ r.preconditions = Json!PreConditionsOf(j.preconditions)
               /\ r.apply_messages = AppliedOf(j.apply_messages)
               /\ r.postconditions = Json!PostConditionsOf(j.postconditions)
               /\ r.randomness = RulesOf(Json!Field(j, "randomness", <<>>))
               /\ r.skip_compare_gas_used = j.skip_compare_gas_used
               /\ r.skip_compare_addresses = Json!AddressesOf(j.skip_compare_addresses)
               /\ r.skip_compare_actor_ids = Json!Field(j, "skip_compare_actor_ids", None)
               /\ r.additional_compare_addresses
                     = Json!AddressesOf(j.additional_compare_addresses)
               /\ r.tipset_cids = Json!TipsetsOf(Json!Field(j, "tipset_cids", None))
BY SMT DEF Json!Decode, Json!Each, AppliedOf, RulesOf

(* Each part of a vector is read back as it was written. *)
LEMMA CidRead ==
    ASSUME NEW cid
    PROVE  Json!CidOf(Json!CidJson(cid)) = cid
BY DEF Json!CidOf, Json!CidJson

LEMMA PreConditionsRead ==
    ASSUME NEW cid, NEW variants, NEW p,
           p = [state_tree |-> [root_cid |-> cid], basefee |-> None,
                circ_supply |-> None, variants |-> variants]
    PROVE  Json!PreConditionsOf(Json!PreConditionsJson(p)) = p
<1>1. Json!StateTreeJson(p.state_tree) = [root_cid |-> Json!CidJson(cid)]
    BY DEF Json!StateTreeJson
<1>2. [p EXCEPT !.state_tree = [root_cid |-> Json!CidJson(cid)]]
         = [state_tree |-> [root_cid |-> Json!CidJson(cid)], basefee |-> None,
            circ_supply |-> None, variants |-> variants]
    OBVIOUS
<1>3. Json!StateTreeOf([root_cid |-> Json!CidJson(cid)]) = [root_cid |-> cid]
    BY CidRead DEF Json!StateTreeOf
<1> QED BY <1>1, <1>2, <1>3 DEF Json!PreConditionsJson, Json!PreConditionsOf, Json!Field

LEMMA PostConditionsRead ==
    ASSUME NEW cid, NEW code, NEW data, NEW gas, NEW p,
           p = [state_tree |-> [root_cid |-> cid],
                receipts |-> <<[exit_code |-> code, return_data |-> data,
                                gas_used |-> gas, events_root |-> None]>>]
    PROVE  Json!PostConditionsOf(Json!PostConditionsJson(p)) = p
<1>1. Json!StateTreeJson(p.state_tree) = [root_cid |-> Json!CidJson(cid)]
    BY DEF Json!StateTreeJson
<1>2. Json!StateTreeOf([root_cid |-> Json!CidJson(cid)]) = [root_cid |-> cid]
    BY CidRead DEF Json!StateTreeOf
<1> QED BY <1>1, <1>2 DEF Json!PostConditionsJson, Json!PostConditionsOf, Json!Each,
                          Json!ReceiptJson, Json!ReceiptOf, Json!Base64, Json!Base64Of

LEMMA AppliedRead ==
    ASSUME NEW bytes, NEW s, NEW j,
           s = <<[bytes |-> bytes, epoch_offset |-> None]>>, j = AppliedJson(s)
    PROVE  AppliedOf(j) = s
<1>1. DOMAIN s = {1} /\ s[1] = [bytes |-> bytes, epoch_offset |-> None]
    OBVIOUS
<1>2. j[1] = [bytes |-> Json!Base64(bytes), epoch_offset |-> None]
  <2>1. j[1] = [s[1] EXCEPT !.bytes = Json!Base64(s[1].bytes)]
      BY <1>1 DEF AppliedJson, Json!ApplyMessageJson
  <2> QED BY <1>1, <2>1
<1>3. Json!ApplyMessageOf(j[1]) = s[1]
    BY SMTT(30), <1>1, <1>2 DEF Json!ApplyMessageOf, Json!Field, Json!Base64, Json!Base64Of
<1> QED BY <1>1, <1>3 DEF AppliedJson, AppliedOf

LEMMA RandomnessRead ==
    ASSUME NEW kind, NEW dst, NEW epoch, NEW entropy, NEW ret, NEW s, NEW j,
           s = <<[on  |-> [kind |-> kind, dst |-> dst, epoch |-> epoch,
                           entropy |-> entropy],
                  ret |-> ret]>>,
           j = RulesJson(s)
    PROVE  RulesOf(j) = s
BY DEF RulesJson, RulesOf, Json!RandomnessJson, Json!RandomnessOf, Json!RuleJson, Json!RuleOf,
       Json!Base64, Json!Base64Of

LEMMA AddressesRead ==
    ASSUME NEW s \in Seq({Delegated(a) : a \in Address})
    PROVE  Json!AddressesOf(Json!AddressesJson(s)) = s
<1> DEFINE j == [k \in DOMAIN s |-> Json!AddressJson(s[k])]
<1>1. Json!AddressesJson(s) = j
    BY NoneAssumption DEF Json!AddressesJson, Json!Option, Json!Each
<1>2. j \in Seq({Json!AddressJson(Delegated(a)) : a \in Address})
    OBVIOUS
<1>3. Json!AddressesOf(j) = [k \in DOMAIN j |-> Json!AddressOf(j[k])]
    BY <1>2, NoneAssumption DEF Json!AddressesOf, Json!Option, Json!Each
<1>4. \A k \in DOMAIN s : Json!AddressOf(j[k]) = s[k]
    BY DEF Json!AddressOf, Json!AddressJson
<1> QED BY <1>1, <1>3, <1>4

LEMMA TipsetRead ==
    ASSUME NEW epoch, NEW cid, NEW x, x = [epoch |-> epoch, cid |-> cid]
    PROVE  Json!TipsetOf(Json!TipsetJson(x)) = x
<1>1. Json!TipsetJson(x) = [epoch |-> epoch, cid |-> Json!CidJson(cid)]
    BY DEF Json!TipsetJson
<1> DEFINE j == [epoch |-> epoch, cid |-> Json!CidJson(cid)]
<1>2. Json!TipsetOf(j) = [epoch |-> epoch, cid |-> Json!CidOf(Json!CidJson(cid))]
    BY DEF Json!TipsetOf
<1> QED BY <1>1, <1>2, CidRead

LEMMA TipsetsRead ==
    ASSUME NEW t \in Inputs
    PROVE  LET s == TipsetCids(t.block_hashes)
           IN  Json!TipsetsOf(Json!TipsetsJson(s)) = s
<1> DEFINE s == TipsetCids(t.block_hashes)
           j == [k \in DOMAIN s |-> Json!TipsetJson(s[k])]
           numbers == Ascending(DOMAIN t.block_hashes)
           epoch(k) == Signed(numbers[k])
           cid(k) == <<"identity", t.block_hashes[numbers[k]]>>
<1>1. s = [k \in DOMAIN numbers |-> [epoch |-> epoch(k), cid |-> cid(k)]]
    BY DEF TipsetCids
<1>2. s # None /\ Json!TipsetsJson(s) # None
    BY NoneAssumption
<1> HIDE DEF s, numbers, epoch, cid
<1>3. Json!TipsetsJson(s) = j
    BY <1>2 DEF Json!TipsetsJson, Json!Option, Json!Each
<1>4. Json!TipsetsOf(j) = [k \in DOMAIN j |-> Json!TipsetOf(j[k])]
    BY <1>2, <1>3 DEF Json!TipsetsOf, Json!Option, Json!Each
<1>5. ASSUME NEW k \in DOMAIN s PROVE Json!TipsetOf(j[k]) = s[k]
  <2>1. s[k] = [epoch |-> epoch(k), cid |-> cid(k)]
      BY <1>1
  <2> QED BY <2>1, TipsetRead
<1>6. s = [k \in DOMAIN s |-> s[k]]
    BY <1>1
<1> QED BY <1>3, <1>4, <1>5, <1>6 DEF s

(* Lists of a set of addresses have each of them once. *)
LEMMA SetToSeqLists ==
    ASSUME NEW S, IsFiniteSet(S)
    PROVE  SetToSeq(S) \in Seq(S) /\ Range(SetToSeq(S)) = S
<1> DEFINE n == Cardinality(S)
           f == SetToSeq(S)
<1>1. n \in Nat /\ ExistsBijection(1 .. n, S)
    BY FS_CardinalityType
<1>2. \E g \in [1 .. n -> S] : IsInjective(g)
    BY <1>1 DEF ExistsBijection, Bijection, Injection
<1>3. f \in [1 .. n -> S] /\ IsInjective(f)
    BY <1>2 DEF SetToSeq
<1>4. IsFiniteSet(1 .. n) /\ Cardinality(1 .. n) = n
    BY <1>1, FS_Interval
<1>5. f \in Surjection(1 .. n, S)
    BY <1>3, <1>4, FS_Injection DEF Injection
<1>6. Range(f) = S
    BY <1>3, <1>5 DEF Surjection, Range
<1> QED BY <1>1, <1>3, <1>6

(* the addresses to compare, as the vector lists them *)
LEMMA ComparedListed ==
    ASSUME VectorInv
    PROVE  LET s == SetToSeq(AdditionalCompareAddresses)
           IN  s \in Seq({Delegated(a) : a \in Address})
               /\ Range(s) = AdditionalCompareAddresses
<1> DEFINE A == AdditionalCompareAddresses
           D == {Delegated(a) : a \in Address}
<1>1. A \subseteq D
    BY DEF VectorInv, IndInv, AdditionalCompareAddresses
<1>2. IsFiniteSet(D)
  <2> DEFINE f == [a \in Address |-> Delegated(a)]
  <2>1. f \in Surjection(Address, D)
      BY DEF Surjection
  <2> QED BY <2>1, NoneAssumption, FS_Surjection
<1>3. IsFiniteSet(A)
    BY <1>1, <1>2, FS_Subset
<1>4. SetToSeq(A) \in Seq(A) /\ Range(SetToSeq(A)) = A
    BY <1>3, SetToSeqLists
<1>5. SetToSeq(A) \in Seq(D)
  <2> HIDE DEF A, D
  <2> QED BY <1>1, <1>4
<1> QED BY <1>4, <1>5

-----------------------------------------------------------------------------
(* The fields of a vector in memory, and the name of each in the file. *)

FileName(n) == IF n = "meta" THEN "_meta" ELSE n

Fields == {"class", "chain_id", "selector", "meta", "car", "preconditions",
           "apply_messages", "postconditions", "randomness",
           "skip_compare_gas_used", "skip_compare_addresses",
           "skip_compare_actor_ids", "additional_compare_addresses",
           "tipset_cids"}

(* the fields of the vector that are converted when they are written *)
LEMMA VectorFields ==
    LET v == TestVector
    IN  /\ DOMAIN v = Fields /\ v = [n \in Fields |-> v[n]]
        /\ v.car = <<"gzip", car>>
        /\ v.preconditions =
              [state_tree  |-> [root_cid |-> state_roots[1]],
               basefee     |-> None,
               circ_supply |-> None,
               variants    |-> <<[id |-> "test_evm", epoch |-> Epoch,
                                  timestamp |-> input.timestamp, nv |-> 18]>>]
        /\ v.apply_messages = <<[bytes |-> <<"cbor", message>>, epoch_offset |-> None]>>
        /\ v.postconditions = [state_tree |-> [root_cid |-> state_roots[2]],
                               receipts   |-> <<Receipt>>]
        /\ v.randomness = Randomness
        /\ v.skip_compare_addresses = <<message.from>>
        /\ v.additional_compare_addresses = SetToSeq(AdditionalCompareAddresses)
        /\ v.tipset_cids = TipsetCids(input.block_hashes)
BY SMT DEF TestVector, Fields

(* The whole file, from its parts *)
LEMMA FileRead ==
    ASSUME VectorInv, Written,
           NEW j, Json!Required \subseteq DOMAIN j, DOMAIN j \subseteq DOMAIN file,
           \A n \in DOMAIN j : j[n] = file[n]
    PROVE  LET r == Json!Decode(j)
           IN  /\ DOMAIN r = Fields /\ r = [n \in Fields |-> r[n]]
               /\ \A n \in Fields : IF FileName(n) \in DOMAIN j THEN r[n] = TestVector[n]
                                     ELSE r[n] \in {None, <<>>}
<1> DEFINE v == TestVector
           r == Json!Decode(j)
           rules == Json!Field(j, "randomness", <<>>)
           tipsets == Json!Field(j, "tipset_cids", None)
<1>1. file = Json!Encode(v) /\ message.from = Delegated(input.from) /\ input \in Inputs
    BY DEF VectorInv, Exporting, Written, IndInv, Building, ToMessage
<1>2. input.from \in Address
    BY <1>1, InputType
<1>3. r.car = v.car
  <2>1. j.car = Json!Base64(v.car)
      BY <1>1, EncodedFields DEF Json!Required
  <2>2. r.car = Json!Base64Of(j.car)
      BY DecodedFields
  <2> QED BY <2>1, <2>2 DEF Json!Base64, Json!Base64Of
<1>4. r.preconditions = v.preconditions
  <2>1. j.preconditions = Json!PreConditionsJson(v.preconditions)
      BY <1>1, EncodedFields DEF Json!Required
  <2>2. r.preconditions = Json!PreConditionsOf(j.preconditions)
      BY DecodedFields
  <2> QED BY <2>1, <2>2, VectorFields, PreConditionsRead
<1>5. r.apply_messages = v.apply_messages
  <2>1. j.apply_messages = AppliedJson(v.apply_messages)
      BY <1>1, EncodedFields DEF Json!Required
  <2>2. r.apply_messages = AppliedOf(j.apply_messages)
      BY DecodedFields
  <2>3. v.apply_messages = <<[bytes |-> <<"cbor", message>>, epoch_offset |-> None]>>
      BY VectorFields
  <2> HIDE DEF r, v
  <2>4. AppliedOf(AppliedJson(v.apply_messages)) = v.apply_messages
      BY <2>3, AppliedRead
  <2> QED BY <2>1, <2>2, <2>4
<1>6. r.postconditions = v.postconditions
  <2>1. j.postconditions = Json!PostConditionsJson(v.postconditions)
      BY <1>1, EncodedFields DEF Json!Required
  <2>2. r.postconditions = Json!PostConditionsOf(j.postconditions)
      BY DecodedFields
  <2> QED BY <2>1, <2>2, VectorFields, PostConditionsRead DEF Receipt
<1>7. IF "randomness" \in DOMAIN j THEN r.randomness = v.randomness
      ELSE r.randomness = <<>>
  <2>1. r.randomness = RulesOf(rules)
      BY DecodedFields
  <2>2. ASSUME "randomness" \in DOMAIN j PROVE r.randomness = v.randomness
    <3>1. rules = RulesJson(v.randomness)
        BY <1>1, <2>2, EncodedFields DEF Json!Field
    <3>2. v.randomness = Randomness
        BY VectorFields
    <3> QED BY <2>1, <3>1, <3>2, RandomnessRead DEF Randomness
  <2>3. ASSUME "randomness" \notin DOMAIN j PROVE r.randomness = <<>>
    <3>1. rules = <<>>
        BY <2>3 DEF Json!Field
    <3> QED BY <2>1, <3>1 DEF RulesOf
  <2> QED BY <2>2, <2>3
<1>8. r.skip_compare_addresses = v.skip_compare_addresses
  <2>1. j.skip_compare_addresses = Json!AddressesJson(v.skip_compare_addresses)
      BY <1>1, EncodedFields DEF Json!Required
  <2>2. r.skip_compare_addresses = Json!AddressesOf(j.skip_compare_addresses)
      BY DecodedFields
  <2>3. v.skip_compare_addresses \in Seq({Delegated(a) : a \in Address})
    <3>1. v.skip_compare_addresses = <<Delegated(input.from)>>
        BY <1>1, VectorFields
    <3> DEFINE D == {Delegated(a) : a \in Address}
    <3>2. Delegated(input.from) \in D
        BY <1>2
    <3> HIDE DEF D
    <3>3. <<Delegated(input.from)>> \in Seq(D)
        BY <3>2
    <3> QED BY <3>1, <3>3 DEF D
  <2> QED BY <2>1, <2>2, <2>3, AddressesRead
<1>9. r.additional_compare_addresses = v.additional_compare_addresses
  <2>1. j.additional_compare_addresses = Json!AddressesJson(v.additional_compare_addresses)
      BY <1>1, EncodedFields DEF Json!Required
  <2>2. r.additional_compare_addresses = Json!AddressesOf(j.additional_compare_addresses)
      BY DecodedFields
  <2>3. v.additional_compare_addresses \in Seq({Delegated(a) : a \in Address})
      BY ComparedListed, VectorFields
  <2> QED BY <2>1, <2>2, <2>3, AddressesRead
<1>10. IF "tipset_cids" \in DOMAIN j THEN r.tipset_cids = v.tipset_cids
       ELSE r.tipset_cids = None
  <2>1. r.tipset_cids = Json!TipsetsOf(tipsets)
      BY DecodedFields
  <2>2. ASSUME "tipset_cids" \in DOMAIN j PROVE r.tipset_cids = v.tipset_cids
    <3>1. tipsets = Json!TipsetsJson(v.tipset_cids)
        BY <1>1, <2>2, EncodedFields DEF Json!Field
    <3>2. v.tipset_cids = TipsetCids(input.block_hashes)
        BY VectorFields
    <3> QED BY <1>1, <2>1, <3>1, <3>2, TipsetsRead
  <2>3. ASSUME "tipset_cids" \notin DOMAIN j PROVE r.tipset_cids = None
    <3>1. tipsets = None
        BY <2>3 DEF Json!Field
    <3> QED BY <2>1, <3>1 DEF Json!TipsetsOf, Json!Option
  <2> QED BY <2>2, <2>3
<1>11. /\ r.class = v.class /\ r.skip_compare_gas_used = v.skip_compare_gas_used
  <2>1. j.class = v.class /\ j.skip_compare_gas_used = v.skip_compare_gas_used
      BY <1>1, EncodedFields DEF Json!Required
  <2> QED BY <2>1, DecodedFields
<1>12. /\ IF "chain_id" \in DOMAIN j THEN r.chain_id = v.chain_id ELSE r.chain_id = None
       /\ IF "selector" \in DOMAIN j THEN r.selector = v.selector ELSE r.selector = None
       /\ IF "_meta" \in DOMAIN j THEN r.meta = v.meta ELSE r.meta = None
       /\ IF "skip_compare_actor_ids" \in DOMAIN j
          THEN r.skip_compare_actor_ids = v.skip_compare_actor_ids
          ELSE r.skip_compare_actor_ids = None
  <2>1. /\ file.chain_id = v.chain_id /\ file.selector = v.selector
        /\ file._meta = v.meta /\ file.skip_compare_actor_ids = v.skip_compare_actor_ids
      BY <1>1, EncodedFields
  <2>2. /\ r.chain_id = Json!Field(j, "chain_id", None)
        /\ r.selector = Json!Field(j, "selector", None)
        /\ r.meta = Json!Field(j, "_meta", None)
        /\ r.skip_compare_actor_ids = Json!Field(j, "skip_compare_actor_ids", None)
      BY DecodedFields
  <2> HIDE DEF r, v
  <2> QED BY <2>1, <2>2 DEF Json!Field
<1>13. DOMAIN r = Fields /\ r = [n \in Fields |-> r[n]]
    BY DecodedFields DEF Fields
<1> HIDE DEF r, v
<1> SUFFICES ASSUME NEW n \in Fields
             PROVE  IF FileName(n) \in DOMAIN j THEN r[n] = v[n] ELSE r[n] \in {None, <<>>}
    BY <1>13 DEF r, v
<1> QED BY <1>3, <1>4, <1>5, <1>6, <1>7, <1>8, <1>9, <1>10, <1>11, <1>12
        DEF Fields, FileName, Json!Required

(* The properties of the vector from the invariant *)
LEMMA FileReads == VectorInv => ReadsBack
<1> SUFFICES ASSUME VectorInv, Written PROVE ReadsBack
    BY DEF ReadsBack
<1> DEFINE v == TestVector
<1>1. DOMAIN file = {FileName(n) : n \in Fields}
  <2>1. file = Json!Encode(v)
      BY DEF VectorInv, Exporting, Written
  <2>2. \A n : n \in DOMAIN file <=> n \in {FileName(m) : m \in Fields}
      BY <2>1, EncodedFields DEF Fields, FileName
  <2> QED BY <2>2
<1>2. Json!Required \subseteq DOMAIN file
    BY <1>1 DEF Json!Required, Fields, FileName
<1>3. v = [n \in Fields |-> v[n]] /\ DOMAIN v = Fields
    BY VectorFields
<1> HIDE DEF v
<1>4. Vector = v
  <2> DEFINE r == Json!Decode(file)
  <2>1. /\ r = [n \in Fields |-> r[n]]
        /\ \A n \in Fields : FileName(n) \in DOMAIN file => r[n] = v[n]
      BY <1>2, FileRead DEF v
  <2> HIDE DEF r
  <2>2. r = v
      BY <1>1, <1>3, <2>1
  <2> QED BY <2>2 DEF Vector, r
<1>5. ASSUME NEW name \in {"chain_id", "selector", "_meta", "randomness",
                          "skip_compare_actor_ids", "tipset_cids"}
      PROVE  LET read == Json!Decode(Without(file, name))
                 lost == IF name = "_meta" THEN "meta" ELSE name
             IN  /\ read[lost] \in {None, <<>>}
                 /\ Without(read, lost) = Without(v, lost)
  <2> DEFINE j == Without(file, name)
             read == Json!Decode(j)
             lost == IF name = "_meta" THEN "meta" ELSE name
  <2>1. DOMAIN j = DOMAIN file \ {name} /\ \A n \in DOMAIN j : j[n] = file[n]
      BY DEF Without
  <2>2. Json!Required \subseteq DOMAIN j
      BY <1>2, <2>1 DEF Json!Required
  <2> HIDE DEF j
  <2>3. /\ DOMAIN read = Fields
        /\ \A n \in Fields : IF FileName(n) \in DOMAIN j THEN read[n] = v[n]
                              ELSE read[n] \in {None, <<>>}
      BY <2>1, <2>2, FileRead DEF v
  <2> HIDE DEF read
  <2>4. lost \in Fields /\ FileName(lost) = name
      BY DEF Fields, FileName
  <2>5. \A n \in Fields \ {lost} : FileName(n) # name
      BY DEF Fields, FileName
  <2> HIDE DEF lost
  <2>6. read[lost] \in {None, <<>>}
      BY <2>1, <2>3, <2>4
  <2>7. \A n \in Fields \ {lost} : read[n] = v[n]
      BY <1>1, <2>1, <2>3, <2>5
  <2>8. Without(read, lost) = Without(v, lost)
      BY <1>3, <2>3, <2>7 DEF Without
  <2> QED BY <2>6, <2>8 DEF read, j, lost
<1>6. ASSUME NEW name \in {"skip_compare_addresses", "additional_compare_addresses"}
      PROVE  Json!Decode(Without(file, name)) = Malformed
  <2>1. ~(Json!Required \subseteq DOMAIN Without(file, name))
      BY DEF Json!Required, Without
  <2> QED BY <2>1 DEF Json!Decode
<1> QED BY <1>4, <1>5, <1>6 DEF ReadsBack, v

-----------------------------------------------------------------------------
(* What the file says, once it is there *)

(* Once a file is written: it has the fields of the vector. *)
LEMMA WhenWritten ==
    ASSUME VectorInv, Written
    PROVE  /\ input \in Inputs /\ SelfContained
           /\ Vector = TestVector
           /\ message = ToMessage
           /\ car = [roots |-> state_roots, blocks |-> mock.traced]
           /\ state_roots = <<<<"root", pre_actors>>, <<"root", post_actors>>>>
           /\ PreDone /\ PostDone
           /\ contract_addrs = DOMAIN input.prestate \ {input.from}
<1>1. ReadsBack
    BY FileReads
<1>2. stage = "written" /\ pc = "done"
    BY DEF VectorInv, Exporting, Written
<1>3. SelfContained
    BY StoreComplete DEF VectorInv
<1> QED BY <1>1, <1>2, <1>3
        DEF VectorInv, Exporting, ReadsBack, Written, IndInv, Building, Finished, Compared

(* What is read back from it is what was put in. *)
LEMMA FileSays ==
    ASSUME VectorInv, Written
    PROVE  /\ Applied = ToMessage
           /\ PreTree = pre_actors /\ PostTree = post_actors
           /\ Vector.car[2].roots = state_roots /\ Blocks = mock.traced
           /\ Vector.randomness = Randomness
           /\ Vector.preconditions.variants[1].epoch = Epoch
           /\ Vector.skip_compare_addresses = <<message.from>>
           /\ Vector.additional_compare_addresses = SetToSeq(AdditionalCompareAddresses)
<1> DEFINE v == TestVector
<1>1. Vector = v /\ message = ToMessage
    BY WhenWritten
<1>2. /\ car.roots = state_roots /\ car.blocks = mock.traced
      /\ state_roots[1][2] = pre_actors /\ state_roots[2][2] = post_actors
    BY WhenWritten
<1> HIDE DEF v
<1>3. Applied = ToMessage
    BY <1>1, VectorFields DEF v, Applied
<1>4. PreTree = pre_actors
    BY <1>1, <1>2, VectorFields DEF v, PreTree
<1>5. PostTree = post_actors
    BY <1>1, <1>2, VectorFields DEF v, PostTree
<1>6. Vector.car[2].roots = state_roots /\ Blocks = mock.traced
  <2>1. Vector.car = <<"gzip", car>>
      BY <1>1, VectorFields DEF v
  <2>2. Vector.car[2] = car
      BY <2>1
  <2> QED BY <1>2, <2>2 DEF Blocks
<1>7. Vector.preconditions.variants[1].epoch = Epoch
    BY <1>1, VectorFields DEF v
<1>8. /\ Vector.randomness = Randomness
      /\ Vector.skip_compare_addresses = <<message.from>>
      /\ Vector.additional_compare_addresses = SetToSeq(AdditionalCompareAddresses)
    BY <1>1, VectorFields DEF v
<1> QED BY <1>3, <1>4, <1>5, <1>6, <1>7, <1>8

(* Gas that has not panicked fits its integer. *)
LEMMA GasFits ==
    ASSUME NEW gas \in Nat, gas <= (Half - 1) \div Scale
    PROVE  GasLimit(gas) = Scale * gas
<1> DEFINE q == (Half - 1) \div Scale
<1>1. Half \in Nat /\ Half > 0 /\ Scale \in Nat /\ Scale > 0
    BY VectorAssumption
<1>2. q \in Nat /\ q * Scale <= Half - 1
    BY <1>1
<1>3. gas <= q
    OBVIOUS
<1> HIDE DEF q
<1>4. gas * Scale <= q * Scale
    BY <1>1, <1>2, <1>3
<1> DEFINE n == gas * Scale
<1>5. n \in Nat /\ n < Half
    BY <1>1, <1>2, <1>4
<1>6. Scale * gas = n
    BY <1>1
<1> HIDE DEF n
<1>7. n % (2 * Half) = n
    BY <1>1, <1>5
<1> QED BY <1>5, <1>6, <1>7 DEF GasLimit, Signed, n

(* the three kinds of message *)
LEMMA MessageFields ==
    /\ ToMessage.from = Delegated(input.from) /\ ToMessage.sequence = input.nonce
    /\ ToMessage.gas_limit = GasLimit(input.gas)
    /\ input.to = Zero =>
          /\ ToMessage.method_num = "Create" /\ ToMessage.to = Eam
          /\ ToMessage.params[2].nonce = input.nonce
    /\ input.to # Zero => ToMessage.to = Delegated(input.to)
BY DEF ToMessage, Recipient, CreateContract

LEMMA SenderFields ==
    ASSUME NEW t
    PROVE  SenderOf(t).code = "placeholder" /\ SenderOf(t).nonce = t.nonce
BY DEF SenderOf, Actor

LEMMA FileRuns == VectorInv => VectorRuns
<1> SUFFICES ASSUME VectorInv, Written PROVE VectorRuns
    BY DEF VectorRuns
<1> DEFINE t == input
           m == ToMessage
<1>1. /\ t \in Inputs /\ SelfContained
      /\ state_roots = <<<<"root", pre_actors>>, <<"root", post_actors>>>>
      /\ Indexed(pre_actors) /\ Holds(t, pre_actors, Mocked(t), {})
    BY WhenWritten DEF PreDone
<1>2. /\ Applied = m /\ PreTree = pre_actors /\ PostTree = post_actors
      /\ Vector.car[2].roots = state_roots /\ Blocks = mock.traced
      /\ Vector.randomness = Randomness
      /\ Vector.preconditions.variants[1].epoch = Epoch
    BY FileSays
<1>3. /\ m.from = Delegated(t.from) /\ m.sequence = t.nonce
      /\ m.gas_limit = GasLimit(t.gas)
      /\ t.to = Zero => /\ m.method_num = "Create" /\ m.to = Eam
                        /\ m.params[2].nonce = t.nonce
      /\ t.to # Zero => m.to = Delegated(t.to)
    BY MessageFields
<1> HIDE DEF m
<1>4. /\ Range(state_roots) \subseteq mock.traced
      /\ \A block \in mock.traced : Links(block) \subseteq mock.traced
    BY <1>1 DEF SelfContained
<1>5. LET sender == ActorOf(pre_actors, t.from)
      IN  sender.code = "placeholder" /\ sender.nonce = m.sequence
    BY <1>1, <1>3, SenderFields DEF Holds
<1>6. ASSUME t.to = Zero
      PROVE  /\ m.method_num = "Create" /\ Actors(pre_actors)[m.to[2]].code = "eam"
             /\ ~Known(pre_actors, Created) /\ m.params[2].nonce = m.sequence
  <2>1. Actors(pre_actors)[10].code = "eam"
      BY <1>1 DEF Indexed
  <2>2. t.from # Created
      BY <1>1, <1>6, VectorAssumption
  <2>3. Created \notin Mocked(t)
      BY <1>6 DEF Mocked, CreatedBy
  <2> QED BY <1>1, <1>3, <1>6, <2>1, <2>2, <2>3 DEF Holds, Eam
<1>7. ASSUME t.to # Zero, t.to \in DOMAIN t.prestate
      PROVE  Known(pre_actors, m.to[2])
  <2>1. m.to[2] = t.to
      BY <1>3, <1>7 DEF Delegated
  <2>2. t.to = t.from \/ t.to \in Mocked(t)
      BY <1>7 DEF Mocked, CreatedBy
  <2> QED BY <1>1, <2>1, <2>2 DEF Holds
<1>8. Randomness[1].on.epoch = Epoch
    BY DEF Randomness
<1>9. t.gas <= (Half - 1) \div Scale => m.gas_limit = Scale * t.gas
    BY <1>1, <1>3, GasFits, TransactionType
<1> QED BY <1>1, <1>2, <1>3, <1>4, <1>5, <1>6, <1>7, <1>8, <1>9 DEF VectorRuns

(* The accounts of the first loop are those of the second, for such a poststate. *)
LEMMA CoveredAccounts ==
    ASSUME NEW t \in Inputs, Covers(t.poststate, t.prestate)
    PROVE  /\ DOMAIN t.poststate = DOMAIN t.prestate
           /\ Mocked(t) \subseteq Changed(t)
           /\ Changed(t) = DOMAIN t.prestate \ {t.from}
BY DEF Covers, Mocked, Changed

LEMMA FileCompares == VectorInv => AllCompared
<1> SUFFICES ASSUME VectorInv, Written, Covers(input.poststate, input.prestate)
             PROVE  AllCompared
    BY DEF AllCompared
<1> DEFINE t == input
           compared == Range(Vector.additional_compare_addresses)
           skipped  == Range(Vector.skip_compare_addresses)
<1>1. /\ t \in Inputs /\ contract_addrs = DOMAIN t.prestate \ {t.from}
      /\ message = ToMessage /\ Holds(t, post_actors, Mocked(t), Changed(t))
    BY WhenWritten DEF PostDone
<1>2. compared = {Delegated(a) : a \in contract_addrs} \ {message.to}
    BY FileSays, ComparedListed DEF AdditionalCompareAddresses
<1>3. skipped = {Delegated(t.from)}
  <2>1. Vector.skip_compare_addresses = <<Delegated(t.from)>>
      BY <1>1, FileSays, MessageFields
  <2> QED BY <2>1 DEF Range
<1>4. Applied = message /\ PostTree = post_actors
    BY <1>1, FileSays
<1>5. /\ DOMAIN t.poststate = DOMAIN t.prestate
      /\ Mocked(t) \subseteq Changed(t) /\ Changed(t) = contract_addrs
    BY <1>1, CoveredAccounts
<1> HIDE DEF compared, skipped
<1>6. {Delegated(a) : a \in DOMAIN t.poststate} \subseteq compared \cup skipped \cup {message.to}
    BY <1>1, <1>2, <1>3, <1>5
<1>7. compared \cap skipped = {}
    BY <1>1, <1>2, <1>3 DEF Delegated
<1>8. ASSUME NEW address \in compared
      PROVE  Known(post_actors, address[2])
  <2>1. PICK a \in contract_addrs : address = Delegated(a)
      BY <1>2
  <2>2. address[2] = a
      BY <2>1 DEF Delegated
  <2> QED BY <1>1, <1>5, <2>2 DEF Holds
<1> QED BY <1>4, <1>6, <1>7, <1>8 DEF AllCompared, compared, skipped

-----------------------------------------------------------------------------
(* What get_evm_actors_slots finds *)

(* the accounts that a root has an actor for, with an Ethereum address *)
LEMMA ActorsOfRoot ==
    ASSUME NEW root, Indexed(root)
    PROVE  /\ \A x \in Range(Actors(root)) :
                 \/ x.predictable_address = None
                 \/ LET a == x.predictable_address
                    IN  a \in Address /\ Known(root, a) /\ x = ActorOf(root, a)
           /\ \A a : Known(root, a) =>
                 /\ a \in Address /\ ActorOf(root, a) \in Range(Actors(root))
                 /\ ActorOf(root, a).predictable_address = a
<1>1. ASSUME NEW id \in DOMAIN Actors(root)
      PROVE  LET x == Actors(root)[id]
                 a == x.predictable_address
             IN  a = None \/ (a \in Address /\ Known(root, a) /\ x = ActorOf(root, a))
    BY DEF Indexed, ActorOf
<1>2. ASSUME NEW a, Known(root, a)
      PROVE  /\ a \in Address /\ ActorOf(root, a) \in Range(Actors(root))
             /\ ActorOf(root, a).predictable_address = a
  <2> DEFINE k  == Delegated(a)
             id == AddressMap(root)[k]
  <2>1. /\ id \in DOMAIN Actors(root) /\ id >= FirstId
        /\ k = <<k[1], Actors(root)[id].predictable_address>>
      BY <1>2 DEF Indexed, Known
  <2>2. ActorOf(root, a) = Actors(root)[id]
      BY DEF ActorOf, IdOf
  <2> HIDE DEF id
  <2>3. Actors(root)[id].predictable_address = a
      BY <2>1 DEF Delegated
  <2>4. id \in Nat /\ ~(id < FirstId)
      BY <2>1 DEF Indexed, FirstId
  <2>5. Actors(root)[id].predictable_address \in Address
      BY <2>1, <2>4 DEF Indexed
  <2> QED BY <2>1, <2>2, <2>3, <2>5 DEF Range
<1> QED BY <1>1, <1>2 DEF Range

(***************************************************************************)
(* The accounts of a root are the sender, without code, and contracts with *)
(* some slots.                                                             *)
(***************************************************************************)
HasContracts(m, root, t, S, slots) ==
    /\ Indexed(root)
    /\ \A b : Known(root, b) <=> b = t.from \/ b \in S
    /\ ActorOf(root, t.from) = SenderOf(t)
    /\ \A a \in S : /\ ActorOf(root, a).head[1] = "evm"
                    /\ ActorOf(root, a).head[2].contract_state[2] = slots[a]
                    /\ ActorOf(root, a).head \in m.base

(* the slots of those that have any *)
NonEmpty(S, slots) == [a \in {a \in S : slots[a] # <<>>} |-> slots[a]]

(* A slot that a root has for a contract is found from the file. *)
LEMMA SlotsFound ==
    ASSUME NEW m, NEW root, NEW t, NEW S, NEW slots, HasContracts(m, root, t, S, slots)
    PROVE  EvmActorsSlots(m, root) = NonEmpty(S, slots)
<1> DEFINE evm == {actor \in Range(Actors(root)) :
                     /\ actor.head \in m.base /\ actor.head[1] = "evm"
                     /\ actor.predictable_address # None
                     /\ actor.head[2].contract_state[2] # <<>>}
           of(a) == CHOOSE actor \in evm : actor.predictable_address = a
           shown == {a \in S : slots[a] # <<>>}
<1>0. /\ Indexed(root)
      /\ \A b : Known(root, b) <=> b = t.from \/ b \in S
      /\ ActorOf(root, t.from) = SenderOf(t)
      /\ \A a \in S : /\ ActorOf(root, a).head[1] = "evm"
                      /\ ActorOf(root, a).head[2].contract_state[2] = slots[a]
                      /\ ActorOf(root, a).head \in m.base
    BY DEF HasContracts
<1>1. ActorOf(root, t.from).head[1] = "array"
    BY <1>0 DEF SenderOf, Actor, EmptyArr
<1>2. \A x \in Range(Actors(root)) :
          \/ x.predictable_address = None
          \/ LET a == x.predictable_address
             IN  a \in Address /\ Known(root, a) /\ x = ActorOf(root, a)
    BY <1>0, ActorsOfRoot
<1>3. \A a : Known(root, a) =>
          /\ a \in Address /\ ActorOf(root, a) \in Range(Actors(root))
          /\ ActorOf(root, a).predictable_address = a
    BY <1>0, ActorsOfRoot
<1>4. ASSUME NEW a \in S PROVE a # None /\ Known(root, a)
    BY <1>0, <1>3, NoneAssumption
<1>5. ASSUME NEW a \in shown PROVE ActorOf(root, a) \in evm /\ of(a) = ActorOf(root, a)
  <2>1. ActorOf(root, a) \in evm /\ ActorOf(root, a).predictable_address = a
      BY <1>0, <1>3, <1>4
  <2>2. \A x \in evm : x.predictable_address = a => x = ActorOf(root, a)
      BY <1>2
  <2> HIDE DEF evm
  <2> QED BY <2>1, <2>2
<1>6. ASSUME NEW x \in evm PROVE x.predictable_address \in shown
  <2>1. /\ x \in Range(Actors(root)) /\ x.head[1] = "evm"
        /\ x.predictable_address # None
        /\ x.head[2].contract_state[2] # <<>>
      OBVIOUS
  <2> HIDE DEF evm
  <2> DEFINE a == x.predictable_address
  <2>2. Known(root, a) /\ x = ActorOf(root, a)
      BY <1>2, <2>1
  <2> HIDE DEF a
  <2>3. a \in S
      BY <1>0, <1>1, <2>1, <2>2
  <2> QED BY <1>0, <2>1, <2>2, <2>3 DEF a
<1>7. {actor.predictable_address : actor \in evm} = shown
  <2>1. \A a \in shown : a \in {actor.predictable_address : actor \in evm}
      BY <1>3, <1>4, <1>5
  <2> QED BY <1>6, <2>1
<1>8. EvmActorsSlots(m, root)
         = [a \in {actor.predictable_address : actor \in evm} |->
               of(a).head[2].contract_state[2]]
    BY SMTT(30) DEF EvmActorsSlots
<1>9. \A a \in shown : of(a).head[2].contract_state[2] = slots[a]
    BY <1>0, <1>5
<1> HIDE DEF evm, of
<1> QED BY <1>7, <1>8, <1>9 DEF NonEmpty

(* The heads of a root that was traced are in the store. *)
LEMMA HeadsStored ==
    ASSUME VectorInv, NEW root, Indexed(root), root \in mock.traced, NEW a, Known(root, a)
    PROVE  ActorOf(root, a).head \in mock.base
<1>1. ActorOf(root, a) \in Range(Actors(root))
    BY ActorsOfRoot
<1>2. Links(root) = {actor.head : actor \in Range(Actors(root))}
  <2>1. root[1] = "actors"
      BY DEF Indexed
  <2> QED BY <2>1 DEF Links
<1>3. Links(root) \subseteq mock.traced /\ mock.traced \subseteq mock.base
    BY StoreComplete DEF VectorInv, SelfContained
<1> QED BY <1>1, <1>2, <1>3

(* What the head of a contract's actor says of its slots. *)
LEMMA ActorWithSlots ==
    ASSUME NEW slots, NEW account, NEW a
    PROVE  LET x == ActorWith(slots, account, a)
           IN  x.head[1] = "evm" /\ x.head[2].contract_state[2] = slots
BY DEF ActorWith, Actor, EvmHead

LEMMA RootsTraced ==
    ASSUME VectorInv, pc = "done"
    PROVE  pre_actors \in mock.traced /\ post_actors \in mock.traced
<1>1. state_roots = <<<<"root", pre_actors>>, <<"root", post_actors>>>>
      /\ Range(state_roots) \subseteq mock.traced
    BY DEF VectorInv, IndInv, Finished
<1>2. <<"root", pre_actors>> \in mock.traced /\ <<"root", post_actors>> \in mock.traced
    BY <1>1 DEF Range
<1>3. \A block \in mock.traced : Links(block) \subseteq mock.traced
    BY StoreComplete DEF VectorInv, SelfContained
<1>4. \A x : Links(<<"root", x>>) = {x, EmptyArr}
    BY DEF Links
<1> QED BY <1>2, <1>3, <1>4

LEMMA FileSlots == VectorInv => SlotsReadBack
<1> SUFFICES ASSUME VectorInv, stage = "written" PROVE SlotsReadBack
    BY DEF SlotsReadBack
<1> DEFINE t == input
           pre  == [a \in Mocked(t) |-> PreSlots(t, a)]
           post == [a \in Changed(t) |-> PostSlots(t, a)]
<1>1. pc = "done" /\ t \in Inputs /\ PreDone /\ PostDone
    BY DEF VectorInv, Exporting, IndInv, Building, Finished
<1>2. pre_actors \in mock.traced /\ post_actors \in mock.traced
    BY <1>1, RootsTraced
<1>3. t.from \in Address /\ Mocked(t) \subseteq DOMAIN t.prestate
      /\ t.from \notin Mocked(t) /\ t.from \notin Changed(t)
    BY <1>1, InputType DEF Mocked, Changed
<1>4. EvmActorsSlots(mock, pre_actors) = Storages(pre_actors, t.prestate)
  <2>1. Indexed(pre_actors) /\ Holds(t, pre_actors, Mocked(t), {})
      BY <1>1 DEF PreDone
  <2>2. ASSUME NEW a \in Mocked(t)
        PROVE  /\ ActorOf(pre_actors, a).head[1] = "evm"
               /\ ActorOf(pre_actors, a).head[2].contract_state[2] = pre[a]
               /\ ActorOf(pre_actors, a).head \in mock.base
    <3>1. Known(pre_actors, a) /\ ActorOf(pre_actors, a) = PreActor(t, a)
        BY <2>1 DEF Holds
    <3> QED BY <1>2, <2>1, <3>1, HeadsStored, ActorWithSlots DEF PreActor
  <2>3. \A b : Known(pre_actors, b) <=> b = t.from \/ b \in Mocked(t)
      BY <2>1 DEF Holds
  <2>4. ActorOf(pre_actors, t.from) = SenderOf(t)
      BY <2>1 DEF Holds
  <2>5. EvmActorsSlots(mock, pre_actors) = NonEmpty(Mocked(t), pre)
    <3>1. HasContracts(mock, pre_actors, t, Mocked(t), pre)
        BY <2>1, <2>2, <2>3, <2>4 DEF HasContracts
    <3> HIDE DEF pre
    <3> QED BY <3>1, SlotsFound
  <2>6. \A a \in Mocked(t) : pre[a] = Nonzero(t.prestate[a].storage)
      BY <1>1, <1>3, InputType, AccountType, FreshSlots DEF PreSlots
  <2>7. {a \in DOMAIN t.prestate \ {t.from} :
            Known(pre_actors, a) /\ Nonzero(t.prestate[a].storage) # <<>>}
           = {a \in Mocked(t) : pre[a] # <<>>}
      BY <1>3, <2>3, <2>6
  <2> HIDE DEF pre
  <2> QED BY <2>5, <2>6, <2>7 DEF Storages, NonEmpty
<1>5. ASSUME Covers(t.poststate, t.prestate)
      PROVE  EvmActorsSlots(mock, post_actors) = Storages(post_actors, t.poststate)
  <2>1. Indexed(post_actors) /\ Holds(t, post_actors, Mocked(t), Changed(t))
      BY <1>1 DEF PostDone
  <2>2. ASSUME NEW a \in Changed(t)
        PROVE  /\ ActorOf(post_actors, a).head[1] = "evm"
               /\ ActorOf(post_actors, a).head[2].contract_state[2] = post[a]
               /\ ActorOf(post_actors, a).head \in mock.base
    <3>1. Known(post_actors, a) /\ ActorOf(post_actors, a) = PostActor(t, a)
        BY <2>1 DEF Holds
    <3> QED BY <1>2, <2>1, <3>1, HeadsStored, ActorWithSlots DEF PostActor
  <2>3. \A b : Known(post_actors, b) <=> b = t.from \/ b \in Changed(t)
      BY <1>1, <1>5, <2>1, CoveredAccounts DEF Holds
  <2>4. ActorOf(post_actors, t.from) = SenderOf(t)
      BY <2>1 DEF Holds
  <2>5. EvmActorsSlots(mock, post_actors) = NonEmpty(Changed(t), post)
    <3>1. HasContracts(mock, post_actors, t, Changed(t), post)
        BY <2>1, <2>2, <2>3, <2>4 DEF HasContracts
    <3> HIDE DEF post
    <3> QED BY <3>1, SlotsFound
  <2>6. \A a \in Changed(t) : post[a] = Nonzero(t.poststate[a].storage)
      BY <1>1, <1>5, PostSlotsAre
  <2>7. {a \in DOMAIN t.poststate \ {t.from} :
            Known(post_actors, a) /\ Nonzero(t.poststate[a].storage) # <<>>}
           = {a \in Changed(t) : post[a] # <<>>}
      BY <2>3, <2>6 DEF Changed
  <2> HIDE DEF post
  <2> QED BY <2>5, <2>6, <2>7 DEF Storages, NonEmpty
<1> QED BY <1>4, <1>5 DEF SlotsReadBack

-----------------------------------------------------------------------------
(* The results *)

(***************************************************************************)
(* Serde's two directions fit: any file the export writes reads back as    *)
(* the vector that was in memory, without the fields that may be missing   *)
(* as far as it can, and not without a required one.                       *)
(***************************************************************************)
THEOREM FileReadsBack == VectorSpec => []ReadsBack
BY VectorInvariance, FileReads, PTL

(***************************************************************************)
(* Whoever runs a vector the export wrote finds in it what the message of  *)
(* to_message needs: its car, its sender, its recipient, its gas.          *)
(***************************************************************************)
THEOREM VectorsRun == VectorSpec => []VectorRuns
BY VectorInvariance, FileRuns, PTL

(***************************************************************************)
(* additional_compare_addresses leaves out no account of the poststate,    *)
(* and lists none that the second tree does not know.                      *)
(***************************************************************************)
THEOREM EverythingIsCompared == VectorSpec => []AllCompared
BY VectorInvariance, FileCompares, PTL

(***************************************************************************)
(* get_evm_actors_slots reads from the two roots the slots of the prestate *)
(* and of the poststate.                                                   *)
(***************************************************************************)
THEOREM SlotsAreRead == VectorSpec => []SlotsReadBack
BY VectorInvariance, FileSlots, PTL

================================================================================
