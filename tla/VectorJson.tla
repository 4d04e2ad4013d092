------------------------------ MODULE VectorJson ------------------------------
(***************************************************************************)
(* The file of a test vector (src/src/vector.rs, src/src/cidjson.rs): how  *)
(* a TestVector is written as JSON and read back.  A JSON object is a      *)
(* function from the names of its fields, an array a sequence, null is     *)
(* None; a text is tagged with the encoding that made it.                  *)
(***************************************************************************)
EXTENDS Naturals, SequencesExt

CONSTANTS
    None,       \* Option::None, and null
    Malformed   \* the error of from_reader

Each(Op(_), s) == [j \in DOMAIN s |-> Op(s[j])]

(* Option<Vec<..>> *)
Option(Op(_), s) == IF s = None THEN None ELSE Each(Op, s)

(* #[serde(default)], and an Option without "with": the field may be missing *)
Field(object, name, default) ==
    IF name \in DOMAIN object THEN object[name] ELSE default

-----------------------------------------------------------------------------
(* The encodings of single values, and their inverses *)

Base64(bytes)  == <<"base64", bytes>>
Base64Of(json) == json[2]

(* {"/": "bafy..."} *)
CidJson(cid) == [name \in {"/"} |-> <<"cid", cid>>]
CidOf(json)  == json["/"][2]

AddressJson(address) == <<"address", address>>
AddressOf(json)      == json[2]

StateTreeJson(tree) == [tree EXCEPT !.root_cid = CidJson(@)]
StateTreeOf(json)   == [json EXCEPT !.root_cid = CidOf(@)]

ApplyMessageJson(applied) == [applied EXCEPT !.bytes = Base64(@)]
ApplyMessageOf(json) ==
    [bytes        |-> Base64Of(json.bytes),
     epoch_offset |-> Field(json, "epoch_offset", None)]

(* Serialize_tuple: the fields of a rule are the elements of an array. *)
RuleJson(rule) == <<rule.kind, rule.dst, rule.epoch, Base64(rule.entropy)>>
RuleOf(json) ==
    [kind |-> json[1], dst |-> json[2], epoch |-> json[3],
     entropy |-> Base64Of(json[4])]

RandomnessJson(match) == [on |-> RuleJson(match.on), ret |-> Base64(match.ret)]
RandomnessOf(json)    == [on |-> RuleOf(json.on), ret |-> Base64Of(json.ret)]

TipsetJson(tipset) == [tipset EXCEPT !.cid = CidJson(@)]
TipsetOf(json)     == [json EXCEPT !.cid = CidOf(@)]

(* MessageReceiptVector: the root of the events is not written. *)
ReceiptJson(receipt) ==
    [exit_code |-> receipt.exit_code, return |-> Base64(receipt.return_data),
     gas_used  |-> receipt.gas_used]
ReceiptOf(json) ==
    [exit_code |-> json.exit_code, return_data |-> Base64Of(json.return),
     gas_used  |-> json.gas_used, events_root |-> None]

(* mutant: the variants, which a reader may miss, are skipped by the writer *)
PreConditionsJsonSkipping(pre) ==
    [state_tree |-> StateTreeJson(pre.state_tree), basefee |-> pre.basefee,
     circ_supply |-> pre.circ_supply]

PreConditionsJson(pre) == [pre EXCEPT !.state_tree = StateTreeJson(@)]
PreConditionsOf(json) ==
    [state_tree  |-> StateTreeOf(json.state_tree),
     basefee     |-> Field(json, "basefee", None),
     circ_supply |-> Field(json, "circ_supply", None),
     variants    |-> Field(json, "variants", <<>>)]

PostConditionsJson(post) ==
    [state_tree |-> StateTreeJson(post.state_tree),
     receipts   |-> Each(ReceiptJson, post.receipts)]
PostConditionsOf(json) ==
    [state_tree |-> StateTreeOf(json.state_tree),
     receipts   |-> Each(ReceiptOf, json.receipts)]

AddressesJson(addresses) == Option(AddressJson, addresses)
AddressesOf(json)        == Option(AddressOf, json)

TipsetsJson(tipsets) == Option(TipsetJson, tipsets)
TipsetsOf(json)      == Option(TipsetOf, json)

-----------------------------------------------------------------------------
(* The whole vector *)

Encode(v) ==
    [class                  |-> v.class,
     chain_id               |-> v.chain_id,
     selector               |-> v.selector,
     _meta                  |-> v.meta,
     car                    |-> Base64(v.car),
     preconditions          |-> PreConditionsJson(v.preconditions),
     apply_messages         |-> Each(ApplyMessageJson, v.apply_messages),
     postconditions         |-> PostConditionsJson(v.postconditions),
     randomness             |-> Each(RandomnessJson, v.randomness),
     skip_compare_gas_used  |-> v.skip_compare_gas_used,
     skip_compare_addresses |-> AddressesJson(v.skip_compare_addresses),
     skip_compare_actor_ids |-> v.skip_compare_actor_ids,
     additional_compare_addresses |->
        AddressesJson(v.additional_compare_addresses),
     tipset_cids            |-> TipsetsJson(v.tipset_cids)]

(* An Option that is read "with" a function of its own has to be there. *)
Required ==
    {"class", "car", "preconditions", "apply_messages", "postconditions",
     "skip_compare_gas_used", "skip_compare_addresses",
     "additional_compare_addresses"}

Decode(json) ==
    IF ~(Required \subseteq DOMAIN json) THEN Malformed ELSE
    [class                  |-> json.class,
     chain_id               |-> Field(json, "chain_id", None),
     selector               |-> Field(json, "selector", None),
     meta                   |-> Field(json, "_meta", None),
     car                    |-> Base64Of(json.car),
     preconditions          |-> PreConditionsOf(json.preconditions),
     apply_messages         |-> Each(ApplyMessageOf, json.apply_messages),
     postconditions         |-> PostConditionsOf(json.postconditions),
     randomness             |-> Each(RandomnessOf, Field(json, "randomness", <<>>)),
     skip_compare_gas_used  |-> json.skip_compare_gas_used,
     skip_compare_addresses |-> AddressesOf(json.skip_compare_addresses),
     skip_compare_actor_ids |-> Field(json, "skip_compare_actor_ids", None),
     additional_compare_addresses |->
        AddressesOf(json.additional_compare_addresses),
     tipset_cids            |-> TipsetsOf(Field(json, "tipset_cids", None))]
=============================================================================
