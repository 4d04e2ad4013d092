---------------------------- MODULE MCExportVector ----------------------------
(***************************************************************************)
(* The small transactions of MCStateTree, all with the same fields, and a  *)
(* few of them with fields at their limits: integers are 24 bits wide,     *)
(* Half is 2^23, so that 8 is the most gas an i64 can say, and 16 a u64.   *)
(***************************************************************************)
EXTENDS ExportVector, MCStateTree

CONSTANTS calldata, hash, h1, h2

Fields(data, value, gas, fees, hashes) ==
    [hash |-> hash, chain_id |-> 1, value |-> value, data |-> data, gas |-> gas,
     max_fee_per_gas |-> fees[1], max_priority_fee_per_gas |-> fees[2],
     return_value |-> calldata, block_number |-> 12, block_hashes |-> hashes,
     random |-> 700, timestamp |-> 5]

Plain == Fields(calldata, 10, 8, <<16, 2>>, (11 :> h1) @@ (9 :> h2))

Gas == {0, 8, 9, 16, 17, 2 * Half}

Unusual ==
    {Fields(data, value, gas, fees, hashes) :
        data \in {NoData, calldata}, value \in {0, 16}, gas \in Gas,
        fees \in {<<None, None>>, <<16, 2>>},
        hashes \in {[n \in {} |-> h1], 11 :> h1}}

(* sender, recipient and third account as they are made above *)
OfTo(to) ==
    CHOOSE t \in SmallInputs :
        /\ t.to = to
        /\ DOMAIN t.prestate = {from, con, new} /\ DOMAIN t.poststate = {from, con, new}
        /\ t.prestate[con].storage = [k \in Keys |-> d1]
        /\ t.poststate[con].storage = [k \in Keys |-> d2]

(* and a sender that pays itself *)
ToItself == [OfTo(con) EXCEPT !.to = from]

(* and numbers that are not u64, or not i64 *)
Large ==
    LET t == OfTo(con) @@ Plain
    IN  {[t EXCEPT !.timestamp = 2 * Half], [t EXCEPT !.chain_id = 2 * Half],
         [t EXCEPT !.block_number = Half]}

Transactions ==
    {t @@ Plain : t \in SmallInputs}
      \cup {t @@ fields : t \in {OfTo(con), OfTo(zero), ToItself},
                          fields \in Unusual}
      \cup Large
=============================================================================
