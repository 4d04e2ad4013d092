------------------------------ MODULE MCReplay ------------------------------
(***************************************************************************)
(* AnyReplay under answers no consistent node gives: depths that jump,     *)
(* unknown accounts, operands missing from the stack.                      *)
(***************************************************************************)
EXTENDS AnyReplay

CONSTANTS snd, p, stranger, zero, k, k2, d0, d1, c0, c1, word, MaxTrace

MCAddress == {snd, p, stranger, zero}
MCWord    == {p, word}
MCKey     == {k, k2}
MCData    == {d0, d1}
MCCode    == {c0, c1}

Account(balance, slots) ==
    [nonce |-> 0, balance |-> balance, code |-> c0, storage |-> [x \in slots |-> d0]]

MCPrestates == {(snd :> Account(3, {}) @@ p :> Account(1, {k2})),
                (snd :> Account(0, {}))}

MCTransactions ==
    {[from |-> f, to |-> t, value |-> v, gas |-> 1, gas_price |-> 1] :
        f \in {snd, stranger}, t \in {p, None}, v \in {0, 1}}

Entry(op, d, err, a, v, w, short) ==
    [op |-> op, depth |-> d, error |-> err, unreadable |-> short, top |-> w,
     address |-> a, amount |-> v, key |-> k, data |-> d1]

MCLogs ==
    {Entry(op, d, FALSE, p, 1, p, FALSE) :
        op \in {"SSTORE", "CALL", "STATICCALL", "CREATE", "SELFDESTRUCT",
                "BLOCKHASH", "REVERT"}, d \in 1 .. 3}
    \cup {Entry(op, d, TRUE, stranger, 2, word, FALSE) :
        op \in {"CALL", "DELEGATECALL", "REVERT", "OTHER"}, d \in 1 .. 2}
    \cup {Entry("CALL", 1, FALSE, snd, 3, p, FALSE)}
    \cup {Entry("SSTORE", 1, TRUE, p, 0, None, TRUE)}

Traces == UNION {[1 .. n -> MCLogs] : n \in 0 .. MaxTrace}

Answer(tx, pre, logs, used) ==
    [transaction |-> tx,
     block       |-> [number |-> 1, hash |-> word],
     prestate    |-> pre,
     trace       |-> [failed |-> FALSE, gas |-> used, struct_logs |-> logs]]

(* every way to start with a short trace, and every trace from one start *)
MCAnswers ==
    {Answer(tx, pre, logs, used) : tx \in MCTransactions, pre \in MCPrestates,
        logs \in {t \in Traces : Len(t) <= 1}, used \in {1, 2}}
    \cup
    {Answer([from |-> snd, to |-> p, value |-> 1, gas |-> 1, gas_price |-> 1],
            (snd :> Account(3, {}) @@ p :> Account(1, {k2})), logs, 1) :
        logs \in Traces}
=============================================================================
