------------------------------- MODULE GethEvm -------------------------------
(***************************************************************************)
(* The Geth node the extractor asks: an EVM executing one transaction and  *)
(* its struct logger.  It is no part of the repository; the model is the   *)
(* node as transaction.rs uses it: the logs it reads, the calls it says    *)
(* fail "without any error", the snapshots it says go back to the state    *)
(* before the value transfer, the addresses it expects in the prestate.    *)
(*                                                                         *)
(* What a contract may execute, and the ways its calls may fail, are       *)
(* constants, so that a run chooses which part of the EVM it is about.     *)
(***************************************************************************)
EXTENDS StructLogs, SequencesExt

CONSTANTS
    Program,        \* [Address -> set of instructions its code may execute]
    Transactions,   \* the transactions to choose from
    Prestate,       \* the accounts before the transaction
    Faults,         \* the <<opcode, error>> a log that fails its call may have
    FailingPrecompiles,     \* accounts without code whose calls may fail
    CreateAddress(_, _),    \* address of a creation, by creator and nonce
    Deployed,       \* [Address -> the code a successful creation leaves there]
    BlockHash,      \* [known block numbers -> their hashes]
    One,            \* the word a successful call pushes
    MaxLogs         \* bound on the length of a trace

VARIABLES
    tx,             \* the transaction, None before it starts
    world,          \* the accounts
    destructed,     \* the accounts to delete when the transaction ends
    frames,         \* the open calls
    logs,           \* the struct logs so far
    verdict         \* [failed, gas] of the trace, None until it ends

gethVars == <<tx, world, destructed, frames, logs, verdict>>

GethInit ==
    /\ tx = None
    /\ world = Prestate
    /\ destructed = {}
    /\ frames = <<>>
    /\ logs = <<>>
    /\ verdict = None

(***************************************************************************)
(* A call: the account it acts for, the account whose code it runs, the    *)
(* address it is to create, and what a failure goes back to.               *)
(***************************************************************************)
Frame(self, code, creates, readonly, undo) ==
    [self |-> self, code |-> code, creates |-> creates, readonly |-> readonly,
     undo |-> undo, top |-> None]

Journal == [world |-> world, destructed |-> destructed]

Pay(state, from, to, v) == IF v = 0 THEN state ELSE Transfer(state, from, to, v)

NewContract(state, a) == [state EXCEPT ![a].nonce = 1]

HasCode(a) == Program[a] # {}

(***************************************************************************)
(* The fee is bought and the nonce increased for good; the value transfer  *)
(* belongs to the first call.                                              *)
(***************************************************************************)
Begin(t) ==
    LET charged == [Debit(world, t.from, t.gas * t.gas_price)
                        EXCEPT ![t.from].nonce = @ + 1]
        callee  == IF t.to = None
                   THEN CreateAddress(t.from, world[t.from].nonce) ELSE t.to
        entered == IF t.to = None THEN NewContract(charged, callee) ELSE charged
    IN
    /\ tx = None
    /\ world[t.from].balance >= t.gas * t.gas_price + t.value
    /\ tx' = t
    /\ world' = Pay(entered, t.from, callee, t.value)
    /\ frames' = IF HasCode(callee)
                 THEN <<Frame(callee, callee, IF t.to = None THEN callee ELSE None,
                              FALSE, [world |-> charged, destructed |-> {}])>>
                 ELSE <<>>
    /\ UNCHANGED <<destructed, logs, verdict>>

Executing == tx # None /\ verdict = None /\ frames # <<>>
Here    == Last(frames)

(* room to log n instructions more, and the end of every open call *)
Room(n) == Len(logs) + Len(frames) + n <= MaxLogs

Emit(instr, error) ==
    logs' = Append(logs,
        [op |-> instr.op, depth |-> Len(frames), error |-> error,
         unreadable |-> FALSE, top |-> Here.top, address |-> instr.address,
         amount |-> instr.amount, key |-> instr.key, data |-> instr.data])

Push(stack, w) == [stack EXCEPT ![Len(stack)].top = w]

(* the open calls once the last one has ended, with w pushed to its caller *)
Leave(w) == IF Len(frames) = 1 THEN <<>> ELSE Push(Front(frames), w)

Writes(instr) == \/ instr.op \in {"SSTORE", "SELFDESTRUCT"} \cup CreateOps
                 \/ instr.op = "CALL" /\ instr.amount # 0

(* the next instruction is one of ops, and succeeds *)
Executes(instr, ops, n) ==
    /\ instr.op \in ops
    /\ Room(n)
    /\ ~(Here.readonly /\ Writes(instr))
    /\ Emit(instr, FALSE)
    /\ UNCHANGED <<tx, verdict>>

(* RETURN, STOP, or the end of the code *)
Return ==
    /\ Executing
    /\ Emit([op |-> "OTHER", address |-> Zero, amount |-> 0,
             key |-> CHOOSE k \in Key : TRUE, data |-> CHOOSE d \in Data : TRUE],
            FALSE)
    /\ frames' = Leave(IF Here.creates = None THEN One ELSE Here.creates)
    /\ world' = IF Here.creates = None THEN world
                ELSE [world EXCEPT ![Here.creates].code = Deployed[Here.creates]]
    /\ UNCHANGED <<tx, destructed, verdict>>

(* REVERT, INVALID, or an instruction that cannot be executed *)
Fail(instr) ==
    \E error \in BOOLEAN :
        /\ <<instr.op, error>> \in Faults
        /\ instr.op \in HaltOps \/ error \/ (Here.readonly /\ Writes(instr))
        /\ Emit(instr, error)
        /\ frames' = Leave(Zero)
        /\ world' = Here.undo.world
        /\ destructed' = Here.undo.destructed
        /\ UNCHANGED <<tx, verdict>>

ExecSstore(instr) ==
    /\ Executes(instr, {"SSTORE"}, 1)
    /\ world' = Store(world, Here.self, instr.key, instr.data)
    /\ UNCHANGED <<destructed, frames>>

(* BLOCKHASH knows the blocks before this one, and answers 0 for others. *)
HashOf(n) == IF n \in DOMAIN BlockHash THEN BlockHash[n] ELSE Zero

ExecBlockhash(instr) ==
    /\ Executes(instr, {"BLOCKHASH"}, 1)
    /\ frames' = Push(frames, HashOf(instr.amount))
    /\ UNCHANGED <<world, destructed>>

(* SELFDESTRUCT ends its call; the account is gone after the transaction. *)
ExecSelfDestruct(instr) ==
    /\ Executes(instr, {"SELFDESTRUCT"}, 0)
    /\ world' = Debit(Transfer(world, Here.self, instr.address,
                               world[Here.self].balance),
                      Here.self,
                      IF instr.address = Here.self
                      THEN world[Here.self].balance ELSE 0)
    /\ destructed' = destructed \cup {Here.self}
    /\ frames' = Leave(IF Here.creates = None THEN One ELSE Here.creates)

(* who a call acts for, and what it is paid *)
CallSelf(instr) == IF instr.op \in {"CALL", "STATICCALL"} THEN instr.address
                   ELSE Here.self
CallValue(instr) == IF instr.op = "CALL" THEN instr.amount ELSE 0

CanPay(instr) ==
    /\ Len(frames) <= MaxCallDepth
    /\ instr.op \in {"CALL", "CALLCODE"} \cup CreateOps
           => world[Here.self].balance >= instr.amount

(* A call that is too deep or cannot be paid fails without an error. *)
ExecCallRefused(instr) ==
    /\ Executes(instr, CallOps \cup CreateOps, 1)
    /\ ~CanPay(instr)
    /\ frames' = Push(frames, Zero)
    /\ UNCHANGED <<world, destructed>>

ExecCall(instr) ==
    /\ Executes(instr, CallOps, IF HasCode(instr.address) THEN 2 ELSE 1)
    /\ CanPay(instr)
    /\ world' = Pay(world, Here.self, instr.address, CallValue(instr))
    /\ frames' =
         IF HasCode(instr.address)
         THEN Append(frames, Frame(CallSelf(instr), instr.address, None,
                                   Here.readonly \/ instr.op = "STATICCALL",
                                   Journal))
         ELSE Push(frames, One)
    /\ UNCHANGED destructed

(* A precompiled contract runs without logs, and so does its failure. *)
ExecPrecompileFails(instr) ==
    /\ Executes(instr, {"CALL"}, 1)
    /\ CanPay(instr)
    /\ instr.address \in FailingPrecompiles
    /\ frames' = Push(frames, Zero)
    /\ UNCHANGED <<world, destructed>>

(* The creator's nonce is used up even if the creation fails later. *)
ExecCreate(instr) ==
    LET nonce   == world[Here.self].nonce
        new     == CreateAddress(Here.self, nonce)
        counted == [world EXCEPT ![Here.self].nonce = nonce + 1]
    IN
    /\ Executes(instr, CreateOps, 2)
    /\ CanPay(instr)
    /\ new \in DOMAIN world
    /\ world[new].nonce = 0
    /\ world' = Pay(NewContract(counted, new), Here.self, new, instr.amount)
    /\ frames' = Append(frames, Frame(new, new, new, FALSE,
                            [world |-> counted, destructed |-> destructed]))
    /\ UNCHANGED destructed

Execute(instr) ==
    \/ Fail(instr) \/ ExecSstore(instr) \/ ExecBlockhash(instr)
    \/ ExecSelfDestruct(instr) \/ ExecCallRefused(instr) \/ ExecCall(instr)
    \/ ExecPrecompileFails(instr) \/ ExecCreate(instr)

(* Deleted accounts are empty accounts; the unused gas is given back. *)
Finish(gas) ==
    LET refunded == Credit(world, tx.from, (tx.gas - gas) * tx.gas_price)
        last     == logs[Len(logs)]
    IN
    /\ tx # None /\ verdict = None /\ frames = <<>>
    /\ world' = [a \in DOMAIN world |->
                    IF a \in destructed
                    THEN [nonce |-> 0, balance |-> 0, code |-> NoCode,
                          storage |-> <<>>]
                    ELSE refunded[a]]
    /\ verdict' = [gas |-> gas,
                   failed |-> /\ logs # <<>>
                              /\ last.op \in HaltOps \/ last.error]
    /\ UNCHANGED <<tx, destructed, frames, logs>>

GethStep ==
    \/ \E t \in Transactions : Begin(t)
    \/ Return
    \/ Executing /\ \E instr \in Program[Here.code] : Execute(instr)
    \/ tx # None /\ \E gas \in 1 .. tx.gas : Finish(gas)
=============================================================================
