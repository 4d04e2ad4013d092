----------------------------- MODULE TraceReplay -----------------------------
(***************************************************************************)
(* extract_eth_transaction_test_vector (src/src/extractor/transaction.rs): *)
(* the post-transaction state is rebuilt by replaying, over the            *)
(* pre-transaction state, the struct logs of one transaction.              *)
(*                                                                         *)
(* Nothing in a struct log says that a call returned: the replay infers it *)
(* from the drop of log.depth, and keeps one execution context and one     *)
(* snapshot of the state per open call.                                    *)
(***************************************************************************)
EXTENDS StructLogs, SequencesExt

CONSTANTS
    Stranger,       \* what a word that is no address of the trace decodes to
    Created         \* get_contract_address(from, nonce) of the transaction

ASSUME ReplayAssumption == {Stranger, Created} \subseteq Address

(* What the RPC requests of lines 18-72 answer about one transaction. *)
IsRpcAnswer(answer) ==
    /\ answer = [transaction |-> answer.transaction, block |-> answer.block,
                 prestate |-> answer.prestate, trace |-> answer.trace]
    /\ answer.transaction \in
         [from : Address, to : Address \cup {None}, value : Nat, gas : Nat,
          gas_price : Nat]
    /\ answer.block \in [number : Nat, hash : Word]
    /\ IsEthState(answer.prestate)
    /\ answer.trace \in [failed : BOOLEAN, gas : Nat, struct_logs : Seq(StructLog)]

VARIABLES
    rpc,                  \* the answers, once fetched
    pc,                   \* where the extraction is, or how it ended
    poststate,            \* the state under reconstruction
    execution_contexts,   \* whose storage each open call works on
    snapshots,            \* poststate at the entry of each open call
    block_hashes,         \* block number -> hash
    depth, i              \* current call depth, index of the next log

replayVars == <<rpc, pc, poststate, execution_contexts, snapshots,
                block_hashes, depth, i>>

(***************************************************************************)
(* The extraction succeeds ("done"), returns the error of a request        *)
(* ("err") or of ensure! ("nocode"), or panics.                            *)
(***************************************************************************)
Running == {"deploy", "transfer", "loop"}
Ended   == {"done", "err", "nocode", "panic"}

TypeOK ==
    /\ pc \in {"fetch"} \cup Running \cup Ended
    /\ pc \in Running \cup {"done", "nocode"} => IsRpcAnswer(rpc)
    /\ IsEthState(poststate)
    /\ execution_contexts \in Seq(Address)
    /\ \A state \in Range(snapshots) : IsEthState(state)
    /\ DOMAIN block_hashes \subseteq Nat
    /\ block_hashes \in [DOMAIN block_hashes -> Word]
    /\ depth \in Nat \ {0}
    /\ i \in Nat \ {0}

-----------------------------------------------------------------------------
(* Setting up: lines 18-109 *)

Init ==
    /\ rpc = None
    /\ pc = "fetch"
    /\ poststate = <<>>
    /\ execution_contexts = <<>>
    /\ snapshots = <<>>
    /\ block_hashes = <<>>
    /\ depth = 1
    /\ i = 1

(* an error returned, or a panic *)
End(how) ==
    /\ pc' = how
    /\ UNCHANGED <<rpc, poststate, execution_contexts, snapshots,
                   block_hashes, depth, i>>

GasFee(tx) == tx.gas_price * tx.gas

(* the recipient, or the address the creation will deploy to *)
Callee(tx) == IF tx.to = None THEN Created ELSE tx.to

ChargeSender(state, tx) ==
    [Debit(state, tx.from, GasFee(tx)) EXCEPT ![tx.from].nonce = @ + 1]

(***************************************************************************)
(* The four requests, then lines 74-88: the fee is deducted and the nonce  *)
(* increased before the first snapshot is taken, which a failure of the    *)
(* whole transaction goes back to.                                         *)
(***************************************************************************)
Fetch(answer) ==
    LET tx  == answer.transaction
        pre == answer.prestate
        chargeable == /\ tx.from \in DOMAIN pre
                      /\ pre[tx.from].balance >= GasFee(tx)
    IN
    /\ pc = "fetch"
    /\ rpc' = answer
    /\ depth' = 1
    /\ i' = 1
    /\ block_hashes' = [n \in {answer.block.number} |-> answer.block.hash]
    /\ execution_contexts' = <<Callee(tx)>>
    /\ \/ /\ chargeable
          /\ poststate' = ChargeSender(pre, tx)
          /\ snapshots' = <<poststate'>>
          /\ pc' = IF tx.to = None THEN "deploy" ELSE "transfer"
       \/ /\ ~chargeable
          /\ poststate' = pre
          /\ snapshots' = <<>>
          /\ pc' = "panic"

(* `?` on a request that fails, unwrap of an answer that is None *)
RpcFails == /\ pc = "fetch"
            /\ \E how \in {"err", "panic"} : End(how)

(* ensure!(code.len() == 0, ..) *)
CodeAccepted(code) == code = NoCode

(* Lines 90-101: the runtime code of the contract a creation deploys. *)
Deploy(code) ==
    /\ pc = "deploy"
    /\ \/ End("err")
       \/ /\ ~CodeAccepted(code)
          /\ End("nocode")
       \/ /\ CodeAccepted(code)
          /\ Created \notin DOMAIN poststate
          /\ End("panic")
       \/ /\ CodeAccepted(code)
          /\ Created \in DOMAIN poststate
          /\ poststate' = [poststate EXCEPT ![Created].code = code]
          /\ pc' = "transfer"
          /\ UNCHANGED <<rpc, execution_contexts, snapshots, block_hashes,
                         depth, i>>

(* Lines 103-109 *)
TransferValue ==
    LET tx == rpc.transaction
        possible == /\ poststate[tx.from].balance >= tx.value
                    /\ Callee(tx) \in DOMAIN poststate
    IN
    /\ pc = "transfer"
    /\ \/ /\ tx.value = 0
          /\ pc' = "loop"
          /\ UNCHANGED poststate
       \/ /\ tx.value # 0
          /\ possible
          /\ poststate' = Transfer(poststate, tx.from, Callee(tx), tx.value)
          /\ pc' = "loop"
       \/ /\ tx.value # 0
          /\ ~possible
          /\ pc' = "panic"
          /\ UNCHANGED poststate
    /\ UNCHANGED <<rpc, execution_contexts, snapshots, block_hashes, depth, i>>

-----------------------------------------------------------------------------
(* One iteration of the loop: lines 114-304 *)

Logs == rpc.trace.struct_logs
Log  == Logs[i]

(* Vec::truncate *)
Truncate(s, n) == IF n < Len(s) THEN SubSeq(s, 1, n) ELSE s

(* Lines 117-121: calls deeper than this log have returned. *)
Returned  == depth > Log.depth
Depth     == IF Returned THEN Log.depth ELSE depth
(* mutant: the contexts of returned calls are kept *)
ContextsKept == execution_contexts
Contexts  == IF Returned THEN Truncate(execution_contexts, Log.depth)
                         ELSE execution_contexts
(* mutant: the snapshot of the call returned to is dropped as well *)
SnapshotsCutShort == IF Returned THEN Truncate(snapshots, Log.depth - 1) ELSE snapshots
Snapshots == IF Returned THEN Truncate(snapshots, Log.depth) ELSE snapshots

Caller == Last(Contexts)

AtLog(ops) == /\ pc = "loop"
              /\ i <= Len(Logs)
              /\ Log.op \in ops

(* decode_address *)
DecodeAddress(w) == IF w \in Address THEN w ELSE Stranger

(***************************************************************************)
(* Lines 192-201: the created address is read from the stack of the next   *)
(* log at the depth of the creating call.                                  *)
(***************************************************************************)
CreatedAddress ==
    LET later == {j \in i + 1 .. Len(Logs) : Logs[j].depth = Depth}
    IN  IF later = {} THEN Zero ELSE DecodeAddress(Logs[Min(later)].top)

CreatedUnreadable ==
    \E j \in i + 1 .. Len(Logs) :
        /\ Logs[j].depth = Depth
        /\ Logs[j].top = None
        /\ \A n \in i + 1 .. j - 1 : Logs[n].depth # Depth

(* mutant: a call is made whether or not it can be paid *)
AffordableAlways == Depth <= MaxCallDepth

(* Lines 151 and 206: a call that cannot be paid for, or is too deep, fails *)
(* without an error in the log.                                            *)
Affordable == Depth <= MaxCallDepth /\ poststate[Caller].balance >= Log.amount

(* how often this iteration goes back to a snapshot: lines 291-302 *)
Pops == (IF Log.op \in HaltOps THEN 1 ELSE 0) + (IF Log.error THEN 1 ELSE 0)

(* how many snapshots there are to go back to *)
Available == Len(Snapshots)
               + IF Log.op \in CallOps \cup CreateOps THEN 1 ELSE 0

(***************************************************************************)
(* What makes an unwrap, an index or a subtraction of this iteration panic *)
(***************************************************************************)
Unwraps ==
    LET known(a) == a \in DOMAIN poststate IN
    \/ /\ Log.unreadable
       /\ Log.op \in CreateOps \cup {"SSTORE", "CALL", "STATICCALL",
                                   "SELFDESTRUCT", "BLOCKHASH"}
    \/ Pops > Available
    \/ Log.op = "SSTORE" /\ ~known(Caller)
    \/ /\ Log.op = "CALL"
       /\ Log.amount # 0
       /\ known(Caller) => Affordable /\ ~known(Log.address)
    \/ Log.op \in CreateOps /\ CreatedUnreadable
    \/ /\ Log.op \in CreateOps
       /\ Depth <= MaxCallDepth
       /\ known(Caller) => Affordable /\ ~known(CreatedAddress)
    \/ /\ Log.op = "SELFDESTRUCT"
       /\ known(Caller) => /\ poststate[Caller].balance # 0
                           /\ ~known(Log.address)
    \/ /\ Log.op = "BLOCKHASH"
       /\ i < Len(Logs) => Logs[i + 1].top = None

Panic(ops) == AtLog(ops) /\ Unwraps /\ End("panic")

(***************************************************************************)
(* Lines 300-303 close every iteration: a log with an error goes back one  *)
(* snapshot, on top of what the opcode did.                                *)
(***************************************************************************)
Advance(state, contexts, snaps, d) ==
    /\ poststate' = IF Log.error THEN Last(snaps) ELSE state
    /\ snapshots' = IF Log.error THEN Front(snaps) ELSE snaps
    /\ execution_contexts' = contexts
    /\ depth' = d
    /\ i' = i + 1
    /\ UNCHANGED <<rpc, pc>>

(* mutant: no snapshot is kept *)
EnterWithoutSnapshot(state, context) ==
    Advance(state, Append(Contexts, context), Snapshots, Depth + 1)

(* a call opens a context and keeps the state at its entry *)
Enter(state, context) ==
    Advance(state, Append(Contexts, context), Append(Snapshots, poststate),
            Depth + 1)

Sstore ==
    /\ AtLog({"SSTORE"}) /\ ~Unwraps
    /\ Advance(Store(poststate, Caller, Log.key, Log.data),
               Contexts, Snapshots, Depth)
    /\ UNCHANGED block_hashes

Call ==
    /\ AtLog({"CALL"}) /\ ~Unwraps
    /\ Enter(IF Log.amount # 0 /\ Affordable
             THEN Transfer(poststate, Caller, Log.address, Log.amount)
             ELSE poststate,
             Log.address)
    /\ UNCHANGED block_hashes

StaticCall ==
    /\ AtLog({"STATICCALL"}) /\ ~Unwraps
    /\ Enter(poststate, Log.address)
    /\ UNCHANGED block_hashes

(* mutant: the callee's storage is written, as for CALL *)
DelegateCallToCallee ==
    /\ AtLog({"DELEGATECALL", "CALLCODE"}) /\ ~Unwraps
    /\ Enter(poststate, Log.address)
    /\ UNCHANGED block_hashes

(* the callee's code runs on the caller's storage *)
DelegateCall ==
    /\ AtLog({"DELEGATECALL", "CALLCODE"}) /\ ~Unwraps
    /\ Enter(poststate, Caller)
    /\ UNCHANGED block_hashes

(* mutant: the creator does not pay *)
AfterCreateFree(code) ==
    [Credit(poststate, CreatedAddress, Log.amount)
        EXCEPT ![Caller].nonce = @ + 1, ![CreatedAddress].code = code]

(* Lines 206-219, when get_code answers and ensure! holds *)
AfterCreate(code) ==
    LET paid   == IF Log.amount = 0 THEN poststate
                  ELSE Transfer(poststate, Caller, CreatedAddress, Log.amount)
        counted == [paid EXCEPT ![Caller].nonce = @ + 1]
    IN  [counted EXCEPT ![CreatedAddress].code = code]

(* mutant: the snapshot is taken after the payment *)
CreateLateSnapshot(code) ==
    LET state == IF Affordable THEN AfterCreate(code) ELSE poststate IN
    /\ AtLog(CreateOps) /\ ~Unwraps
    /\ Affordable => CodeAccepted(code)
    /\ Advance(state, Append(Contexts, CreatedAddress), Append(Snapshots, state),
               Depth + 1)
    /\ UNCHANGED block_hashes

Create(code) ==
    /\ AtLog(CreateOps) /\ ~Unwraps
    /\ Affordable => CodeAccepted(code)
    /\ Enter(IF Affordable THEN AfterCreate(code) ELSE poststate,
             CreatedAddress)
    /\ UNCHANGED block_hashes

(* get_code is asked before line 218 unwraps, but after line 210 does. *)
CreateFails(code) ==
    /\ AtLog(CreateOps)
    /\ ~Log.unreadable /\ ~CreatedUnreadable
    /\ Caller \in DOMAIN poststate
    /\ Affordable
    /\ Log.amount # 0 => CreatedAddress \in DOMAIN poststate
    /\ \/ End("err")
       \/ ~CodeAccepted(code) /\ End("nocode")

(* mutant: the beneficiary is not paid *)
SelfDestructUnpaid ==
    /\ AtLog({"SELFDESTRUCT"}) /\ ~Unwraps
    /\ Advance([poststate EXCEPT ![Caller].balance = 0, ![Caller].nonce = 0,
                                 ![Caller].code = NoCode],
               Contexts, Snapshots, Depth)
    /\ UNCHANGED block_hashes

(* mutant: the destroyed account keeps its balance *)
SelfDestructPaidTwice ==
    /\ AtLog({"SELFDESTRUCT"}) /\ ~Unwraps
    /\ Advance([Credit(poststate, Log.address, poststate[Caller].balance)
                    EXCEPT ![Caller].nonce = 0, ![Caller].code = NoCode],
               Contexts, Snapshots, Depth)
    /\ UNCHANGED block_hashes

(* mutant: the destroyed account is deleted, as line 274 considers *)
SelfDestructDeletes ==
    LET state   == IF poststate[Caller].balance = 0 THEN poststate
                   ELSE Credit(poststate, Log.address, poststate[Caller].balance)
    IN
    /\ AtLog({"SELFDESTRUCT"}) /\ ~Unwraps
    /\ Advance([a \in DOMAIN state \ {Caller} |-> state[a]],
               Contexts, Snapshots, Depth)
    /\ UNCHANGED block_hashes

SelfDestruct ==
    LET state   == IF poststate[Caller].balance = 0 THEN poststate
                   ELSE Credit(poststate, Log.address, poststate[Caller].balance)
    IN
    /\ AtLog({"SELFDESTRUCT"}) /\ ~Unwraps
    /\ Advance([state EXCEPT ![Caller].balance = 0,
                             ![Caller].nonce = 0,
                             ![Caller].code = NoCode],
               Contexts, Snapshots, Depth)
    /\ UNCHANGED block_hashes

(* mutant: the hash is read from the stack before the instruction *)
BlockhashBefore ==
    /\ AtLog({"BLOCKHASH"}) /\ ~Unwraps
    /\ block_hashes' = Insert(block_hashes, Log.amount, Log.top)
    /\ Advance(poststate, Contexts, Snapshots, Depth)

(* the hash is on the stack of the next log *)
Blockhash ==
    /\ AtLog({"BLOCKHASH"}) /\ ~Unwraps
    /\ block_hashes' = Insert(block_hashes, Log.amount, Logs[i + 1].top)
    /\ Advance(poststate, Contexts, Snapshots, Depth)

Revert ==
    /\ AtLog(HaltOps) /\ ~Unwraps
    /\ Advance(Last(Snapshots), Contexts, Front(Snapshots), Depth)
    /\ UNCHANGED block_hashes

Other ==
    /\ AtLog({"OTHER"}) /\ ~Unwraps
    /\ Advance(poststate, Contexts, Snapshots, Depth)
    /\ UNCHANGED block_hashes

(* Lines 306-341: the unused gas is refunded and the result returned. *)
Refund ==
    LET tx == rpc.transaction IN
    /\ pc = "loop"
    /\ i > Len(Logs)
    /\ \/ /\ tx.gas >= rpc.trace.gas
          /\ poststate' = Credit(poststate, tx.from,
                                 (tx.gas - rpc.trace.gas) * tx.gas_price)
          /\ pc' = "done"
       \/ /\ tx.gas < rpc.trace.gas
          /\ pc' = "panic"
          /\ UNCHANGED poststate
    /\ UNCHANGED <<rpc, execution_contexts, snapshots, block_hashes, depth, i>>

-----------------------------------------------------------------------------
ReplayStep ==
    \/ RpcFails
    \/ \E code \in Code : Deploy(code) \/ Create(code) \/ CreateFails(code)
    \/ TransferValue
    \/ Sstore \/ Call \/ StaticCall \/ DelegateCall
    \/ SelfDestruct \/ Blockhash \/ Revert \/ Other
    \/ Panic(Opcode)
    \/ Refund

-----------------------------------------------------------------------------
(* Properties *)

(***************************************************************************)
(* One execution context per open call: after every iteration there are as *)
(* many contexts as the call depth says, and no more snapshots than that,  *)
(* so that the storage written and the state gone back to belong to the    *)
(* call the log is about.                                                  *)
(***************************************************************************)
ContextPerCall ==
    pc = "loop" => /\ Len(execution_contexts) = depth
                   /\ Len(snapshots) <= depth

(***************************************************************************)
(* The replay never gains or loses an account, nor forgets an accessed     *)
(* slot, in the state it builds or in any snapshot it may go back to.  The *)
(* state tree builder relies on it: it walks the poststate and expects     *)
(* every account to be one it made for the prestate.                       *)
(***************************************************************************)
KeepsAccounts ==
    pc \in Running \cup {"done"} =>
        /\ Covers(poststate, rpc.prestate)
        /\ \A state \in Range(snapshots) : Covers(state, rpc.prestate)

(***************************************************************************)
(* The replay never makes money: in the state under reconstruction, and in *)
(* every snapshot it could go back to, the balances add up to what they    *)
(* were before the transaction less the gas bought, and in the extracted   *)
(* poststate less the gas used.  Only SELFDESTRUCT, which burns the        *)
(* balance of an account that names itself, makes the sum smaller.         *)
(***************************************************************************)
Coins(state) == UNION {{a} \X (1 .. state[a].balance) : a \in DOMAIN state}
Total(state) == Cardinality(Coins(state))

Burning(logs) == \E n \in 1 .. Len(logs) : logs[n].op = "SELFDESTRUCT"

(* what is left in state of the money of the prestate, spent of it paid *)
Accounted(state, answer, spent) ==
    /\ Total(state) <= Total(answer.prestate) - spent
    /\ ~Burning(answer.trace.struct_logs)
           => Total(state) = Total(answer.prestate) - spent

ConservesMoney ==
    LET tx == rpc.transaction IN
    /\ pc \in Running =>
          \A state \in {poststate} \cup Range(snapshots) :
              Accounted(state, rpc, tx.gas_price * tx.gas)
    /\ pc = "done" => Accounted(poststate, rpc, tx.gas_price * rpc.trace.gas)

(***************************************************************************)
(* The traces in which calls nest: a log that ends its call is followed by *)
(* a log of an outer call, and the depth only grows by a call.             *)
(***************************************************************************)
EndsCall(log) == log.op \in HaltOps \/ log.error

WellNested(logs) ==
    /\ \A n \in 1 .. Len(logs) : ~(logs[n].op \in HaltOps /\ logs[n].error)
    /\ Len(logs) > 0 => logs[1].depth = 1
    /\ \A n \in 2 .. Len(logs) :
          /\ logs[n].depth <= logs[n - 1].depth
                + IF logs[n - 1].op \in CallOps \cup CreateOps THEN 1 ELSE 0
          /\ EndsCall(logs[n - 1]) => logs[n].depth < logs[n - 1].depth

(***************************************************************************)
(* Replaying a well nested trace, every failing log finds the snapshot it  *)
(* goes back to: snapshots.pop().unwrap() does not panic.                  *)
(***************************************************************************)
SnapshotAvailable ==
    /\ pc = "loop"
    /\ i <= Len(Logs)
    /\ WellNested(Logs)
    => Pops <= Available
=============================================================================
