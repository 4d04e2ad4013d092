------------------------------- MODULE Extract -------------------------------
(***************************************************************************)
(* Extracting a transaction from the node that executed it: GethEvm        *)
(* executes it, TraceReplay asks for its prestate and its struct logs and  *)
(* rebuilds the state after it.  The node's own state is what the replay   *)
(* is measured against.                                                    *)
(***************************************************************************)
EXTENDS TraceReplay, GethEvm

CONSTANT ThisBlock      \* number and hash of the transaction's block

vars == <<replayVars, gethVars>>

(***************************************************************************)
(* The prestate tracer answers every account the transaction involves; it  *)
(* may not know the contract that the transaction itself creates.          *)
(***************************************************************************)
Prestates ==
    {Prestate} \cup
    IF tx.to = None THEN {[a \in DOMAIN Prestate \ {Created} |-> Prestate[a]]}
    ELSE {}

Answer(prestate) ==
    [transaction |-> tx,
     block       |-> ThisBlock,
     prestate    |-> prestate,
     trace       |-> [failed |-> verdict.failed, gas |-> verdict.gas,
                      struct_logs |-> logs]]

(***************************************************************************)
(* get_code asks for the code at the block after the transaction's: there  *)
(* a later transaction may have destroyed the contract.                    *)
(***************************************************************************)
CodeAnswers(a) ==
    {NoCode} \cup IF a \in DOMAIN world THEN {world[a].code} ELSE {}

Replay ==
    \/ \E prestate \in Prestates : Fetch(Answer(prestate))
    \/ RpcFails
    \/ \E code \in CodeAnswers(Created) : Deploy(code)
    \/ /\ AtLog(CreateOps)
       /\ \E code \in CodeAnswers(CreatedAddress) : Create(code) \/ CreateFails(code)
    \/ TransferValue
    \/ Sstore \/ Call \/ StaticCall \/ DelegateCall
    \/ SelfDestruct \/ Blockhash \/ Revert \/ Other
    \/ Panic(Opcode)
    \/ Refund

ExtractInit == Init /\ GethInit

ExtractNext ==
    \/ GethStep /\ UNCHANGED replayVars
    \/ verdict # None /\ Replay /\ UNCHANGED gethVars

ExtractSpec == ExtractInit /\ [][ExtractNext]_vars

-----------------------------------------------------------------------------
(* Properties *)

(***************************************************************************)
(* Where a trace only calls, writes and fails with the faults the replay   *)
(* can see, the extracted poststate is the state the node ended in: the    *)
(* right storage was written, and exactly the failed calls were undone.    *)
(***************************************************************************)
AgreesWithGeth == pc = "done" => poststate = world

(***************************************************************************)
(* With contract creations the extracted nonces may differ from the        *)
(* node's, but no balance and no slot does, whatever calls were undone.    *)
(***************************************************************************)
AgreesUpToNonce ==
    pc = "done" =>
        \A a \in DOMAIN world :
            /\ poststate[a].balance = world[a].balance
            /\ poststate[a].storage = world[a].storage

(***************************************************************************)
(* With SELFDESTRUCT, every account that the transaction did not destroy   *)
(* is extracted as the node left it: the balance of the destroyed account  *)
(* arrived where it should, in the order in which the accounts were paid,  *)
(* and a destruction in a failed call left no trace.                       *)
(***************************************************************************)
AgreesOnSurvivors ==
    pc = "done" => \A a \in DOMAIN world \ destructed : poststate[a] = world[a]

(***************************************************************************)
(* The block hashes of the vector are what the transaction saw: one for    *)
(* every BLOCKHASH it executed, each the hash the node pushed, even when   *)
(* the call that asked was undone; and its own block's, unless it asked.   *)
(***************************************************************************)
Asked == {logs[n].amount : n \in {m \in 1 .. Len(logs) : logs[m].op = "BLOCKHASH"}}

BlockHashesSound ==
    pc = "done" =>
        /\ DOMAIN block_hashes = Asked \cup {ThisBlock.number}
        /\ \A n \in Asked : block_hashes[n] = HashOf(n)
        /\ ThisBlock.number \notin Asked
               => block_hashes[ThisBlock.number] = ThisBlock.hash

(***************************************************************************)
(* Over such a trace no unwrap of the replay fails: every account it looks *)
(* up is in the prestate - unless the tracer does not know the contract    *)
(* that the transaction itself creates - and every failed call finds its   *)
(* snapshot, up to the depth limit.                                        *)
(***************************************************************************)
NeverPanics ==
    pc = "panic" => \/ rpc = None
                    \/ tx.to = None /\ Created \notin DOMAIN rpc.prestate

-----------------------------------------------------------------------------
(* What the comments of the code say, and the code does not do *)

(***************************************************************************)
(* "get the address of the created contract, it's on the stack of next log *)
(* with the same call depth" (transaction.rs:193): the address of every    *)
(* creation the replay applies is one of the accounts it knows.            *)
(***************************************************************************)
CreatedAddressKnown ==
    AtLog(CreateOps) /\ Affordable => CreatedAddress \in DOMAIN poststate

(***************************************************************************)
(* "failed to get code for {tx_to:?}" (transaction.rs:98): the extraction  *)
(* of a creation gives up only when the node has no code for the contract. *)
(***************************************************************************)
GivesUpWithoutCode ==
    pc = "nocode" /\ tx.to = None => world[Created].code = NoCode
=============================================================================
