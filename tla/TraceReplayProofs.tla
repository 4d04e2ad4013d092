-------------------------- MODULE TraceReplayProofs --------------------------
(***************************************************************************)
(* What the replay guarantees whatever the node answers.                   *)
(***************************************************************************)
EXTENDS AnyReplay, SequenceTheorems, FiniteSetTheorems, TLAPS

(* IsEthState as a set *)
EthStates == UNION {[A -> EthAccountState] : A \in SUBSET Address}

(* the states that have every account and every slot that pre has *)
Kept(pre) == {state \in EthStates : Covers(state, pre)}

LEMMA EthStatesDef ==
    ASSUME NEW state
    PROVE  IsEthState(state) <=> state \in EthStates
BY DEF IsEthState, EthStates

LEMMA EmptyEthState == <<>> \in EthStates
<1>1. DOMAIN <<>> = {} /\ <<>> = [x \in {} |-> x]
    OBVIOUS
<1>2. <<>> \in [{} -> EthAccountState]
    BY <1>1
<1> QED BY <1>2 DEF EthStates

LEMMA KeptReflexive ==
    ASSUME NEW state \in EthStates
    PROVE  state \in Kept(state)
BY DEF Kept, Covers

(* Replacing an account by one that still has its slots loses nothing. *)
LEMMA Rewrite ==
    ASSUME NEW pre, NEW state \in Kept(pre), NEW a \in DOMAIN state,
           NEW account \in EthAccountState,
           DOMAIN state[a].storage \subseteq DOMAIN account.storage
    PROVE  /\ [state EXCEPT ![a] = account] \in Kept(pre)
           /\ DOMAIN [state EXCEPT ![a] = account] = DOMAIN state
<1> DEFINE new == [state EXCEPT ![a] = account]
<1>1. PICK A \in SUBSET Address : state \in [A -> EthAccountState]
    BY DEF Kept, EthStates
<1>2. new \in [A -> EthAccountState] /\ DOMAIN new = DOMAIN state
    BY <1>1
<1>3. \A x \in DOMAIN state : DOMAIN state[x].storage \subseteq DOMAIN new[x].storage
    BY <1>1
<1>4. Covers(new, pre)
    BY <1>2, <1>3 DEF Kept, Covers
<1> QED BY <1>2, <1>4 DEF Kept, EthStates

LEMMA AccountType ==
    ASSUME NEW pre, NEW state \in Kept(pre), NEW a \in DOMAIN state
    PROVE  /\ a \in Address
           /\ state[a] \in EthAccountState
BY DEF Kept, EthStates

LEMMA DebitKeeps ==
    ASSUME NEW pre, NEW state \in Kept(pre), NEW a \in DOMAIN state, NEW v \in Nat,
           state[a].balance >= v
    PROVE  /\ Debit(state, a, v) \in Kept(pre)
           /\ DOMAIN Debit(state, a, v) = DOMAIN state
<1> DEFINE account == [state[a] EXCEPT !.balance = @ - v]
<1>1. state[a] \in EthAccountState
    BY AccountType
<1>2. account \in EthAccountState /\ account.storage = state[a].storage
    BY <1>1 DEF EthAccountState
<1>3. Debit(state, a, v) = [state EXCEPT ![a] = account]
    BY DEF Debit
<1> HIDE DEF account
<1>4. /\ [state EXCEPT ![a] = account] \in Kept(pre)
      /\ DOMAIN [state EXCEPT ![a] = account] = DOMAIN state
    BY <1>2, Rewrite
<1> QED BY <1>3, <1>4

LEMMA CreditKeeps ==
    ASSUME NEW pre, NEW state \in Kept(pre), NEW a \in DOMAIN state, NEW v \in Nat
    PROVE  /\ Credit(state, a, v) \in Kept(pre)
           /\ DOMAIN Credit(state, a, v) = DOMAIN state
<1> DEFINE account == [state[a] EXCEPT !.balance = @ + v]
<1>1. state[a] \in EthAccountState
    BY AccountType
<1>2. account \in EthAccountState /\ account.storage = state[a].storage
    BY <1>1 DEF EthAccountState
<1>3. Credit(state, a, v) = [state EXCEPT ![a] = account]
    BY DEF Credit
<1> HIDE DEF account
<1>4. /\ [state EXCEPT ![a] = account] \in Kept(pre)
      /\ DOMAIN [state EXCEPT ![a] = account] = DOMAIN state
    BY <1>2, Rewrite
<1> QED BY <1>3, <1>4

LEMMA TransferKeeps ==
    ASSUME NEW pre, NEW state \in Kept(pre), NEW v \in Nat,
           NEW from \in DOMAIN state, NEW to \in DOMAIN state,
           state[from].balance >= v
    PROVE  /\ Transfer(state, from, to, v) \in Kept(pre)
           /\ DOMAIN Transfer(state, from, to, v) = DOMAIN state
BY DebitKeeps, CreditKeeps DEF Transfer

LEMMA CountKeeps ==
    ASSUME NEW pre, NEW state \in Kept(pre), NEW a \in DOMAIN state
    PROVE  /\ [state EXCEPT ![a].nonce = @ + 1] \in Kept(pre)
           /\ DOMAIN [state EXCEPT ![a].nonce = @ + 1] = DOMAIN state
<1> DEFINE account == [state[a] EXCEPT !.nonce = @ + 1]
<1>1. state[a] \in EthAccountState
    BY AccountType
<1>2. account \in EthAccountState /\ account.storage = state[a].storage
    BY <1>1 DEF EthAccountState
<1>3. [state EXCEPT ![a].nonce = @ + 1] = [state EXCEPT ![a] = account]
    OBVIOUS
<1> HIDE DEF account
<1>4. /\ [state EXCEPT ![a] = account] \in Kept(pre)
      /\ DOMAIN [state EXCEPT ![a] = account] = DOMAIN state
    BY <1>2, Rewrite
<1> QED BY <1>3, <1>4

LEMMA CodeKeeps ==
    ASSUME NEW pre, NEW state \in Kept(pre), NEW a \in DOMAIN state,
           NEW code \in Code
    PROVE  [state EXCEPT ![a].code = code] \in Kept(pre)
<1> DEFINE account == [state[a] EXCEPT !.code = code]
<1>1. state[a] \in EthAccountState
    BY AccountType
<1>2. account \in EthAccountState /\ account.storage = state[a].storage
    BY <1>1 DEF EthAccountState
<1>3. [state EXCEPT ![a].code = code] = [state EXCEPT ![a] = account]
    OBVIOUS
<1> HIDE DEF account
<1>4. /\ [state EXCEPT ![a] = account] \in Kept(pre)
      /\ DOMAIN [state EXCEPT ![a] = account] = DOMAIN state
    BY <1>2, Rewrite
<1> QED BY <1>3, <1>4

LEMMA StoreKeeps ==
    ASSUME NEW pre, NEW state \in Kept(pre), NEW a \in DOMAIN state,
           NEW k \in Key, NEW v \in Data
    PROVE  Store(state, a, k, v) \in Kept(pre)
<1> DEFINE slots == Insert(state[a].storage, k, v)
           account == [state[a] EXCEPT !.storage = slots]
<1>1. state[a] \in EthAccountState
    BY AccountType
<1>2. PICK K \in SUBSET Key : state[a].storage \in [K -> Data]
    BY <1>1 DEF EthAccountState, Storage
<1>3. slots \in [K \cup {k} -> Data] /\ DOMAIN state[a].storage \subseteq DOMAIN slots
    BY <1>2 DEF Insert
<1>4. slots \in Storage
    BY <1>3 DEF Storage
<1>5. account \in EthAccountState /\ account.storage = slots
    BY <1>1, <1>4 DEF EthAccountState
<1>6. Store(state, a, k, v) = [state EXCEPT ![a] = account]
    BY DEF Store
<1> HIDE DEF account
<1>7. [state EXCEPT ![a] = account] \in Kept(pre)
    BY <1>3, <1>5, Rewrite
<1> QED BY <1>6, <1>7

-----------------------------------------------------------------------------
(* The inductive invariant *)

(***************************************************************************)
(* TypeOK, ContextPerCall and KeepsAccounts with their states gathered in  *)
(* sets, and what Fetch established: the sender is an account of the       *)
(* prestate, which the value transfer and the refund rely on.              *)
(***************************************************************************)
IndInv ==
    /\ pc \in {"fetch"} \cup Running \cup Ended
    /\ poststate \in EthStates
    /\ snapshots \in Seq(EthStates)
    /\ execution_contexts \in Seq(Address)
    /\ DOMAIN block_hashes \subseteq Nat
    /\ block_hashes \in [DOMAIN block_hashes -> Word]
    /\ depth \in Nat \ {0}
    /\ i \in Nat \ {0}
    /\ pc \in Running \cup {"done", "nocode"} => IsRpcAnswer(rpc)
    /\ pc \in Running \cup {"done"} =>
         /\ poststate \in Kept(rpc.prestate)
         /\ snapshots \in Seq(Kept(rpc.prestate))
         /\ rpc.transaction.from \in DOMAIN rpc.prestate
    /\ pc \in Running => /\ Len(execution_contexts) = depth
                         /\ Len(snapshots) <= depth

LEMMA IndInvInit == Init => IndInv
BY EmptyEthState, EmptySeq DEF Init, IndInv, Running, Ended

LEMMA KeptAreEthStates ==
    ASSUME NEW pre, NEW s \in Seq(Kept(pre))
    PROVE  s \in Seq(EthStates)
BY SeqMonotonic DEF Kept

(* Any step that only ends the extraction *)
LEMMA EndKeeps ==
    ASSUME IndInv, NEW how \in {"err", "panic"}, End(how)
    PROVE  IndInv'
BY DEF IndInv, End, Running, Ended

LEMMA EndNoCodeKeeps ==
    ASSUME IndInv, pc \in Running, End("nocode")
    PROVE  IndInv'
BY DEF IndInv, End, Running, Ended

LEMMA TruncateProperties ==
    ASSUME NEW S, NEW s \in Seq(S), NEW n \in Nat
    PROVE  /\ Truncate(s, n) \in Seq(S)
           /\ Len(Truncate(s, n)) = IF n < Len(s) THEN n ELSE Len(s)
<1>1. CASE n < Len(s)
    <2>1. \A j \in 1 .. n : s[j] \in S
        BY <1>1, ElementOfSeq, LenProperties
    <2>2. SubSeq(s, 1, n) \in Seq(S) /\ Len(SubSeq(s, 1, n)) = n
        BY <2>1, SubSeqProperties
    <2> QED BY <1>1, <2>2 DEF Truncate
<1>2. CASE ~(n < Len(s))
    BY <1>2 DEF Truncate
<1> QED BY <1>1, <1>2

LEMMA FrontLast ==
    ASSUME NEW S, NEW s \in Seq(S), Len(s) >= 1
    PROVE  /\ Last(s) \in S
           /\ Front(s) \in Seq(S)
           /\ Len(Front(s)) = Len(s) - 1
<1>1. Len(s) \in Nat
    BY LenProperties
<1>2. \A j \in 1 .. Len(s) - 1 : s[j] \in S
    BY <1>1, ElementOfSeq
<1>3. PICK n \in Nat : n = Len(s) - 1
    BY <1>1
<1>4. SubSeq(s, 1, n) \in Seq(S) /\ Len(SubSeq(s, 1, n)) = n
    BY <1>1, <1>2, <1>3, SubSeqProperties
<1>5. s[Len(s)] \in S
    BY <1>1, ElementOfSeq
<1>6. Front(s) = SubSeq(s, 1, n)
    BY <1>3 DEF Front
<1> QED BY <1>3, <1>4, <1>5, <1>6 DEF Last

(* What an iteration of the loop starts from. *)
LEMMA LogView ==
    ASSUME IndInv, pc = "loop", i <= Len(Logs)
    PROVE  /\ Log \in StructLog
           /\ Depth \in Nat \ {0}
           /\ Contexts \in Seq(Address)
           /\ Len(Contexts) = Depth
           /\ Caller \in Address
           /\ Snapshots \in Seq(Kept(rpc.prestate))
           /\ Len(Snapshots) <= Depth
           /\ poststate \in Kept(rpc.prestate)
<1>1. Logs \in Seq(StructLog) /\ i \in 1 .. Len(Logs)
    <2>1. Logs \in Seq(StructLog)
        BY DEF IndInv, Running, IsRpcAnswer, Logs
    <2> QED BY <2>1, LenProperties DEF IndInv
<1>2. Log \in StructLog
    BY <1>1, ElementOfSeq DEF Log
<1>3. Log.depth \in Nat \ {0}
    BY <1>2 DEF StructLog
<1>4. /\ depth \in Nat \ {0}
      /\ execution_contexts \in Seq(Address)
      /\ Len(execution_contexts) = depth
      /\ snapshots \in Seq(Kept(rpc.prestate))
      /\ Len(snapshots) <= depth
      /\ poststate \in Kept(rpc.prestate)
    BY DEF IndInv, Running
<1>5. Depth \in Nat \ {0}
    BY <1>3, <1>4 DEF Depth
<1>6. Contexts \in Seq(Address) /\ Len(Contexts) = Depth
    BY <1>3, <1>4, TruncateProperties DEF Contexts, Depth, Returned
<1>7. Caller \in Address
    BY <1>5, <1>6, FrontLast DEF Caller
<1>8. Snapshots \in Seq(Kept(rpc.prestate))
    BY <1>3, <1>4, TruncateProperties DEF Snapshots
<1>9. Len(Snapshots) <= Depth
    <2>1. Len(snapshots) \in Nat
        BY <1>4, LenProperties
    <2> QED BY <2>1, <1>3, <1>4, TruncateProperties DEF Snapshots, Depth, Returned
<1> QED BY <1>2, <1>4, <1>5, <1>6, <1>7, <1>8, <1>9

(* A step that advances keeps the invariant, whatever its opcode did. *)
LEMMA AdvanceKeeps ==
    ASSUME IndInv, pc = "loop", i <= Len(Logs),
           NEW state \in Kept(rpc.prestate),
           NEW contexts \in Seq(Address), NEW d \in Nat \ {0}, Len(contexts) = d,
           NEW snaps \in Seq(Kept(rpc.prestate)), Len(snaps) <= d,
           Log.error => Len(snaps) >= 1,
           Advance(state, contexts, snaps, d),
           DOMAIN block_hashes' \subseteq Nat,
           block_hashes' \in [DOMAIN block_hashes' -> Word]
    PROVE  IndInv'
<1>1. pc' = "loop" /\ rpc' = rpc
    BY DEF Advance
<1>2. depth' = d /\ execution_contexts' = contexts /\ i' \in Nat \ {0}
    BY DEF Advance, IndInv
<1>3. /\ poststate' \in Kept(rpc.prestate)
      /\ snapshots' \in Seq(Kept(rpc.prestate))
      /\ Len(snapshots') <= d
    <2>1. CASE Log.error
        <3>1. poststate' = Last(snaps) /\ snapshots' = Front(snaps)
            BY <2>1 DEF Advance
        <3>2. Len(snaps) \in Nat
            BY LenProperties
        <3> QED BY <2>1, <3>1, <3>2, FrontLast
    <2>2. CASE ~Log.error
        BY <2>2 DEF Advance
    <2> QED BY <2>1, <2>2
<1>4. poststate' \in EthStates /\ snapshots' \in Seq(EthStates)
    BY <1>3, KeptAreEthStates DEF Kept
<1>5. IsRpcAnswer(rpc) /\ rpc.transaction.from \in DOMAIN rpc.prestate
    BY DEF IndInv, Running
<1> QED BY <1>1, <1>2, <1>3, <1>4, <1>5 DEF IndInv, Running

(* so does a step that enters a call *)
LEMMA EnterKeeps ==
    ASSUME IndInv, pc = "loop", i <= Len(Logs),
           NEW state \in Kept(rpc.prestate), NEW context \in Address,
           Enter(state, context), UNCHANGED block_hashes
    PROVE  IndInv'
<1> DEFINE contexts == Append(Contexts, context)
           snaps    == Append(Snapshots, poststate)
<1>1. /\ Contexts \in Seq(Address) /\ Len(Contexts) = Depth /\ Depth \in Nat \ {0}
      /\ Snapshots \in Seq(Kept(rpc.prestate)) /\ Len(Snapshots) <= Depth
      /\ poststate \in Kept(rpc.prestate)
    BY LogView
<1>2. contexts \in Seq(Address) /\ Len(contexts) = Depth + 1
    BY <1>1, AppendProperties
<1>3. /\ snaps \in Seq(Kept(rpc.prestate))
      /\ Len(snaps) = Len(Snapshots) + 1 /\ Len(Snapshots) \in Nat
    BY <1>1, AppendProperties, LenProperties
<1>4. DOMAIN block_hashes' \subseteq Nat /\ block_hashes' \in [DOMAIN block_hashes' -> Word]
    BY DEF IndInv
<1>5. Advance(state, contexts, snaps, Depth + 1)
    BY DEF Enter
<1>6. Len(snaps) <= Depth + 1 /\ Len(snaps) >= 1 /\ Depth + 1 \in Nat \ {0}
    BY <1>1, <1>3
<1> HIDE DEF contexts, snaps
<1> QED BY <1>2, <1>3, <1>4, <1>5, <1>6, AdvanceKeeps

-----------------------------------------------------------------------------
(* One lemma for every action that changes the state *)

LEMMA FetchKeeps ==
    ASSUME IndInv, NEW answer, IsRpcAnswer(answer), Fetch(answer)
    PROVE  IndInv'
<1> DEFINE tx  == answer.transaction
           pre == answer.prestate
<1>1. IsRpcAnswer(answer)
    OBVIOUS
<1>2. /\ pre \in EthStates
      /\ tx.from \in Address /\ tx.to \in Address \cup {None}
      /\ GasFee(tx) \in Nat
      /\ answer.block.number \in Nat /\ answer.block.hash \in Word
    BY <1>1, EthStatesDef DEF IsRpcAnswer, GasFee
<1>3. Callee(tx) \in Address
    BY <1>2, ReplayAssumption DEF Callee
<1>4. /\ rpc' = answer /\ depth' = 1 /\ i' = 1
      /\ execution_contexts' = <<Callee(tx)>>
      /\ DOMAIN block_hashes' \subseteq Nat
      /\ block_hashes' \in [DOMAIN block_hashes' -> Word]
    BY <1>2 DEF Fetch
<1>5. execution_contexts' \in Seq(Address) /\ Len(execution_contexts') = 1
    BY <1>3, <1>4
<1>6. CASE tx.from \in DOMAIN pre /\ pre[tx.from].balance >= GasFee(tx)
    <2>1. /\ poststate' = ChargeSender(pre, tx)
          /\ snapshots' = <<poststate'>>
          /\ pc' \in {"deploy", "transfer"}
        BY <1>6 DEF Fetch
    <2>2. Debit(pre, tx.from, GasFee(tx)) \in Kept(pre)
          /\ tx.from \in DOMAIN Debit(pre, tx.from, GasFee(tx))
        BY <1>2, <1>6, KeptReflexive, DebitKeeps
    <2>3. ChargeSender(pre, tx) \in Kept(pre)
        BY <2>2, CountKeeps DEF ChargeSender
    <2>4. /\ poststate' \in Kept(pre)
          /\ snapshots' \in Seq(Kept(pre)) /\ Len(snapshots') = 1
        BY <2>1, <2>3
    <2>5. poststate' \in EthStates /\ snapshots' \in Seq(EthStates)
        BY <2>4, KeptAreEthStates DEF Kept
    <2> QED BY <1>1, <1>4, <1>5, <1>6, <2>1, <2>4, <2>5 DEF IndInv, Running, Ended
<1>7. CASE ~(tx.from \in DOMAIN pre /\ pre[tx.from].balance >= GasFee(tx))
    <2>1. poststate' = pre /\ snapshots' = <<>> /\ pc' = "panic"
        BY <1>7 DEF Fetch
    <2> QED BY <1>2, <1>4, <1>5, <2>1, EmptySeq DEF IndInv, Running, Ended
<1> QED BY <1>6, <1>7

LEMMA DeployKeeps ==
    ASSUME IndInv, NEW code \in Code, Deploy(code)
    PROVE  IndInv'
<1>1. CASE End("err") \/ End("panic")
    BY <1>1, EndKeeps
<1>2. CASE End("nocode")
    BY <1>2, EndNoCodeKeeps DEF Deploy, Running
<1>3. CASE /\ Created \in DOMAIN poststate
           /\ poststate' = [poststate EXCEPT ![Created].code = code]
           /\ pc' = "transfer"
           /\ UNCHANGED <<rpc, execution_contexts, snapshots, block_hashes, depth, i>>
    <2>1. pc = "deploy"
        BY DEF Deploy
    <2>2. poststate' \in Kept(rpc.prestate)
        BY <1>3, <2>1, CodeKeeps DEF IndInv, Running
    <2>3. poststate' \in EthStates
        BY <2>2 DEF Kept
    <2> QED BY <1>3, <2>1, <2>2, <2>3 DEF IndInv, Running, Ended
<1> QED BY <1>1, <1>2, <1>3 DEF Deploy

LEMMA TransferValueKeeps ==
    ASSUME IndInv, TransferValue
    PROVE  IndInv'
<1> DEFINE tx == rpc.transaction
<1>1. /\ pc = "transfer"
      /\ UNCHANGED <<rpc, execution_contexts, snapshots, block_hashes, depth, i>>
    BY DEF TransferValue
<1>2. /\ poststate \in Kept(rpc.prestate)
      /\ tx.from \in DOMAIN poststate
      /\ tx.value \in Nat
    BY <1>1 DEF IndInv, Running, IsRpcAnswer, Kept, Covers
<1>3. pc' \in {"loop", "panic"} /\ poststate' \in Kept(rpc.prestate)
    <2>1. CASE tx.value = 0
        BY <1>2, <2>1 DEF TransferValue
    <2>2. CASE tx.value # 0 /\ poststate[tx.from].balance >= tx.value
               /\ Callee(tx) \in DOMAIN poststate
        <3>1. Transfer(poststate, tx.from, Callee(tx), tx.value) \in Kept(rpc.prestate)
            BY <1>2, <2>2, TransferKeeps
        <3> QED BY <2>2, <3>1 DEF TransferValue
    <2>3. CASE tx.value # 0 /\ ~(poststate[tx.from].balance >= tx.value
               /\ Callee(tx) \in DOMAIN poststate)
        BY <1>2, <2>3 DEF TransferValue
    <2> QED BY <2>1, <2>2, <2>3
<1>4. poststate' \in EthStates
    BY <1>3 DEF Kept
<1> QED BY <1>1, <1>3, <1>4 DEF IndInv, Running, Ended

(* An iteration that neither enters a call nor goes back by its opcode. *)
LEMMA StayKeeps ==
    ASSUME IndInv, NEW op \in Opcode \ HaltOps, Log.op = op,
           pc = "loop", i <= Len(Logs), op \notin CallOps \cup CreateOps, ~Unwraps,
           NEW state \in Kept(rpc.prestate),
           Advance(state, Contexts, Snapshots, Depth),
           DOMAIN block_hashes' \subseteq Nat,
           block_hashes' \in [DOMAIN block_hashes' -> Word]
    PROVE  IndInv'
<1>1. /\ Contexts \in Seq(Address) /\ Len(Contexts) = Depth /\ Depth \in Nat \ {0}
      /\ Snapshots \in Seq(Kept(rpc.prestate)) /\ Len(Snapshots) <= Depth
    BY LogView
<1>2. Log.error => Len(Snapshots) >= 1
    <2>1. Pops <= Available
        <3>1. Len(Snapshots) \in Nat
            BY <1>1, LenProperties
        <3>2. Pops \in Nat /\ Available \in Nat
            BY <3>1 DEF Pops, Available
        <3> QED BY <3>2 DEF Unwraps
    <2> QED BY <1>1, <2>1, LenProperties DEF Pops, Available
<1> QED BY <1>1, <1>2, AdvanceKeeps

LEMMA SstoreKeeps ==
    ASSUME IndInv, Sstore
    PROVE  IndInv'
<1>1. /\ pc = "loop" /\ i <= Len(Logs) /\ Log.op = "SSTORE" /\ ~Unwraps
      /\ UNCHANGED block_hashes
      /\ Advance(Store(poststate, Caller, Log.key, Log.data), Contexts, Snapshots, Depth)
    BY DEF Sstore, AtLog
<1>2. Caller \in DOMAIN poststate
    BY <1>1 DEF Unwraps
<1>3. Log \in StructLog /\ poststate \in Kept(rpc.prestate)
    BY <1>1, LogView
<1>4. Store(poststate, Caller, Log.key, Log.data) \in Kept(rpc.prestate)
    BY <1>2, <1>3, StoreKeeps DEF StructLog
<1>5. DOMAIN block_hashes' \subseteq Nat /\ block_hashes' \in [DOMAIN block_hashes' -> Word]
    BY <1>1 DEF IndInv
<1>6. "SSTORE" \in Opcode \ HaltOps /\ "SSTORE" \notin CallOps \cup CreateOps
    BY DEF Opcode, HaltOps, CallOps, CreateOps
<1> QED BY <1>1, <1>4, <1>5, <1>6, StayKeeps

LEMMA OtherKeeps ==
    ASSUME IndInv, Other
    PROVE  IndInv'
<1>1. /\ pc = "loop" /\ i <= Len(Logs) /\ Log.op = "OTHER" /\ ~Unwraps
      /\ UNCHANGED block_hashes
      /\ Advance(poststate, Contexts, Snapshots, Depth)
    BY DEF Other, AtLog
<1>2. poststate \in Kept(rpc.prestate)
    BY <1>1, LogView
<1>3. DOMAIN block_hashes' \subseteq Nat /\ block_hashes' \in [DOMAIN block_hashes' -> Word]
    BY <1>1 DEF IndInv
<1>4. "OTHER" \in Opcode \ HaltOps /\ "OTHER" \notin CallOps \cup CreateOps
    BY DEF Opcode, HaltOps, CallOps, CreateOps
<1> QED BY <1>1, <1>2, <1>3, <1>4, StayKeeps

LEMMA BlockhashKeeps ==
    ASSUME IndInv, Blockhash
    PROVE  IndInv'
<1>1. /\ pc = "loop" /\ i <= Len(Logs) /\ Log.op = "BLOCKHASH" /\ ~Unwraps
      /\ block_hashes' = Insert(block_hashes, Log.amount, Logs[i + 1].top)
      /\ Advance(poststate, Contexts, Snapshots, Depth)
    BY DEF Blockhash, AtLog
<1>2. Log \in StructLog /\ poststate \in Kept(rpc.prestate)
    BY <1>1, LogView
<1>3. Logs \in Seq(StructLog) /\ i \in Nat \ {0}
    BY <1>1 DEF IndInv, Running, IsRpcAnswer, Logs
<1>4. i < Len(Logs) /\ Logs[i + 1].top # None
    BY <1>1 DEF Unwraps
<1>5. Logs[i + 1].top \in Word
    <2>1. i + 1 \in 1 .. Len(Logs)
        BY <1>3, <1>4, LenProperties
    <2>2. Logs[i + 1] \in StructLog
        BY <1>3, <2>1, ElementOfSeq
    <2> QED BY <1>4, <2>2 DEF StructLog
<1>6. Log.amount \in Nat
    BY <1>2 DEF StructLog
<1>7. DOMAIN block_hashes' \subseteq Nat /\ block_hashes' \in [DOMAIN block_hashes' -> Word]
    BY SMTT(30), <1>1, <1>5, <1>6 DEF IndInv, Insert
<1>8. "BLOCKHASH" \in Opcode \ HaltOps /\ "BLOCKHASH" \notin CallOps \cup CreateOps
    BY DEF Opcode, HaltOps, CallOps, CreateOps
<1> QED BY <1>1, <1>2, <1>7, <1>8, StayKeeps

LEMMA SelfDestructKeeps ==
    ASSUME IndInv, SelfDestruct
    PROVE  IndInv'
<1> DEFINE balance == poststate[Caller].balance
           paid == IF balance = 0 THEN poststate
                   ELSE Credit(poststate, Log.address, balance)
           state == [paid EXCEPT ![Caller].balance = 0, ![Caller].nonce = 0,
                                 ![Caller].code = NoCode]
<1>1. /\ pc = "loop" /\ i <= Len(Logs) /\ Log.op = "SELFDESTRUCT" /\ ~Unwraps
      /\ UNCHANGED block_hashes
      /\ Advance(state, Contexts, Snapshots, Depth)
    BY SMTT(30) DEF SelfDestruct, AtLog
<1>2. Log \in StructLog /\ poststate \in Kept(rpc.prestate)
    BY SMTT(30), <1>1, LogView
<1>3. /\ Caller \in DOMAIN poststate
      /\ balance = 0 \/ Log.address \in DOMAIN poststate
    BY <1>1 DEF Unwraps
<1>4. balance \in Nat
    BY <1>2, <1>3, AccountType DEF EthAccountState
<1>5. paid \in Kept(rpc.prestate) /\ DOMAIN paid = DOMAIN poststate
    BY <1>2, <1>3, <1>4, CreditKeeps
<1> HIDE DEF paid
<1>6. state \in Kept(rpc.prestate)
    <2> DEFINE account == [paid[Caller] EXCEPT !.balance = 0, !.nonce = 0,
                                               !.code = NoCode]
    <2>1. paid[Caller] \in EthAccountState
        BY <1>3, <1>5, AccountType
    <2>2. account \in EthAccountState /\ account.storage = paid[Caller].storage
        BY <2>1, NoCodeIsCode DEF EthAccountState
    <2>3. state = [paid EXCEPT ![Caller] = account]
        BY <1>3, <1>5, <2>1 DEF EthAccountState
    <2> HIDE DEF account, state
    <2>4. [paid EXCEPT ![Caller] = account] \in Kept(rpc.prestate)
        BY <1>3, <1>5, <2>2, Rewrite
    <2> QED BY <2>3, <2>4
<1>7. DOMAIN block_hashes' \subseteq Nat /\ block_hashes' \in [DOMAIN block_hashes' -> Word]
    BY <1>1 DEF IndInv
<1>8. "SELFDESTRUCT" \in Opcode \ HaltOps /\ "SELFDESTRUCT" \notin CallOps \cup CreateOps
    BY DEF Opcode, HaltOps, CallOps, CreateOps
<1> HIDE DEF state
<1> QED BY <1>1, <1>6, <1>7, <1>8, StayKeeps

LEMMA CallKeeps ==
    ASSUME IndInv, Call
    PROVE  IndInv'
<1> DEFINE pays  == Log.amount # 0 /\ Affordable
           state == IF pays THEN Transfer(poststate, Caller, Log.address, Log.amount)
                    ELSE poststate
<1>1. /\ pc = "loop" /\ i <= Len(Logs) /\ Log.op = "CALL" /\ ~Unwraps
      /\ UNCHANGED block_hashes
      /\ Enter(state, Log.address)
    BY DEF Call, AtLog
<1>2. Log \in StructLog /\ poststate \in Kept(rpc.prestate)
    BY <1>1, LogView
<1>3. Log.amount \in Nat /\ Log.address \in Address
    BY <1>2 DEF StructLog
<1>4. pays => /\ Caller \in DOMAIN poststate
              /\ Log.address \in DOMAIN poststate
              /\ poststate[Caller].balance >= Log.amount
    BY <1>1 DEF Unwraps, Affordable
<1>5. state \in Kept(rpc.prestate)
    BY <1>2, <1>3, <1>4, TransferKeeps
<1> HIDE DEF state
<1> QED BY <1>1, <1>3, <1>5, EnterKeeps

LEMMA StaticCallKeeps ==
    ASSUME IndInv, StaticCall
    PROVE  IndInv'
<1>1. /\ pc = "loop" /\ i <= Len(Logs) /\ UNCHANGED block_hashes
      /\ Enter(poststate, Log.address)
    BY DEF StaticCall, AtLog
<1>2. Log.address \in Address /\ poststate \in Kept(rpc.prestate)
    BY <1>1, LogView DEF StructLog
<1> QED BY <1>1, <1>2, EnterKeeps

LEMMA DelegateCallKeeps ==
    ASSUME IndInv, DelegateCall
    PROVE  IndInv'
<1>1. /\ pc = "loop" /\ i <= Len(Logs) /\ UNCHANGED block_hashes
      /\ Enter(poststate, Caller)
    BY DEF DelegateCall, AtLog
<1>2. Caller \in Address /\ poststate \in Kept(rpc.prestate)
    BY <1>1, LogView
<1> QED BY <1>1, <1>2, EnterKeeps

LEMMA CreatedAddressType == CreatedAddress \in Address
BY TraceAssumption, ReplayAssumption DEF CreatedAddress, DecodeAddress

LEMMA CreateKeeps ==
    ASSUME IndInv, NEW code \in Code, Create(code)
    PROVE  IndInv'
<1> DEFINE paid    == IF Log.amount = 0 THEN poststate
                      ELSE Transfer(poststate, Caller, CreatedAddress, Log.amount)
           counted == [paid EXCEPT ![Caller].nonce = @ + 1]
           state   == IF Affordable THEN AfterCreate(code) ELSE poststate
<1>1. /\ pc = "loop" /\ i <= Len(Logs) /\ Log.op \in CreateOps /\ ~Unwraps
      /\ UNCHANGED block_hashes
      /\ Enter(state, CreatedAddress)
    BY DEF Create, AtLog
<1>2. Log \in StructLog /\ poststate \in Kept(rpc.prestate)
    BY <1>1, LogView
<1>3. Log.amount \in Nat
    BY <1>2 DEF StructLog
<1>4. state \in Kept(rpc.prestate)
    <2>1. CASE ~Affordable
        BY <1>2, <2>1
    <2>2. CASE Affordable
        <3>1. /\ Caller \in DOMAIN poststate
              /\ CreatedAddress \in DOMAIN poststate
              /\ poststate[Caller].balance >= Log.amount
            BY <1>1, <2>2 DEF Unwraps, Affordable
        <3>2. paid \in Kept(rpc.prestate) /\ DOMAIN paid = DOMAIN poststate
            BY <1>2, <1>3, <3>1, TransferKeeps
        <3> HIDE DEF paid
        <3>3. counted \in Kept(rpc.prestate) /\ DOMAIN counted = DOMAIN poststate
            BY <3>1, <3>2, CountKeeps
        <3> HIDE DEF counted
        <3>4. [counted EXCEPT ![CreatedAddress].code = code] \in Kept(rpc.prestate)
            BY <3>1, <3>3, CodeKeeps
        <3>5. AfterCreate(code) = [counted EXCEPT ![CreatedAddress].code = code]
            BY DEF AfterCreate, counted, paid
        <3> QED BY <2>2, <3>4, <3>5
    <2> QED BY <2>1, <2>2
<1> HIDE DEF state
<1> QED BY <1>1, <1>4, CreatedAddressType, EnterKeeps

LEMMA RevertKeeps ==
    ASSUME IndInv, Revert
    PROVE  IndInv'
<1>1. /\ pc = "loop" /\ i <= Len(Logs) /\ Log.op \in HaltOps /\ ~Unwraps
      /\ UNCHANGED block_hashes
      /\ Advance(Last(Snapshots), Contexts, Front(Snapshots), Depth)
    BY DEF Revert, AtLog
<1>2. /\ Contexts \in Seq(Address) /\ Len(Contexts) = Depth /\ Depth \in Nat \ {0}
      /\ Snapshots \in Seq(Kept(rpc.prestate)) /\ Len(Snapshots) <= Depth
      /\ Len(Snapshots) \in Nat
    BY <1>1, LogView, LenProperties
<1>3. Len(Snapshots) >= IF Log.error THEN 2 ELSE 1
    <2>1. Log.op \notin CallOps \cup CreateOps
        BY <1>1 DEF HaltOps, CallOps, CreateOps
    <2>2. Pops = IF Log.error THEN 2 ELSE 1
        BY <1>1 DEF Pops
    <2>3. Available = Len(Snapshots)
        BY <1>2, <2>1 DEF Available
    <2>4. ~(Pops > Available)
        BY <1>1 DEF Unwraps
    <2> QED BY <1>2, <2>2, <2>3, <2>4
<1>4. /\ Last(Snapshots) \in Kept(rpc.prestate)
      /\ Front(Snapshots) \in Seq(Kept(rpc.prestate))
      /\ Len(Front(Snapshots)) = Len(Snapshots) - 1
    BY <1>2, <1>3, FrontLast
<1>5. DOMAIN block_hashes' \subseteq Nat /\ block_hashes' \in [DOMAIN block_hashes' -> Word]
    BY <1>1 DEF IndInv
<1>6. Log.error => Len(Front(Snapshots)) >= 1
    BY <1>2, <1>3, <1>4
<1>7. Len(Front(Snapshots)) <= Depth
    BY <1>2, <1>4
<1> QED BY <1>1, <1>2, <1>4, <1>5, <1>6, <1>7, AdvanceKeeps

LEMMA RefundKeeps ==
    ASSUME IndInv, Refund
    PROVE  IndInv'
<1> DEFINE tx == rpc.transaction
           refund == (tx.gas - rpc.trace.gas) * tx.gas_price
<1>1. /\ pc = "loop"
      /\ UNCHANGED <<rpc, execution_contexts, snapshots, block_hashes, depth, i>>
    BY DEF Refund
<1>2. /\ poststate \in Kept(rpc.prestate)
      /\ tx.from \in DOMAIN poststate
      /\ tx.gas \in Nat /\ rpc.trace.gas \in Nat /\ tx.gas_price \in Nat
    BY <1>1 DEF IndInv, Running, IsRpcAnswer, Kept, Covers
<1>3. pc' \in {"done", "panic"} /\ poststate' \in Kept(rpc.prestate)
    <2>1. CASE tx.gas >= rpc.trace.gas
        <3>1. refund \in Nat
            BY <1>2, <2>1
        <3> HIDE DEF refund
        <3>2. Credit(poststate, tx.from, refund) \in Kept(rpc.prestate)
            BY <1>2, <3>1, CreditKeeps
        <3> QED BY <1>2, <2>1, <3>2 DEF Refund, refund
    <2>2. CASE tx.gas < rpc.trace.gas
        BY <1>2, <2>2 DEF Refund
    <2> QED BY <1>2, <2>1, <2>2
<1>4. poststate' \in EthStates
    BY <1>3 DEF Kept
<1> QED BY <1>1, <1>3, <1>4 DEF IndInv, Running, Ended

LEMMA StutterKeeps ==
    ASSUME IndInv, UNCHANGED replayVars
    PROVE  IndInv'
BY DEF IndInv, replayVars

THEOREM IndInvInductive == IndInv /\ [Next]_replayVars => IndInv'
<1> SUFFICES ASSUME IndInv, [Next]_replayVars
             PROVE  IndInv'
    OBVIOUS
<1>1. ASSUME NEW answer \in Answers, Fetch(answer)
      PROVE  IndInv'
    BY <1>1, FetchKeeps, AnswersAssumption
<1>2. CASE RpcFails
    BY <1>2, EndKeeps DEF RpcFails
<1>3. ASSUME NEW code \in Code, Deploy(code)
      PROVE  IndInv'
    BY <1>3, DeployKeeps
<1>4. ASSUME NEW code \in Code, Create(code)
      PROVE  IndInv'
    BY <1>4, CreateKeeps
<1>5. ASSUME NEW code \in Code, CreateFails(code)
      PROVE  IndInv'
    <2>1. pc = "loop"
        BY <1>5 DEF CreateFails, AtLog
    <2>2. End("err") \/ End("nocode")
        BY <1>5 DEF CreateFails
    <2> QED BY <2>1, <2>2, EndKeeps, EndNoCodeKeeps DEF Running
<1>6. CASE TransferValue
    BY <1>6, TransferValueKeeps
<1>7. CASE Sstore \/ SelfDestruct \/ Blockhash \/ Revert \/ Other
    BY <1>7, SstoreKeeps, SelfDestructKeeps, BlockhashKeeps, RevertKeeps, OtherKeeps
<1>8. CASE Call \/ StaticCall \/ DelegateCall
    BY <1>8, CallKeeps, StaticCallKeeps, DelegateCallKeeps
<1>9. CASE Panic(Opcode)
    BY <1>9, EndKeeps DEF Panic
<1>10. CASE Refund
    BY <1>10, RefundKeeps
<1>11. CASE UNCHANGED replayVars
    BY <1>11, StutterKeeps
<1> QED BY <1>1, <1>2, <1>3, <1>4, <1>5, <1>6, <1>7, <1>8, <1>9, <1>10, <1>11
        DEF Next, ReplayStep

THEOREM IndInvHolds == Spec => []IndInv
BY IndInvInit, IndInvInductive, PTL DEF Spec

-----------------------------------------------------------------------------
(* The properties that follow *)

(***************************************************************************)
(* The replay's state is well formed whatever the node answers: no balance *)
(* drops below zero, no hash is missing.                                   *)
(***************************************************************************)
THEOREM TypeCorrect == Spec => []TypeOK
<1>1. IndInv => TypeOK
    <2> SUFFICES ASSUME IndInv PROVE TypeOK
        OBVIOUS
    <2>1. IsEthState(poststate)
        BY EthStatesDef DEF IndInv
    <2>2. \A state \in Range(snapshots) : IsEthState(state)
        BY RangeOfSeq, EthStatesDef DEF IndInv
    <2> QED BY <2>1, <2>2 DEF IndInv, TypeOK
<1> QED BY <1>1, IndInvHolds, PTL

(***************************************************************************)
(* One context and at most one snapshot per open call, whatever depths the *)
(* node logs.                                                              *)
(***************************************************************************)
THEOREM ContextsMatchCalls == Spec => []ContextPerCall
<1>1. IndInv => ContextPerCall
    BY DEF IndInv, ContextPerCall, Running
<1> QED BY <1>1, IndInvHolds, PTL

(***************************************************************************)
(* No account and no accessed slot of the prestate is ever lost or added,  *)
(* in the state under reconstruction or in a snapshot.                     *)
(***************************************************************************)
THEOREM AccountsKept == Spec => []KeepsAccounts
<1>1. IndInv => KeepsAccounts
    <2> SUFFICES ASSUME IndInv, pc \in Running \cup {"done"}
                 PROVE  /\ Covers(poststate, rpc.prestate)
                        /\ \A state \in Range(snapshots) : Covers(state, rpc.prestate)
        BY DEF KeepsAccounts
    <2>1. poststate \in Kept(rpc.prestate) /\ snapshots \in Seq(Kept(rpc.prestate))
        BY DEF IndInv
    <2>2. \A state \in Range(snapshots) : state \in Kept(rpc.prestate)
        BY <2>1, RangeOfSeq
    <2> QED BY <2>1, <2>2 DEF Kept
<1> QED BY <1>1, IndInvHolds, PTL

-----------------------------------------------------------------------------
(* Well nested traces *)

(***************************************************************************)
(* Between two iterations over a well nested trace there is a snapshot for *)
(* every open call, except for a call that the last log ended.             *)
(***************************************************************************)
Entered(log) == IF log.op \in CallOps \cup CreateOps THEN 1 ELSE 0
Gone(log)    == IF EndsCall(log) THEN 1 ELSE 0

NestInv ==
    /\ pc \in {"deploy", "transfer"} => i = 1 /\ depth = 1 /\ Len(snapshots) = 1
    /\ pc = "loop" /\ WellNested(Logs) =>
        \/ i = 1 /\ depth = 1 /\ Len(snapshots) = 1
        \/ /\ i > 1
           /\ depth = Logs[i - 1].depth + Entered(Logs[i - 1])
           /\ Len(snapshots) = depth - Gone(Logs[i - 1])

(* So at every log, once the returned calls are dropped, one per call. *)
LEMMA SnapshotPerCall ==
    ASSUME IndInv, NestInv, pc = "loop", i <= Len(Logs), WellNested(Logs)
    PROVE  Depth = Log.depth /\ Len(Snapshots) = Log.depth
<1>1. Logs \in Seq(StructLog) /\ i \in 1 .. Len(Logs) /\ Len(Logs) \in Nat
    BY LenProperties DEF IndInv, Running, IsRpcAnswer, Logs
<1>2. Log.depth \in Nat \ {0}
    BY LogView DEF StructLog
<1>3. snapshots \in Seq(Kept(rpc.prestate)) /\ depth \in Nat
    BY DEF IndInv, Running
<1>4. Len(snapshots) \in Nat
    BY <1>3, LenProperties
<1>5. Log.depth <= depth /\ Log.depth <= Len(snapshots) /\ Len(snapshots) <= depth
    <2>1. CASE i = 1
        <3>1. Len(Logs) > 0
            BY <1>1
        <3>2. Log.depth = 1
            BY <2>1, <3>1 DEF WellNested, Log
        <3>3. depth = 1 /\ Len(snapshots) = 1
            BY <2>1 DEF NestInv
        <3> QED BY <3>2, <3>3
    <2>2. CASE i # 1
        <3> DEFINE prev == Logs[i - 1]
        <3>1. i \in 2 .. Len(Logs) /\ i - 1 \in 1 .. Len(Logs)
            BY <1>1, <2>2
        <3>2. prev \in StructLog
            BY <1>1, <3>1, ElementOfSeq
        <3>3. prev.depth \in Nat
            BY <3>2 DEF StructLog
        <3>4. /\ Log.depth <= prev.depth + Entered(prev)
              /\ EndsCall(prev) => Log.depth < prev.depth
            BY <3>1 DEF WellNested, Log, Entered
        <3>5. depth = prev.depth + Entered(prev) /\ Len(snapshots) = depth - Gone(prev)
            BY <2>2, <1>1 DEF NestInv
        <3>6. Entered(prev) \in {0, 1}
            BY DEF Entered
        <3>7. Gone(prev) = (IF EndsCall(prev) THEN 1 ELSE 0)
            BY DEF Gone
        <3> HIDE DEF prev
        <3> QED BY <1>2, <3>3, <3>4, <3>5, <3>6, <3>7
    <2> QED BY <2>1, <2>2
<1>6. Depth = Log.depth
    BY <1>2, <1>3, <1>5 DEF Depth, Returned
<1>7. Len(Snapshots) = Log.depth
    BY <1>2, <1>3, <1>4, <1>5, TruncateProperties DEF Snapshots, Returned
<1> QED BY <1>6, <1>7

LEMMA NestImpliesAvailable ==
    ASSUME IndInv, NestInv
    PROVE  SnapshotAvailable
<1> SUFFICES ASSUME pc = "loop", i <= Len(Logs), WellNested(Logs)
             PROVE  Pops <= Available
    BY DEF SnapshotAvailable
<1>1. Len(Snapshots) = Log.depth
    BY SnapshotPerCall
<1>2. Log.depth \in Nat \ {0}
    BY LogView DEF StructLog
<1>3. ~(Log.op \in HaltOps /\ Log.error)
    <2>1. Logs \in Seq(StructLog) /\ i \in 1 .. Len(Logs)
        BY LenProperties DEF IndInv, Running, IsRpcAnswer, Logs
    <2> QED BY <2>1 DEF WellNested, Log
<1>4. Pops \in {0, 1}
    BY <1>3 DEF Pops
<1>5. Available \in {Log.depth, Log.depth + 1}
    BY <1>1, <1>2 DEF Available
<1> QED BY <1>2, <1>4, <1>5

LEMMA AdvanceNests ==
    ASSUME IndInv, NestInv, pc = "loop", i <= Len(Logs),
           NEW state, NEW contexts, NEW d,
           NEW S, NEW snaps \in Seq(S), Len(snaps) >= 1 \/ ~Log.error,
           Advance(state, contexts, snaps, d),
           WellNested(Logs) =>
               /\ d = Log.depth + Entered(Log)
               /\ Len(snaps) = d - (IF Log.op \in HaltOps THEN 1 ELSE 0)
    PROVE  NestInv'
<1>1. pc' = "loop" /\ rpc' = rpc /\ depth' = d /\ i' = i + 1 /\ i' > 1
    BY DEF Advance, IndInv
<1>2. i' - 1 = i /\ Logs' = Logs
    BY <1>1 DEF IndInv, Logs
<1>3. ASSUME WellNested(Logs)
      PROVE  /\ depth' = Log.depth + Entered(Log)
             /\ Len(snapshots') = depth' - Gone(Log)
    <2>1. d = Log.depth + Entered(Log)
          /\ Len(snaps) = d - (IF Log.op \in HaltOps THEN 1 ELSE 0)
        BY <1>3
    <2>2. Log.depth \in Nat /\ Entered(Log) \in {0, 1}
        BY LogView DEF StructLog, Entered
    <2>3. CASE Log.error
        <3>1. Log.op \notin HaltOps
            <4>1. i \in 1 .. Len(Logs)
                BY LenProperties DEF IndInv, Running, IsRpcAnswer, Logs
            <4> QED BY <1>3, <2>3, <4>1 DEF WellNested, Log
        <3>2. Gone(Log) = 1
            BY <2>3 DEF Gone, EndsCall
        <3>3. Len(Front(snaps)) = Len(snaps) - 1
            BY <2>3, FrontLast
        <3>4. snapshots' = Front(snaps)
            BY <2>3 DEF Advance
        <3> QED BY <1>1, <2>1, <2>2, <3>1, <3>2, <3>3, <3>4
    <2>4. CASE ~Log.error
        <3>1. Gone(Log) = IF Log.op \in HaltOps THEN 1 ELSE 0
            BY <2>4 DEF Gone, EndsCall
        <3>2. snapshots' = snaps
            BY <2>4 DEF Advance
        <3> QED BY <1>1, <2>1, <2>2, <3>1, <3>2
    <2> QED BY <2>3, <2>4
<1>4. Logs[i] = Log
    BY DEF Log
<1> QED BY <1>1, <1>2, <1>3, <1>4 DEF NestInv

(* A log that stays in its call, or enters one, leaves one snapshot each. *)
LEMMA StayNests ==
    ASSUME IndInv, NestInv, pc = "loop", i <= Len(Logs), ~Unwraps, NEW state,
           Log.op \notin CallOps \cup CreateOps \cup HaltOps,
           Advance(state, Contexts, Snapshots, Depth)
    PROVE  NestInv'
<1>1. Snapshots \in Seq(Kept(rpc.prestate)) /\ Log.depth \in Nat
    BY LogView DEF StructLog
<1>2. Len(Snapshots) >= 1 \/ ~Log.error
    <2>1. Len(Snapshots) \in Nat
        BY <1>1, LenProperties
    <2>2. Available = Len(Snapshots) /\ (Log.error => Pops = 1)
        BY <2>1 DEF Available, Pops
    <2> QED BY <2>1, <2>2 DEF Unwraps
<1>3. WellNested(Logs) => Depth = Log.depth + Entered(Log) /\ Len(Snapshots) = Depth
    BY <1>1, SnapshotPerCall DEF Entered
<1>4. WellNested(Logs) =>
          Len(Snapshots) = Depth - (IF Log.op \in HaltOps THEN 1 ELSE 0)
    BY <1>1, <1>3, SnapshotPerCall
<1> QED BY <1>1, <1>2, <1>3, <1>4, AdvanceNests

LEMMA EnterNests ==
    ASSUME IndInv, NestInv, pc = "loop", i <= Len(Logs), NEW state, NEW context,
           Log.op \in CallOps \cup CreateOps, Enter(state, context)
    PROVE  NestInv'
<1> DEFINE snaps == Append(Snapshots, poststate)
           contexts == Append(Contexts, context)
           d == Depth + 1
<1>1. /\ Snapshots \in Seq(Kept(rpc.prestate)) /\ Log.depth \in Nat
      /\ poststate \in Kept(rpc.prestate)
    BY LogView DEF StructLog
<1>2. /\ snaps \in Seq(Kept(rpc.prestate))
      /\ Len(snaps) = Len(Snapshots) + 1 /\ Len(snaps) >= 1
    BY <1>1, AppendProperties, LenProperties
<1>3. Log.op \notin HaltOps /\ Entered(Log) = 1
    BY DEF HaltOps, CallOps, CreateOps, Entered
<1>4. WellNested(Logs) => /\ d = Log.depth + Entered(Log)
                          /\ Len(snaps) = d
    BY <1>1, <1>2, <1>3, SnapshotPerCall
<1>5. WellNested(Logs) =>
          Len(snaps) = d - (IF Log.op \in HaltOps THEN 1 ELSE 0)
    BY <1>1, <1>3, <1>4, SnapshotPerCall
<1>6. Advance(state, contexts, snaps, d)
    BY DEF Enter
<1> HIDE DEF snaps, contexts, d
<1> QED BY <1>2, <1>4, <1>5, <1>6, AdvanceNests

LEMMA RevertNests ==
    ASSUME IndInv, NestInv, Revert
    PROVE  NestInv'
<1>1. /\ pc = "loop" /\ i <= Len(Logs) /\ Log.op \in HaltOps /\ ~Unwraps
      /\ Advance(Last(Snapshots), Contexts, Front(Snapshots), Depth)
    BY DEF Revert, AtLog
<1>2. /\ Snapshots \in Seq(Kept(rpc.prestate)) /\ Log.depth \in Nat
      /\ Len(Snapshots) \in Nat
    BY <1>1, LogView, LenProperties DEF StructLog
<1>3. Log.op \notin CallOps \cup CreateOps
    BY <1>1 DEF HaltOps, CallOps, CreateOps
<1>4. Len(Snapshots) >= IF Log.error THEN 2 ELSE 1
    <2>1. Pops = (IF Log.error THEN 2 ELSE 1) /\ Available = Len(Snapshots)
        BY <1>1, <1>2, <1>3 DEF Pops, Available
    <2> QED BY <1>1, <1>2, <2>1 DEF Unwraps
<1>5. /\ Front(Snapshots) \in Seq(Kept(rpc.prestate))
      /\ Len(Front(Snapshots)) = Len(Snapshots) - 1
    BY <1>2, <1>4, FrontLast
<1>6. Len(Front(Snapshots)) >= 1 \/ ~Log.error
    BY <1>2, <1>4, <1>5
<1>7. WellNested(Logs) => /\ Depth = Log.depth + Entered(Log)
                          /\ Len(Snapshots) = Depth
    BY <1>1, <1>2, <1>3, SnapshotPerCall DEF Entered
<1>8. WellNested(Logs) =>
          Len(Front(Snapshots)) = Depth - (IF Log.op \in HaltOps THEN 1 ELSE 0)
    BY <1>1, <1>5, <1>7
<1> QED BY <1>1, <1>5, <1>6, <1>7, <1>8, AdvanceNests

LEMMA NestInvInductive ==
    ASSUME IndInv, NestInv, [Next]_replayVars
    PROVE  NestInv'
<1>1. ASSUME NEW answer \in Answers, Fetch(answer)
      PROVE  NestInv'
    <2>1. /\ \/ pc' = "panic"
             \/ pc' \in {"deploy", "transfer"} /\ snapshots' = <<poststate'>>
          /\ i' = 1 /\ depth' = 1
        BY <1>1 DEF Fetch
    <2>2. Len(<<poststate'>>) = 1
        OBVIOUS
    <2> QED BY <2>1, <2>2 DEF NestInv
<1>2. ASSUME NEW how \in {"err", "nocode", "panic"}, End(how)
      PROVE  NestInv'
    BY <1>2 DEF End, NestInv
<1>3. ASSUME NEW code \in Code, Deploy(code)
      PROVE  NestInv'
    <2>1. CASE pc' = "transfer" /\ UNCHANGED <<snapshots, depth, i>>
        BY <1>3, <2>1 DEF Deploy, NestInv
    <2> QED BY <1>2, <1>3, <2>1 DEF Deploy
<1>4. CASE TransferValue
    BY <1>4 DEF TransferValue, NestInv
<1>5. ASSUME NEW code \in Code, Create(code) \/ CreateFails(code)
      PROVE  NestInv'
    <2>1. CASE Create(code)
        BY <2>1, EnterNests DEF Create, AtLog
    <2>2. CASE CreateFails(code)
        BY <1>2, <2>2 DEF CreateFails
    <2> QED BY <1>5, <2>1, <2>2
<1>6. CASE Call
    BY <1>6, EnterNests DEF Call, AtLog, CallOps
<1>7. CASE StaticCall
    BY <1>7, EnterNests DEF StaticCall, AtLog, CallOps
<1>8. CASE DelegateCall
    BY <1>8, EnterNests DEF DelegateCall, AtLog, CallOps
<1>9. CASE Sstore
    BY <1>9, StayNests DEF Sstore, AtLog, CallOps, CreateOps, HaltOps
<1>10. CASE SelfDestruct
    BY <1>10, StayNests DEF SelfDestruct, AtLog, CallOps, CreateOps, HaltOps
<1>11. CASE Blockhash
    BY <1>11, StayNests DEF Blockhash, AtLog, CallOps, CreateOps, HaltOps
<1>12. CASE Other
    BY <1>12, StayNests DEF Other, AtLog, CallOps, CreateOps, HaltOps
<1>13. CASE Revert
    BY <1>13, RevertNests
<1>14. CASE RpcFails \/ Panic(Opcode)
    BY <1>2, <1>14 DEF RpcFails, Panic
<1>15. CASE Refund
    BY <1>15 DEF Refund, NestInv
<1>16. CASE UNCHANGED replayVars
    BY <1>16 DEF replayVars, NestInv, Logs, WellNested
<1> QED BY <1>1, <1>3, <1>4, <1>5, <1>6, <1>7, <1>8, <1>9, <1>10, <1>11, <1>12,
           <1>13, <1>14, <1>15, <1>16 DEF Next, ReplayStep

(***************************************************************************)
(* Over a well nested trace of any length and depth, every failing log     *)
(* finds the snapshot it goes back to.                                     *)
(***************************************************************************)
THEOREM SnapshotsSuffice == Spec => []SnapshotAvailable
<1>1. Init => NestInv
    BY DEF Init, NestInv
<1>2. IndInv /\ NestInv /\ [Next]_replayVars => NestInv'
    BY NestInvInductive
<1>3. IndInv /\ NestInv => SnapshotAvailable
    BY NestImpliesAvailable
<1> QED BY <1>1, <1>2, <1>3, IndInvHolds, PTL DEF Spec

-----------------------------------------------------------------------------
(* What a state is worth *)

(* the coins of a *)
Purse(state, a) == {a} \X (1 .. state[a].balance)

LEMMA PurseIs ==
    ASSUME NEW state \in EthStates, NEW a \in DOMAIN state
    PROVE  /\ IsFiniteSet(Purse(state, a))
           /\ Cardinality(Purse(state, a)) = state[a].balance
           /\ state[a].balance \in Nat
<1>1. state[a].balance \in Nat
    BY DEF EthStates, EthAccountState
<1>2. PICK n \in Nat : n = state[a].balance
    BY <1>1
<1>3. IsFiniteSet(1 .. n) /\ Cardinality(1 .. n) = n
    BY FS_Interval
<1>4. IsFiniteSet({a}) /\ Cardinality({a}) = 1
    BY FS_Singleton
<1>5. PICK S, T : S = {a} /\ T = 1 .. n
    OBVIOUS
<1>6. IsFiniteSet(S \X T) /\ Cardinality(S \X T) = Cardinality(S) * Cardinality(T)
    BY <1>3, <1>4, <1>5, FS_Product
<1> QED BY <1>2, <1>3, <1>4, <1>5, <1>6 DEF Purse

(* the coins of the other accounts *)
Others(state, a) == UNION {Purse(state, b) : b \in DOMAIN state \ {a}}

LEMMA OthersFinite ==
    ASSUME NEW state \in EthStates, NEW a
    PROVE  IsFiniteSet(Others(state, a)) /\ Cardinality(Others(state, a)) \in Nat
<1> DEFINE D      == DOMAIN state \ {a}
           purses == {Purse(state, b) : b \in D}
<1>1. IsFiniteSet(D)
    <2>1. D \in SUBSET Address
        BY DEF EthStates
    <2> QED BY <2>1, AddressAssumption, FS_Subset
<1>2. IsFiniteSet(purses)
    <2> DEFINE f == [b \in D |-> Purse(state, b)]
    <2>1. f \in Surjection(D, purses)
        BY DEF Surjection
    <2> QED BY <1>1, <2>1, FS_Surjection
<1>3. \A T \in purses : IsFiniteSet(T)
    BY PurseIs
<1>4. IsFiniteSet(UNION purses)
    BY <1>2, <1>3, FS_UNION
<1> QED BY <1>4, FS_CardinalityType DEF Others

LEMMA TotalSplits ==
    ASSUME NEW state \in EthStates, NEW a \in DOMAIN state
    PROVE  Total(state) = Cardinality(Others(state, a)) + state[a].balance
<1> DEFINE rest == Others(state, a)
           own  == Purse(state, a)
<1>1. Coins(state) = rest \cup own
    BY DEF Coins, Others, Purse
<1>2. rest \cap own = {}
    BY DEF Others, Purse
<1>3. IsFiniteSet(rest) /\ IsFiniteSet(own) /\ Cardinality(rest) \in Nat
      /\ Cardinality(own) = state[a].balance /\ state[a].balance \in Nat
    BY PurseIs, OthersFinite
<1> HIDE DEF rest, own
<1>4. /\ Cardinality(rest \cup own)
           = Cardinality(rest) + Cardinality(own) - Cardinality(rest \cap own)
      /\ Cardinality(rest \cap own) = 0
    BY <1>2, <1>3, FS_Union, FS_EmptySet
<1>5. Total(state) = Cardinality(rest) + state[a].balance
    BY <1>1, <1>3, <1>4 DEF Total
<1> QED BY <1>5 DEF rest

LEMMA TotalType ==
    ASSUME NEW state \in EthStates
    PROVE  Total(state) \in Nat
<1>1. CASE DOMAIN state = {}
    <2>1. Coins(state) = {}
        BY <1>1 DEF Coins
    <2> QED BY <2>1, FS_EmptySet DEF Total
<1>2. ASSUME NEW a \in DOMAIN state PROVE Total(state) \in Nat
    <2>1. /\ Total(state) = Cardinality(Others(state, a)) + state[a].balance
          /\ Cardinality(Others(state, a)) \in Nat /\ state[a].balance \in Nat
        BY TotalSplits, OthersFinite, PurseIs
    <2> QED BY <2>1
<1> QED BY <1>1, <1>2

(* Only the balances count. *)
LEMMA SameTotal ==
    ASSUME NEW state, NEW new, DOMAIN new = DOMAIN state,
           \A b \in DOMAIN state : new[b].balance = state[b].balance
    PROVE  Total(new) = Total(state)
<1>1. Coins(new) = Coins(state)
    BY DEF Coins
<1> QED BY <1>1 DEF Total

(* What one account gains or loses, the sum gains or loses. *)
LEMMA OneChanges ==
    ASSUME NEW state \in EthStates, NEW new \in EthStates, DOMAIN new = DOMAIN state,
           NEW a \in DOMAIN state,
           \A b \in DOMAIN state \ {a} : new[b].balance = state[b].balance
    PROVE  /\ Total(new) = Total(state) - state[a].balance + new[a].balance
           /\ Total(state) \in Nat /\ state[a].balance \in Nat /\ new[a].balance \in Nat
<1>1. Others(new, a) = Others(state, a)
    BY DEF Others, Purse
<1>2. PICK rest \in Nat : rest = Cardinality(Others(state, a))
    BY OthersFinite
<1>3. Total(new) = rest + new[a].balance /\ Total(state) = rest + state[a].balance
    BY <1>1, <1>2, TotalSplits
<1>4. state[a].balance \in Nat /\ new[a].balance \in Nat
    BY PurseIs
<1> QED BY <1>3, <1>4

-----------------------------------------------------------------------------
(* Payments, account by account *)

WithBalance(account, v) ==
    [nonce |-> account.nonce, balance |-> v, code |-> account.code,
     storage |-> account.storage]

LEMMA DebitIs ==
    ASSUME NEW pre, NEW state \in Kept(pre), NEW a \in DOMAIN state, NEW v
    PROVE  /\ DOMAIN Debit(state, a, v) = DOMAIN state
           /\ \A b \in DOMAIN state :
                Debit(state, a, v)[b] =
                   IF b = a THEN WithBalance(state[a], state[a].balance - v) ELSE state[b]
<1>1. state[a] \in EthAccountState
    BY AccountType
<1> DEFINE account == [state[a] EXCEPT !.balance = @ - v]
<1>2. account = WithBalance(state[a], state[a].balance - v)
    BY <1>1 DEF EthAccountState, WithBalance
<1>3. Debit(state, a, v) = [state EXCEPT ![a] = account]
    BY DEF Debit
<1> HIDE DEF account
<1> QED BY <1>2, <1>3

LEMMA CreditIs ==
    ASSUME NEW pre, NEW state \in Kept(pre), NEW a \in DOMAIN state, NEW v
    PROVE  /\ DOMAIN Credit(state, a, v) = DOMAIN state
           /\ \A b \in DOMAIN state :
                Credit(state, a, v)[b] =
                   IF b = a THEN WithBalance(state[a], state[a].balance + v) ELSE state[b]
<1>1. state[a] \in EthAccountState
    BY AccountType
<1> DEFINE account == [state[a] EXCEPT !.balance = @ + v]
<1>2. account = WithBalance(state[a], state[a].balance + v)
    BY <1>1 DEF EthAccountState, WithBalance
<1>3. Credit(state, a, v) = [state EXCEPT ![a] = account]
    BY DEF Credit
<1> HIDE DEF account
<1> QED BY <1>2, <1>3

LEMMA BalanceType ==
    ASSUME NEW pre, NEW state \in Kept(pre), NEW a \in DOMAIN state
    PROVE  state[a].balance \in Nat
BY AccountType DEF EthAccountState

(* What a transfer leaves in every account *)
LEMMA TransferIs ==
    ASSUME NEW pre, NEW state \in Kept(pre), NEW from \in DOMAIN state,
           NEW to \in DOMAIN state, NEW v \in Nat, state[from].balance >= v
    PROVE  /\ DOMAIN Transfer(state, from, to, v) = DOMAIN state
           /\ \A b \in DOMAIN state :
                LET balance == state[b].balance IN
                Transfer(state, from, to, v)[b] =
                   IF b = from /\ b = to THEN state[b]
                   ELSE IF b = from THEN WithBalance(state[b], balance - v)
                   ELSE IF b = to THEN WithBalance(state[b], balance + v)
                   ELSE state[b]
<1> DEFINE debited == Debit(state, from, v)
<1>1. debited \in Kept(pre) /\ DOMAIN debited = DOMAIN state
    BY DebitKeeps
<1>2. \A b \in DOMAIN state :
         debited[b] = IF b = from THEN WithBalance(state[from], state[from].balance - v)
                      ELSE state[b]
    BY DebitIs
<1> HIDE DEF debited
<1>3. /\ DOMAIN Credit(debited, to, v) = DOMAIN state
      /\ \A b \in DOMAIN state :
            Credit(debited, to, v)[b] =
               IF b = to THEN WithBalance(debited[to], debited[to].balance + v)
               ELSE debited[b]
    BY <1>1, CreditIs
<1>4. Transfer(state, from, to, v) = Credit(debited, to, v)
    BY DEF Transfer, debited
<1>5. state[from].balance \in Nat /\ state[from] \in EthAccountState
    BY AccountType, BalanceType
<1>6. WithBalance(WithBalance(state[from], state[from].balance - v),
                  (state[from].balance - v) + v) = state[from]
    BY <1>5 DEF WithBalance, EthAccountState
<1>7. \A x, y : WithBalance(x, y).balance = y
    BY DEF WithBalance
<1> QED BY <1>2, <1>3, <1>4, <1>6, <1>7

-----------------------------------------------------------------------------
(* No step makes money. *)

LEMMA DebitTotal ==
    ASSUME NEW pre, NEW state \in Kept(pre), NEW a \in DOMAIN state, NEW v \in Nat,
           state[a].balance >= v
    PROVE  Total(Debit(state, a, v)) = Total(state) - v
<1>1. PICK new : new = Debit(state, a, v)
    OBVIOUS
<1>2. new \in EthStates /\ state \in EthStates /\ DOMAIN new = DOMAIN state
    BY <1>1, DebitKeeps DEF Kept
<1>3. /\ new[a].balance = state[a].balance - v
      /\ \A b \in DOMAIN state \ {a} : new[b].balance = state[b].balance
    <2>1. \A b \in DOMAIN state :
             new[b] = IF b = a THEN WithBalance(state[a], state[a].balance - v)
                      ELSE state[b]
        BY <1>1, DebitIs
    <2>2. WithBalance(state[a], state[a].balance - v).balance = state[a].balance - v
        BY DEF WithBalance
    <2> QED BY <2>1, <2>2
<1>4. /\ Total(new) = Total(state) - state[a].balance + new[a].balance
      /\ Total(state) \in Nat /\ state[a].balance \in Nat
    BY <1>2, <1>3, OneChanges
<1> QED BY <1>1, <1>3, <1>4

LEMMA CreditTotal ==
    ASSUME NEW pre, NEW state \in Kept(pre), NEW a \in DOMAIN state, NEW v \in Nat
    PROVE  Total(Credit(state, a, v)) = Total(state) + v
<1>1. PICK new : new = Credit(state, a, v)
    OBVIOUS
<1>2. new \in EthStates /\ state \in EthStates /\ DOMAIN new = DOMAIN state
    BY <1>1, CreditKeeps DEF Kept
<1>3. /\ new[a].balance = state[a].balance + v
      /\ \A b \in DOMAIN state \ {a} : new[b].balance = state[b].balance
    <2>1. \A b \in DOMAIN state :
             new[b] = IF b = a THEN WithBalance(state[a], state[a].balance + v)
                      ELSE state[b]
        BY <1>1, CreditIs
    <2>2. WithBalance(state[a], state[a].balance + v).balance = state[a].balance + v
        BY DEF WithBalance
    <2> QED BY <2>1, <2>2
<1>4. /\ Total(new) = Total(state) - state[a].balance + new[a].balance
      /\ Total(state) \in Nat /\ state[a].balance \in Nat
    BY <1>2, <1>3, OneChanges
<1> QED BY <1>1, <1>3, <1>4

LEMMA TransferTotal ==
    ASSUME NEW pre, NEW state \in Kept(pre), NEW from \in DOMAIN state,
           NEW to \in DOMAIN state, NEW v \in Nat, state[from].balance >= v
    PROVE  Total(Transfer(state, from, to, v)) = Total(state)
<1>1. PICK debited : debited = Debit(state, from, v)
    OBVIOUS
<1>2. debited \in Kept(pre) /\ DOMAIN debited = DOMAIN state
    BY <1>1, DebitKeeps
<1>3. Total(debited) = Total(state) - v
    BY <1>1, DebitTotal
<1>4. Total(Credit(debited, to, v)) = Total(debited) + v
    BY <1>2, CreditTotal
<1>5. Total(state) \in Nat
    BY TotalType DEF Kept
<1> QED BY <1>1, <1>3, <1>4, <1>5 DEF Transfer

LEMMA CountTotal ==
    ASSUME NEW pre, NEW state \in Kept(pre), NEW a \in DOMAIN state
    PROVE  Total([state EXCEPT ![a].nonce = @ + 1]) = Total(state)
<1>1. state[a] \in EthAccountState
    BY AccountType
<1> DEFINE account == [state[a] EXCEPT !.nonce = @ + 1]
<1>2. account.balance = state[a].balance
    BY <1>1 DEF EthAccountState
<1>3. [state EXCEPT ![a].nonce = @ + 1] = [state EXCEPT ![a] = account]
    OBVIOUS
<1> HIDE DEF account
<1>4. PICK new : new = [state EXCEPT ![a] = account]
    OBVIOUS
<1>5. DOMAIN new = DOMAIN state /\ \A b \in DOMAIN state : new[b].balance = state[b].balance
    BY <1>2, <1>4
<1>6. Total(new) = Total(state)
    BY <1>5, SameTotal
<1> QED BY <1>3, <1>4, <1>6

LEMMA CodeTotal ==
    ASSUME NEW pre, NEW state \in Kept(pre), NEW a \in DOMAIN state, NEW code
    PROVE  Total([state EXCEPT ![a].code = code]) = Total(state)
<1>1. state[a] \in EthAccountState
    BY AccountType
<1> DEFINE account == [state[a] EXCEPT !.code = code]
<1>2. account.balance = state[a].balance
    BY <1>1 DEF EthAccountState
<1>3. [state EXCEPT ![a].code = code] = [state EXCEPT ![a] = account]
    OBVIOUS
<1> HIDE DEF account
<1>4. PICK new : new = [state EXCEPT ![a] = account]
    OBVIOUS
<1>5. DOMAIN new = DOMAIN state /\ \A b \in DOMAIN state : new[b].balance = state[b].balance
    BY <1>2, <1>4
<1>6. Total(new) = Total(state)
    BY <1>5, SameTotal
<1> QED BY <1>3, <1>4, <1>6

LEMMA StoreTotal ==
    ASSUME NEW pre, NEW state \in Kept(pre), NEW a \in DOMAIN state, NEW k, NEW v
    PROVE  Total(Store(state, a, k, v)) = Total(state)
<1>1. state[a] \in EthAccountState
    BY AccountType
<1> DEFINE slots   == Insert(state[a].storage, k, v)
           account == [state[a] EXCEPT !.storage = slots]
<1>2. account.balance = state[a].balance
    BY <1>1 DEF EthAccountState
<1>3. Store(state, a, k, v) = [state EXCEPT ![a] = account]
    BY DEF Store
<1> HIDE DEF account
<1>4. PICK new : new = [state EXCEPT ![a] = account]
    OBVIOUS
<1>5. DOMAIN new = DOMAIN state /\ \A b \in DOMAIN state : new[b].balance = state[b].balance
    BY <1>2, <1>4
<1>6. Total(new) = Total(state)
    BY <1>5, SameTotal
<1> QED BY <1>3, <1>4, <1>6

(* what the transaction has paid while it runs *)
Bought == rpc.transaction.gas_price * rpc.transaction.gas

Sound(state) == Accounted(state, rpc, Bought)

LEMMA SoundBefore ==
    ASSUME IndInv, ConservesMoney, pc = "loop", i <= Len(Logs)
    PROVE  /\ Sound(poststate) /\ Bought \in Nat
           /\ \A j \in 1 .. Len(Snapshots) : Sound(Snapshots[j])
<1>1. \A state \in {poststate} \cup Range(snapshots) : Sound(state)
    BY DEF ConservesMoney, Running, Sound, Bought
<1>2. Bought \in Nat
    BY DEF IndInv, Running, IsRpcAnswer, Bought
<1>3. snapshots \in Seq(Kept(rpc.prestate)) /\ Log.depth \in Nat
    BY LogView DEF IndInv, Running, StructLog
<1>4. \A j \in 1 .. Len(snapshots) : Sound(snapshots[j])
    BY <1>1, <1>3, RangeOfSeq, LenProperties DEF Range
<1>5. \A j \in 1 .. Len(Snapshots) : j \in 1 .. Len(snapshots) /\ Snapshots[j] = snapshots[j]
    <2>1. CASE Returned /\ Log.depth < Len(snapshots)
        <3>1. Snapshots = SubSeq(snapshots, 1, Log.depth)
            BY <2>1 DEF Snapshots, Truncate
        <3>2. \A k \in 1 .. Log.depth : snapshots[k] \in Kept(rpc.prestate)
            BY <1>3, <2>1, ElementOfSeq, LenProperties
        <3>3. /\ Len(SubSeq(snapshots, 1, Log.depth)) = Log.depth
              /\ \A k \in 1 .. Log.depth : SubSeq(snapshots, 1, Log.depth)[k] = snapshots[k]
            BY <1>3, <3>2, SubSeqProperties
        <3>4. Len(snapshots) \in Nat
            BY <1>3, LenProperties
        <3> QED BY <1>3, <2>1, <3>1, <3>3, <3>4
    <2>2. CASE ~(Returned /\ Log.depth < Len(snapshots))
        BY <2>2 DEF Snapshots, Truncate
    <2> QED BY <2>1, <2>2
<1> QED BY <1>1, <1>2, <1>4, <1>5

LEMMA AdvanceConserves ==
    ASSUME pc = "loop", NEW state, Sound(state), NEW contexts, NEW d,
           NEW S, NEW snaps \in Seq(S), \A j \in 1 .. Len(snaps) : Sound(snaps[j]),
           Log.error => Len(snaps) >= 1,
           Advance(state, contexts, snaps, d)
    PROVE  ConservesMoney'
<1>1. pc' = "loop" /\ rpc' = rpc
    BY DEF Advance
<1>2. Sound(poststate') /\ snapshots' \in Seq(S)
      /\ \A j \in 1 .. Len(snapshots') : Sound(snapshots'[j])
    <2>1. CASE Log.error
        <3>1. poststate' = Last(snaps) /\ snapshots' = Front(snaps)
            BY <2>1 DEF Advance
        <3>2. Len(snaps) \in Nat
            BY LenProperties
        <3>3. /\ Front(snaps) \in Seq(S) /\ Len(Front(snaps)) = Len(snaps) - 1
              /\ \A j \in 1 .. Len(snaps) - 1 : Front(snaps)[j] = snaps[j]
              /\ Last(snaps) = snaps[Len(snaps)]
            BY <2>1, <3>2, FrontLast DEF Front, Last
        <3> QED BY <2>1, <3>1, <3>2, <3>3
    <2>2. CASE ~Log.error
        BY <2>2 DEF Advance
    <2> QED BY <2>1, <2>2
<1>3. \A s \in Range(snapshots') : Sound(s)
    BY <1>2, LenProperties DEF Range
<1> HIDE DEF Range
<1> QED BY <1>1, <1>2, <1>3 DEF ConservesMoney, Sound, Bought, Running

(* No opcode spends or makes money but SELFDESTRUCT. *)
LEMMA SoundKept ==
    ASSUME NEW s, NEW t, Sound(s), Total(t) = Total(s)
    PROVE  Sound(t)
BY DEF Sound, Accounted

(* An iteration that neither enters a call nor goes back by its opcode *)
LEMMA StayConserves ==
    ASSUME IndInv, ConservesMoney, pc = "loop", i <= Len(Logs), ~Unwraps,
           Log.op \notin CallOps \cup CreateOps \cup HaltOps,
           NEW state, Sound(state), Advance(state, Contexts, Snapshots, Depth)
    PROVE  ConservesMoney'
<1>1. Snapshots \in Seq(Kept(rpc.prestate)) /\ Len(Snapshots) \in Nat
    BY LogView, LenProperties
<1>2. Available = Len(Snapshots) /\ (Log.error => Pops = 1)
    BY <1>1 DEF Available, Pops
<1>3. Log.error => Len(Snapshots) >= 1
    BY <1>1, <1>2 DEF Unwraps
<1> QED BY <1>1, <1>3, SoundBefore, AdvanceConserves

LEMMA EnterConserves ==
    ASSUME IndInv, ConservesMoney, pc = "loop", i <= Len(Logs),
           NEW state, Total(state) = Total(poststate), NEW context, Enter(state, context)
    PROVE  ConservesMoney'
<1> DEFINE snaps == Append(Snapshots, poststate)
<1>1. /\ Snapshots \in Seq(Kept(rpc.prestate)) /\ Len(Snapshots) \in Nat
      /\ poststate \in Kept(rpc.prestate)
    BY LogView, LenProperties
<1>2. /\ snaps \in Seq(Kept(rpc.prestate)) /\ Len(snaps) = Len(Snapshots) + 1
      /\ snaps[Len(Snapshots) + 1] = poststate
      /\ \A j \in 1 .. Len(Snapshots) : snaps[j] = Snapshots[j]
    BY <1>1, AppendProperties
<1>3. Advance(state, Append(Contexts, context), snaps, Depth + 1)
    BY DEF Enter
<1> HIDE DEF snaps
<1>4. Sound(poststate) /\ Sound(state) /\ \A j \in 1 .. Len(Snapshots) : Sound(Snapshots[j])
    BY SoundBefore, SoundKept
<1>5. \A j \in 1 .. Len(snaps) : Sound(snaps[j])
    BY <1>1, <1>2, <1>4
<1> QED BY <1>1, <1>2, <1>3, <1>4, <1>5, AdvanceConserves

LEMMA SstoreConserves ==
    ASSUME IndInv, ConservesMoney, Sstore
    PROVE  ConservesMoney'
<1>1. /\ pc = "loop" /\ i <= Len(Logs) /\ Log.op = "SSTORE" /\ ~Unwraps
      /\ Advance(Store(poststate, Caller, Log.key, Log.data), Contexts, Snapshots, Depth)
    BY DEF Sstore, AtLog
<1>2. Caller \in DOMAIN poststate /\ poststate \in Kept(rpc.prestate)
    BY <1>1, LogView DEF Unwraps
<1>3. Sound(Store(poststate, Caller, Log.key, Log.data))
    BY <1>1, <1>2, StoreTotal, SoundBefore, SoundKept
<1> QED BY <1>1, <1>3, StayConserves DEF CallOps, CreateOps, HaltOps

LEMMA SelfDestructConserves ==
    ASSUME IndInv, ConservesMoney, SelfDestruct
    PROVE  ConservesMoney'
<1> DEFINE balance == poststate[Caller].balance
           paid == IF balance = 0 THEN poststate
                   ELSE Credit(poststate, Log.address, balance)
           state == [paid EXCEPT ![Caller].balance = 0, ![Caller].nonce = 0,
                                 ![Caller].code = NoCode]
           account == [paid[Caller] EXCEPT !.balance = 0, !.nonce = 0,
                                           !.code = NoCode]
<1>1. /\ pc = "loop" /\ i <= Len(Logs) /\ Log.op = "SELFDESTRUCT" /\ ~Unwraps
      /\ Advance(state, Contexts, Snapshots, Depth)
    BY SMTT(30) DEF SelfDestruct, AtLog
<1>2. Log \in StructLog /\ poststate \in Kept(rpc.prestate) /\ Logs \in Seq(StructLog)
      /\ i \in 1 .. Len(Logs)
    BY <1>1, LogView, LenProperties DEF IndInv, Running, IsRpcAnswer, Logs
<1>3. /\ Caller \in DOMAIN poststate
      /\ balance = 0 \/ Log.address \in DOMAIN poststate
    BY <1>1 DEF Unwraps
<1>4. balance \in Nat
    BY <1>2, <1>3, BalanceType
<1>5. /\ paid \in Kept(rpc.prestate) /\ DOMAIN paid = DOMAIN poststate
      /\ Total(paid) = Total(poststate) + balance
      /\ paid[Caller].balance >= balance
    <2>1. CASE balance = 0
        BY <1>2, <1>4, <2>1, TotalType DEF Kept
    <2>2. CASE balance # 0
        <3>1. /\ Credit(poststate, Log.address, balance) \in Kept(rpc.prestate)
              /\ DOMAIN Credit(poststate, Log.address, balance) = DOMAIN poststate
              /\ Total(Credit(poststate, Log.address, balance))
                    = Total(poststate) + balance
            BY <1>2, <1>3, <1>4, <2>2, CreditKeeps, CreditTotal
        <3>2. Credit(poststate, Log.address, balance)[Caller]
                 \in {poststate[Caller], WithBalance(poststate[Caller], balance + balance)}
            BY <1>2, <1>3, <2>2, CreditIs
        <3>3. WithBalance(poststate[Caller], balance + balance).balance = balance + balance
            BY DEF WithBalance
        <3> QED BY <1>4, <2>2, <3>1, <3>2, <3>3
    <2> QED BY <2>1, <2>2
<1> HIDE DEF paid
<1>6. state = [paid EXCEPT ![Caller] = account]
    <2>1. paid[Caller] \in EthAccountState
        BY <1>3, <1>5, AccountType
    <2> QED BY <1>3, <1>5, <2>1 DEF EthAccountState
<1>7. account.balance = 0 /\ account \in EthAccountState
      /\ account.storage = paid[Caller].storage
    <2>1. paid[Caller] \in EthAccountState
        BY <1>3, <1>5, AccountType
    <2> QED BY <2>1, NoCodeIsCode DEF EthAccountState
<1> HIDE DEF account, state
<1>8. /\ [paid EXCEPT ![Caller] = account] \in Kept(rpc.prestate)
      /\ DOMAIN [paid EXCEPT ![Caller] = account] = DOMAIN paid
    BY <1>3, <1>5, <1>7, Rewrite
<1>9. Total(state) <= Total(poststate)
    <2>1. state \in EthStates /\ paid \in EthStates /\ DOMAIN state = DOMAIN paid
        BY <1>5, <1>6, <1>8 DEF Kept
    <2>2. /\ state[Caller].balance = 0
          /\ \A b \in DOMAIN paid \ {Caller} : state[b].balance = paid[b].balance
        BY <1>3, <1>5, <1>6, <1>7
    <2>3. /\ Total(state) = Total(paid) - paid[Caller].balance + 0
          /\ Total(paid) \in Nat /\ paid[Caller].balance \in Nat
        BY <1>3, <1>5, <2>1, <2>2, OneChanges
    <2>4. Total(poststate) \in Nat
        BY <1>2, TotalType DEF Kept
    <2> QED BY <1>4, <1>5, <2>3, <2>4
<1>10. Burning(rpc.trace.struct_logs)
    BY <1>1, <1>2 DEF Burning, Log, Logs
<1>11. Sound(state)
    <2>1. Sound(poststate) /\ Bought \in Nat
        BY <1>1, SoundBefore
    <2>2. /\ Total(state) \in Nat /\ Total(poststate) \in Nat
          /\ Total(rpc.prestate) \in Nat
        BY <1>1, <1>2, <1>6, <1>8, TotalType, EthStatesDef
           DEF Kept, IndInv, Running, IsRpcAnswer
    <2> QED BY <1>9, <1>10, <2>1, <2>2 DEF Sound, Accounted
<1> QED BY SMTT(30), <1>1, <1>11, StayConserves DEF CallOps, CreateOps, HaltOps

LEMMA CallConserves ==
    ASSUME IndInv, ConservesMoney, Call
    PROVE  ConservesMoney'
<1> DEFINE pays  == Log.amount # 0 /\ Affordable
           state == IF pays THEN Transfer(poststate, Caller, Log.address, Log.amount)
                    ELSE poststate
<1>1. /\ pc = "loop" /\ i <= Len(Logs) /\ Log.op = "CALL" /\ ~Unwraps
      /\ Enter(state, Log.address)
    BY DEF Call, AtLog
<1>2. Log \in StructLog /\ poststate \in Kept(rpc.prestate)
    BY <1>1, LogView
<1>3. Log.amount \in Nat
    BY <1>2 DEF StructLog
<1>4. pays => /\ Caller \in DOMAIN poststate
              /\ Log.address \in DOMAIN poststate
              /\ poststate[Caller].balance >= Log.amount
    BY <1>1 DEF Unwraps, Affordable
<1>5. Total(state) = Total(poststate)
    BY <1>2, <1>3, <1>4, TransferTotal
<1> HIDE DEF state
<1> QED BY <1>1, <1>5, EnterConserves

LEMMA CreateConserves ==
    ASSUME IndInv, ConservesMoney, NEW code \in Code, Create(code)
    PROVE  ConservesMoney'
<1> DEFINE paid    == IF Log.amount = 0 THEN poststate
                      ELSE Transfer(poststate, Caller, CreatedAddress, Log.amount)
           counted == [paid EXCEPT ![Caller].nonce = @ + 1]
           state   == IF Affordable THEN AfterCreate(code) ELSE poststate
<1>1. /\ pc = "loop" /\ i <= Len(Logs) /\ Log.op \in CreateOps /\ ~Unwraps
      /\ Enter(state, CreatedAddress)
    BY DEF Create, AtLog
<1>2. Log \in StructLog /\ poststate \in Kept(rpc.prestate)
    BY <1>1, LogView
<1>3. Log.amount \in Nat
    BY <1>2 DEF StructLog
<1>4. Total(state) = Total(poststate)
    <2>1. CASE Affordable
        <3>1. /\ Caller \in DOMAIN poststate
              /\ CreatedAddress \in DOMAIN poststate
              /\ poststate[Caller].balance >= Log.amount
            BY <1>1, <2>1 DEF Unwraps, Affordable
        <3>2. /\ paid \in Kept(rpc.prestate) /\ DOMAIN paid = DOMAIN poststate
              /\ Total(paid) = Total(poststate)
            BY <1>2, <1>3, <3>1, TransferKeeps, TransferTotal
        <3> HIDE DEF paid
        <3>3. /\ counted \in Kept(rpc.prestate) /\ DOMAIN counted = DOMAIN poststate
              /\ Total(counted) = Total(paid)
            BY <3>1, <3>2, CountKeeps, CountTotal
        <3> HIDE DEF counted
        <3>4. Total([counted EXCEPT ![CreatedAddress].code = code]) = Total(counted)
            BY <3>1, <3>3, CodeTotal
        <3>5. AfterCreate(code) = [counted EXCEPT ![CreatedAddress].code = code]
            BY DEF AfterCreate, counted, paid
        <3> QED BY <2>1, <3>2, <3>3, <3>4, <3>5
    <2>2. CASE ~Affordable
        BY <2>2
    <2> QED BY <2>1, <2>2
<1> HIDE DEF state
<1> QED BY <1>1, <1>4, EnterConserves

LEMMA RevertConserves ==
    ASSUME IndInv, ConservesMoney, Revert
    PROVE  ConservesMoney'
<1>1. /\ pc = "loop" /\ i <= Len(Logs) /\ Log.op \in HaltOps /\ ~Unwraps
      /\ Advance(Last(Snapshots), Contexts, Front(Snapshots), Depth)
    BY DEF Revert, AtLog
<1>2. Snapshots \in Seq(Kept(rpc.prestate)) /\ Len(Snapshots) \in Nat
    BY <1>1, LogView, LenProperties
<1>3. Len(Snapshots) >= IF Log.error THEN 2 ELSE 1
    <2>1. Log.op \notin CallOps \cup CreateOps
        BY <1>1 DEF HaltOps, CallOps, CreateOps
    <2>2. Pops = (IF Log.error THEN 2 ELSE 1) /\ Available = Len(Snapshots)
        BY <1>1, <1>2, <2>1 DEF Pops, Available
    <2> QED BY <1>1, <1>2, <2>2 DEF Unwraps
<1>4. /\ Front(Snapshots) \in Seq(Kept(rpc.prestate))
      /\ Len(Front(Snapshots)) = Len(Snapshots) - 1
      /\ \A j \in 1 .. Len(Snapshots) - 1 : Front(Snapshots)[j] = Snapshots[j]
      /\ Last(Snapshots) = Snapshots[Len(Snapshots)]
    BY <1>2, <1>3, FrontLast DEF Front, Last
<1>5. \A j \in 1 .. Len(Snapshots) : Sound(Snapshots[j])
    BY <1>1, SoundBefore
<1>6. /\ Sound(Last(Snapshots))
      /\ \A j \in 1 .. Len(Front(Snapshots)) : Sound(Front(Snapshots)[j])
      /\ Log.error => Len(Front(Snapshots)) >= 1
    BY <1>2, <1>3, <1>4, <1>5
<1> QED BY <1>1, <1>4, <1>6, AdvanceConserves

LEMMA FetchConserves ==
    ASSUME NEW answer, IsRpcAnswer(answer), Fetch(answer)
    PROVE  ConservesMoney'
<1> DEFINE tx  == answer.transaction
           pre == answer.prestate
           fee == GasFee(tx)
<1>1. /\ pre \in EthStates /\ fee \in Nat
      /\ fee = tx.gas_price * tx.gas
    BY EthStatesDef DEF IsRpcAnswer, GasFee
<1>2. CASE tx.from \in DOMAIN pre /\ pre[tx.from].balance >= fee
    <2>1. /\ poststate' = ChargeSender(pre, tx) /\ snapshots' = <<poststate'>>
          /\ rpc' = answer /\ pc' \in {"deploy", "transfer"}
        BY <1>2 DEF Fetch
    <2>2. PICK debited : debited = Debit(pre, tx.from, fee)
        OBVIOUS
    <2> HIDE DEF fee
    <2>3. /\ pre \in Kept(pre) /\ debited \in Kept(pre) /\ DOMAIN debited = DOMAIN pre
          /\ Total(debited) = Total(pre) - fee
        BY <1>1, <1>2, <2>2, KeptReflexive, DebitKeeps, DebitTotal
    <2>4. Total([debited EXCEPT ![tx.from].nonce = @ + 1]) = Total(debited)
        BY <1>2, <2>3, CountTotal
    <2>5. poststate' = [debited EXCEPT ![tx.from].nonce = @ + 1]
        BY <2>1, <2>2 DEF ChargeSender, fee
    <2>6. Total(poststate') = Total(pre) - fee /\ Total(pre) \in Nat
        BY <1>1, <2>3, <2>4, <2>5, TotalType
    <2>7. Accounted(poststate', answer, fee)
        BY <1>1, <2>6 DEF Accounted
    <2>8. \A s \in {poststate'} \cup Range(snapshots') : s = poststate'
        BY <2>1 DEF Range
    <2> HIDE DEF Range
    <2> QED BY <1>1, <2>1, <2>7, <2>8 DEF ConservesMoney
<1>3. CASE ~(tx.from \in DOMAIN pre /\ pre[tx.from].balance >= fee)
    <2>1. pc' = "panic"
        BY <1>3 DEF Fetch
    <2> QED BY <2>1 DEF ConservesMoney, Running
<1> QED BY <1>2, <1>3

LEMMA DeployConserves ==
    ASSUME IndInv, ConservesMoney, NEW code, Deploy(code)
    PROVE  ConservesMoney'
<1>1. ASSUME NEW how \in {"err", "nocode", "panic"}, End(how) PROVE ConservesMoney'
    BY <1>1 DEF End, ConservesMoney, Running
<1>2. CASE /\ Created \in DOMAIN poststate
           /\ poststate' = [poststate EXCEPT ![Created].code = code]
           /\ pc' = "transfer" /\ UNCHANGED <<rpc, snapshots>>
    <2>1. pc = "deploy" /\ poststate \in Kept(rpc.prestate)
        BY DEF Deploy, IndInv, Running
    <2>2. Total(poststate') = Total(poststate)
        BY <1>2, <2>1, CodeTotal
    <2>3. \A s \in {poststate} \cup Range(snapshots) : Sound(s)
        BY <2>1 DEF ConservesMoney, Running, Sound, Bought
    <2>4. \A s \in {poststate'} \cup Range(snapshots) : Sound(s)
        BY <2>2, <2>3, SoundKept
    <2> QED BY <1>2, <2>4 DEF ConservesMoney, Sound, Bought, Running
<1> QED BY <1>1, <1>2 DEF Deploy

LEMMA TransferValueConserves ==
    ASSUME IndInv, ConservesMoney, TransferValue
    PROVE  ConservesMoney'
<1> DEFINE tx == rpc.transaction
<1>1. /\ pc = "transfer" /\ UNCHANGED <<rpc, snapshots>>
    BY DEF TransferValue
<1>2. /\ poststate \in Kept(rpc.prestate)
      /\ tx.from \in DOMAIN poststate /\ tx.value \in Nat
    BY <1>1 DEF IndInv, Running, IsRpcAnswer, Kept, Covers
<1>3. \/ pc' = "panic"
      \/ pc' = "loop" /\ Total(poststate') = Total(poststate)
    <2>1. CASE tx.value # 0 /\ poststate[tx.from].balance >= tx.value
               /\ Callee(tx) \in DOMAIN poststate
        <3>1. Total(Transfer(poststate, tx.from, Callee(tx), tx.value)) = Total(poststate)
            BY <1>2, <2>1, TransferTotal
        <3> QED BY <2>1, <3>1 DEF TransferValue
    <2>2. CASE ~(tx.value # 0 /\ poststate[tx.from].balance >= tx.value
               /\ Callee(tx) \in DOMAIN poststate)
        BY <2>2 DEF TransferValue
    <2> QED BY <2>1, <2>2
<1>4. \A s \in {poststate} \cup Range(snapshots) : Sound(s)
    BY <1>1 DEF ConservesMoney, Running, Sound, Bought
<1>5. CASE pc' = "panic"
    BY <1>5 DEF ConservesMoney, Running
<1>6. CASE pc' = "loop" /\ Total(poststate') = Total(poststate)
    <2>1. \A s \in {poststate'} \cup Range(snapshots) : Sound(s)
        BY <1>4, <1>6, SoundKept
    <2> QED BY <1>1, <1>6, <2>1 DEF ConservesMoney, Sound, Bought, Running
<1> QED BY <1>3, <1>5, <1>6

(* What is refunded is what was bought and not used. *)
LEMMA RefundConserves ==
    ASSUME IndInv, ConservesMoney, Refund
    PROVE  ConservesMoney'
<1> DEFINE tx == rpc.transaction
<1>1. pc = "loop" /\ rpc' = rpc
    BY DEF Refund
<1>2. CASE tx.gas < rpc.trace.gas
    <2>1. tx.gas \in Nat /\ rpc.trace.gas \in Nat
        BY <1>1 DEF IndInv, Running, IsRpcAnswer
    <2>2. pc' = "panic"
        BY <1>2, <2>1 DEF Refund
    <2> QED BY <2>2 DEF ConservesMoney, Running
<1>3. CASE ~(tx.gas < rpc.trace.gas)
    <2>1. /\ poststate \in Kept(rpc.prestate) /\ tx.from \in DOMAIN poststate
          /\ rpc.prestate \in EthStates
        BY <1>1, EthStatesDef DEF IndInv, Running, IsRpcAnswer, Kept, Covers
    <2>2. PICK gas \in Nat, used \in Nat, price \in Nat :
             gas = tx.gas /\ used = rpc.trace.gas /\ price = tx.gas_price
        BY <1>1 DEF IndInv, Running, IsRpcAnswer
    <2>3. PICK refund \in Nat : refund = (gas - used) * price /\ gas >= used
        BY <1>3, <2>2
    <2>4. pc' = "done" /\ poststate' = Credit(poststate, tx.from, refund)
        BY <1>3, <2>2, <2>3 DEF Refund
    <2>5. Total(poststate') = Total(poststate) + refund
        BY <2>1, <2>4, CreditTotal
    <2>6. Accounted(poststate, rpc, price * gas)
        BY <1>1, <2>2 DEF ConservesMoney, Running
    <2>7. PICK bought \in Nat, spent \in Nat : bought = price * gas /\ spent = price * used
        OBVIOUS
    <2>8. bought = spent + refund
        BY <2>3, <2>7
    <2>9. Total(poststate) \in Nat /\ Total(rpc.prestate) \in Nat
        BY <2>1, TotalType DEF Kept
    <2>10. Accounted(poststate', rpc, spent)
        BY <2>5, <2>6, <2>7, <2>8, <2>9 DEF Accounted
    <2> QED BY <1>1, <2>2, <2>4, <2>7, <2>10 DEF ConservesMoney, Running
<1> QED BY <1>2, <1>3

LEMMA StepConserves ==
    ASSUME IndInv, ConservesMoney, ReplayStep \/ UNCHANGED replayVars
    PROVE  ConservesMoney'
<1>1. ASSUME NEW how \in {"err", "nocode", "panic"}, End(how) PROVE ConservesMoney'
    BY <1>1 DEF End, ConservesMoney, Running
<1>2. CASE RpcFails \/ Panic(Opcode) \/ \E code \in Code : CreateFails(code)
    BY <1>1, <1>2 DEF RpcFails, Panic, CreateFails
<1>3. CASE Blockhash \/ Other
    <2>1. /\ pc = "loop" /\ i <= Len(Logs) /\ Log.op \in {"BLOCKHASH", "OTHER"} /\ ~Unwraps
          /\ Advance(poststate, Contexts, Snapshots, Depth)
        BY <1>3 DEF Blockhash, Other, AtLog
    <2> QED BY <2>1, SoundBefore, StayConserves DEF CallOps, CreateOps, HaltOps
<1>4. CASE StaticCall \/ DelegateCall
    BY <1>4, EnterConserves DEF StaticCall, DelegateCall, AtLog
<1>5. CASE UNCHANGED replayVars
    BY <1>5 DEF replayVars, ConservesMoney
<1> QED BY <1>2, <1>3, <1>4, <1>5, DeployConserves, CreateConserves,
           TransferValueConserves, SstoreConserves, CallConserves, SelfDestructConserves,
           RevertConserves, RefundConserves DEF ReplayStep

(***************************************************************************)
(* Whatever the node logs, calls, creations and failures in any order, the *)
(* replay makes no money: the fee of the gas used is all that is missing   *)
(* from the extracted poststate, and what SELFDESTRUCT burnt.              *)
(***************************************************************************)
THEOREM MoneyConserved == Spec => []ConservesMoney
<1>1. Init => ConservesMoney
    BY DEF Init, ConservesMoney, Running
<1>2. IndInv /\ ConservesMoney /\ [Next]_replayVars => ConservesMoney'
    BY FetchConserves, StepConserves, AnswersAssumption DEF Next
<1> QED BY <1>1, <1>2, IndInvHolds, PTL DEF Spec
=============================================================================
