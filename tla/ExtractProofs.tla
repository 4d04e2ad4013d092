----------------------------- MODULE ExtractProofs -----------------------------
(***************************************************************************)
(* The replay of a transaction of PlainTraces against the node that        *)
(* executed it, for traces of any length.                                  *)
(***************************************************************************)
EXTENDS PlainTraces, TraceReplayProofs, WellFoundedInduction

(* the node between two logs *)
Accounts == Kept(Prestate)

(* what a call may be to create *)
Creations == {None} \cup IF NoCreation THEN {} ELSE DOMAIN Prestate

Frames ==
    [self : DOMAIN Prestate, code : Address, creates : Creations, readonly : BOOLEAN,
     undo : [world : Accounts, destructed : SUBSET Address],
     top : Word \cup {None}]

NodeState ==
    [world : Accounts, frames : Seq(Frames), destructed : SUBSET Address]

Now == [world |-> world, frames |-> frames, destructed |-> destructed]

-----------------------------------------------------------------------------
(* The open calls *)

(* the first n calls of f are open in g, for the same accounts *)
Below(f, g, n) ==
    \A j \in 1 .. n :
        /\ g[j].self = f[j].self /\ g[j].creates = f[j].creates
        /\ g[j].undo = f[j].undo

Acting(s) == s.frames[Len(s.frames)]

(* what an instruction does to the open calls: none opens or ends, the last *)
(* one ends and pushes w to its caller, one for self opens that creates     *)
(* an account or none, and whose failure goes back to before                *)
Stays(s, t) ==
    /\ Len(t.frames) = Len(s.frames)
    /\ Below(s.frames, t.frames, Len(s.frames))

Leaves(s, t, w) ==
    /\ Len(t.frames) = Len(s.frames) - 1
    /\ Below(s.frames, t.frames, Len(s.frames) - 1)
    /\ t.frames # <<>> => Acting(t).top = w

Opens(s, t, self, creates, before) ==
    /\ Len(t.frames) = Len(s.frames) + 1
    /\ Below(s.frames, t.frames, Len(s.frames))
    /\ Acting(t).self = self /\ Acting(t).creates = creates
    /\ Acting(t).undo = [world |-> before, destructed |-> s.destructed]

LEMMA WordsAre == Zero \in Word /\ One \in Word /\ Address \subseteq Word
BY TraceAssumption, WordsAssumption

LEMMA PushIs ==
    ASSUME NEW f \in Seq(Frames), Len(f) >= 1, NEW w \in Word
    PROVE  /\ Push(f, w) \in Seq(Frames) /\ Len(Push(f, w)) = Len(f)
           /\ Below(f, Push(f, w), Len(f))
           /\ Push(f, w)[Len(f)].top = w
<1>1. PICK n \in Nat : n = Len(f) /\ n >= 1
    BY LenProperties
<1>2. f \in [1 .. n -> Frames] /\ f[n] \in Frames
    BY <1>1, LenProperties
<1> DEFINE last == [f[n] EXCEPT !.top = w]
<1>3. /\ last \in Frames /\ last.top = w
      /\ last.self = f[n].self /\ last.undo = f[n].undo /\ last.creates = f[n].creates
    BY <1>2 DEF Frames
<1>4. Push(f, w) = [f EXCEPT ![n] = last]
    BY <1>1 DEF Push
<1> HIDE DEF last
<1>5. [f EXCEPT ![n] = last] \in [1 .. n -> Frames]
    BY <1>2, <1>3
<1>6. [f EXCEPT ![n] = last] \in Seq(Frames) /\ Len([f EXCEPT ![n] = last]) = n
    BY <1>1, <1>5
<1> QED BY <1>1, <1>2, <1>3, <1>4, <1>6 DEF Below

LEMMA LeaveIs ==
    ASSUME frames \in Seq(Frames), frames # <<>>, NEW w \in Word
    PROVE  /\ Leave(w) \in Seq(Frames) /\ Len(Leave(w)) = Len(frames) - 1
           /\ Below(frames, Leave(w), Len(frames) - 1)
           /\ Leave(w) # <<>> => Last(Leave(w)).top = w
<1>1. PICK n \in Nat : n = Len(frames) /\ n >= 1
    BY LenProperties, EmptySeq
<1>2. CASE n = 1
    BY <1>1, <1>2, EmptySeq DEF Leave, Below
<1>3. CASE n # 1
    <2> DEFINE f == Front(frames)
    <2>1. f \in Seq(Frames) /\ Len(f) = n - 1 /\ \A j \in 1 .. n - 1 : f[j] = frames[j]
        BY <1>1, FrontLast DEF Front
    <2>2. Leave(w) = Push(f, w)
        BY <1>1, <1>3 DEF Leave
    <2> HIDE DEF f
    <2>3. /\ Push(f, w) \in Seq(Frames) /\ Len(Push(f, w)) = Len(f)
          /\ Below(f, Push(f, w), Len(f))
          /\ Push(f, w)[Len(f)].top = w
        BY SMTT(30), <1>1, <1>3, <2>1, PushIs
    <2>4. Below(frames, Leave(w), n - 1)
        BY <2>1, <2>2, <2>3 DEF Below
    <2> QED BY <1>1, <2>1, <2>2, <2>3, <2>4 DEF Last
<1> QED BY <1>2, <1>3

-----------------------------------------------------------------------------
(* What a log tells of the instruction executed between s and t *)

Unchanged(s, t) == t.world = s.world /\ t.destructed = s.destructed

(* what a call that does not fail pushes to its caller *)
ResultOf(s) == IF Acting(s).creates = None THEN One ELSE Acting(s).creates

IsFailure(s, log, t) ==
    /\ <<log.op, log.error>> \in VisibleFaults
    /\ t.world = Acting(s).undo.world
    /\ t.destructed = Acting(s).undo.destructed
    /\ Leaves(s, t, Zero)

IsReturn(s, log, t) ==
    LET new == Acting(s).creates IN
    /\ log.op = "OTHER"
    /\ t.world = IF new = None THEN s.world
                 ELSE [s.world EXCEPT ![new].code = Deployed[new]]
    /\ t.destructed = s.destructed
    /\ Leaves(s, t, ResultOf(s))

IsWrite(s, log, t) ==
    /\ log.op = "SSTORE"
    /\ t.world = Store(s.world, Acting(s).self, log.key, log.data)
    /\ t.destructed = s.destructed
    /\ Stays(s, t)

IsAsked(s, log, t) ==
    /\ log.op = "BLOCKHASH"
    /\ Unchanged(s, t) /\ Stays(s, t)
    /\ Acting(t).top = HashOf(log.amount)

IsDestruction(s, log, t) ==
    LET self    == Acting(s).self
        balance == s.world[self].balance
    IN
    /\ log.op = "SELFDESTRUCT"
    /\ t.world = Debit(Transfer(s.world, self, log.address, balance), self,
                       IF log.address = self THEN balance ELSE 0)
    /\ t.destructed = s.destructed \cup {self}
    /\ Leaves(s, t, ResultOf(s))

Payable(s, log) ==
    Len(s.frames) <= MaxCallDepth /\ s.world[Acting(s).self].balance >= log.amount

IsRefused(s, log, t) ==
    /\ log.op \in CallOps \cup CreateOps
    /\ log.op \in {"CALL"} \cup CreateOps => ~Payable(s, log)
    /\ Unchanged(s, t) /\ Stays(s, t)
    /\ Acting(t).top = Zero

IsCall(s, log, t) ==
    LET self == Acting(s).self IN
    /\ log.op \in CallOps
    /\ log.op = "CALL" => Payable(s, log)
    /\ t.world = Pay(s.world, self, log.address,
                     IF log.op = "CALL" THEN log.amount ELSE 0)
    /\ t.destructed = s.destructed
    /\ \/ Stays(s, t)
       \/ Opens(s, t, IF log.op \in {"CALL", "STATICCALL"} THEN log.address ELSE self,
                None, s.world)

(* the constructor of new starts, its creator's nonce used up *)
Counted(state, a) == [state EXCEPT ![a].nonce = @ + 1]

IsCreation(s, log, t) ==
    LET self    == Acting(s).self
        counted == Counted(s.world, self)
    IN
    /\ log.op \in CreateOps
    /\ Payable(s, log)
    /\ \E new \in DOMAIN Prestate :
          /\ t.world = Pay(NewContract(counted, new), self, new, log.amount)
          /\ t.destructed = s.destructed
          /\ Opens(s, t, new, new, counted)

Succeeds(s, log, t) ==
    \/ IsReturn(s, log, t) \/ IsWrite(s, log, t) \/ IsAsked(s, log, t)
    \/ IsDestruction(s, log, t) \/ IsRefused(s, log, t) \/ IsCall(s, log, t)
    \/ IsCreation(s, log, t)

(* what the assumptions say of the opcode and the address of a log *)
Permitted(log) ==
    /\ log.op \in {"CALL", "STATICCALL", "SELFDESTRUCT"}
           => log.address \in DOMAIN Prestate
    /\ log.op \in CreateOps => ~NoCreation /\ (ContextsKnown => Zero \in DOMAIN Prestate)
    /\ log.op = "SELFDESTRUCT" => ~NoDestruction

Executed(s, log, t) ==
    /\ log \in StructLog /\ ~log.unreadable
    /\ Len(s.frames) >= 1 /\ log.depth = Len(s.frames)
    /\ log.top = Acting(s).top
    /\ Permitted(log)
    /\ IsFailure(s, log, t) \/ (~log.error /\ Succeeds(s, log, t))

(* the node is between two instructions, and logs one *)
Between == Now \in NodeState /\ tx # None /\ verdict = None

Logging(log) ==
    /\ logs' = Append(logs, log) /\ UNCHANGED <<tx, verdict>>
    /\ Now' \in NodeState
    /\ Executed(Now, log, Now')

LEMMA HereIs ==
    ASSUME Between, frames # <<>>
    PROVE  /\ Len(frames) \in Nat /\ Len(frames) >= 1
           /\ Here = Acting(Now) /\ Here \in Frames
           /\ Now.world = world /\ Now.frames = frames /\ Now.destructed = destructed
           /\ world \in Accounts /\ destructed \subseteq Address
           /\ frames \in Seq(Frames)
           /\ Here.self \in DOMAIN world /\ DOMAIN world = DOMAIN Prestate
           /\ Here.self \in Address /\ Here.code \in Address
           /\ Here.creates = None \/ Here.creates \in DOMAIN world
           /\ DOMAIN world \subseteq Address
<1>1. /\ Now.world = world /\ Now.frames = frames /\ Now.destructed = destructed
      /\ world \in Accounts /\ frames \in Seq(Frames) /\ destructed \subseteq Address
    BY DEF Between, NodeState, Now
<1>2. Len(frames) \in Nat /\ Len(frames) >= 1
    BY <1>1, LenProperties, EmptySeq
<1>3. Here = frames[Len(frames)] /\ frames[Len(frames)] \in Frames
    BY <1>1, <1>2, ElementOfSeq DEF Here, Last
<1>4. DOMAIN world = DOMAIN Prestate /\ DOMAIN world \subseteq Address
    BY <1>1 DEF Accounts, Kept, Covers, EthStates
<1> QED BY <1>1, <1>2, <1>3, <1>4 DEF Acting, Frames, Creations

(* The log of an instruction *)
LEMMA EmitIs ==
    ASSUME Between, frames # <<>>, NEW instr \in Instruction,
           NEW error \in BOOLEAN, Emit(instr, error)
    PROVE  \E log \in StructLog :
              /\ logs' = Append(logs, log)
              /\ log.op = instr.op /\ log.error = error /\ ~log.unreadable
              /\ log.depth = Len(frames) /\ log.top = Here.top
              /\ log.address = instr.address /\ log.amount = instr.amount
              /\ log.key = instr.key /\ log.data = instr.data
<1> DEFINE log == [op |-> instr.op, depth |-> Len(frames), error |-> error,
                   unreadable |-> FALSE, top |-> Here.top, address |-> instr.address,
                   amount |-> instr.amount, key |-> instr.key, data |-> instr.data]
<1>1. /\ Len(frames) \in Nat \ {0} /\ Here.top \in Word \cup {None}
    BY HereIs DEF Frames
<1>2. log \in StructLog
    BY <1>1 DEF Instruction, StructLog
<1>3. logs' = Append(logs, log)
    BY DEF Emit
<1> QED BY <1>2, <1>3

LEMMA InstructionIs ==
    ASSUME Between, frames # <<>>, NEW instr \in Program[Here.code]
    PROVE  /\ instr \in Instruction /\ Permitted(instr)
           /\ instr.op = "CALL" /\ instr.address \in FailingPrecompiles
                  => instr.amount = 0
<1>1. Here.code \in Address
    BY HereIs
<1>2. /\ instr.op \in CreateOps =>
            ~NoCreation /\ (ContextsKnown => Zero \in DOMAIN Prestate)
      /\ instr.op = "SELFDESTRUCT" => ~NoDestruction
    BY <1>1 DEF NoCreation, NoDestruction, ContextsKnown
<1> QED BY <1>1, <1>2, PlainAssumption DEF Permitted

(* what the call pushes if it does not fail *)
LEMMA ResultIs ==
    ASSUME Between, frames # <<>>
    PROVE  /\ ResultOf(Now) \in Word
           /\ ResultOf(Now) = IF Here.creates = None THEN One ELSE Here.creates
BY HereIs, WordsAssumption DEF ResultOf

(* Now' field by field *)
LEMMA NextNow ==
    ASSUME NEW w \in Accounts, NEW f \in Seq(Frames), NEW d \in SUBSET Address,
           world' = w, frames' = f, destructed' = d
    PROVE  /\ Now' \in NodeState
           /\ Now'.world = w /\ Now'.frames = f /\ Now'.destructed = d
BY DEF Now, NodeState

LEMMA ReturnLogs ==
    ASSUME Between, Return
    PROVE  \E log : Logging(log)
<1> DEFINE instr == [op |-> "OTHER", address |-> Zero, amount |-> 0,
                     key |-> CHOOSE k \in Key : TRUE, data |-> CHOOSE d \in Data : TRUE]
           new   == Here.creates
           w     == IF new = None THEN world
                    ELSE [world EXCEPT ![new].code = Deployed[new]]
           f     == Leave(ResultOf(Now))
<1>1. frames # <<>> /\ Emit(instr, FALSE)
    BY DEF Return, Executing
<1>2. instr \in Instruction
    BY TraceAssumption, WordsAssumption
       DEF Instruction, Opcode, CreateOps, CallOps, HaltOps
<1>3. instr.op = "OTHER"
    OBVIOUS
<1> HIDE DEF instr
<1>4. PICK log \in StructLog :
          /\ logs' = Append(logs, log)
          /\ log.op = instr.op /\ log.error = FALSE /\ ~log.unreadable
          /\ log.depth = Len(frames) /\ log.top = Here.top
    BY <1>1, <1>2, EmitIs
<1>5. w \in Accounts
    <2>1. /\ world \in Kept(Prestate)
          /\ new = None \/ (new \in DOMAIN world /\ new \in Address)
        BY <1>1, HereIs DEF Accounts
    <2>2. CASE new = None
        BY <2>1, <2>2 DEF Accounts
    <2>3. CASE new # None
        <3>1. new \in DOMAIN world /\ Deployed[new] \in Code
            BY <2>1, <2>3, CreationAssumption
        <3> QED BY <2>1, <2>3, <3>1, CodeKeeps DEF Accounts
    <2> QED BY <2>2, <2>3
<1>6. frames' = f /\ world' = w /\ UNCHANGED <<tx, destructed, verdict>>
    BY <1>1, ResultIs DEF Return
<1>7. /\ f \in Seq(Frames) /\ Len(f) = Len(frames) - 1
      /\ Below(frames, f, Len(frames) - 1)
      /\ f # <<>> => Last(f).top = ResultOf(Now)
    BY <1>1, HereIs, LeaveIs, ResultIs
<1> HIDE DEF w, f
<1>8. /\ Now' \in NodeState
      /\ Now'.world = w /\ Now'.frames = f /\ Now'.destructed = destructed
    BY <1>1, <1>5, <1>6, <1>7, HereIs, NextNow
<1>9. IsReturn(Now, log, Now')
    <2>1. Leaves(Now, Now', ResultOf(Now))
        BY <1>1, <1>7, <1>8, HereIs DEF Leaves, Acting, Last
    <2>2. w = IF Acting(Now).creates = None THEN Now.world
              ELSE [Now.world EXCEPT ![Acting(Now).creates].code
                                        = Deployed[Acting(Now).creates]]
        BY <1>1, HereIs DEF w
    <2> QED BY <1>1, <1>3, <1>4, <1>8, <2>1, <2>2, HereIs DEF IsReturn
<1>10. Executed(Now, log, Now')
    BY <1>1, <1>3, <1>4, <1>9, HereIs DEF Executed, Succeeds, Permitted, CreateOps
<1> QED BY <1>4, <1>6, <1>8, <1>10 DEF Logging

LEMMA FailLogs ==
    ASSUME Between, Executing, NEW instr \in Program[Here.code], Fail(instr)
    PROVE  \E log : Logging(log)
<1>1. frames # <<>>
    BY DEF Executing
<1>2. PICK error \in BOOLEAN :
          /\ <<instr.op, error>> \in Faults
          /\ Emit(instr, error)
          /\ frames' = Leave(Zero)
          /\ world' = Here.undo.world
          /\ destructed' = Here.undo.destructed
          /\ UNCHANGED <<tx, verdict>>
    BY DEF Fail
<1>3. PICK log \in StructLog :
          /\ logs' = Append(logs, log)
          /\ log.op = instr.op /\ log.error = error /\ ~log.unreadable
          /\ log.depth = Len(frames) /\ log.top = Here.top
          /\ log.address = instr.address
    BY <1>1, <1>2, InstructionIs, EmitIs
<1>4. /\ Leave(Zero) \in Seq(Frames) /\ Len(Leave(Zero)) = Len(frames) - 1
      /\ Below(frames, Leave(Zero), Len(frames) - 1)
      /\ Leave(Zero) # <<>> => Last(Leave(Zero)).top = Zero
    BY <1>1, HereIs, LeaveIs, WordsAre
<1>5. Here.undo.world \in Accounts /\ Here.undo.destructed \in SUBSET Address
    BY <1>1, HereIs DEF Frames
<1>6. /\ Now' \in NodeState
      /\ Now'.world = Here.undo.world /\ Now'.frames = Leave(Zero)
      /\ Now'.destructed = Here.undo.destructed
    BY <1>2, <1>4, <1>5, NextNow
<1>7. IsFailure(Now, log, Now')
    <2>1. Leaves(Now, Now', Zero)
        BY <1>1, <1>4, <1>6, HereIs DEF Leaves, Acting, Last
    <2>2. <<log.op, log.error>> \in VisibleFaults
        BY <1>2, <1>3, PlainAssumption
    <2> QED BY <1>1, <1>6, <2>1, <2>2, HereIs DEF IsFailure
<1>8. Executed(Now, log, Now')
    <2>1. Permitted(log)
        BY <1>1, <1>3, InstructionIs DEF Permitted
    <2> QED BY <1>1, <1>3, <1>7, <2>1, HereIs DEF Executed
<1> QED BY <1>2, <1>3, <1>6, <1>8 DEF Logging

(* The log of an instruction that succeeds *)
LEMMA ExecutesIs ==
    ASSUME Between, Executing, NEW instr \in Program[Here.code], NEW ops, NEW n,
           Executes(instr, ops, n)
    PROVE  /\ instr.op \in ops /\ UNCHANGED <<tx, verdict>> /\ frames # <<>>
           /\ \E log \in StructLog :
                /\ logs' = Append(logs, log)
                /\ log.op = instr.op /\ ~log.error /\ ~log.unreadable
                /\ log.depth = Len(frames) /\ log.top = Here.top
                /\ log.address = instr.address /\ log.amount = instr.amount
                /\ log.key = instr.key /\ log.data = instr.data
                /\ Permitted(log)
<1>1. frames # <<>>
    BY DEF Executing
<1>2. instr.op \in ops /\ Emit(instr, FALSE) /\ UNCHANGED <<tx, verdict>>
    BY DEF Executes
<1>3. PICK log \in StructLog :
          /\ logs' = Append(logs, log)
          /\ log.op = instr.op /\ log.error = FALSE /\ ~log.unreadable
          /\ log.depth = Len(frames) /\ log.top = Here.top
          /\ log.address = instr.address /\ log.amount = instr.amount
          /\ log.key = instr.key /\ log.data = instr.data
    BY <1>1, <1>2, InstructionIs, EmitIs
<1>4. Permitted(log)
    BY <1>1, <1>3, InstructionIs DEF Permitted
<1> QED BY <1>1, <1>2, <1>3, <1>4

LEMMA BelowReflexive ==
    ASSUME NEW f, NEW n PROVE Below(f, f, n)
BY DEF Below

LEMMA SstoreLogs ==
    ASSUME Between, Executing, NEW instr \in Program[Here.code], ExecSstore(instr)
    PROVE  \E log : Logging(log)
<1>1. /\ Executes(instr, {"SSTORE"}, 1)
      /\ world' = Store(world, Here.self, instr.key, instr.data)
      /\ UNCHANGED <<destructed, frames>>
    BY DEF ExecSstore
<1>2. frames # <<>> /\ UNCHANGED <<tx, verdict>> /\ instr.op = "SSTORE"
    BY <1>1, ExecutesIs
<1>3. PICK log \in StructLog :
          /\ logs' = Append(logs, log)
          /\ log.op = instr.op /\ ~log.error /\ ~log.unreadable
          /\ log.depth = Len(frames) /\ log.top = Here.top
          /\ log.key = instr.key /\ log.data = instr.data /\ Permitted(log)
    BY <1>1, ExecutesIs
<1>4. log.key \in Key /\ log.data \in Data
    BY DEF StructLog
<1>5. Store(world, Here.self, log.key, log.data) \in Accounts
    BY <1>2, <1>4, HereIs, StoreKeeps DEF Accounts
<1>6. /\ Now' \in NodeState
      /\ Now'.world = Store(world, Here.self, log.key, log.data)
      /\ Now'.frames = frames /\ Now'.destructed = destructed
    BY <1>1, <1>2, <1>3, <1>5, HereIs, NextNow
<1>7. IsWrite(Now, log, Now')
    BY <1>2, <1>3, <1>6, HereIs, BelowReflexive DEF IsWrite, Stays
<1>8. Executed(Now, log, Now')
    BY <1>2, <1>3, <1>7, HereIs DEF Executed, Succeeds
<1> QED BY <1>2, <1>3, <1>6, <1>8 DEF Logging

LEMMA HashOfType == ASSUME NEW n PROVE HashOf(n) \in Word
BY WordsAre, WordsAssumption DEF HashOf

LEMMA BlockhashLogs ==
    ASSUME Between, Executing, NEW instr \in Program[Here.code], ExecBlockhash(instr)
    PROVE  \E log : Logging(log)
<1>1. /\ Executes(instr, {"BLOCKHASH"}, 1)
      /\ frames' = Push(frames, HashOf(instr.amount))
      /\ UNCHANGED <<world, destructed>>
    BY DEF ExecBlockhash
<1>2. frames # <<>> /\ UNCHANGED <<tx, verdict>> /\ instr.op = "BLOCKHASH"
    BY <1>1, ExecutesIs
<1>3. PICK log \in StructLog :
          /\ logs' = Append(logs, log)
          /\ log.op = instr.op /\ ~log.error /\ ~log.unreadable
          /\ log.depth = Len(frames) /\ log.top = Here.top
          /\ log.amount = instr.amount /\ Permitted(log)
    BY <1>1, ExecutesIs
<1> DEFINE f == Push(frames, HashOf(log.amount))
<1>4. /\ f \in Seq(Frames) /\ Len(f) = Len(frames) /\ Below(frames, f, Len(frames))
      /\ f[Len(f)].top = HashOf(log.amount)
    BY <1>2, HereIs, HashOfType, PushIs
<1>5. frames' = f
    BY <1>1, <1>3
<1> HIDE DEF f
<1>6. /\ Now' \in NodeState
      /\ Now'.world = world /\ Now'.frames = f /\ Now'.destructed = destructed
    BY <1>1, <1>2, <1>4, <1>5, HereIs, NextNow
<1>7. IsAsked(Now, log, Now')
    BY <1>2, <1>3, <1>4, <1>6, HereIs DEF IsAsked, Stays, Unchanged, Acting
<1>8. Executed(Now, log, Now')
    BY <1>2, <1>3, <1>7, HereIs DEF Executed, Succeeds
<1> QED BY <1>2, <1>3, <1>6, <1>8 DEF Logging

-----------------------------------------------------------------------------
(* The payments of the node *)

(* A contract that destroys itself pays all it has, to itself for nothing. *)
LEMMA DestroyKeeps ==
    ASSUME NEW pre, NEW state \in Kept(pre),
           NEW self \in DOMAIN state, NEW to \in DOMAIN state
    PROVE  LET balance == state[self].balance
               paid    == Transfer(state, self, to, balance)
               rest    == IF to = self THEN balance ELSE 0
           IN  /\ Debit(paid, self, rest) \in Kept(pre)
               /\ DOMAIN paid = DOMAIN state /\ paid \in Kept(pre)
               /\ DOMAIN Debit(paid, self, rest) = DOMAIN state
               /\ paid[self].balance = rest
<1> DEFINE balance == state[self].balance
           paid    == Transfer(state, self, to, balance)
           rest    == IF to = self THEN balance ELSE 0
<1>1. balance \in Nat /\ rest \in Nat
    BY BalanceType
<1>2. paid \in Kept(pre) /\ DOMAIN paid = DOMAIN state
    BY <1>1, TransferKeeps
<1>3. paid[self] = IF to = self THEN state[self] ELSE WithBalance(state[self], balance - balance)
    BY <1>1, TransferIs
<1>4. paid[self].balance = rest
    BY <1>1, <1>3 DEF WithBalance
<1> HIDE DEF paid, rest
<1>5. Debit(paid, self, rest) \in Kept(pre) /\ DOMAIN Debit(paid, self, rest) = DOMAIN state
    BY <1>1, <1>2, <1>4, DebitKeeps
<1> QED BY <1>2, <1>4, <1>5 DEF paid, rest

LEMMA PayKeeps ==
    ASSUME NEW pre, NEW state \in Kept(pre), NEW from \in DOMAIN state, NEW v \in Nat,
           NEW to, v # 0 => to \in DOMAIN state /\ state[from].balance >= v
    PROVE  Pay(state, from, to, v) \in Kept(pre)
BY TransferKeeps DEF Pay

-----------------------------------------------------------------------------
LEMMA SelfDestructLogs ==
    ASSUME Between, Executing, NEW instr \in Program[Here.code], ExecSelfDestruct(instr)
    PROVE  \E log : Logging(log)
<1> DEFINE self    == Here.self
           balance == world[self].balance
           to      == instr.address
           new     == Debit(Transfer(world, self, to, balance), self,
                            IF to = self THEN balance ELSE 0)
           f       == Leave(ResultOf(Now))
<1>1. /\ Executes(instr, {"SELFDESTRUCT"}, 0)
      /\ world' = new
      /\ destructed' = destructed \cup {self}
      /\ frames' = Leave(IF Here.creates = None THEN One ELSE Here.creates)
    BY DEF ExecSelfDestruct
<1>2. frames # <<>> /\ UNCHANGED <<tx, verdict>> /\ instr.op = "SELFDESTRUCT"
    BY <1>1, ExecutesIs
<1>3. PICK log \in StructLog :
          /\ logs' = Append(logs, log)
          /\ log.op = instr.op /\ ~log.error /\ ~log.unreadable
          /\ log.depth = Len(frames) /\ log.top = Here.top
          /\ log.address = instr.address
          /\ Permitted(log)
    BY <1>1, ExecutesIs
<1>4. frames' = f
    BY <1>1, <1>2, ResultIs
<1>5. /\ f \in Seq(Frames) /\ Len(f) = Len(frames) - 1
      /\ Below(frames, f, Len(frames) - 1)
      /\ f # <<>> => Last(f).top = ResultOf(Now)
    BY <1>2, HereIs, LeaveIs, ResultIs
<1> HIDE DEF f
<1>6. /\ world \in Accounts /\ self \in DOMAIN world /\ to \in DOMAIN world
      /\ destructed \cup {self} \in SUBSET Address
    BY <1>2, <1>3, HereIs DEF Permitted
<1>7. new \in Accounts
    BY <1>6, DestroyKeeps DEF Accounts
<1> HIDE DEF new
<1>8. /\ Now' \in NodeState
      /\ Now'.world = new /\ Now'.frames = f
      /\ Now'.destructed = destructed \cup {self}
    BY ZenonT(40), <1>1, <1>4, <1>5, <1>6, <1>7, NextNow
<1>9. IsDestruction(Now, log, Now')
    <2>1. Leaves(Now, Now', ResultOf(Now))
        BY <1>2, <1>5, <1>8, HereIs DEF Leaves, Acting, Last
    <2> QED BY <1>2, <1>3, <1>8, <2>1, HereIs DEF IsDestruction, new
<1>10. Executed(Now, log, Now')
    BY <1>2, <1>3, <1>9, HereIs DEF Executed, Succeeds
<1> QED BY <1>2, <1>3, <1>8, <1>10 DEF Logging

LEMMA CanPayIs ==
    ASSUME Between, frames # <<>>, NEW instr, NEW log,
           log.op = instr.op, log.amount = instr.amount, log.op \in {"CALL"} \cup CreateOps
    PROVE  CanPay(instr) <=> Payable(Now, log)
BY HereIs DEF CanPay, Payable

LEMMA RefusedLogs ==
    ASSUME Between, Executing, NEW instr \in Program[Here.code], ExecCallRefused(instr)
    PROVE  \E log : Logging(log)
<1> DEFINE f == Push(frames, Zero)
<1>1. /\ Executes(instr, CallOps \cup CreateOps, 1)
      /\ ~CanPay(instr)
      /\ frames' = f
      /\ UNCHANGED <<world, destructed>>
    BY DEF ExecCallRefused
<1>2. frames # <<>> /\ UNCHANGED <<tx, verdict>> /\ instr.op \in CallOps \cup CreateOps
    BY <1>1, ExecutesIs
<1>3. PICK log \in StructLog :
          /\ logs' = Append(logs, log)
          /\ log.op = instr.op /\ ~log.error /\ ~log.unreadable
          /\ log.depth = Len(frames) /\ log.top = Here.top
          /\ log.address = instr.address /\ log.amount = instr.amount
          /\ Permitted(log)
    BY <1>1, ExecutesIs
<1>4. log.op \in {"CALL"} \cup CreateOps => ~Payable(Now, log)
    BY <1>1, <1>2, <1>3, CanPayIs
<1>5. /\ f \in Seq(Frames) /\ Len(f) = Len(frames)
      /\ Below(frames, f, Len(frames)) /\ f[Len(f)].top = Zero
    BY <1>2, HereIs, PushIs, WordsAre
<1> HIDE DEF f
<1>6. /\ Now' \in NodeState
      /\ Now'.world = world /\ Now'.frames = f
      /\ Now'.destructed = destructed
    BY <1>1, <1>2, <1>5, HereIs, NextNow
<1>7. IsRefused(Now, log, Now')
    BY <1>2, <1>3, <1>4, <1>5, <1>6, HereIs DEF IsRefused, Stays, Unchanged, Acting
<1>8. Executed(Now, log, Now')
    BY <1>2, <1>3, <1>7, HereIs DEF Executed, Succeeds
<1> QED BY <1>2, <1>3, <1>6, <1>8 DEF Logging

LEMMA PrecompileFailsLogs ==
    ASSUME Between, Executing, NEW instr \in Program[Here.code], ExecPrecompileFails(instr)
    PROVE  \E log : Logging(log)
<1>1. /\ Executes(instr, {"CALL"}, 1)
      /\ CanPay(instr)
      /\ instr.address \in FailingPrecompiles
      /\ frames' = Push(frames, Zero)
      /\ UNCHANGED <<world, destructed>>
    BY DEF ExecPrecompileFails
<1>2. frames # <<>> /\ UNCHANGED <<tx, verdict>> /\ instr.op = "CALL"
    BY <1>1, ExecutesIs
<1>3. PICK log \in StructLog :
          /\ logs' = Append(logs, log)
          /\ log.op = instr.op /\ ~log.error /\ ~log.unreadable
          /\ log.depth = Len(frames) /\ log.top = Here.top
          /\ log.address = instr.address /\ log.amount = instr.amount
          /\ Permitted(log)
    BY <1>1, ExecutesIs
<1>4. Payable(Now, log) /\ log.amount = 0
    BY <1>1, <1>2, <1>3, CanPayIs, InstructionIs
<1>5. /\ Push(frames, Zero) \in Seq(Frames) /\ Len(Push(frames, Zero)) = Len(frames)
      /\ Below(frames, Push(frames, Zero), Len(frames))
    BY <1>2, HereIs, PushIs, WordsAre
<1>6. /\ Now' \in NodeState
      /\ Now'.world = world /\ Now'.frames = Push(frames, Zero)
      /\ Now'.destructed = destructed
    BY <1>1, <1>2, <1>5, HereIs, NextNow
<1>7. IsCall(Now, log, Now')
    BY <1>2, <1>3, <1>4, <1>5, <1>6, HereIs DEF IsCall, Stays, Pay, CallOps
<1>8. Executed(Now, log, Now')
    BY <1>2, <1>3, <1>7, HereIs DEF Executed, Succeeds
<1> QED BY <1>2, <1>3, <1>6, <1>8 DEF Logging

LEMMA CallLogs ==
    ASSUME Between, Executing, NEW instr \in Program[Here.code], ExecCall(instr)
    PROVE  \E log : Logging(log)
<1> DEFINE value == IF instr.op = "CALL" THEN instr.amount ELSE 0
           paid  == Pay(world, Here.self, instr.address, value)
           self  == IF instr.op \in {"CALL", "STATICCALL"} THEN instr.address ELSE Here.self
           undo  == [world |-> world, destructed |-> destructed]
           new   == [self |-> self, code |-> instr.address, creates |-> None,
                     readonly |-> Here.readonly \/ instr.op = "STATICCALL",
                     undo |-> undo, top |-> None]
           f     == IF HasCode(instr.address) THEN Append(frames, new) ELSE Push(frames, One)
<1>1. /\ Executes(instr, CallOps, IF HasCode(instr.address) THEN 2 ELSE 1)
      /\ CanPay(instr)
      /\ world' = paid /\ frames' = f
      /\ UNCHANGED destructed
    BY DEF ExecCall, CallValue, CallSelf, Frame, Journal
<1>2. frames # <<>> /\ UNCHANGED <<tx, verdict>> /\ instr.op \in CallOps
    BY <1>1, ExecutesIs
<1>3. PICK log \in StructLog :
          /\ logs' = Append(logs, log)
          /\ log.op = instr.op /\ ~log.error /\ ~log.unreadable
          /\ log.depth = Len(frames) /\ log.top = Here.top
          /\ log.address = instr.address /\ log.amount = instr.amount
          /\ Permitted(log)
    BY <1>1, ExecutesIs
<1>4. log.op = "CALL" => Payable(Now, log)
    BY <1>1, <1>2, <1>3, CanPayIs
<1>5. paid \in Accounts
    <2>1. value \in Nat
        BY InstructionIs, <1>2 DEF Instruction
    <2>2. value # 0 => instr.address \in DOMAIN world /\ world[Here.self].balance >= value
        BY <1>2, <1>3, <1>4, HereIs DEF Payable, Permitted
    <2> HIDE DEF value
    <2> QED BY <1>2, <2>1, <2>2, HereIs, PayKeeps DEF Accounts
<1>6. /\ f \in Seq(Frames)
      /\ Below(frames, f, Len(frames))
      /\ \/ Len(f) = Len(frames)
         \/ /\ Len(f) = Len(frames) + 1 /\ f[Len(f)].self = self
            /\ f[Len(f)].creates = None /\ f[Len(f)].undo = undo
    <2>1. CASE HasCode(instr.address)
        <3>1. new \in Frames
            <4>1. self \in DOMAIN Prestate
                BY <1>2, <1>3, HereIs DEF Permitted
            <4>2. instr.address \in Address
                BY <1>2, InstructionIs DEF Instruction
            <4>3. undo \in [world : Accounts, destructed : SUBSET Address]
                BY <1>2, HereIs
            <4>4. Here.readonly \in BOOLEAN
                BY <1>2, HereIs DEF Frames
            <4> HIDE DEF self, undo
            <4> QED BY <4>1, <4>2, <4>3, <4>4 DEF Frames, Creations
        <3>2. new.self = self /\ new.undo = undo /\ new.creates = None
            OBVIOUS
        <3> HIDE DEF new
        <3>3. frames \in Seq(Frames) /\ Len(frames) \in Nat
            BY <1>2, HereIs
        <3>4. /\ Append(frames, new) \in Seq(Frames)
              /\ Len(Append(frames, new)) = Len(frames) + 1
              /\ Append(frames, new)[Len(frames) + 1] = new
              /\ \A j \in 1 .. Len(frames) : Append(frames, new)[j] = frames[j]
            BY <3>1, <3>3, AppendProperties
        <3> QED BY <2>1, <3>2, <3>3, <3>4 DEF Below
    <2>2. CASE ~HasCode(instr.address)
        BY <1>2, <2>2, HereIs, PushIs, WordsAre
    <2> QED BY <2>1, <2>2
<1> HIDE DEF f, paid
<1>7. /\ Now' \in NodeState
      /\ Now'.world = paid /\ Now'.frames = f /\ Now'.destructed = destructed
    BY <1>1, <1>2, <1>5, <1>6, HereIs, NextNow
<1>8. IsCall(Now, log, Now')
    BY <1>2, <1>3, <1>4, <1>6, <1>7, HereIs DEF IsCall, Stays, Opens, Acting, paid
<1>9. Executed(Now, log, Now')
    BY <1>2, <1>3, <1>8, HereIs DEF Executed, Succeeds
<1> QED BY <1>2, <1>3, <1>7, <1>9 DEF Logging

(* The state a constructor starts in *)
LEMMA NewContractKeeps ==
    ASSUME NEW pre, NEW state \in Kept(pre), NEW a \in DOMAIN state
    PROVE  NewContract(state, a) \in Kept(pre) /\ DOMAIN NewContract(state, a) = DOMAIN state
<1> DEFINE account == [state[a] EXCEPT !.nonce = 1]
<1>1. state[a] \in EthAccountState
    BY AccountType
<1>2. account \in EthAccountState /\ account.storage = state[a].storage
    BY <1>1 DEF EthAccountState
<1>3. NewContract(state, a) = [state EXCEPT ![a] = account]
    BY DEF NewContract
<1> HIDE DEF account
<1>4. /\ [state EXCEPT ![a] = account] \in Kept(pre)
      /\ DOMAIN [state EXCEPT ![a] = account] = DOMAIN state
    BY <1>2, Rewrite
<1> QED BY <1>3, <1>4

(* Rewriting nonces changes no balance and no slot. *)
SameAssets(p, w) ==
    /\ DOMAIN p = DOMAIN w
    /\ \A a \in DOMAIN w : p[a].balance = w[a].balance /\ p[a].storage = w[a].storage

LEMMA NewContractAssets ==
    ASSUME NEW pre, NEW state \in Kept(pre), NEW a \in DOMAIN state
    PROVE  SameAssets(NewContract(state, a), state)
<1> DEFINE account == [state[a] EXCEPT !.nonce = 1]
<1>1. state[a] \in EthAccountState
    BY AccountType
<1>2. account.balance = state[a].balance /\ account.storage = state[a].storage
    BY <1>1 DEF EthAccountState
<1>3. NewContract(state, a) = [state EXCEPT ![a] = account]
    BY DEF NewContract
<1> HIDE DEF account
<1> QED BY <1>2, <1>3 DEF SameAssets

LEMMA CountedAssets ==
    ASSUME NEW pre, NEW state \in Kept(pre), NEW a \in DOMAIN state
    PROVE  SameAssets(Counted(state, a), state)
<1> DEFINE account == [state[a] EXCEPT !.nonce = @ + 1]
<1>1. state[a] \in EthAccountState
    BY AccountType
<1>2. account.balance = state[a].balance /\ account.storage = state[a].storage
    BY <1>1 DEF EthAccountState
<1>3. Counted(state, a) = [state EXCEPT ![a] = account]
    BY DEF Counted
<1> HIDE DEF account
<1> QED BY <1>2, <1>3 DEF SameAssets

LEMMA CodeAssets ==
    ASSUME NEW pre, NEW state \in Kept(pre), NEW a \in DOMAIN state, NEW code
    PROVE  SameAssets([state EXCEPT ![a].code = code], state)
<1> DEFINE account == [state[a] EXCEPT !.code = code]
<1>1. state[a] \in EthAccountState
    BY AccountType
<1>2. account.balance = state[a].balance /\ account.storage = state[a].storage
    BY <1>1 DEF EthAccountState
<1>3. [state EXCEPT ![a].code = code] = [state EXCEPT ![a] = account]
    OBVIOUS
<1> HIDE DEF account
<1> QED BY <1>2, <1>3 DEF SameAssets

LEMMA CreateLogs ==
    ASSUME Between, Executing, NEW instr \in Program[Here.code], ExecCreate(instr)
    PROVE  \E log : Logging(log)
<1> DEFINE self    == Here.self
           new     == CreateAddress(self, world[self].nonce)
           counted == Counted(world, self)
           fresh   == NewContract(counted, new)
           paid    == Pay(fresh, self, new, instr.amount)
           undo    == [world |-> counted, destructed |-> destructed]
           frame   == [self |-> new, code |-> new, creates |-> new, readonly |-> FALSE,
                       undo |-> undo, top |-> None]
           f       == Append(frames, frame)
<1>1. /\ Executes(instr, CreateOps, 2)
      /\ CanPay(instr)
      /\ new \in DOMAIN world
      /\ world' = paid /\ frames' = f
      /\ UNCHANGED destructed
    BY DEF ExecCreate, Counted, Frame
<1>2. frames # <<>> /\ UNCHANGED <<tx, verdict>> /\ instr.op \in CreateOps
    BY <1>1, ExecutesIs
<1>3. PICK log \in StructLog :
          /\ logs' = Append(logs, log)
          /\ log.op = instr.op /\ ~log.error /\ ~log.unreadable
          /\ log.depth = Len(frames) /\ log.top = Here.top
          /\ log.address = instr.address /\ log.amount = instr.amount
          /\ Permitted(log)
    BY <1>1, ExecutesIs
<1>4. Payable(Now, log)
    BY <1>1, <1>2, <1>3, CanPayIs
<1>5. /\ world \in Kept(Prestate) /\ self \in DOMAIN world /\ instr.amount \in Nat
      /\ DOMAIN world = DOMAIN Prestate /\ new \in Address
      /\ world[self].balance >= instr.amount /\ self = Acting(Now).self
    BY <1>1, <1>2, <1>3, <1>4, HereIs, InstructionIs DEF Accounts, Instruction, Payable
<1>6. counted \in Kept(Prestate) /\ DOMAIN counted = DOMAIN world
      /\ SameAssets(counted, world)
    BY <1>5, CountKeeps, CountedAssets DEF Counted
<1> HIDE DEF counted, new
<1>7. /\ fresh \in Kept(Prestate) /\ DOMAIN fresh = DOMAIN world
      /\ fresh[self].balance >= instr.amount
    <2>1. /\ fresh \in Kept(Prestate) /\ DOMAIN fresh = DOMAIN counted
          /\ SameAssets(fresh, counted)
        BY <1>1, <1>6, NewContractKeeps, NewContractAssets
    <2> QED BY <1>5, <1>6, <2>1 DEF SameAssets
<1> HIDE DEF fresh
<1>8. paid \in Accounts
    BY <1>1, <1>5, <1>7, PayKeeps DEF Accounts
<1>9. frame \in Frames
    <2>1. undo \in [world : Accounts, destructed : SUBSET Address]
        BY <1>2, <1>6, HereIs DEF Accounts
    <2>2. new \in DOMAIN Prestate /\ new \in Address /\ new \in Creations
        BY <1>1, <1>2, <1>3, <1>5 DEF Permitted, Creations
    <2> HIDE DEF undo
    <2> QED BY <2>1, <2>2 DEF Frames
<1>10. frame.self = new /\ frame.creates = new /\ frame.undo = undo
    OBVIOUS
<1> HIDE DEF frame
<1>11. /\ f \in Seq(Frames) /\ Len(f) = Len(frames) + 1 /\ f[Len(frames) + 1] = frame
       /\ Below(frames, f, Len(frames))
    BY <1>2, <1>9, HereIs, AppendProperties DEF Below
<1> HIDE DEF f, paid
<1>12. /\ Now' \in NodeState
       /\ Now'.world = paid /\ Now'.frames = f /\ Now'.destructed = destructed
    BY <1>1, <1>2, <1>8, <1>11, HereIs, NextNow
<1>13. Opens(Now, Now', new, new, counted)
    BY <1>2, <1>10, <1>11, <1>12, HereIs DEF Opens, Acting
<1>14. IsCreation(Now, log, Now')
    <2>1. paid = Pay(NewContract(counted, new), self, new, log.amount)
        BY <1>3 DEF paid, fresh
    <2>2. counted = Counted(Now.world, self) /\ self = Acting(Now).self
        BY <1>2, <1>5, HereIs DEF counted
    <2>3. new \in DOMAIN Prestate
        BY <1>1, <1>5
    <2>4. Now'.world = paid /\ Now'.destructed = Now.destructed
        BY <1>2, <1>12, HereIs
    <2> HIDE DEF paid, self
    <2> QED BY <1>2, <1>3, <1>4, <1>13, <2>1, <2>2, <2>3, <2>4 DEF IsCreation
<1>15. Executed(Now, log, Now')
    BY <1>2, <1>3, <1>14, HereIs DEF Executed, Succeeds
<1> QED BY <1>2, <1>3, <1>12, <1>15 DEF Logging

LEMMA ExecuteLogs ==
    ASSUME Between, Executing, NEW instr \in Program[Here.code], Execute(instr)
    PROVE  \E log : Logging(log)
BY FailLogs, SstoreLogs, BlockhashLogs, SelfDestructLogs, RefusedLogs, CallLogs,
   PrecompileFailsLogs, CreateLogs DEF Execute

-----------------------------------------------------------------------------
(* The node's past *)

(* what Begin starts from, for the transaction t, and what its first call *)
(* enters, the value not yet paid                                         *)
Charged(t) == ChargeSender(Prestate, t)
Entering(t) == IF t.to = None THEN NewContract(Charged(t), Created) ELSE Charged(t)

Starts(s) ==
    /\ tx \in Transactions
    /\ Prestate[tx.from].balance >= GasFee(tx) + tx.value
    /\ s.world = Pay(Entering(tx), tx.from, Callee(tx), tx.value)
    /\ s.destructed = {}
    /\ \/ Len(s.frames) = 0
       \/ /\ Len(s.frames) = 1
          /\ s.frames[1].self = Callee(tx)
          /\ s.frames[1].undo = [world |-> Charged(tx), destructed |-> {}]

(* the state the transaction ends in, but for the refund and the deletions *)
Closes(s) ==
    /\ s.frames = <<>>
    /\ verdict \in [gas : 1 .. tx.gas, failed : BOOLEAN]
    /\ DOMAIN world = DOMAIN Prestate /\ world = [a \in DOMAIN world |-> world[a]]
    /\ destructed = s.destructed
    /\ \A a \in DOMAIN Prestate \ destructed :
          world[a] = Credit(s.world, tx.from, (tx.gas - verdict.gas) * tx.gas_price)[a]

(***************************************************************************)
(* The node was in past[n] before log n; the last of the past is now, or   *)
(* was before the transaction ended.                                       *)
(***************************************************************************)
Past(past) ==
    /\ past \in Seq(NodeState) /\ logs \in Seq(StructLog)
    /\ Len(past) = Len(logs) + 1
    /\ Starts(past[1])
    /\ \A n \in 1 .. Len(logs) : Executed(past[n], logs[n], past[n + 1])
    /\ IF verdict = None THEN past[Len(past)] = Now ELSE Closes(past[Len(past)])

NodeInv ==
    IF tx = None
    THEN /\ world = Prestate /\ destructed = {} /\ frames = <<>> /\ logs = <<>>
         /\ verdict = None
    ELSE \E past : Past(past)

LEMMA PrestateType == Prestate \in Accounts /\ Prestate \in EthStates
BY PlainAssumption, EthStatesDef, KeptReflexive DEF Accounts

LEMMA TransactionIs ==
    ASSUME NEW t \in Transactions
    PROVE  /\ t.from \in DOMAIN Prestate /\ Callee(t) \in DOMAIN Prestate
           /\ t.to = None => ~NoCreation /\ Created \in DOMAIN Prestate
           /\ t.from \in Address /\ Callee(t) \in Address
           /\ t.value \in Nat /\ t.gas \in Nat /\ t.gas_price \in Nat
           /\ GasFee(t) \in Nat /\ GasFee(t) = t.gas * t.gas_price
           /\ t \in [from : Address, to : Address \cup {None}, value : Nat, gas : Nat,
                     gas_price : Nat]
<1>1. DOMAIN Prestate \subseteq Address
    BY PlainAssumption DEF IsEthState
<1>2. t \in [from : DOMAIN Prestate, to : DOMAIN Prestate \cup {None}, value : Nat,
             gas : Nat, gas_price : Nat]
    BY PlainAssumption
<1>3. t.to = None => ~NoCreation /\ Created \in DOMAIN Prestate
    BY CreationAssumption DEF NoCreation
<1>4. Callee(t) \in DOMAIN Prestate
    BY <1>2, <1>3 DEF Callee
<1> QED BY <1>1, <1>2, <1>3, <1>4 DEF GasFee

(* The sender can pay the fee, and then the value. *)
LEMMA ChargedIs ==
    ASSUME NEW t \in Transactions, Prestate[t.from].balance >= GasFee(t) + t.value
    PROVE  /\ Charged(t) \in Accounts /\ DOMAIN Charged(t) = DOMAIN Prestate
           /\ Entering(t) \in Accounts /\ SameAssets(Entering(t), Charged(t))
           /\ Charged(t)[t.from].balance >= t.value
           /\ Pay(Entering(t), t.from, Callee(t), t.value) \in Accounts
           /\ Prestate[t.from].balance >= GasFee(t)
<1> DEFINE debited == Debit(Prestate, t.from, GasFee(t))
<1>1. /\ Prestate \in Kept(Prestate)
      /\ t.from \in DOMAIN Prestate /\ Callee(t) \in DOMAIN Prestate
      /\ GasFee(t) \in Nat /\ t.value \in Nat /\ Prestate[t.from].balance \in Nat
    BY PrestateType, TransactionIs, BalanceType DEF Accounts
<1>2. Prestate[t.from].balance >= GasFee(t)
    BY <1>1
<1>3. /\ debited \in Kept(Prestate) /\ DOMAIN debited = DOMAIN Prestate
      /\ debited[t.from] = WithBalance(Prestate[t.from], Prestate[t.from].balance - GasFee(t))
    BY <1>1, <1>2, DebitKeeps, DebitIs
<1>4. debited[t.from].balance >= t.value
    BY <1>1, <1>3 DEF WithBalance
<1>5. Charged(t) = Counted(debited, t.from)
    BY DEF Charged, ChargeSender, Counted
<1> HIDE DEF debited
<1>6. /\ Charged(t) \in Kept(Prestate) /\ DOMAIN Charged(t) = DOMAIN Prestate
      /\ Charged(t)[t.from].balance >= t.value
    <2>1. debited \in Kept(Prestate) /\ t.from \in DOMAIN debited
        BY <1>1, <1>3
    <2>2. /\ Counted(debited, t.from) \in Kept(Prestate)
          /\ DOMAIN Counted(debited, t.from) = DOMAIN debited
          /\ SameAssets(Counted(debited, t.from), debited)
        BY <2>1, CountKeeps, CountedAssets DEF Counted
    <2> QED BY <1>3, <1>4, <1>5, <2>1, <2>2 DEF SameAssets
<1>7. /\ Entering(t) \in Kept(Prestate) /\ DOMAIN Entering(t) = DOMAIN Prestate
      /\ SameAssets(Entering(t), Charged(t))
    <2>1. CASE t.to = None
        <3>1. Created \in DOMAIN Charged(t)
            BY <1>6, <2>1, TransactionIs
        <3> QED BY <1>6, <2>1, <3>1, NewContractKeeps, NewContractAssets DEF Entering
    <2>2. CASE t.to # None
        BY <1>6, <2>2 DEF Entering, SameAssets
    <2> QED BY <2>1, <2>2
<1>8. Entering(t)[t.from].balance >= t.value
    BY <1>1, <1>6, <1>7 DEF SameAssets
<1> QED BY <1>1, <1>2, <1>6, <1>7, <1>8, PayKeeps DEF Accounts

LEMMA BeginPast ==
    ASSUME NodeInv, NEW t \in Transactions, Begin(t)
    PROVE  NodeInv'
<1> DEFINE callee  == Callee(t)
           creates == IF t.to = None THEN callee ELSE None
           undo == [world |-> Charged(t), destructed |-> {}]
           new  == [self |-> callee, code |-> callee, creates |-> creates,
                    readonly |-> FALSE, undo |-> undo, top |-> None]
           f    == IF HasCode(callee) THEN <<new>> ELSE <<>>
           paid == Pay(Entering(t), t.from, callee, t.value)
<1>1. /\ world = Prestate /\ destructed = {} /\ frames = <<>> /\ logs = <<>>
      /\ verdict = None /\ tx = None
    BY DEF NodeInv, Begin
<1>2. /\ t.from \in DOMAIN Prestate /\ callee \in DOMAIN Prestate
      /\ callee \in Address /\ t.value \in Nat
      /\ GasFee(t) \in Nat /\ GasFee(t) = t.gas * t.gas_price
    BY TransactionIs
<1>3. callee = IF t.to = None THEN CreateAddress(t.from, world[t.from].nonce) ELSE t.to
    BY <1>1, CreationAssumption DEF Callee
<1>4. creates \in Creations
    BY <1>2, TransactionIs DEF Creations
<1>5. t.to = None => callee = Created
    BY DEF Callee
<1> HIDE DEF callee
<1>6. /\ world[t.from].balance >= GasFee(t) + t.value
      /\ tx' = t /\ world' = paid /\ frames' = f
      /\ UNCHANGED <<destructed, logs, verdict>>
    BY <1>1, <1>2, <1>3, <1>5 DEF Begin, Charged, Entering, ChargeSender, Frame
<1>7. Charged(t) \in Accounts /\ paid \in Accounts
    BY <1>1, <1>6, ChargedIs DEF callee
<1> HIDE DEF creates
<1>8. new \in Frames /\ new.self = callee /\ new.undo = undo
    BY <1>2, <1>4, <1>7 DEF Frames
<1> HIDE DEF new, undo
<1>9. /\ f \in Seq(Frames)
      /\ Len(f) = 0 \/ (Len(f) = 1 /\ f[1].self = callee /\ f[1].undo = undo)
    BY <1>8
<1> HIDE DEF f, paid
<1>10. /\ Now' \in NodeState
       /\ Now'.world = paid /\ Now'.frames = f /\ Now'.destructed = {}
    BY <1>1, <1>6, <1>7, <1>9, NextNow
<1>p. PICK past : past = <<Now'>>
    OBVIOUS
<1>11. past \in Seq(NodeState) /\ Len(past) = 1 /\ past[1] = Now'
    BY <1>10, <1>p
<1>12. logs' \in Seq(StructLog) /\ Len(logs') = 0 /\ verdict' = None
    BY <1>1, <1>6, EmptySeq
<1>13. Starts(past[1])'
    BY <1>1, <1>6, <1>9, <1>10, <1>11 DEF Starts, paid, undo, callee
<1>14. Past(past)'
    BY <1>11, <1>12, <1>13 DEF Past
<1>15. tx' # None
    BY <1>6, NoneAssumption
<1> QED BY <1>14, <1>15 DEF NodeInv

LEMMA LogPast ==
    ASSUME NEW past, Past(past), Between, NEW log, Logging(log),
           NEW new, new = Append(past, Now')
    PROVE  Past(new)'
<1> DEFINE n == Len(logs)
<1>1. /\ past \in Seq(NodeState) /\ logs \in Seq(StructLog) /\ Len(past) = n + 1
      /\ n \in Nat /\ past[n + 1] = Now /\ verdict = None
      /\ Starts(past[1])
      /\ \A k \in 1 .. n : Executed(past[k], logs[k], past[k + 1])
    BY LenProperties DEF Past, Between
<1>2. /\ logs' = Append(logs, log) /\ log \in StructLog /\ Now' \in NodeState
      /\ Executed(Now, log, Now') /\ UNCHANGED <<tx, verdict>>
    BY DEF Logging, Executed
<1>3. /\ new \in Seq(NodeState) /\ Len(new) = n + 2 /\ new[n + 2] = Now'
      /\ \A k \in 1 .. n + 1 : new[k] = past[k]
    BY <1>1, <1>2, AppendProperties
<1>4. /\ logs' \in Seq(StructLog) /\ Len(logs') = n + 1 /\ logs'[n + 1] = log
      /\ \A k \in 1 .. n : logs'[k] = logs[k]
    BY <1>1, <1>2, AppendProperties
<1> HIDE DEF n
<1>5. \A k \in 1 .. Len(logs') : Executed(new[k], logs'[k], new[k + 1])
    <2> SUFFICES ASSUME NEW k \in 1 .. Len(logs')
                 PROVE  Executed(new[k], logs'[k], new[k + 1])
        OBVIOUS
    <2>1. CASE k = n + 1
        BY <1>1, <1>2, <1>3, <1>4, <2>1
    <2>2. CASE k # n + 1
        <3>1. k \in 1 .. n /\ k + 1 \in 1 .. n + 1
            BY <1>1, <1>4, <2>2
        <3> QED BY <1>1, <1>3, <1>4, <3>1
    <2> QED BY <2>1, <2>2
<1>6. Starts(new[1])'
    <2>1. new[1] = past[1]
        BY <1>1, <1>3
    <2> QED BY <1>1, <1>2, <2>1 DEF Starts
<1> QED BY <1>1, <1>2, <1>3, <1>4, <1>5, <1>6 DEF Past

LEMMA FinishPast ==
    ASSUME NEW past, Past(past), tx # None, NEW gas \in 1 .. tx.gas, Finish(gas)
    PROVE  Past(past)'
<1> DEFINE refunded == Credit(world, tx.from, (tx.gas - gas) * tx.gas_price)
           s        == past[Len(past)]
<1>1. /\ verdict = None /\ frames = <<>> /\ UNCHANGED <<tx, destructed, frames, logs>>
      /\ verdict' = [gas |-> gas, failed |-> verdict'.failed]
      /\ verdict'.failed \in BOOLEAN
      /\ world' = [a \in DOMAIN world |->
                     IF a \in destructed
                     THEN [nonce |-> 0, balance |-> 0, code |-> NoCode, storage |-> <<>>]
                     ELSE refunded[a]]
    BY DEF Finish
<1>2. s = Now /\ s \in NodeState
    BY <1>1, ElementOfSeq, LenProperties DEF Past
<1>3. s.frames = <<>> /\ s.world = world /\ s.destructed = destructed /\ world \in Accounts
    BY <1>1, <1>2 DEF Now, NodeState
<1>4. verdict' \in [gas : 1 .. tx.gas, failed : BOOLEAN] /\ verdict'.gas = gas
    BY <1>1
<1>5. DOMAIN world' = DOMAIN world /\ DOMAIN world = DOMAIN Prestate
    BY <1>1, <1>3 DEF Accounts, Kept, Covers
<1>6. \A a \in DOMAIN Prestate \ destructed : world'[a] = refunded[a]
    BY <1>1, <1>5
<1>7. Closes(s)'
    BY <1>1, <1>3, <1>4, <1>5, <1>6 DEF Closes
<1>8. verdict' # None
    BY <1>4, TransactionIs, NoneAssumption DEF Past, Starts
<1> QED BY <1>1, <1>7, <1>8 DEF Past, Starts

LEMMA NodeStep ==
    ASSUME NodeInv, GethStep
    PROVE  /\ NodeInv' /\ verdict = None
           /\ tx = None \/ tx' = tx
<1>1. ASSUME NEW t \in Transactions, Begin(t) PROVE NodeInv' /\ verdict = None /\ tx = None
    BY <1>1, BeginPast DEF Begin, NodeInv
<1>2. ASSUME NEW gas \in 1 .. tx.gas, tx # None, Finish(gas)
      PROVE  NodeInv' /\ verdict = None /\ tx' = tx
    BY <1>2, FinishPast DEF Finish, NodeInv
<1>3. ASSUME Executing, Return \/ \E instr \in Program[Here.code] : Execute(instr)
      PROVE  NodeInv' /\ verdict = None /\ tx' = tx
    <2>1. tx # None /\ verdict = None
        BY <1>3 DEF Executing
    <2>2. PICK past : Past(past)
        BY <2>1 DEF NodeInv
    <2>3. past \in Seq(NodeState) /\ past[Len(past)] = Now /\ Len(past) \in Nat /\ Len(past) >= 1
        BY <2>1, <2>2, LenProperties DEF Past
    <2>4. Between
        BY <2>1, <2>3, ElementOfSeq DEF Between
    <2>5. PICK log : Logging(log)
        BY <1>3, <2>4, ReturnLogs, ExecuteLogs
    <2>6. PICK new : new = Append(past, Now')
        OBVIOUS
    <2>7. Past(new)'
        BY <2>2, <2>4, <2>5, <2>6, LogPast
    <2>8. tx' = tx
        BY <2>5 DEF Logging
    <2> QED BY <2>1, <2>7, <2>8 DEF NodeInv
<1> QED BY <1>1, <1>2, <1>3 DEF GethStep, Return

-----------------------------------------------------------------------------
(* The replay against the node's past *)

(* p has the balances and slots of w, and is w without contract creation, *)
(* but for the nonces and codes of the accounts of d                      *)
Agree(p, w, d) ==
    /\ SameAssets(p, w)
    /\ NoCreation => \A a \in DOMAIN w \ d : p[a] = w[a]

(* the first n contexts are the accounts the calls of f act for *)
Aligned(contexts, f, n) == \A j \in 1 .. n : contexts[j] = f[j].self

(* the open calls, by their depth, that end in a failure from log n on *)
Doomed(past, n) ==
    {c \in Nat : \E m \in n .. Len(logs) :
        /\ IsFailure(past[m], logs[m], past[m + 1])
        /\ Len(past[m].frames) = c
        /\ \A k \in n .. m : Len(past[k].frames) >= c}

(***************************************************************************)
(* Every open call has its context, and the snapshot its failure goes back *)
(* to.  The replay knows the constructor of a creation that fails by the   *)
(* zero address: in it and in the calls it makes context and snapshots are *)
(* not the node's, but all of them are thrown away when it fails.          *)
(***************************************************************************)
Mirrors(contexts, snaps, f, doomed) ==
    /\ Len(f) <= Len(contexts) /\ Len(f) <= Len(snaps)
    /\ \A j \in 1 .. Len(f) :
          /\ Aligned(contexts, f, j - 1) =>
                /\ Agree(snaps[j], f[j].undo.world, f[j].undo.destructed)
                /\ contexts[j] = f[j].self \/ j \in doomed
          /\ ContextsKnown => contexts[j] \in DOMAIN Prestate

(* state, contexts and snaps are what the replay should have before log n *)
Reaches(past, n, state, contexts, snaps) ==
    LET s == past[n] IN
    /\ Aligned(contexts, s.frames, Len(s.frames)) => Agree(state, s.world, s.destructed)
    /\ Mirrors(contexts, snaps, s.frames, Doomed(past, n))

(* the hashes of the blocks asked for, and of the transaction's own *)
AskedBefore(n) ==
    {logs[m].amount : m \in {k \in 1 .. n - 1 : logs[k].op = "BLOCKHASH"}}

Hashes(hashes, asked) ==
    /\ DOMAIN hashes = asked \cup {ThisBlock.number}
    /\ \A n \in asked : hashes[n] = HashOf(n)
    /\ ThisBlock.number \notin asked => hashes[ThisBlock.number] = ThisBlock.hash

(* the prestate of a tracer that does not know the account to be created *)
Restricted == [a \in DOMAIN Prestate \ {Created} |-> Prestate[a]]

(* the replay before the value transfer, in the given state *)
Prepared(state) ==
    /\ poststate = state /\ snapshots = <<Charged(tx)>>
    /\ execution_contexts = <<Callee(tx)>>
    /\ depth = 1 /\ i = 1
    /\ Hashes(block_hashes, {})

(* the code of the contract to be created is set to none *)
Cleared(t) == IF t.to = None THEN [Charged(t) EXCEPT ![Created].code = NoCode]
              ELSE Charged(t)

(* log i is next: the replay has come to where the node was before it *)
Abreast(past) ==
    /\ i \in 1 .. Len(logs) + 1
    /\ Reaches(past, i, poststate, execution_contexts, snapshots)
    /\ Hashes(block_hashes, AskedBefore(i))

(* the accounts the transaction left are extracted *)
Extracted ==
    /\ DOMAIN poststate = DOMAIN Prestate
    /\ \A a \in DOMAIN world \ destructed :
          /\ poststate[a].balance = world[a].balance
          /\ poststate[a].storage = world[a].storage
          /\ NoCreation => poststate[a] = world[a]

(* what a panic has left to be about *)
Excused == rpc = None \/ (tx.to = None /\ rpc = Answer(Restricted))

Follows(past) ==
    /\ pc = "fetch" => rpc = None
    /\ ContextsKnown /\ pc = "panic" => Excused
    /\ pc = "deploy" =>
          /\ tx.to = None
          /\ \/ rpc = Answer(Prestate) /\ Prepared(Charged(tx))
             \/ rpc = Answer(Restricted) /\ Created \notin DOMAIN poststate
    /\ pc \in {"transfer", "loop", "done"} => verdict # None /\ rpc = Answer(Prestate)
    /\ pc = "transfer" => Prepared(Cleared(tx))
    /\ pc = "loop" => Abreast(past)
    /\ pc = "done" => Extracted /\ Hashes(block_hashes, Asked)

LEMMA TruncateElements ==
    ASSUME NEW S, NEW s \in Seq(S), NEW n \in Nat, NEW j \in 1 .. n, j <= Len(s)
    PROVE  Truncate(s, n)[j] = s[j]
<1>1. CASE n < Len(s)
    <2>1. \A k \in 1 .. n : s[k] \in S
        BY <1>1, ElementOfSeq, LenProperties
    <2> QED BY <1>1, <2>1, SubSeqProperties DEF Truncate
<1>2. CASE ~(n < Len(s))
    BY <1>2 DEF Truncate
<1> QED BY <1>1, <1>2

(* What an iteration starts from: log i, the node before and after it *)
LEMMA LoopView ==
    ASSUME IndInv, NEW past, Past(past), Follows(past), pc = "loop", i <= Len(Logs)
    PROVE  LET s == past[i] IN
           /\ Logs = logs /\ rpc.prestate = Prestate
           /\ s \in NodeState /\ past[i + 1] \in NodeState /\ Executed(s, Log, past[i + 1])
           /\ i \in 1 .. Len(logs) /\ Log = logs[i]
           /\ Len(s.frames) \in Nat /\ Len(s.frames) >= 1
           /\ Depth = Len(s.frames)
           /\ Len(Contexts) = Len(s.frames) /\ Len(Snapshots) = Len(s.frames)
           /\ Contexts \in Seq(Address) /\ Snapshots \in Seq(Accounts)
           /\ Mirrors(Contexts, Snapshots, s.frames, Doomed(past, i))
           /\ Acting(s) \in Frames
           /\ ContextsKnown => Caller \in DOMAIN Prestate
           /\ Aligned(Contexts, s.frames, Len(s.frames)) =>
                 /\ Caller = Acting(s).self /\ Caller \in DOMAIN Prestate
                 /\ Agree(poststate, s.world, s.destructed)
           /\ poststate \in Accounts /\ DOMAIN poststate = DOMAIN Prestate
           /\ s.world \in Accounts /\ DOMAIN s.world = DOMAIN Prestate
<1> DEFINE s == past[i]
           L == Len(s.frames)
<1>1. /\ verdict # None /\ rpc = Answer(Prestate) /\ i \in 1 .. Len(logs) + 1
      /\ Aligned(execution_contexts, s.frames, L) => Agree(poststate, s.world, s.destructed)
      /\ Mirrors(execution_contexts, snapshots, s.frames, Doomed(past, i))
    BY DEF Follows, Abreast, Reaches
<1>2. Logs = logs /\ rpc.prestate = Prestate
    BY <1>1 DEF Logs, Answer
<1>3. /\ past \in Seq(NodeState) /\ logs \in Seq(StructLog) /\ Len(past) = Len(logs) + 1
      /\ Len(logs) \in Nat
    BY LenProperties DEF Past
<1>4. i \in 1 .. Len(logs) /\ i + 1 \in 1 .. Len(past) /\ i \in 1 .. Len(past)
    BY <1>1, <1>2, <1>3
<1>5. s \in NodeState /\ past[i + 1] \in NodeState
    BY <1>3, <1>4, ElementOfSeq
<1>6. Log = logs[i] /\ Executed(s, Log, past[i + 1])
    BY <1>2, <1>4 DEF Past, Log
<1>7. s.frames \in Seq(Frames) /\ s.world \in Accounts /\ L \in Nat
    BY <1>5, LenProperties DEF NodeState
<1>8. L >= 1 /\ Log.depth = L
    BY <1>6 DEF Executed
<1>9. Acting(s) \in Frames /\ Acting(s) = s.frames[L]
    BY <1>7, <1>8, ElementOfSeq DEF Acting
<1>10. /\ depth \in Nat /\ execution_contexts \in Seq(Address)
       /\ Len(execution_contexts) = depth
       /\ snapshots \in Seq(Accounts) /\ Len(snapshots) <= depth
       /\ Len(snapshots) \in Nat
       /\ poststate \in Accounts
    BY <1>2, LenProperties DEF IndInv, Running, Accounts
<1>11. L <= depth /\ L <= Len(snapshots)
    BY <1>1, <1>10 DEF Mirrors
<1> HIDE DEF s, L
<1>12. Depth = L
    BY <1>7, <1>8, <1>10, <1>11 DEF Depth, Returned
<1>13. Contexts \in Seq(Address) /\ Len(Contexts) = L
    BY <1>7, <1>8, <1>10, <1>11, TruncateProperties DEF Contexts, Returned
<1>14. Snapshots \in Seq(Accounts) /\ Len(Snapshots) = L
    BY <1>7, <1>8, <1>10, <1>11, TruncateProperties DEF Snapshots, Returned
<1>15. \A j \in 1 .. L : Contexts[j] = execution_contexts[j] /\ Snapshots[j] = snapshots[j]
    <2> SUFFICES ASSUME NEW j \in 1 .. L
                 PROVE  Contexts[j] = execution_contexts[j] /\ Snapshots[j] = snapshots[j]
        OBVIOUS
    <2>1. j <= Len(execution_contexts) /\ j <= Len(snapshots)
        BY <1>7, <1>10, <1>11
    <2>2. Truncate(execution_contexts, L)[j] = execution_contexts[j]
        BY <1>7, <1>10, <2>1, TruncateElements
    <2>3. Truncate(snapshots, L)[j] = snapshots[j]
        BY <1>7, <1>10, <2>1, TruncateElements
    <2> QED BY <1>8, <2>2, <2>3 DEF Contexts, Snapshots
<1>16. Mirrors(Contexts, Snapshots, s.frames, Doomed(past, i))
    <2> SUFFICES ASSUME NEW j \in 1 .. L
                 PROVE  /\ Aligned(Contexts, s.frames, j - 1) =>
                             /\ Agree(Snapshots[j], s.frames[j].undo.world,
                                              s.frames[j].undo.destructed)
                             /\ Contexts[j] = s.frames[j].self \/ j \in Doomed(past, i)
                        /\ ContextsKnown => Contexts[j] \in DOMAIN Prestate
        BY <1>7, <1>13, <1>14 DEF Mirrors, L
    <2>1. \A k \in 1 .. j - 1 : k \in 1 .. L
        BY <1>7
    <2>2. Aligned(Contexts, s.frames, j - 1) => Aligned(execution_contexts, s.frames, j - 1)
        BY <1>15, <2>1 DEF Aligned
    <2>3. /\ Aligned(execution_contexts, s.frames, j - 1) =>
                 /\ Agree(snapshots[j], s.frames[j].undo.world, s.frames[j].undo.destructed)
                 /\ execution_contexts[j] = s.frames[j].self \/ j \in Doomed(past, i)
          /\ ContextsKnown => execution_contexts[j] \in DOMAIN Prestate
        BY <1>1 DEF Mirrors, L
    <2> QED BY <1>15, <2>2, <2>3
<1>17. /\ Aligned(Contexts, s.frames, L) =>
             /\ Caller = Acting(s).self /\ Caller \in DOMAIN Prestate
             /\ Agree(poststate, s.world, s.destructed)
       /\ ContextsKnown => Caller \in DOMAIN Prestate
    <2>1. Caller = Contexts[L] /\ L \in 1 .. L
        BY <1>7, <1>8, <1>13 DEF Caller, Last
    <2>2. ContextsKnown => Contexts[L] \in DOMAIN Prestate
        BY <1>16, <2>1 DEF Mirrors, L
    <2>3. Acting(s).self \in DOMAIN Prestate
        BY <1>9 DEF Frames
    <2>4. Aligned(Contexts, s.frames, L) => Aligned(execution_contexts, s.frames, L)
        BY <1>15 DEF Aligned
    <2> QED BY <1>1, <1>9, <2>1, <2>2, <2>3, <2>4 DEF Aligned
<1>18. DOMAIN poststate = DOMAIN Prestate /\ DOMAIN s.world = DOMAIN Prestate
    BY <1>7, <1>10 DEF Accounts, Kept, Covers
<1> QED BY <1>2, <1>4, <1>5, <1>6, <1>7, <1>8, <1>9, <1>10, <1>12, <1>13, <1>14, <1>16,
           <1>17, <1>18 DEF s, L

-----------------------------------------------------------------------------
(* An iteration keeps abreast of the node. *)

LEMMA PastAt ==
    ASSUME NEW past, Past(past), NEW n \in 1 .. Len(logs)
    PROVE  /\ past[n] \in NodeState /\ past[n + 1] \in NodeState
           /\ Executed(past[n], logs[n], past[n + 1])
           /\ Len(past[n].frames) \in Nat /\ Len(past[n].frames) >= 1
           /\ Len(past[n + 1].frames) \in Nat
           /\ Len(logs) \in Nat /\ n \in Nat
<1>1. /\ past \in Seq(NodeState) /\ Len(past) = Len(logs) + 1 /\ Len(logs) \in Nat
      /\ Executed(past[n], logs[n], past[n + 1])
    BY LenProperties DEF Past
<1>2. past[n] \in NodeState /\ past[n + 1] \in NodeState
    BY <1>1, ElementOfSeq
<1> QED BY <1>1, <1>2, LenProperties DEF NodeState, Executed

LEMMA AlignedBelow ==
    ASSUME NEW f, NEW g, NEW n \in Nat, NEW m \in Nat, m <= n, Below(f, g, n),
           NEW contexts
    PROVE  Aligned(contexts, g, m) <=> Aligned(contexts, f, m)
BY DEF Below, Aligned

(* A call that is to fail is, as long as it is open. *)
LEMMA DoomedNext ==
    ASSUME NEW past, Past(past), NEW n \in 1 .. Len(logs),
           NEW c \in Doomed(past, n), c <= Len(past[n + 1].frames)
    PROVE  c \in Doomed(past, n + 1)
<1>1. PICK m \in n .. Len(logs) :
          /\ IsFailure(past[m], logs[m], past[m + 1])
          /\ Len(past[m].frames) = c
          /\ \A k \in n .. m : Len(past[k].frames) >= c
    BY DEF Doomed
<1>2. /\ Len(past[n].frames) \in Nat /\ Len(past[n + 1].frames) \in Nat
      /\ Len(logs) \in Nat /\ n \in Nat /\ c \in Nat
    BY PastAt DEF Doomed
<1>3. m # n
    BY <1>1, <1>2 DEF IsFailure, Leaves
<1>4. m \in n + 1 .. Len(logs) /\ \A k \in n + 1 .. m : k \in n .. m
    BY <1>2, <1>3
<1> QED BY <1>1, <1>2, <1>4 DEF Doomed

(* A call that ends without failing was not to fail. *)
LEMMA LeavingIsSafe ==
    ASSUME NEW past, Past(past), NEW n \in 1 .. Len(logs),
           ~IsFailure(past[n], logs[n], past[n + 1]),
           Len(past[n + 1].frames) = Len(past[n].frames) - 1
    PROVE  Len(past[n].frames) \notin Doomed(past, n)
<1> SUFFICES ASSUME Len(past[n].frames) \in Doomed(past, n) PROVE FALSE
    OBVIOUS
<1>1. PICK m \in n .. Len(logs) :
          /\ IsFailure(past[m], logs[m], past[m + 1])
          /\ Len(past[m].frames) = Len(past[n].frames)
          /\ \A k \in n .. m : Len(past[k].frames) >= Len(past[n].frames)
    BY DEF Doomed
<1>2. Len(past[n].frames) \in Nat /\ Len(logs) \in Nat /\ n \in Nat
    BY PastAt
<1>3. m # n
    BY <1>1
<1>4. n + 1 \in n .. m
    BY <1>2, <1>3
<1> QED BY <1>1, <1>2, <1>4

(* Fewer calls, or the same, have the contexts and snapshots they had. *)
LEMMA MirrorsBelow ==
    ASSUME NEW f \in Seq(Frames), NEW g \in Seq(Frames), Len(g) <= Len(f),
           Below(f, g, Len(g)),
           NEW contexts, NEW snaps, NEW fewer, NEW doomed, NEW later,
           Mirrors(contexts, snaps, f, doomed),
           Len(contexts) \in Nat, Len(snaps) \in Nat, Len(fewer) \in Nat,
           Len(g) <= Len(fewer), \A j \in 1 .. Len(g) : fewer[j] = snaps[j],
           \A c \in doomed : c <= Len(g) => c \in later
    PROVE  Mirrors(contexts, fewer, g, later)
<1>1. Len(f) \in Nat /\ Len(g) \in Nat
    BY LenProperties
<1>2. Len(g) <= Len(contexts)
    BY <1>1 DEF Mirrors
<1>3. ASSUME NEW j \in 1 .. Len(g)
      PROVE  /\ Aligned(contexts, g, j - 1) =>
                   /\ Agree(fewer[j], g[j].undo.world, g[j].undo.destructed)
                   /\ contexts[j] = g[j].self \/ j \in later
             /\ ContextsKnown => contexts[j] \in DOMAIN Prestate
    <2>1. j \in 1 .. Len(f) /\ j - 1 \in Nat /\ j - 1 <= Len(g) /\ j <= Len(g)
        BY <1>1
    <2>2. Aligned(contexts, g, j - 1) <=> Aligned(contexts, f, j - 1)
        BY <1>1, <2>1, AlignedBelow
    <2>3. g[j].self = f[j].self /\ g[j].undo = f[j].undo /\ fewer[j] = snaps[j]
        BY DEF Below
    <2>4. /\ Aligned(contexts, f, j - 1) =>
                /\ Agree(snaps[j], f[j].undo.world, f[j].undo.destructed)
                /\ contexts[j] = f[j].self \/ j \in doomed
          /\ ContextsKnown => contexts[j] \in DOMAIN Prestate
        BY <2>1 DEF Mirrors
    <2> QED BY <2>1, <2>2, <2>3, <2>4
<1> QED BY <1>2, <1>3 DEF Mirrors

(* An instruction after which no more calls are open than before *)
LEMMA MirrorsRest ==
    ASSUME NEW past, Past(past), NEW n \in 1 .. Len(logs),
           NEW contexts, NEW snaps, Len(contexts) \in Nat, Len(snaps) \in Nat,
           Mirrors(contexts, snaps, past[n].frames, Doomed(past, n)),
           \/ Stays(past[n], past[n + 1])
           \/ \E w : Leaves(past[n], past[n + 1], w)
    PROVE  /\ Mirrors(contexts, snaps, past[n + 1].frames, Doomed(past, n + 1))
           /\ Len(past[n + 1].frames) <= Len(past[n].frames)
           /\ Below(past[n].frames, past[n + 1].frames, Len(past[n + 1].frames))
<1> DEFINE f == past[n].frames
           g == past[n + 1].frames
<1>1. f \in Seq(Frames) /\ g \in Seq(Frames) /\ Len(f) \in Nat /\ Len(g) \in Nat
    BY PastAt DEF NodeState
<1>2. Len(g) <= Len(f) /\ Below(f, g, Len(g))
    BY <1>1 DEF Stays, Leaves
<1>3. Len(g) <= Len(snaps)
    BY <1>1, <1>2 DEF Mirrors
<1>4. \A c \in Doomed(past, n) : c <= Len(g) => c \in Doomed(past, n + 1)
    BY DoomedNext
<1> HIDE DEF f, g
<1>5. Mirrors(contexts, snaps, g, Doomed(past, n + 1))
    BY <1>1, <1>2, <1>3, <1>4, MirrorsBelow DEF f, g
<1> QED BY <1>2, <1>5 DEF f, g

LEMMA MirrorsFailed ==
    ASSUME NEW past, Past(past), NEW n \in 1 .. Len(logs),
           NEW contexts, NEW snaps \in Seq(Accounts),
           Mirrors(contexts, snaps, past[n].frames, Doomed(past, n)),
           Len(contexts) = Len(past[n].frames), Len(snaps) = Len(past[n].frames),
           IsFailure(past[n], logs[n], past[n + 1])
    PROVE  Reaches(past, n + 1, Last(snaps), contexts, Front(snaps))
<1> DEFINE f == past[n].frames
           g == past[n + 1].frames
           L == Len(f)
<1>1. /\ f \in Seq(Frames) /\ g \in Seq(Frames) /\ L \in Nat /\ L >= 1
      /\ past[n] \in NodeState
    BY PastAt DEF NodeState
<1>2. Len(g) = L - 1 /\ Below(f, g, L - 1)
    BY DEF IsFailure, Leaves
<1>3. Len(Front(snaps)) = L - 1
    BY <1>1, FrontLast
<1>4. \A j \in 1 .. L - 1 : Front(snaps)[j] = snaps[j]
    <2>1. \A j \in 1 .. Len(snaps) - 1 : snaps[j] \in Accounts
        BY <1>1, ElementOfSeq
    <2>2. PICK k \in Nat : k = Len(snaps) - 1
        BY <1>1
    <2>3. \A j \in 1 .. k : SubSeq(snaps, 1, k)[j] = snaps[j]
        BY <2>1, <2>2, SubSeqProperties
    <2> QED BY <2>2, <2>3 DEF Front
<1>5. \A c \in Doomed(past, n) : c <= Len(g) => c \in Doomed(past, n + 1)
    BY DoomedNext
<1>6. Mirrors(contexts, Front(snaps), g, Doomed(past, n + 1))
    <2>1. /\ Len(g) <= L /\ Below(f, g, Len(g)) /\ Len(g) <= Len(Front(snaps))
          /\ Len(contexts) \in Nat /\ Len(snaps) \in Nat /\ Len(Front(snaps)) \in Nat
        BY <1>1, <1>2, <1>3
    <2>2. \A j \in 1 .. Len(g) : Front(snaps)[j] = snaps[j]
        BY <1>2, <1>4
    <2>3. Mirrors(contexts, snaps, f, Doomed(past, n))
        OBVIOUS
    <2> HIDE DEF f, g
    <2> QED BY <1>1, <1>5, <2>1, <2>2, <2>3, MirrorsBelow
<1>7. Aligned(contexts, g, L - 1) => Agree(Last(snaps), past[n + 1].world, past[n + 1].destructed)
    <2>1. Aligned(contexts, g, L - 1) <=> Aligned(contexts, f, L - 1)
        BY <1>1, <1>2, AlignedBelow
    <2>2. L \in 1 .. L
        BY <1>1
    <2>3. Aligned(contexts, f, L - 1) =>
              Agree(snaps[L], f[L].undo.world, f[L].undo.destructed)
        BY <2>2 DEF Mirrors
    <2> QED BY <2>1, <2>3 DEF IsFailure, Acting, Last
<1> QED BY <1>2, <1>6, <1>7 DEF Reaches

(* An instruction that may open a call, which the replay opens *)
LEMMA MirrorsOpened ==
    ASSUME NEW past, Past(past), NEW n \in 1 .. Len(logs),
           NEW contexts \in Seq(Address), NEW snaps \in Seq(Accounts),
           Mirrors(contexts, snaps, past[n].frames, Doomed(past, n)),
           Len(contexts) = Len(past[n].frames), Len(snaps) = Len(past[n].frames),
           NEW context \in Address, NEW snap \in Accounts, NEW state,
           NEW self, NEW creates, NEW before,
           ContextsKnown => context \in DOMAIN Prestate,
           \/ /\ Stays(past[n], past[n + 1])
              /\ Aligned(contexts, past[n].frames, Len(past[n].frames)) =>
                    Agree(state, past[n + 1].world, past[n + 1].destructed)
           \/ /\ Opens(past[n], past[n + 1], self, creates, before)
              /\ Aligned(contexts, past[n].frames, Len(past[n].frames)) =>
                    /\ Agree(snap, before, past[n].destructed)
                    /\ context = self
                          => Agree(state, past[n + 1].world, past[n + 1].destructed)
                    /\ \/ context = self
                       \/ Len(past[n].frames) + 1 \in Doomed(past, n + 1)
    PROVE  Reaches(past, n + 1, state, Append(contexts, context), Append(snaps, snap))
<1> DEFINE f == past[n].frames
           g == past[n + 1].frames
           L == Len(f)
           c == Append(contexts, context)
           p == Append(snaps, snap)
           doomed == Doomed(past, n + 1)
<1>1. L \in Nat /\ Len(g) \in Nat
    BY PastAt
<1>2. /\ Len(c) = L + 1 /\ c[L + 1] = context
      /\ \A j \in 1 .. L : c[j] = contexts[j]
    BY AppendProperties
<1>3. /\ Len(p) = L + 1 /\ p[L + 1] = snap
      /\ \A j \in 1 .. L : p[j] = snaps[j]
    BY AppendProperties
<1>4. Len(g) \in {L, L + 1} /\ Below(f, g, L)
    BY DEF Stays, Opens
<1>5. \A m \in 0 .. L : /\ m \in Nat /\ m <= L
                        /\ \A j \in 1 .. m : j \in 1 .. L
    BY <1>1
<1>6. \A m \in 0 .. L : Aligned(c, g, m) <=> Aligned(contexts, f, m)
    <2> SUFFICES ASSUME NEW m \in 0 .. L
                 PROVE  Aligned(c, g, m) <=> Aligned(contexts, f, m)
        OBVIOUS
    <2>1. Aligned(c, g, m) <=> Aligned(c, f, m)
        BY <1>1, <1>4, <1>5, AlignedBelow
    <2>2. Aligned(c, f, m) <=> Aligned(contexts, f, m)
        BY <1>2, <1>5 DEF Aligned
    <2> QED BY <2>1, <2>2
<1>7. \A x \in Doomed(past, n) : x <= L => x \in doomed
    <2>1. Len(g) >= L
        BY <1>1, <1>4
    <2>2. \A x \in Doomed(past, n) : x \in Nat
        BY DEF Doomed
    <2> QED BY <1>1, <2>1, <2>2, DoomedNext
<1> HIDE DEF c, p, f, g, doomed
<1>8. ASSUME NEW j \in 1 .. L
      PROVE  /\ Aligned(c, g, j - 1) =>
                   /\ Agree(p[j], g[j].undo.world, g[j].undo.destructed)
                   /\ c[j] = g[j].self \/ j \in doomed
             /\ ContextsKnown => c[j] \in DOMAIN Prestate
    <2>1. j - 1 \in 0 .. L /\ j <= L
        BY <1>1
    <2>2. /\ Aligned(contexts, f, j - 1) =>
                /\ Agree(snaps[j], f[j].undo.world, f[j].undo.destructed)
                /\ contexts[j] = f[j].self \/ j \in Doomed(past, n)
          /\ ContextsKnown => contexts[j] \in DOMAIN Prestate
        BY DEF Mirrors, f
    <2>3. g[j].self = f[j].self /\ g[j].undo = f[j].undo
        BY <1>4 DEF Below
    <2> QED BY <1>2, <1>3, <1>6, <1>7, <2>1, <2>2, <2>3
<1>9. CASE Stays(past[n], past[n + 1]) /\ Len(g) = L
    <2>1. Mirrors(c, p, g, doomed)
        BY <1>1, <1>2, <1>3, <1>8, <1>9 DEF Mirrors
    <2>2. L \in 0 .. L /\ Len(g) = L
        BY <1>1, <1>9
    <2>3. Aligned(c, g, L) => Aligned(contexts, f, L)
        BY <1>6, <2>2
    <2>4. ~Opens(past[n], past[n + 1], self, creates, before)
        BY <1>1, <1>9 DEF Opens, f, g
    <2>5. Aligned(c, g, L) => Agree(state, past[n + 1].world, past[n + 1].destructed)
        BY <2>3, <2>4 DEF f
    <2> QED BY <2>1, <2>2, <2>5 DEF Reaches, c, p, g, doomed
<1>10. CASE Opens(past[n], past[n + 1], self, creates, before) /\ Len(g) = L + 1
    <2>1. g[L + 1].self = self /\ g[L + 1].undo = [world |-> before,
                                                  destructed |-> past[n].destructed]
        BY <1>10 DEF Opens, Acting, g
    <2>2. L \in 0 .. L
        BY <1>1
    <2>3. ~Stays(past[n], past[n + 1])
        BY <1>1, <1>10 DEF Stays, f, g
    <2>4. Aligned(contexts, f, L) =>
             /\ Agree(snap, before, past[n].destructed)
             /\ context = self => Agree(state, past[n + 1].world, past[n + 1].destructed)
             /\ context = self \/ L + 1 \in doomed
        BY <2>3 DEF f, doomed
    <2>5. /\ Aligned(c, g, L) =>
                /\ Agree(p[L + 1], g[L + 1].undo.world, g[L + 1].undo.destructed)
                /\ c[L + 1] = g[L + 1].self \/ L + 1 \in doomed
          /\ ContextsKnown => c[L + 1] \in DOMAIN Prestate
        BY <1>2, <1>3, <1>6, <2>1, <2>2, <2>4
    <2>6. \A j \in 1 .. L + 1 : j \in 1 .. L \/ (j = L + 1 /\ j - 1 = L)
        BY <1>1
    <2>7. Mirrors(c, p, g, doomed)
        BY <1>2, <1>3, <1>8, <1>10, <2>5, <2>6 DEF Mirrors
    <2>8. Aligned(c, g, L + 1) => Aligned(c, g, L) /\ context = self
        BY <1>1, <1>2, <2>1 DEF Aligned
    <2>9. Aligned(c, g, L + 1) => Agree(state, past[n + 1].world, past[n + 1].destructed)
        BY <1>6, <2>2, <2>4, <2>8
    <2> QED BY <1>10, <2>7, <2>9 DEF Reaches, c, p, g, doomed
<1> QED BY <1>9, <1>10 DEF Stays, Opens, f, g

(* Only BLOCKHASH asks. *)
LEMMA AskedSame ==
    ASSUME i \in 1 .. Len(logs), Len(logs) \in Nat, logs[i].op # "BLOCKHASH"
    PROVE  AskedBefore(i + 1) = AskedBefore(i)
<1>1. {k \in 1 .. (i + 1) - 1 : logs[k].op = "BLOCKHASH"}
          = {k \in 1 .. i - 1 : logs[k].op = "BLOCKHASH"}
    OBVIOUS
<1> QED BY <1>1 DEF AskedBefore

LEMMA Advances ==
    ASSUME IndInv, NEW past, Past(past), Follows(past), pc = "loop", i <= Len(Logs),
           UNCHANGED gethVars,
           NEW state, NEW contexts, NEW snaps, NEW d, Advance(state, contexts, snaps, d),
           IF Log.error THEN Reaches(past, i + 1, Last(snaps), contexts, Front(snaps))
           ELSE Reaches(past, i + 1, state, contexts, snaps),
           Log.op # "BLOCKHASH" => UNCHANGED block_hashes,
           Log.op = "BLOCKHASH" => Hashes(block_hashes', AskedBefore(i + 1))
    PROVE  Follows(past)'
<1>1. /\ pc' = "loop" /\ rpc' = rpc /\ i' = i + 1
      /\ Reaches(past, i + 1, poststate', execution_contexts', snapshots')
    BY DEF Advance
<1>2. verdict' = verdict /\ tx' = tx /\ logs' = logs
    BY DEF gethVars
<1>3. Logs = logs /\ i \in 1 .. Len(logs) /\ Len(logs) \in Nat /\ Log = logs[i]
    BY LoopView, LenProperties DEF Past, Log
<1>4. i' \in 1 .. Len(logs') + 1
    BY <1>1, <1>2, <1>3
<1>5. Hashes(block_hashes, AskedBefore(i))
    BY DEF Follows, Abreast
<1>6. Hashes(block_hashes', AskedBefore(i)')
    <2>1. AskedBefore(i)' = AskedBefore(i + 1)
        BY <1>1, <1>2 DEF AskedBefore
    <2>2. CASE Log.op # "BLOCKHASH"
        BY <1>3, <1>5, <2>1, <2>2, AskedSame
    <2>3. CASE Log.op = "BLOCKHASH"
        BY <2>1, <2>3
    <2> QED BY <2>2, <2>3
<1>7. Reaches(past, i, poststate, execution_contexts, snapshots)'
    <2>1. Doomed(past, i)' = Doomed(past, i + 1)
        BY <1>1, <1>2 DEF Doomed
    <2> QED BY <1>1, <2>1 DEF Reaches
<1>8. Abreast(past)'
    BY <1>4, <1>6, <1>7 DEF Abreast
<1>9. verdict # None /\ rpc = Answer(Prestate)
    BY DEF Follows
<1>10. Answer(Prestate)' = Answer(Prestate)
    BY <1>2 DEF Answer
<1> QED BY <1>1, <1>2, <1>8, <1>9, <1>10 DEF Follows

(* What happened, by the log *)
LEMMA Kinds ==
    ASSUME NEW s, NEW log, NEW t, Executed(s, log, t)
    PROVE  /\ log.op \in Opcode
           /\ log.error => /\ IsFailure(s, log, t)
                           /\ log.op \in {"OTHER", "SSTORE", "SELFDESTRUCT"}
           /\ ~log.error =>
                /\ log.op \in HaltOps <=> IsFailure(s, log, t)
                /\ log.op = "OTHER" => IsReturn(s, log, t)
                /\ log.op = "SSTORE" => IsWrite(s, log, t)
                /\ log.op = "BLOCKHASH" => IsAsked(s, log, t)
                /\ log.op = "SELFDESTRUCT" => IsDestruction(s, log, t)
                /\ log.op \in CallOps => IsRefused(s, log, t) \/ IsCall(s, log, t)
                /\ log.op \in CreateOps => IsRefused(s, log, t) \/ IsCreation(s, log, t)
<1>1. log \in StructLog
    BY DEF Executed
<1>2. log.op \in Opcode /\ log.error \in BOOLEAN
    BY <1>1 DEF StructLog
<1>3. IsFailure(s, log, t) =>
          \/ log.op \in HaltOps /\ ~log.error
          \/ log.op \in {"OTHER", "SSTORE", "SELFDESTRUCT"} /\ log.error
    BY <1>2 DEF IsFailure, VisibleFaults, HaltOps
<1>4. \/ IsFailure(s, log, t)
      \/ /\ ~log.error
         /\ \/ IsReturn(s, log, t) \/ IsWrite(s, log, t) \/ IsAsked(s, log, t)
            \/ IsDestruction(s, log, t) \/ IsRefused(s, log, t) \/ IsCall(s, log, t)
            \/ IsCreation(s, log, t)
    BY DEF Executed, Succeeds
<1> QED BY <1>2, <1>3, <1>4
        DEF IsReturn, IsWrite, IsAsked, IsDestruction, IsRefused, IsCall, IsCreation,
            HaltOps, CallOps, CreateOps

LEMMA AgreeTransfer ==
    ASSUME NEW p \in Accounts, NEW w \in Accounts, NEW d, Agree(p, w, d),
           NEW from \in DOMAIN w, NEW to \in DOMAIN w, NEW v \in Nat, w[from].balance >= v
    PROVE  Agree(Transfer(p, from, to, v), Transfer(w, from, to, v), d)
<1>1. DOMAIN p = DOMAIN w /\ p[from].balance >= v
    BY DEF Agree, SameAssets
<1>2. /\ DOMAIN Transfer(p, from, to, v) = DOMAIN w
      /\ \A b \in DOMAIN w :
            LET balance == p[b].balance IN
            Transfer(p, from, to, v)[b] =
               IF b = from /\ b = to THEN p[b]
               ELSE IF b = from THEN WithBalance(p[b], balance - v)
               ELSE IF b = to THEN WithBalance(p[b], balance + v)
               ELSE p[b]
    BY <1>1, TransferIs DEF Accounts
<1>3. /\ DOMAIN Transfer(w, from, to, v) = DOMAIN w
      /\ \A b \in DOMAIN w :
            LET balance == w[b].balance IN
            Transfer(w, from, to, v)[b] =
               IF b = from /\ b = to THEN w[b]
               ELSE IF b = from THEN WithBalance(w[b], balance - v)
               ELSE IF b = to THEN WithBalance(w[b], balance + v)
               ELSE w[b]
    BY TransferIs DEF Accounts
<1>4. \A x, y : WithBalance(x, y).balance = y /\ WithBalance(x, y).storage = x.storage
    BY DEF WithBalance
<1>5. SameAssets(Transfer(p, from, to, v), Transfer(w, from, to, v))
    BY <1>2, <1>3, <1>4 DEF Agree, SameAssets
<1>6. NoCreation => \A b \in DOMAIN w \ d :
          Transfer(p, from, to, v)[b] = Transfer(w, from, to, v)[b]
    BY <1>2, <1>3 DEF Agree
<1> QED BY <1>3, <1>5, <1>6 DEF Agree

(* Nonces and codes do not tell states apart, where contracts are created. *)
LEMMA AgreeSame ==
    ASSUME NEW p, NEW w, NEW d, Agree(p, w, d), NEW q, NEW v,
           SameAssets(q, p), SameAssets(v, w), ~NoCreation
    PROVE  Agree(q, v, d)
BY DEF Agree, SameAssets

LEMMA StoreIs ==
    ASSUME NEW state \in Accounts, NEW a \in DOMAIN state, NEW k, NEW v
    PROVE  /\ DOMAIN Store(state, a, k, v) = DOMAIN state
           /\ \A b \in DOMAIN state :
                Store(state, a, k, v)[b] =
                   IF b = a THEN [nonce |-> state[a].nonce, balance |-> state[a].balance,
                                  code |-> state[a].code,
                                  storage |-> Insert(state[a].storage, k, v)]
                   ELSE state[b]
<1>1. state[a] \in EthAccountState
    BY AccountType DEF Accounts
<1> DEFINE slots == Insert(state[a].storage, k, v)
           account == [state[a] EXCEPT !.storage = slots]
<1>2. account = [nonce |-> state[a].nonce, balance |-> state[a].balance,
                 code |-> state[a].code, storage |-> slots]
    BY <1>1 DEF EthAccountState
<1>3. Store(state, a, k, v) = [state EXCEPT ![a] = account]
    BY DEF Store
<1> HIDE DEF account
<1> QED BY <1>2, <1>3

LEMMA AgreeStore ==
    ASSUME NEW p \in Accounts, NEW w \in Accounts, NEW d, Agree(p, w, d),
           NEW a \in DOMAIN w, NEW k, NEW v
    PROVE  Agree(Store(p, a, k, v), Store(w, a, k, v), d)
<1>1. DOMAIN p = DOMAIN w
    BY DEF Agree, SameAssets
<1> DEFINE P == Store(p, a, k, v)
           W == Store(w, a, k, v)
<1>2. /\ DOMAIN P = DOMAIN w
      /\ \A b \in DOMAIN w :
            P[b] = IF b = a THEN [nonce |-> p[a].nonce, balance |-> p[a].balance,
                                  code |-> p[a].code,
                                  storage |-> Insert(p[a].storage, k, v)]
                   ELSE p[b]
    BY <1>1, StoreIs
<1>3. /\ DOMAIN W = DOMAIN w
      /\ \A b \in DOMAIN w :
            W[b] = IF b = a THEN [nonce |-> w[a].nonce, balance |-> w[a].balance,
                                  code |-> w[a].code,
                                  storage |-> Insert(w[a].storage, k, v)]
                   ELSE w[b]
    BY StoreIs
<1> HIDE DEF P, W
<1>4. SameAssets(P, W)
    BY <1>2, <1>3 DEF Agree, SameAssets
<1>5. NoCreation => \A b \in DOMAIN w \ d : P[b] = W[b]
    BY <1>2, <1>3 DEF Agree, SameAssets
<1>6. Agree(P, W, d)
    BY <1>3, <1>4, <1>5 DEF Agree
<1> QED BY <1>6 DEF P, W

(* SELFDESTRUCT as transaction.rs applies it *)
Destroyed(state, self, to) ==
    LET balance == state[self].balance
        paid    == IF balance = 0 THEN state ELSE Credit(state, to, balance)
    IN  [paid EXCEPT ![self].balance = 0, ![self].nonce = 0, ![self].code = NoCode]

LEMMA DestroyedIs ==
    ASSUME NEW p \in Accounts, NEW self \in DOMAIN p, NEW to \in DOMAIN p
    PROVE  /\ Destroyed(p, self, to) \in Accounts
           /\ DOMAIN Destroyed(p, self, to) = DOMAIN p
           /\ \A b \in DOMAIN p :
                Destroyed(p, self, to)[b] =
                   IF b = self
                   THEN [nonce |-> 0, balance |-> 0, code |-> NoCode,
                         storage |-> p[self].storage]
                   ELSE IF b = to THEN WithBalance(p[b], p[b].balance + p[self].balance)
                   ELSE p[b]
<1> DEFINE balance == p[self].balance
           paid    == IF balance = 0 THEN p ELSE Credit(p, to, balance)
           new     == Destroyed(p, self, to)
           gone    == [nonce |-> 0, balance |-> 0, code |-> NoCode,
                       storage |-> p[self].storage]
<1>1. /\ balance \in Nat /\ p[to].balance \in Nat
      /\ \A b \in DOMAIN p : p[b] \in EthAccountState
    BY BalanceType, AccountType DEF Accounts
<1>2. paid \in Accounts /\ DOMAIN paid = DOMAIN p
    BY <1>1, CreditKeeps DEF Accounts
<1>3. \A b \in DOMAIN p :
         paid[b] = IF b = to THEN WithBalance(p[b], p[b].balance + balance) ELSE p[b]
    <2>1. CASE balance = 0
        <3>1. p[to] = WithBalance(p[to], p[to].balance + balance)
            BY <1>1, <2>1 DEF WithBalance, EthAccountState
        <3> QED BY <2>1, <3>1
    <2>2. CASE balance # 0
        BY <2>2, CreditIs DEF Accounts
    <2> QED BY <2>1, <2>2
<1> HIDE DEF paid
<1>4. paid[self] \in EthAccountState /\ paid[self].storage = p[self].storage
    <2>1. paid[self] \in EthAccountState
        BY <1>2, AccountType DEF Accounts
    <2>2. \A x, y : WithBalance(x, y).storage = x.storage
        BY DEF WithBalance
    <2> QED BY <1>3, <2>1, <2>2
<1>5. new = [paid EXCEPT ![self] = gone]
    <2> DEFINE account == [paid[self] EXCEPT !.balance = 0, !.nonce = 0, !.code = NoCode]
    <2>1. /\ account \in EthAccountState
          /\ account.nonce = 0 /\ account.balance = 0 /\ account.code = NoCode
          /\ account.storage = p[self].storage
        BY <1>4, NoCodeIsCode DEF EthAccountState
    <2>2. new = [paid EXCEPT ![self] = account]
        BY <1>2, <1>4 DEF Destroyed, paid, EthAccountState
    <2> HIDE DEF account
    <2>3. account = gone
        BY <2>1 DEF EthAccountState
    <2> QED BY <2>2, <2>3
<1>6. gone \in EthAccountState /\ gone.storage = paid[self].storage
    BY <1>4, NoCodeIsCode DEF EthAccountState
<1> HIDE DEF gone
<1>7. new \in Accounts /\ DOMAIN new = DOMAIN p
    <2>1. paid \in Kept(Prestate) /\ self \in DOMAIN paid
          /\ DOMAIN paid[self].storage \subseteq DOMAIN gone.storage
        BY <1>2, <1>6 DEF Accounts
    <2>2. /\ [paid EXCEPT ![self] = gone] \in Kept(Prestate)
          /\ DOMAIN [paid EXCEPT ![self] = gone] = DOMAIN paid
        BY <1>6, <2>1, Rewrite
    <2> QED BY <1>2, <1>5, <2>2 DEF Accounts
<1> QED BY <1>2, <1>3, <1>5, <1>7 DEF gone

(* and as the node does *)
LEMMA AgreeDestroyed ==
    ASSUME NEW p \in Accounts, NEW w \in Accounts, NEW d, Agree(p, w, d),
           NEW self \in DOMAIN w, NEW to \in DOMAIN w
    PROVE  LET balance == w[self].balance IN
           Agree(Destroyed(p, self, to),
                 Debit(Transfer(w, self, to, balance), self,
                       IF to = self THEN balance ELSE 0),
                 d \cup {self})
<1> DEFINE balance == w[self].balance
           paid == Transfer(w, self, to, balance)
           rest == IF to = self THEN balance ELSE 0
           W    == Debit(paid, self, rest)
           P    == Destroyed(p, self, to)
<1>1. DOMAIN p = DOMAIN w /\ balance \in Nat /\ p[self].balance = balance
    BY BalanceType DEF Agree, SameAssets, Accounts
<1>2. /\ DOMAIN P = DOMAIN w
      /\ \A b \in DOMAIN w :
            P[b] = IF b = self
                   THEN [nonce |-> 0, balance |-> 0, code |-> NoCode,
                         storage |-> p[self].storage]
                   ELSE IF b = to THEN WithBalance(p[b], p[b].balance + balance)
                   ELSE p[b]
    BY <1>1, DestroyedIs
<1>3. /\ DOMAIN paid = DOMAIN w
      /\ \A b \in DOMAIN w :
            LET x == w[b].balance IN
            paid[b] = IF b = self /\ b = to THEN w[b]
                      ELSE IF b = self THEN WithBalance(w[b], x - balance)
                      ELSE IF b = to THEN WithBalance(w[b], x + balance)
                      ELSE w[b]
    BY <1>1, TransferIs DEF Accounts
<1>4. paid \in Accounts /\ paid[self].balance = rest /\ rest \in Nat
    BY ZenonT(40), <1>1, DestroyKeeps DEF Accounts
<1> HIDE DEF paid, rest, P
<1>5. /\ DOMAIN W = DOMAIN w
      /\ \A b \in DOMAIN w :
            W[b] = IF b = self THEN WithBalance(paid[self], paid[self].balance - rest)
                   ELSE paid[b]
    BY <1>3, <1>4, DebitIs DEF Accounts
<1>6. \A x, y : WithBalance(x, y).balance = y /\ WithBalance(x, y).storage = x.storage
    BY DEF WithBalance
<1>7. /\ W[self].balance = 0 /\ W[self].storage = w[self].storage
    BY <1>3, <1>4, <1>5, <1>6
<1> HIDE DEF W
<1>8. SameAssets(P, W)
    <2>1. P[self].balance = 0 /\ P[self].storage = p[self].storage
        BY <1>1, <1>2
    <2>2. ASSUME NEW b \in DOMAIN w, b # self
          PROVE  P[b].balance = W[b].balance /\ P[b].storage = W[b].storage
        BY <1>2, <1>3, <1>5, <1>6, <2>2 DEF Agree, SameAssets
    <2> QED BY <1>2, <1>5, <1>7, <2>1, <2>2 DEF Agree, SameAssets
<1>9. NoCreation => \A b \in DOMAIN w \ (d \cup {self}) : P[b] = W[b]
    BY <1>2, <1>3, <1>5 DEF Agree
<1>10. Agree(P, W, d \cup {self})
    BY <1>5, <1>8, <1>9 DEF Agree
<1> QED BY <1>10 DEF P, W, paid, rest

-----------------------------------------------------------------------------
(* One lemma for every action of the loop *)

(* Before log i the replay is abreast of the node. *)
Following(past) ==
    /\ IndInv /\ Past(past) /\ Follows(past) /\ UNCHANGED gethVars
    /\ pc = "loop" /\ i <= Len(Logs)

(* the context of every open call is the account it acts for *)
OnCourse(past) == Aligned(Contexts, past[i].frames, Len(past[i].frames))

(* A call that ends without a failure was not to fail, so that its context *)
(* was right if those below it were.                                       *)
LEMMA OnCourseBefore ==
    ASSUME NEW past, Following(past),
           ~IsFailure(past[i], Log, past[i + 1]),
           \/ Stays(past[i], past[i + 1])
           \/ \E w : Leaves(past[i], past[i + 1], w),
           Aligned(Contexts, past[i + 1].frames, Len(past[i + 1].frames))
    PROVE  OnCourse(past)
<1> DEFINE f == past[i].frames
           g == past[i + 1].frames
           L == Len(f)
<1>1. /\ L \in Nat /\ L >= 1 /\ i \in 1 .. Len(logs) /\ Log = logs[i]
      /\ Mirrors(Contexts, Snapshots, f, Doomed(past, i))
    BY LoopView DEF Following
<1>2. CASE Stays(past[i], past[i + 1])
    <2>1. Len(g) = L /\ Below(f, g, L)
        BY <1>2 DEF Stays
    <2> QED BY <1>1, <2>1, AlignedBelow DEF OnCourse
<1>3. CASE \E w : Leaves(past[i], past[i + 1], w)
    <2>1. Len(g) = L - 1 /\ Below(f, g, L - 1)
        BY <1>3 DEF Leaves
    <2>2. Aligned(Contexts, f, L - 1)
        BY <1>1, <2>1, AlignedBelow
    <2>3. L \notin Doomed(past, i)
        BY <1>1, <2>1, LeavingIsSafe DEF Following
    <2>4. L \in 1 .. L
        BY <1>1
    <2> HIDE DEF f, L
    <2>5. Contexts[L] = f[L].self
        BY <1>1, <2>2, <2>3, <2>4 DEF Mirrors, L
    <2>6. Aligned(Contexts, f, L)
        BY <1>1, <2>2, <2>5 DEF Aligned
    <2> QED BY <2>6 DEF OnCourse, f, L
<1> QED BY <1>2, <1>3

(* An iteration that opens no call and does not go back by its opcode *)
LEMMA StayFollows ==
    ASSUME NEW past, Following(past), Log.op \notin HaltOps,
           NEW state, Advance(state, Contexts, Snapshots, Depth),
           ~Log.error =>
               /\ OnCourse(past) => Agree(state, past[i + 1].world, past[i + 1].destructed)
               /\ \/ Stays(past[i], past[i + 1])
                  \/ \E w : Leaves(past[i], past[i + 1], w),
           Log.op # "BLOCKHASH" => UNCHANGED block_hashes,
           Log.op = "BLOCKHASH" => Hashes(block_hashes', AskedBefore(i + 1))
    PROVE  Follows(past)'
<1>1. /\ Executed(past[i], Log, past[i + 1])
      /\ i \in 1 .. Len(logs) /\ Log = logs[i]
      /\ Len(past[i].frames) \in Nat /\ Len(past[i].frames) >= 1
      /\ Len(Contexts) = Len(past[i].frames) /\ Len(Snapshots) = Len(past[i].frames)
      /\ Snapshots \in Seq(Accounts)
      /\ Mirrors(Contexts, Snapshots, past[i].frames, Doomed(past, i))
    BY LoopView DEF Following
<1>2. CASE Log.error
    <2>1. IsFailure(past[i], Log, past[i + 1])
        BY <1>1, <1>2, Kinds
    <2>2. Reaches(past, i + 1, Last(Snapshots), Contexts, Front(Snapshots))
        BY <1>1, <2>1, MirrorsFailed DEF Following
    <2> QED BY <1>2, <2>2, Advances DEF Following
<1>3. CASE ~Log.error
    <2>1. ~IsFailure(past[i], Log, past[i + 1])
        BY <1>1, <1>3, Kinds
    <2>2. Mirrors(Contexts, Snapshots, past[i + 1].frames, Doomed(past, i + 1))
        BY <1>1, <1>3, MirrorsRest DEF Following
    <2>3. Aligned(Contexts, past[i + 1].frames, Len(past[i + 1].frames)) =>
              Agree(state, past[i + 1].world, past[i + 1].destructed)
        BY <1>3, <2>1, OnCourseBefore
    <2>4. Reaches(past, i + 1, state, Contexts, Snapshots)
        BY <2>2, <2>3 DEF Reaches
    <2> QED BY <1>3, <2>4, Advances DEF Following
<1> QED BY <1>2, <1>3

LEMMA SstoreFollows ==
    ASSUME NEW past, Following(past), Sstore
    PROVE  Follows(past)'
<1> DEFINE s == past[i]
           t == past[i + 1]
           state == Store(poststate, Caller, Log.key, Log.data)
<1>1. /\ Log.op = "SSTORE" /\ UNCHANGED block_hashes
      /\ Advance(state, Contexts, Snapshots, Depth)
    BY DEF Sstore, AtLog
<1>2. /\ Executed(s, Log, t)
      /\ s.world \in Accounts /\ DOMAIN s.world = DOMAIN Prestate
      /\ poststate \in Accounts
      /\ OnCourse(past) => /\ Caller = Acting(s).self /\ Caller \in DOMAIN Prestate
                           /\ Agree(poststate, s.world, s.destructed)
    BY LoopView DEF Following, OnCourse
<1> HIDE DEF s, t
<1>3. ASSUME ~Log.error
      PROVE  (OnCourse(past) => Agree(state, t.world, t.destructed)) /\ Stays(s, t)
    <2>1. IsWrite(s, Log, t)
        BY <1>1, <1>2, <1>3, Kinds
    <2>2. OnCourse(past) =>
              Agree(state, Store(s.world, Caller, Log.key, Log.data), s.destructed)
        BY <1>2, AgreeStore
    <2> HIDE DEF state
    <2> QED BY <1>2, <2>1, <2>2 DEF IsWrite
<1>4. Log.op \notin HaltOps /\ Log.op # "BLOCKHASH"
    BY <1>1 DEF HaltOps
<1> HIDE DEF state
<1> QED BY <1>1, <1>3, <1>4, StayFollows DEF s, t

(* RETURN of a constructor leaves its code, which a replay has not got. *)
LEMMA OtherFollows ==
    ASSUME NEW past, Following(past), Other
    PROVE  Follows(past)'
<1> DEFINE s == past[i]
           t == past[i + 1]
<1>1. /\ Log.op = "OTHER" /\ UNCHANGED block_hashes
      /\ Advance(poststate, Contexts, Snapshots, Depth)
    BY DEF Other, AtLog
<1>2. /\ Executed(s, Log, t)
      /\ s.world \in Accounts /\ DOMAIN s.world = DOMAIN Prestate
      /\ Acting(s) \in Frames
      /\ OnCourse(past) => Agree(poststate, s.world, s.destructed)
    BY LoopView DEF Following, OnCourse
<1> HIDE DEF s, t
<1>3. ASSUME ~Log.error
      PROVE  /\ OnCourse(past) => Agree(poststate, t.world, t.destructed)
             /\ \E w : Leaves(s, t, w)
    <2> DEFINE new == Acting(s).creates
    <2>1. IsReturn(s, Log, t)
        BY <1>1, <1>2, <1>3, Kinds
    <2>2. t.destructed = s.destructed /\ \E w : Leaves(s, t, w)
        BY <2>1 DEF IsReturn
    <2>3. CASE new = None
        BY <1>2, <2>1, <2>2, <2>3 DEF IsReturn
    <2>4. CASE new # None
        <3>1. new \in DOMAIN s.world /\ ~NoCreation
            BY <1>2, <2>4 DEF Frames, Creations
        <3>2. t.world = [s.world EXCEPT ![new].code = Deployed[new]]
            BY <2>1, <2>4 DEF IsReturn
        <3> HIDE DEF new
        <3>3. SameAssets([s.world EXCEPT ![new].code = Deployed[new]], s.world)
            BY <1>2, <3>1, CodeAssets DEF Accounts
        <3>4. SameAssets(t.world, s.world) /\ SameAssets(poststate, poststate)
            BY <3>2, <3>3 DEF SameAssets
        <3>5. OnCourse(past) => Agree(poststate, t.world, s.destructed)
            BY <1>2, <3>1, <3>4, AgreeSame
        <3> QED BY <2>2, <3>5
    <2> QED BY <2>3, <2>4
<1>4. Log.op \notin HaltOps /\ Log.op # "BLOCKHASH"
    BY <1>1 DEF HaltOps
<1> QED BY <1>1, <1>3, <1>4, StayFollows DEF s, t

LEMMA SelfDestructFollows ==
    ASSUME NEW past, Following(past), SelfDestruct
    PROVE  Follows(past)'
<1> DEFINE s == past[i]
           t == past[i + 1]
           state == Destroyed(poststate, Caller, Log.address)
<1>1. /\ Log.op = "SELFDESTRUCT" /\ UNCHANGED block_hashes
      /\ Advance(state, Contexts, Snapshots, Depth)
    BY DEF SelfDestruct, AtLog, Destroyed
<1>2. /\ Executed(s, Log, t)
      /\ s.world \in Accounts /\ DOMAIN s.world = DOMAIN Prestate
      /\ poststate \in Accounts
      /\ OnCourse(past) => /\ Caller = Acting(s).self /\ Caller \in DOMAIN Prestate
                           /\ Agree(poststate, s.world, s.destructed)
    BY LoopView DEF Following, OnCourse
<1>3. Log.address \in DOMAIN Prestate
    BY <1>1, <1>2 DEF Executed, Permitted
<1> HIDE DEF s, t
<1>4. ASSUME ~Log.error
      PROVE  /\ OnCourse(past) => Agree(state, t.world, t.destructed)
             /\ \E w : Leaves(s, t, w)
    <2>1. IsDestruction(s, Log, t)
        BY <1>1, <1>2, <1>4, Kinds
    <2> DEFINE balance == s.world[Caller].balance
               w == Debit(Transfer(s.world, Caller, Log.address, balance), Caller,
                          IF Log.address = Caller THEN balance ELSE 0)
    <2>2. /\ \E x : Leaves(s, t, x)
          /\ OnCourse(past) => t.world = w /\ t.destructed = s.destructed \cup {Caller}
        BY <1>2, <2>1 DEF IsDestruction
    <2>3. OnCourse(past) => Agree(state, w, s.destructed \cup {Caller})
        BY <1>2, <1>3, AgreeDestroyed
    <2> HIDE DEF w, state
    <2> QED BY <2>2, <2>3
<1>5. Log.op \notin HaltOps /\ Log.op # "BLOCKHASH"
    BY <1>1 DEF HaltOps
<1> HIDE DEF state
<1> QED BY SMTT(30), <1>1, <1>4, <1>5, StayFollows DEF s, t

LEMMA RevertFollows ==
    ASSUME NEW past, Following(past), Revert
    PROVE  Follows(past)'
<1>1. /\ Log.op \in HaltOps /\ UNCHANGED block_hashes
      /\ Advance(Last(Snapshots), Contexts, Front(Snapshots), Depth)
    BY DEF Revert, AtLog
<1>2. /\ Executed(past[i], Log, past[i + 1])
      /\ i \in 1 .. Len(logs) /\ Log = logs[i]
      /\ Len(Contexts) = Len(past[i].frames) /\ Len(Snapshots) = Len(past[i].frames)
      /\ Snapshots \in Seq(Accounts)
      /\ Mirrors(Contexts, Snapshots, past[i].frames, Doomed(past, i))
    BY LoopView DEF Following
<1>3. ~Log.error /\ Log.op # "BLOCKHASH"
    BY <1>1, <1>2, Kinds DEF HaltOps
<1>4. IsFailure(past[i], Log, past[i + 1])
    BY <1>1, <1>2, <1>3, Kinds
<1>5. Reaches(past, i + 1, Last(Snapshots), Contexts, Front(Snapshots))
    BY <1>2, <1>4, MirrorsFailed DEF Following
<1> QED BY <1>1, <1>3, <1>5, Advances DEF Following

(* An iteration that opens a call, or takes one to be opened *)
LEMMA EnterFollows ==
    ASSUME NEW past, Following(past), Log.op \in CallOps \cup CreateOps,
           UNCHANGED block_hashes,
           NEW state, NEW context \in Address, Enter(state, context),
           ContextsKnown => context \in DOMAIN Prestate,
           NEW self, NEW creates, NEW before,
           \/ /\ Stays(past[i], past[i + 1])
              /\ OnCourse(past) => Agree(state, past[i + 1].world, past[i + 1].destructed)
           \/ /\ Opens(past[i], past[i + 1], self, creates, before)
              /\ OnCourse(past) =>
                    /\ Agree(poststate, before, past[i].destructed)
                    /\ context = self
                          => Agree(state, past[i + 1].world, past[i + 1].destructed)
                    /\ \/ context = self
                       \/ Len(past[i].frames) + 1 \in Doomed(past, i + 1)
    PROVE  Follows(past)'
<1>1. Advance(state, Append(Contexts, context), Append(Snapshots, poststate), Depth + 1)
    BY DEF Enter
<1>2. /\ Executed(past[i], Log, past[i + 1])
      /\ i \in 1 .. Len(logs) /\ Log = logs[i]
      /\ Len(Contexts) = Len(past[i].frames) /\ Len(Snapshots) = Len(past[i].frames)
      /\ Contexts \in Seq(Address) /\ Snapshots \in Seq(Accounts)
      /\ Mirrors(Contexts, Snapshots, past[i].frames, Doomed(past, i))
      /\ poststate \in Accounts
    BY LoopView DEF Following
<1>3. ~Log.error /\ Log.op # "BLOCKHASH"
    BY <1>2, Kinds DEF CallOps, CreateOps
<1>4. Reaches(past, i + 1, state, Append(Contexts, context), Append(Snapshots, poststate))
    BY <1>2, MirrorsOpened DEF Following, OnCourse
<1> QED BY <1>1, <1>3, <1>4, Advances DEF Following

(* who the call of log i acts for *)
ActsFor(past) == IF Log.op \in {"CALL", "STATICCALL"} THEN Log.address
                 ELSE Acting(past[i]).self

LEMMA CalleeFollows ==
    ASSUME NEW past, Following(past), Log.op \in CallOps, UNCHANGED block_hashes,
           NEW state, NEW context \in Address, Enter(state, context),
           ContextsKnown => context \in DOMAIN Prestate,
           OnCourse(past) =>
               /\ Agree(state, past[i + 1].world, past[i + 1].destructed)
               /\ context = ActsFor(past)
    PROVE  Follows(past)'
<1>1. /\ Executed(past[i], Log, past[i + 1])
      /\ OnCourse(past) => Agree(poststate, past[i].world, past[i].destructed)
    BY LoopView DEF Following, OnCourse
<1>2. IsRefused(past[i], Log, past[i + 1]) \/ IsCall(past[i], Log, past[i + 1])
    BY <1>1, Kinds DEF CallOps
<1>3. \/ Stays(past[i], past[i + 1])
      \/ Opens(past[i], past[i + 1], ActsFor(past), None, past[i].world)
    BY <1>2 DEF IsRefused, IsCall, ActsFor
<1> QED BY <1>1, <1>3, EnterFollows

LEMMA CallFollows ==
    ASSUME NEW past, Following(past), Call
    PROVE  Follows(past)'
<1> DEFINE s == past[i]
           t == past[i + 1]
           paid  == Transfer(poststate, Caller, Log.address, Log.amount)
           state == IF Log.amount # 0 /\ Affordable THEN paid ELSE poststate
<1>1. /\ Log.op = "CALL" /\ UNCHANGED block_hashes
      /\ Enter(state, Log.address)
    BY DEF Call, AtLog
<1>2. /\ Executed(s, Log, t)
      /\ Depth = Len(s.frames)
      /\ s.world \in Accounts /\ DOMAIN s.world = DOMAIN Prestate
      /\ poststate \in Accounts
      /\ OnCourse(past) => /\ Caller = Acting(s).self /\ Caller \in DOMAIN Prestate
                           /\ Agree(poststate, s.world, s.destructed)
    BY LoopView DEF Following, OnCourse
<1>3. /\ Log.address \in DOMAIN Prestate
      /\ Log.amount \in Nat /\ Log.address \in Address
    BY <1>1, <1>2 DEF Executed, Permitted, StructLog
<1> HIDE DEF s, t
<1>4. OnCourse(past) => (Affordable <=> Payable(s, Log))
    BY <1>2 DEF Affordable, Payable, Agree, SameAssets
<1>5. IsRefused(s, Log, t) \/ IsCall(s, Log, t)
    BY <1>1, <1>2, Kinds DEF CallOps
<1>6. OnCourse(past) => Agree(state, t.world, t.destructed)
    <2> SUFFICES ASSUME OnCourse(past) PROVE Agree(state, t.world, t.destructed)
        OBVIOUS
    <2>1. CASE IsRefused(s, Log, t)
        BY <1>1, <1>2, <1>4, <2>1 DEF IsRefused, Unchanged
    <2>2. CASE IsCall(s, Log, t)
        <3>1. /\ Affordable /\ t.world = Pay(s.world, Caller, Log.address, Log.amount)
              /\ t.destructed = s.destructed
            BY <1>1, <1>2, <1>4, <2>2 DEF IsCall
        <3>2. CASE Log.amount = 0
            BY <1>2, <3>1, <3>2 DEF Pay
        <3>3. CASE Log.amount # 0
            <4>1. s.world[Caller].balance >= Log.amount
                BY <1>2, <1>4, <3>1 DEF Payable
            <4>2. Agree(paid, Transfer(s.world, Caller, Log.address, Log.amount), s.destructed)
                BY <1>2, <1>3, <4>1, AgreeTransfer
            <4> HIDE DEF paid
            <4> QED BY <3>1, <3>3, <4>2 DEF Pay
        <3> QED BY <3>2, <3>3
    <2> QED BY <1>5, <2>1, <2>2
<1> HIDE DEF state
<1> QED BY <1>1, <1>3, <1>6, CalleeFollows DEF s, t, CallOps, ActsFor

LEMMA StaticCallFollows ==
    ASSUME NEW past, Following(past), StaticCall
    PROVE  Follows(past)'
<1>1. Log.op = "STATICCALL" /\ UNCHANGED block_hashes /\ Enter(poststate, Log.address)
    BY DEF StaticCall, AtLog
<1>2. /\ Executed(past[i], Log, past[i + 1])
      /\ OnCourse(past) => Agree(poststate, past[i].world, past[i].destructed)
    BY LoopView DEF Following, OnCourse
<1>3. IsRefused(past[i], Log, past[i + 1]) \/ IsCall(past[i], Log, past[i + 1])
    BY <1>1, <1>2, Kinds DEF CallOps
<1>4. /\ past[i + 1].world = past[i].world /\ past[i + 1].destructed = past[i].destructed
    BY <1>1, <1>3 DEF IsRefused, IsCall, Unchanged, Pay
<1>5. Log.address \in Address /\ Log.address \in DOMAIN Prestate
    BY <1>1, <1>2 DEF Executed, Permitted, StructLog
<1> QED BY <1>1, <1>2, <1>4, <1>5, CalleeFollows DEF CallOps, ActsFor

LEMMA DelegateCallFollows ==
    ASSUME NEW past, Following(past), DelegateCall
    PROVE  Follows(past)'
<1>1. /\ Log.op \in {"DELEGATECALL", "CALLCODE"} /\ UNCHANGED block_hashes
      /\ Enter(poststate, Caller)
    BY DEF DelegateCall, AtLog
<1>2. /\ Executed(past[i], Log, past[i + 1])
      /\ ContextsKnown => Caller \in DOMAIN Prestate
      /\ OnCourse(past) => /\ Agree(poststate, past[i].world, past[i].destructed)
                           /\ Caller = Acting(past[i]).self
    BY LoopView DEF Following, OnCourse
<1>3. IsRefused(past[i], Log, past[i + 1]) \/ IsCall(past[i], Log, past[i + 1])
    BY <1>1, <1>2, Kinds DEF CallOps
<1>4. /\ past[i + 1].world = past[i].world /\ past[i + 1].destructed = past[i].destructed
    BY <1>1, <1>3 DEF IsRefused, IsCall, Unchanged, Pay
<1>5. Caller \in Address
    BY LogView DEF Following
<1> QED BY <1>1, <1>2, <1>4, <1>5, CalleeFollows DEF CallOps, ActsFor

-----------------------------------------------------------------------------
(* A creation shows its result in the first later log of the same depth.    *)

LEMMA LeastNumber ==
    ASSUME NEW T, T \subseteq Nat, T # {}
    PROVE  \E n \in T : \A m \in T : n <= m
<1> DEFINE R == OpToRel(<, Nat)
<1>1. IsWellFoundedOn(R, Nat)
    BY NatLessThanWellFounded
<1>2. R = {s \in Nat \X Nat : s[1] < s[2]}
    BY DEF OpToRel
<1> HIDE DEF R
<1>3. PICK n \in T : \A m \in T : ~(<<m, n>> \in R)
    BY <1>1, WFMin
<1>4. ASSUME NEW m \in T PROVE n <= m
    <2>1. m \in Nat /\ n \in Nat
        OBVIOUS
    <2>2. ~(m < n)
        BY <1>2, <1>3, <2>1
    <2> QED BY <2>1, <2>2
<1> QED BY <1>4

(* The node logs on as long as a call is open. *)
LEMMA NextLog ==
    ASSUME NEW past, Past(past), verdict # None, NEW n \in 1 .. Len(logs),
           Len(past[n + 1].frames) >= 1
    PROVE  /\ n + 1 \in 1 .. Len(logs)
           /\ logs[n + 1].depth = Len(past[n + 1].frames)
           /\ logs[n + 1].top = Acting(past[n + 1]).top
<1>1. /\ Len(logs) \in Nat /\ n \in Nat /\ Len(past) = Len(logs) + 1
      /\ past[Len(past)].frames = <<>>
    BY PastAt DEF Past, Closes
<1>2. n # Len(logs)
    BY <1>1, EmptySeq
<1>3. n + 1 \in 1 .. Len(logs)
    BY <1>1, <1>2
<1>4. Executed(past[n + 1], logs[n + 1], past[(n + 1) + 1])
    BY <1>3, PastAt
<1> QED BY <1>3, <1>4 DEF Executed

(* What an instruction does to the open calls *)
LEMMA StepIs ==
    ASSUME NEW s, NEW log, NEW t, Executed(s, log, t)
    PROVE  \/ IsFailure(s, log, t) /\ Leaves(s, t, Zero)
           \/ Leaves(s, t, ResultOf(s))
           \/ Stays(s, t)
           \/ \E self, creates, before : Opens(s, t, self, creates, before)
<1>1. CASE IsFailure(s, log, t)
    BY <1>1 DEF IsFailure
<1>2. CASE IsReturn(s, log, t) \/ IsDestruction(s, log, t)
    BY <1>2 DEF IsReturn, IsDestruction
<1>3. CASE IsWrite(s, log, t) \/ IsAsked(s, log, t) \/ IsRefused(s, log, t)
    BY <1>3 DEF IsWrite, IsAsked, IsRefused
<1>4. CASE IsCall(s, log, t) \/ IsCreation(s, log, t)
    BY <1>4 DEF IsCall, IsCreation
<1> QED BY <1>1, <1>2, <1>3, <1>4 DEF Executed, Succeeds

LEMMA CreatesKept ==
    ASSUME NEW past, Past(past), NEW n \in 1 .. Len(logs), NEW c \in Nat, c >= 1,
           Len(past[n].frames) >= c, Len(past[n + 1].frames) >= c
    PROVE  past[n + 1].frames[c].creates = past[n].frames[c].creates
<1>1. /\ Executed(past[n], logs[n], past[n + 1])
      /\ Len(past[n].frames) \in Nat /\ Len(past[n + 1].frames) \in Nat
    BY PastAt
<1>2. \/ \E w : Leaves(past[n], past[n + 1], w)
      \/ Stays(past[n], past[n + 1])
      \/ \E self, creates, before : Opens(past[n], past[n + 1], self, creates, before)
    BY <1>1, StepIs
<1>3. CASE \E w : Leaves(past[n], past[n + 1], w)
    <2>1. c \in 1 .. Len(past[n].frames) - 1
        BY <1>1, <1>3 DEF Leaves
    <2> QED BY <1>3, <2>1 DEF Leaves, Below
<1>4. c \in 1 .. Len(past[n].frames)
    BY <1>1
<1> QED BY <1>2, <1>3, <1>4 DEF Stays, Opens, Below

(* The log that CreatedAddress is read from *)
LEMMA CreatedIs ==
    ASSUME NEW past, Following(past), NEW m \in i + 1 .. Len(logs),
           logs[m].depth = Len(past[i].frames),
           \A n \in i + 1 .. m - 1 : logs[n].depth # Len(past[i].frames),
           logs[m].top \in Address
    PROVE  CreatedAddress = logs[m].top /\ ~CreatedUnreadable
<1> DEFINE later == {j \in i + 1 .. Len(Logs) : Logs[j].depth = Depth}
<1>1. /\ Logs = logs /\ Depth = Len(past[i].frames)
      /\ i \in Nat /\ Len(logs) \in Nat
    BY LoopView, LenProperties DEF Following, Past
<1>2. m \in later /\ \A j \in later : m <= j
    <2>1. ASSUME NEW j \in later PROVE m <= j
        <3> SUFFICES ASSUME ~(m <= j) PROVE FALSE
            OBVIOUS
        <3>1. j \in i + 1 .. m - 1 /\ logs[j].depth = Len(past[i].frames)
            BY <1>1
        <3> QED BY <3>1
    <2> QED BY <1>1, <2>1
<1>3. Min(later) = m
    <2>1. Min(later) \in later /\ \A j \in later : Min(later) <= j
        BY <1>2 DEF Min
    <2>2. Min(later) \in Nat /\ m \in Nat
        BY <1>1, <1>2, <2>1
    <2>3. Min(later) <= m /\ m <= Min(later)
        BY <1>2, <2>1
    <2> QED BY <2>2, <2>3
<1>4. logs[m].top # None
    BY TraceAssumption
<1>5. ~CreatedUnreadable
    <2> SUFFICES ASSUME NEW j \in i + 1 .. Len(Logs),
                        Logs[j].depth = Depth, Logs[j].top = None,
                        \A n \in i + 1 .. j - 1 : Logs[n].depth # Depth
                 PROVE  FALSE
        BY DEF CreatedUnreadable
    <2>1. j \in later /\ m <= j /\ j # m
        BY <1>1, <1>2, <1>4
    <2>2. m \in i + 1 .. j - 1
        BY <1>1, <2>1
    <2> QED BY <1>1, <2>2
<1>6. CreatedAddress = DecodeAddress(Logs[Min(later)].top)
    BY <1>2 DEF CreatedAddress
<1> HIDE DEF later
<1> QED BY <1>1, <1>3, <1>5, <1>6 DEF DecodeAddress

(* A creation that is refused pushes zero at once. *)
LEMMA RefusedCreates ==
    ASSUME NEW past, Following(past), IsRefused(past[i], Log, past[i + 1])
    PROVE  CreatedAddress = Zero /\ ~CreatedUnreadable
<1>1. /\ i \in 1 .. Len(logs) /\ i \in Nat /\ Len(logs) \in Nat /\ verdict # None
      /\ Len(past[i].frames) \in Nat /\ Len(past[i].frames) >= 1
    BY LoopView, LenProperties DEF Following, Past, Follows
<1>2. Len(past[i + 1].frames) = Len(past[i].frames) /\ Acting(past[i + 1]).top = Zero
    BY DEF IsRefused, Stays
<1>3. /\ i + 1 \in 1 .. Len(logs)
      /\ logs[i + 1].depth = Len(past[i].frames) /\ logs[i + 1].top = Zero
    BY <1>1, <1>2, NextLog DEF Following
<1>4. i + 1 \in i + 1 .. Len(logs) /\ (i + 1) - 1 = i /\ i + 1 .. i = {}
    BY <1>1, <1>3
<1> QED BY <1>3, <1>4, CreatedIs, TraceAssumption

(* The constructor of new ends, and pushes new to its creator or fails. *)
LEMMA CreationEnds ==
    ASSUME NEW past, Following(past), NEW new \in DOMAIN Prestate, NEW before,
           Opens(past[i], past[i + 1], new, new, before)
    PROVE  /\ CreatedAddress \in {new, Zero} /\ ~CreatedUnreadable
           /\ \/ CreatedAddress = new
              \/ Len(past[i].frames) + 1 \in Doomed(past, i + 1)
<1> DEFINE N == Len(logs)
<1> DEFINE open(j) == Len(past[j].frames)
<1>0. PICK L \in Nat : L = open(i) /\ L >= 1
    BY LoopView DEF Following
<1>1. /\ i \in 1 .. N /\ i \in Nat /\ N \in Nat /\ Past(past) /\ verdict # None
      /\ Len(past) = N + 1 /\ open(N + 1) = 0
    <2>1. i \in 1 .. N /\ Past(past) /\ verdict # None
        BY LoopView DEF Following, Follows
    <2>2. N \in Nat /\ Len(past) = N + 1 /\ Closes(past[Len(past)])
        BY <2>1, LenProperties DEF Past
    <2> QED BY <2>1, <2>2, EmptySeq DEF Closes
<1>2. \A n \in 1 .. N : open(n) \in Nat /\ open(n + 1) \in Nat
    BY <1>1, PastAt
<1>3. open(i + 1) = L + 1 /\ past[i + 1].frames[L + 1].creates = new
    BY <1>0, <1>1 DEF Opens, Acting
<1>4. new \in Address /\ new # None
    BY PlainAssumption, TraceAssumption DEF IsEthState
<1> HIDE DEF open, N
<1> DEFINE T == {j \in i + 1 .. N : open(j + 1) < L + 1}
<1>5. i # N /\ N \in T
    BY <1>0, <1>1, <1>3
<1>6. PICK j \in T : \A m \in T : j <= m
    <2>1. \A n \in i + 1 .. N : n \in Nat
        BY <1>1
    <2>2. T \subseteq Nat
        BY <2>1
    <2> HIDE DEF T
    <2> QED BY <1>5, <2>2, LeastNumber
<1>7. j \in i + 1 .. N /\ j \in 1 .. N /\ open(j + 1) < L + 1
    BY <1>1, <1>6
<1>8. \A k \in i + 1 .. j : open(k) >= L + 1
    <2> SUFFICES ASSUME NEW k \in i + 1 .. j PROVE open(k) >= L + 1
        OBVIOUS
    <2>1. CASE k = i + 1
        BY <1>0, <1>3, <2>1
    <2>2. CASE k # i + 1
        <3>1. k - 1 \in i + 1 .. N /\ ~(j <= k - 1)
            BY <1>1, <1>7, <2>2
        <3>2. k - 1 \notin T
            BY <1>6, <3>1
        <3>3. open((k - 1) + 1) \in Nat /\ (k - 1) + 1 = k
            BY <1>1, <1>2, <3>1
        <3>4. ~(open((k - 1) + 1) < L + 1)
            BY <3>1, <3>2
        <3> QED BY <3>3, <3>4
    <2> QED BY <2>1, <2>2
<1>9. \A k \in i + 1 .. j : past[k].frames[L + 1].creates = new
    <2> DEFINE B == {k \in i + 1 .. j : past[k].frames[L + 1].creates # new}
    <2> SUFFICES ASSUME B # {} PROVE FALSE
        OBVIOUS
    <2>1. B \subseteq Nat
        BY <1>1
    <2>2. PICK k \in B : \A m \in B : k <= m
        <3> HIDE DEF B
        <3> QED BY <2>1, LeastNumber
    <2>3. k \in i + 1 .. j /\ k # i + 1
        BY <1>3, <2>2
    <2>4. PICK n : n = k - 1
        OBVIOUS
    <2>5. n \in i + 1 .. j /\ n \in 1 .. N /\ ~(k <= n) /\ n + 1 = k
        BY <1>1, <1>7, <2>3, <2>4
    <2>6. past[n].frames[L + 1].creates = new
        BY <2>2, <2>5
    <2>7. open(n) >= L + 1 /\ open(n + 1) >= L + 1 /\ L + 1 \in Nat /\ L + 1 >= 1
        BY <1>0, <1>8, <2>3, <2>5
    <2>8. past[n + 1].frames[L + 1].creates = past[n].frames[L + 1].creates
        BY <1>1, <2>5, <2>7, CreatesKept DEF open, N
    <2>9. past[k].frames[L + 1].creates # new
        BY <2>2
    <2> QED BY <2>5, <2>6, <2>8, <2>9
<1>10. /\ Executed(past[j], logs[j], past[j + 1])
       /\ open(j) >= L + 1 /\ past[j].frames[L + 1].creates = new
       /\ open(j) \in Nat /\ open(j + 1) \in Nat
    <2>1. j \in i + 1 .. j
        BY <1>1, <1>7
    <2> QED BY <1>1, <1>2, <1>7, <1>8, <1>9, <2>1, PastAt DEF N
<1>11. /\ open(j) = L + 1 /\ open(j + 1) = L
       /\ \/ IsFailure(past[j], logs[j], past[j + 1]) /\ Leaves(past[j], past[j + 1], Zero)
          \/ Leaves(past[j], past[j + 1], ResultOf(past[j]))
    <2>1. ~Stays(past[j], past[j + 1])
        BY <1>7, <1>10 DEF Stays, open
    <2>2. \A self, creates, b : ~Opens(past[j], past[j + 1], self, creates, b)
        BY <1>7, <1>10 DEF Opens, open
    <2>3. \/ IsFailure(past[j], logs[j], past[j + 1]) /\ Leaves(past[j], past[j + 1], Zero)
          \/ Leaves(past[j], past[j + 1], ResultOf(past[j]))
        BY <1>10, <2>1, <2>2, StepIs
    <2>4. open(j + 1) = open(j) - 1
        BY <2>3 DEF Leaves, open
    <2> QED BY <1>7, <1>10, <2>3, <2>4
<1>12. ResultOf(past[j]) = new
    BY <1>4, <1>10, <1>11 DEF ResultOf, Acting, open
<1>13. PICK w \in {new, Zero} :
          /\ Leaves(past[j], past[j + 1], w)
          /\ w = new \/ IsFailure(past[j], logs[j], past[j + 1])
    BY <1>11, <1>12
<1>14. /\ j + 1 \in 1 .. N /\ logs[j + 1].depth = L /\ logs[j + 1].top = w
    <2>1. past[j + 1].frames # <<>>
        BY <1>0, <1>11, EmptySeq DEF open
    <2>2. Acting(past[j + 1]).top = w
        BY <1>13, <2>1 DEF Leaves
    <2> QED BY <1>0, <1>1, <1>7, <1>11, <2>2, NextLog DEF N, open
<1>15. \A n \in i + 1 .. j : logs[n].depth # L
    <2> SUFFICES ASSUME NEW n \in i + 1 .. j PROVE logs[n].depth # L
        OBVIOUS
    <2>1. n \in 1 .. N
        BY <1>1, <1>7
    <2>2. logs[n].depth = open(n)
        BY <1>1, <2>1, PastAt DEF Executed, N, open
    <2> QED BY <1>0, <1>2, <1>8, <2>1, <2>2
<1>16. w \in Address
    BY <1>4, TraceAssumption
<1>17. CreatedAddress = w /\ ~CreatedUnreadable
    <2>1. j + 1 \in i + 1 .. N /\ (j + 1) - 1 = j
        BY <1>1, <1>7, <1>14
    <2> QED BY <1>0, <1>14, <1>15, <1>16, <2>1, CreatedIs DEF N, open
<1>18. IsFailure(past[j], logs[j], past[j + 1]) => L + 1 \in Doomed(past, i + 1)
    BY <1>7, <1>8, <1>11 DEF Doomed, N, open
<1> QED BY <1>0, <1>13, <1>17, <1>18 DEF open

LEMMA CountedAgrees ==
    ASSUME NEW p, NEW w \in Accounts, NEW d, Agree(p, w, d), NEW a \in DOMAIN w,
           ~NoCreation
    PROVE  Agree(p, Counted(w, a), d)
<1>1. SameAssets(Counted(w, a), w) /\ SameAssets(p, p)
    BY CountedAssets DEF Accounts, SameAssets
<1> QED BY <1>1, AgreeSame

(* Lines 206-219 leave the balances that the node's creation leaves. *)
LEMMA AgreeCreated ==
    ASSUME NEW w \in Accounts, poststate \in Accounts, NEW d, Agree(poststate, w, d),
           ~NoCreation, NEW self \in DOMAIN w, NEW new \in DOMAIN w,
           Caller = self, CreatedAddress = new,
           Log.amount \in Nat, w[self].balance >= Log.amount, NEW code
    PROVE  Agree(AfterCreate(code),
                 Pay(NewContract(Counted(w, self), new), self, new, Log.amount), d)
<1> DEFINE fresh   == NewContract(Counted(w, self), new)
           paid    == IF Log.amount = 0 THEN poststate
                      ELSE Transfer(poststate, self, new, Log.amount)
           counted == Counted(paid, self)
<1>1. /\ Counted(w, self) \in Accounts /\ DOMAIN Counted(w, self) = DOMAIN w
      /\ SameAssets(Counted(w, self), w)
    BY CountKeeps, CountedAssets DEF Counted, Accounts
<1>2. /\ fresh \in Accounts /\ DOMAIN fresh = DOMAIN w
      /\ SameAssets(fresh, Counted(w, self))
    BY <1>1, NewContractKeeps, NewContractAssets DEF Accounts
<1> HIDE DEF fresh
<1>3. SameAssets(fresh, w) /\ SameAssets(poststate, poststate)
    BY <1>1, <1>2 DEF SameAssets
<1>4. Agree(poststate, fresh, d)
    BY <1>3, AgreeSame
<1>5. fresh[self].balance >= Log.amount
    BY <1>3 DEF SameAssets
<1>6. DOMAIN poststate = DOMAIN w /\ poststate[self].balance >= Log.amount
    BY DEF Agree, SameAssets
<1>7. Agree(paid, Pay(fresh, self, new, Log.amount), d)
    BY <1>2, <1>4, <1>5, AgreeTransfer DEF Pay
<1>8. paid \in Accounts /\ DOMAIN paid = DOMAIN w
    BY <1>6, TransferKeeps DEF Accounts
<1>9. AfterCreate(code) = [counted EXCEPT ![new].code = code]
    BY DEF AfterCreate, Counted
<1> HIDE DEF paid
<1>10. /\ counted \in Accounts /\ DOMAIN counted = DOMAIN w
       /\ SameAssets(counted, paid)
    BY <1>8, CountKeeps, CountedAssets DEF Counted, Accounts
<1> HIDE DEF counted
<1>11. SameAssets([counted EXCEPT ![new].code = code], counted)
    BY <1>10, CodeAssets DEF Accounts
<1>12. SameAssets(AfterCreate(code), paid)
    BY <1>9, <1>10, <1>11 DEF SameAssets
<1>13. SameAssets(Pay(fresh, self, new, Log.amount), Pay(fresh, self, new, Log.amount))
    BY DEF SameAssets
<1>14. Agree(AfterCreate(code), Pay(fresh, self, new, Log.amount), d)
    BY <1>7, <1>12, <1>13, AgreeSame
<1> QED BY <1>14 DEF fresh

(* What the trace tells the replay of a creation *)
LEMMA CreationIs ==
    ASSUME NEW past, Following(past), Log.op \in CreateOps
    PROVE  /\ ~CreatedUnreadable /\ ~NoCreation
           /\ ContextsKnown => CreatedAddress \in DOMAIN Prestate
           /\ IsRefused(past[i], Log, past[i + 1]) \/ IsCreation(past[i], Log, past[i + 1])
<1>1. /\ Executed(past[i], Log, past[i + 1])
      /\ ~NoCreation /\ (ContextsKnown => Zero \in DOMAIN Prestate)
    BY LoopView DEF Following, Executed, Permitted
<1>2. IsRefused(past[i], Log, past[i + 1]) \/ IsCreation(past[i], Log, past[i + 1])
    BY <1>1, Kinds DEF CreateOps
<1>3. CASE IsRefused(past[i], Log, past[i + 1])
    BY <1>1, <1>3, RefusedCreates
<1>4. CASE IsCreation(past[i], Log, past[i + 1])
    <2>1. PICK new \in DOMAIN Prestate :
              Opens(past[i], past[i + 1], new, new,
                    Counted(past[i].world, Acting(past[i]).self))
        BY <1>4 DEF IsCreation
    <2> QED BY <1>1, <1>4, <2>1, CreationEnds
<1> QED BY <1>2, <1>3, <1>4

LEMMA CreateFollows ==
    ASSUME NEW past, Following(past), NEW code, Create(code)
    PROVE  Follows(past)'
<1> DEFINE s == past[i]
           t == past[i + 1]
           state == IF Affordable THEN AfterCreate(code) ELSE poststate
<1>1. /\ Log.op \in CreateOps /\ UNCHANGED block_hashes
      /\ Enter(state, CreatedAddress)
    BY DEF Create, AtLog
<1>2. /\ Executed(s, Log, t)
      /\ Depth = Len(s.frames) /\ Acting(s) \in Frames
      /\ s.world \in Accounts /\ DOMAIN s.world = DOMAIN Prestate
      /\ poststate \in Accounts
      /\ OnCourse(past) => /\ Caller = Acting(s).self /\ Caller \in DOMAIN Prestate
                           /\ Agree(poststate, s.world, s.destructed)
    BY LoopView DEF Following, OnCourse
<1>3. Log.amount \in Nat
    BY <1>2 DEF Executed, StructLog
<1>4. /\ ~NoCreation /\ (ContextsKnown => CreatedAddress \in DOMAIN Prestate)
      /\ IsRefused(s, Log, t) \/ IsCreation(s, Log, t)
    BY <1>1, CreationIs
<1> HIDE DEF s, t
<1>5. OnCourse(past) => (Affordable <=> Payable(s, Log))
    BY <1>2 DEF Affordable, Payable, Agree, SameAssets
<1>6. CASE IsRefused(s, Log, t)
    <2>1. Stays(s, t)
        BY <1>6 DEF IsRefused
    <2>2. OnCourse(past) => Agree(state, t.world, t.destructed)
        BY <1>1, <1>2, <1>5, <1>6 DEF IsRefused, Unchanged
    <2> HIDE DEF state
    <2> QED BY <1>1, <1>4, <2>1, <2>2, CreatedAddressType, EnterFollows DEF s, t
<1>7. CASE IsCreation(s, Log, t)
    <2> DEFINE self == Acting(s).self
               counted == Counted(s.world, self)
    <2>1. PICK new \in DOMAIN Prestate :
              /\ t.world = Pay(NewContract(counted, new), self, new, Log.amount)
              /\ t.destructed = s.destructed
              /\ Opens(s, t, new, new, counted)
        BY <1>7 DEF IsCreation
    <2>2. \/ CreatedAddress = new
          \/ Len(s.frames) + 1 \in Doomed(past, i + 1)
        BY <2>1, CreationEnds DEF s, t
    <2>3. self \in DOMAIN s.world
        BY <1>2 DEF Frames
    <2>4. OnCourse(past) => Agree(poststate, counted, s.destructed)
        BY <1>2, <1>4, <2>3, CountedAgrees
    <2>5. Payable(s, Log) /\ s.world[self].balance >= Log.amount
        BY <1>7 DEF IsCreation, Payable
    <2>6. OnCourse(past) /\ CreatedAddress = new => Agree(state, t.world, t.destructed)
        <3> SUFFICES ASSUME OnCourse(past), CreatedAddress = new
                     PROVE  Agree(state, t.world, t.destructed)
            OBVIOUS
        <3>1. Agree(AfterCreate(code),
                    Pay(NewContract(counted, new), self, new, Log.amount), s.destructed)
            BY <1>2, <1>3, <1>4, <2>3, <2>5, AgreeCreated
        <3>2. state = AfterCreate(code)
            BY <1>5, <2>5
        <3> HIDE DEF state, counted, self
        <3> QED BY <2>1, <3>1, <3>2
    <2> HIDE DEF state, counted, self
    <2> QED BY <1>1, <1>4, <2>1, <2>2, <2>4, <2>6, CreatedAddressType, EnterFollows DEF s, t
<1> QED BY <1>4, <1>6, <1>7

(* The log after BLOCKHASH shows the hash. *)
LEMMA HashIsNext ==
    ASSUME NEW past, Following(past), Log.op = "BLOCKHASH"
    PROVE  /\ i < Len(Logs) /\ Logs[i + 1].top = HashOf(Log.amount)
           /\ ~Log.error /\ IsAsked(past[i], Log, past[i + 1])
<1>1. /\ Executed(past[i], Log, past[i + 1])
      /\ Logs = logs /\ i \in 1 .. Len(logs) /\ verdict # None
      /\ Len(past[i].frames) >= 1
    BY LoopView DEF Following, Follows
<1>2. IsAsked(past[i], Log, past[i + 1]) /\ ~Log.error
    BY <1>1, Kinds
<1>3. Len(past[i + 1].frames) >= 1 /\ Acting(past[i + 1]).top = HashOf(Log.amount)
    BY <1>1, <1>2 DEF IsAsked, Stays
<1>4. i + 1 \in 1 .. Len(logs) /\ logs[i + 1].top = HashOf(Log.amount)
    BY <1>1, <1>3, NextLog DEF Following
<1>5. i \in Nat /\ Len(logs) \in Nat
    BY <1>1, LenProperties DEF Following, Past
<1> QED BY <1>1, <1>2, <1>4, <1>5

LEMMA BlockhashFollows ==
    ASSUME NEW past, Following(past), Blockhash
    PROVE  Follows(past)'
<1>1. /\ Log.op = "BLOCKHASH"
      /\ block_hashes' = Insert(block_hashes, Log.amount, Logs[i + 1].top)
      /\ Advance(poststate, Contexts, Snapshots, Depth)
    BY DEF Blockhash, AtLog
<1>2. /\ Logs[i + 1].top = HashOf(Log.amount)
      /\ ~Log.error /\ IsAsked(past[i], Log, past[i + 1])
    BY <1>1, HashIsNext
<1>3. /\ Logs = logs /\ i \in 1 .. Len(logs) /\ Log = logs[i] /\ Len(logs) \in Nat
      /\ OnCourse(past) => Agree(poststate, past[i].world, past[i].destructed)
    BY LoopView, LenProperties DEF Following, Past, OnCourse
<1>4. /\ OnCourse(past) => Agree(poststate, past[i + 1].world, past[i + 1].destructed)
      /\ Stays(past[i], past[i + 1])
    BY <1>2, <1>3 DEF IsAsked, Unchanged
<1>5. Hashes(block_hashes', AskedBefore(i + 1))
    <2>1. Hashes(block_hashes, AskedBefore(i))
        BY DEF Following, Follows, Abreast
    <2>2. AskedBefore(i + 1) = AskedBefore(i) \cup {Log.amount}
        <3>1. {k \in 1 .. (i + 1) - 1 : logs[k].op = "BLOCKHASH"}
                  = {k \in 1 .. i - 1 : logs[k].op = "BLOCKHASH"} \cup {i}
            BY <1>1, <1>3
        <3> QED BY <1>3, <3>1 DEF AskedBefore
    <2>3. block_hashes' = Insert(block_hashes, Log.amount, HashOf(Log.amount))
        BY <1>1, <1>2
    <2> QED BY <2>1, <2>2, <2>3 DEF Hashes, Insert
<1>6. Log.op \notin HaltOps
    BY <1>1 DEF HaltOps
<1> QED BY <1>1, <1>2, <1>4, <1>5, <1>6, StayFollows

-----------------------------------------------------------------------------
(* No iteration panics, where the contexts are accounts of the prestate. *)
LEMMA NothingUnwraps ==
    ASSUME NEW past, Following(past), ContextsKnown
    PROVE  ~Unwraps
<1>1. /\ Executed(past[i], Log, past[i + 1])
      /\ Caller \in DOMAIN Prestate /\ DOMAIN poststate = DOMAIN Prestate
      /\ Len(Snapshots) = Len(past[i].frames)
      /\ Len(past[i].frames) \in Nat /\ Len(past[i].frames) >= 1
    BY LoopView DEF Following
<1>2. /\ Log \in StructLog /\ ~Log.unreadable
      /\ Log.op \in {"CALL", "STATICCALL", "SELFDESTRUCT"} => Log.address \in DOMAIN Prestate
    BY <1>1 DEF Executed, Permitted
<1>3. Log.op \in CreateOps => CreatedAddress \in DOMAIN Prestate /\ ~CreatedUnreadable
    BY CreationIs
<1>4. Log.op = "BLOCKHASH" => i < Len(Logs) /\ Logs[i + 1].top # None
    BY HashIsNext, HashOfType, NoneAssumption
<1>5. ~(Pops > Available)
    <2>1. Log.error => Log.op \notin HaltOps
        BY <1>1, Kinds DEF HaltOps
    <2> DEFINE halts == Log.op \in HaltOps
    <2>2. (IF halts THEN 1 ELSE 0) + (IF Log.error THEN 1 ELSE 0) \in 0 .. 1
        <3> HIDE DEF halts
        <3> QED BY <2>1 DEF halts
    <2>3. Pops \in 0 .. 1
        BY <2>2 DEF Pops
    <2> DEFINE enters == Log.op \in CallOps \cup CreateOps
               frames_open == Len(Snapshots)
    <2>4. frames_open \in Nat /\ frames_open >= 1
        BY <1>1
    <2>5. Available \in Nat /\ Available >= 1
        <3> HIDE DEF enters, frames_open
        <3>1. frames_open + (IF enters THEN 1 ELSE 0) >= 1
            BY <2>4
        <3>2. frames_open + (IF enters THEN 1 ELSE 0) \in Nat
            BY <2>4
        <3> QED BY <3>1, <3>2 DEF Available, enters, frames_open
    <2> QED BY <2>3, <2>5
<1> QED BY <1>1, <1>2, <1>3, <1>4, <1>5 DEF Unwraps

-----------------------------------------------------------------------------
(* Before and after the loop *)

LEMMA PastStays ==
    ASSUME NEW past, Past(past), UNCHANGED gethVars
    PROVE  Past(past)'
BY DEF Past, Starts, Closes, Now, gethVars

LEMMA AnswerIs ==
    ASSUME NEW past, Past(past), verdict # None, NEW prestate \in Prestates
    PROVE  /\ tx \in Transactions /\ IsRpcAnswer(Answer(prestate))
           /\ verdict.gas \in 1 .. tx.gas
           /\ \/ prestate = Prestate
              \/ tx.to = None /\ prestate = Restricted
<1>1. /\ tx \in Transactions /\ verdict \in [gas : 1 .. tx.gas, failed : BOOLEAN]
      /\ logs \in Seq(StructLog)
    BY DEF Past, Starts, Closes
<1>2. /\ tx \in [from : Address, to : Address \cup {None}, value : Nat, gas : Nat,
                 gas_price : Nat]
      /\ tx.gas \in Nat
    BY <1>1, TransactionIs
<1>3. \/ prestate = Prestate
      \/ tx.to = None /\ prestate = Restricted
    BY DEF Prestates, Restricted
<1>4. IsEthState(prestate) /\ ThisBlock \in [number : Nat, hash : Word]
    <2>1. IsEthState(Prestate) => IsEthState(Restricted)
        BY DEF IsEthState, Restricted
    <2> QED BY <1>3, <2>1, PlainAssumption
<1> DEFINE trace == [failed |-> verdict.failed, gas |-> verdict.gas, struct_logs |-> logs]
           answer == [transaction |-> tx, block |-> ThisBlock, prestate |-> prestate,
                      trace |-> trace]
<1>5. trace \in [failed : BOOLEAN, gas : Nat, struct_logs : Seq(StructLog)]
    BY <1>1, <1>2
<1>6. Answer(prestate) = answer
    BY DEF Answer
<1> HIDE DEF trace
<1>7. IsRpcAnswer(answer)
    BY <1>2, <1>4, <1>5 DEF IsRpcAnswer
<1> QED BY <1>1, <1>3, <1>6, <1>7

LEMMA FirstIs ==
    ASSUME NEW past, Past(past), verdict # None
    PROVE  /\ tx \in Transactions /\ Starts(past[1])
           /\ Prestate[tx.from].balance >= GasFee(tx) + tx.value
           /\ verdict.gas \in 1 .. tx.gas
BY DEF Past, Starts, Closes

(* An extraction that gives up *)
LEMMA EndFollows ==
    ASSUME NEW past, Follows(past), UNCHANGED gethVars,
           NEW how \in {"err", "nocode", "panic"}, End(how),
           how = "panic" => ~ContextsKnown \/ Excused
    PROVE  Follows(past)'
<1>1. pc' = how /\ rpc' = rpc
    BY DEF End
<1>2. Excused' = Excused
    BY <1>1 DEF Excused, Answer, gethVars
<1> QED BY <1>1, <1>2 DEF Follows

LEMMA FetchFollows ==
    ASSUME NEW past, Past(past), verdict # None, UNCHANGED gethVars,
           NEW prestate \in Prestates, Fetch(Answer(prestate))
    PROVE  Follows(past)'
<1>1. /\ tx \in Transactions /\ Prestate[tx.from].balance >= GasFee(tx) + tx.value
    BY FirstIs
<1>2. /\ tx.from \in DOMAIN Prestate /\ Prestate[tx.from].balance >= GasFee(tx)
    BY <1>1, TransactionIs, ChargedIs
<1>3. /\ Answer(prestate).transaction = tx /\ Answer(prestate).prestate = prestate
      /\ Answer(prestate).block = ThisBlock
    BY DEF Answer
<1>4. /\ rpc' = Answer(prestate) /\ depth' = 1 /\ i' = 1
      /\ block_hashes' = [n \in {ThisBlock.number} |-> ThisBlock.hash]
      /\ execution_contexts' = <<Callee(tx)>>
    BY <1>3 DEF Fetch
<1>5. tx' = tx /\ verdict' = verdict /\ Answer(prestate)' = Answer(prestate)
    BY DEF gethVars, Answer
<1>6. CASE prestate = Prestate
    <2>1. /\ poststate' = Charged(tx) /\ snapshots' = <<poststate'>>
          /\ pc' = IF tx.to = None THEN "deploy" ELSE "transfer"
        BY <1>2, <1>3, <1>6 DEF Fetch, Charged
    <2>2. Hashes(block_hashes', {})
        BY <1>4 DEF Hashes
    <2>3. Prepared(Charged(tx))' /\ (tx.to # None => Prepared(Cleared(tx))')
        BY <1>4, <1>5, <2>1, <2>2 DEF Prepared, Charged, Cleared
    <2> QED BY <1>4, <1>5, <1>6, <2>1, <2>3 DEF Follows
<1>7. CASE tx.to = None /\ prestate = Restricted
    <2>1. \/ pc' = "deploy" /\ poststate' = ChargeSender(Restricted, tx)
          \/ pc' = "panic"
        BY <1>3, <1>7 DEF Fetch
    <2>2. Created \notin DOMAIN ChargeSender(Restricted, tx)
        BY DEF ChargeSender, Debit, Restricted
    <2> QED BY <1>4, <1>5, <1>7, <2>1, <2>2 DEF Follows, Excused
<1> QED BY <1>6, <1>7, AnswerIs

LEMMA DeployFollows ==
    ASSUME NEW past, Past(past), Follows(past), verdict # None, UNCHANGED gethVars,
           NEW code, Deploy(code)
    PROVE  Follows(past)'
<1>1. /\ pc = "deploy" /\ tx.to = None
      /\ \/ rpc = Answer(Prestate) /\ Prepared(Charged(tx))
         \/ rpc = Answer(Restricted) /\ Created \notin DOMAIN poststate
    BY DEF Deploy, Follows
<1>2. CASE \E how \in {"err", "nocode"} : End(how)
    BY <1>2, EndFollows
<1>3. CASE Created \notin DOMAIN poststate /\ End("panic")
    <2>1. Created \in DOMAIN Prestate /\ DOMAIN Charged(tx) = DOMAIN Prestate
        BY <1>1, FirstIs, TransactionIs, ChargedIs
    <2>2. Excused
        BY <1>1, <1>3, <2>1 DEF Prepared, Excused
    <2> QED BY <1>3, <2>2, EndFollows
<1>4. CASE /\ CodeAccepted(code) /\ Created \in DOMAIN poststate
           /\ poststate' = [poststate EXCEPT ![Created].code = code]
           /\ pc' = "transfer"
           /\ UNCHANGED <<rpc, execution_contexts, snapshots, block_hashes, depth, i>>
    <2>1. rpc = Answer(Prestate) /\ Prepared(Charged(tx)) /\ code = NoCode
        BY <1>1, <1>4 DEF CodeAccepted
    <2>2. tx' = tx /\ verdict' = verdict /\ Answer(Prestate)' = Answer(Prestate)
        BY DEF gethVars, Answer
    <2>3. poststate' = Cleared(tx)
        BY <1>1, <1>4, <2>1 DEF Prepared, Cleared
    <2>4. Prepared(Cleared(tx))'
        BY <1>4, <2>1, <2>2, <2>3 DEF Prepared, Cleared, Charged
    <2> QED BY <1>4, <2>1, <2>2, <2>4 DEF Follows
<1> QED BY <1>2, <1>3, <1>4 DEF Deploy

LEMMA AgreeReflexive ==
    ASSUME NEW p, NEW d PROVE Agree(p, p, d)
BY DEF Agree, SameAssets

(* Setting the code to none makes up for the nonce that was not set. *)
LEMMA ClearedIs ==
    ASSUME NEW t \in Transactions, Prestate[t.from].balance >= GasFee(t) + t.value
    PROVE  /\ Cleared(t) \in Accounts /\ DOMAIN Cleared(t) = DOMAIN Prestate
           /\ Cleared(t)[t.from].balance >= t.value
           /\ Agree(Cleared(t), Entering(t), {})
<1>1. /\ Charged(t) \in Accounts /\ DOMAIN Charged(t) = DOMAIN Prestate
      /\ Entering(t) \in Accounts /\ SameAssets(Entering(t), Charged(t))
      /\ Charged(t)[t.from].balance >= t.value
    BY ChargedIs
<1>2. t.from \in DOMAIN Prestate
    BY TransactionIs
<1>3. CASE t.to # None
    <2>1. Cleared(t) = Charged(t) /\ Entering(t) = Charged(t)
        BY <1>3 DEF Cleared, Entering
    <2> QED BY <1>1, <2>1, AgreeReflexive
<1>4. CASE t.to = None
    <2>1. Created \in DOMAIN Prestate /\ ~NoCreation
        BY <1>4, TransactionIs
    <2>2. Cleared(t) = [Charged(t) EXCEPT ![Created].code = NoCode]
        BY <1>4 DEF Cleared
    <2> DEFINE before == Charged(t)
    <2>3. before \in Kept(Prestate) /\ Created \in DOMAIN before
        BY <1>1, <2>1 DEF Accounts
    <2> HIDE DEF before
    <2>4. [before EXCEPT ![Created].code = NoCode] \in Kept(Prestate)
        BY <2>3, CodeKeeps, NoCodeIsCode
    <2>5. SameAssets([before EXCEPT ![Created].code = NoCode], before)
        BY <2>3, CodeAssets
    <2>6. /\ Cleared(t) \in Accounts /\ SameAssets(Cleared(t), Charged(t))
        BY <2>2, <2>4, <2>5 DEF before, Accounts
    <2> QED BY <1>1, <1>2, <2>1, <2>6 DEF Agree, SameAssets
<1> QED BY <1>3, <1>4

LEMMA TransferValueFollows ==
    ASSUME NEW past, Past(past), Follows(past), UNCHANGED gethVars, TransferValue
    PROVE  Follows(past)'
<1>1. /\ pc = "transfer" /\ verdict # None /\ rpc = Answer(Prestate)
      /\ Prepared(Cleared(tx))
    BY DEF TransferValue, Follows
<1>2. /\ tx \in Transactions /\ Prestate[tx.from].balance >= GasFee(tx) + tx.value
      /\ Starts(past[1])
    BY <1>1, FirstIs
<1> DEFINE cleared == Cleared(tx)
           entering == Entering(tx)
<1>3. /\ cleared \in Accounts /\ DOMAIN cleared = DOMAIN Prestate
      /\ cleared[tx.from].balance >= tx.value
      /\ Agree(cleared, entering, {})
      /\ entering \in Accounts /\ DOMAIN entering = DOMAIN Prestate
      /\ entering[tx.from].balance >= tx.value
    BY <1>2, ClearedIs, ChargedIs, TransactionIs DEF Agree, SameAssets
<1>4. /\ tx.from \in DOMAIN Prestate /\ Callee(tx) \in DOMAIN Prestate /\ tx.value \in Nat
    BY <1>2, TransactionIs
<1>5. rpc.transaction = tx
    BY <1>1 DEF Answer
<1>6. poststate = cleared
    BY <1>1 DEF Prepared
<1> HIDE DEF cleared, entering
<1>7. /\ pc' = "loop" /\ poststate' = Pay(cleared, tx.from, Callee(tx), tx.value)
      /\ UNCHANGED <<rpc, execution_contexts, snapshots, block_hashes, depth, i>>
    BY <1>3, <1>4, <1>5, <1>6 DEF TransferValue, Pay
<1>8. /\ tx' = tx /\ verdict' = verdict /\ logs' = logs
      /\ Answer(Prestate)' = Answer(Prestate)
    BY DEF gethVars, Answer
<1>9. Agree(poststate', past[1].world, past[1].destructed)
    <2>1. /\ past[1].world = Pay(entering, tx.from, Callee(tx), tx.value)
          /\ past[1].destructed = {}
        BY <1>2 DEF Starts, entering
    <2> QED BY <1>3, <1>4, <1>7, <2>1, AgreeTransfer DEF Pay
<1>10. Mirrors(execution_contexts', snapshots', past[1].frames, Doomed(past, 1)')
    <2>1. execution_contexts' = <<Callee(tx)>> /\ snapshots' = <<Charged(tx)>>
        BY <1>1, <1>7 DEF Prepared
    <2>2. Agree(Charged(tx), Charged(tx), {})
        BY AgreeReflexive
    <2>3. CASE Len(past[1].frames) = 0
        BY <2>1, <2>3 DEF Mirrors
    <2>4. CASE /\ Len(past[1].frames) = 1
               /\ past[1].frames[1].self = Callee(tx)
               /\ past[1].frames[1].undo = [world |-> Charged(tx), destructed |-> {}]
        BY <1>4, <2>1, <2>2, <2>4 DEF Mirrors
    <2> QED BY <1>2, <2>3, <2>4 DEF Starts
<1>11. Reaches(past, 1, poststate, execution_contexts, snapshots)'
    BY <1>9, <1>10 DEF Reaches
<1>12. Hashes(block_hashes', AskedBefore(1)')
    <2>1. AskedBefore(1)' = {}
        BY DEF AskedBefore
    <2> QED BY <1>1, <1>7, <2>1 DEF Prepared
<1>13. i' = 1 /\ i' \in 1 .. Len(logs') + 1
    BY <1>1, <1>7, <1>8, LenProperties DEF Prepared, Past
<1>14. Abreast(past)'
    BY <1>11, <1>12, <1>13 DEF Abreast
<1> QED BY <1>1, <1>7, <1>8, <1>14 DEF Follows

LEMMA RefundFollows ==
    ASSUME IndInv, NEW past, Past(past), Follows(past), UNCHANGED gethVars, Refund
    PROVE  Follows(past)'
<1> DEFINE refund == (tx.gas - verdict.gas) * tx.gas_price
           s      == past[Len(past)]
<1>1. /\ pc = "loop" /\ verdict # None /\ rpc = Answer(Prestate) /\ Abreast(past)
      /\ i > Len(Logs)
    BY DEF Refund, Follows
<1>2. /\ rpc.transaction = tx /\ rpc.prestate = Prestate /\ rpc.trace.gas = verdict.gas
      /\ Logs = logs
    BY <1>1 DEF Answer, Logs
<1>3. /\ past \in Seq(NodeState) /\ Len(past) = Len(logs) + 1 /\ Len(logs) \in Nat
      /\ Closes(s)
    BY <1>1, LenProperties DEF Past
<1>4. i = Len(past) /\ i = Len(logs) + 1
    BY <1>1, <1>2, <1>3 DEF Abreast
<1>5. /\ Agree(poststate, s.world, s.destructed)
      /\ Hashes(block_hashes, AskedBefore(Len(logs) + 1))
    <2>1. Len(s.frames) = 0
        BY <1>3, EmptySeq DEF Closes
    <2>2. Aligned(execution_contexts, s.frames, Len(s.frames))
        BY <2>1 DEF Aligned
    <2> QED BY <1>1, <1>4, <2>2 DEF Abreast, Reaches
<1>6. s \in NodeState
    BY <1>3, ElementOfSeq
<1>7. /\ s.world \in Accounts /\ poststate \in Accounts
      /\ DOMAIN s.world = DOMAIN Prestate /\ DOMAIN poststate = DOMAIN Prestate
    BY <1>1, <1>2, <1>5, <1>6 DEF NodeState, IndInv, Running, Accounts, Kept, Covers
<1>8. /\ tx \in Transactions /\ tx.from \in DOMAIN Prestate
      /\ verdict.gas \in 1 .. tx.gas /\ tx.gas \in Nat /\ tx.gas >= verdict.gas
    <2>1. tx \in Transactions /\ verdict.gas \in 1 .. tx.gas
        BY <1>1, FirstIs
    <2>2. tx.gas \in Nat /\ tx.from \in DOMAIN Prestate
        BY <2>1, TransactionIs
    <2> QED BY <2>1, <2>2
<1>9. /\ poststate' = Credit(poststate, tx.from, refund) /\ pc' = "done"
      /\ UNCHANGED <<rpc, execution_contexts, snapshots, block_hashes, depth, i>>
    BY <1>2, <1>8 DEF Refund
<1>10. /\ tx' = tx /\ verdict' = verdict /\ logs' = logs /\ world' = world
       /\ destructed' = destructed /\ Answer(Prestate)' = Answer(Prestate)
    BY DEF gethVars, Answer
<1> HIDE DEF refund, s
<1>11. /\ DOMAIN Credit(poststate, tx.from, refund) = DOMAIN Prestate
       /\ \A b \in DOMAIN Prestate :
             Credit(poststate, tx.from, refund)[b] =
                IF b = tx.from
                THEN WithBalance(poststate[b], poststate[b].balance + refund)
                ELSE poststate[b]
    BY <1>7, <1>8, CreditIs DEF Accounts
<1>12. \A b \in DOMAIN Prestate :
             Credit(s.world, tx.from, refund)[b] =
                IF b = tx.from
                THEN WithBalance(s.world[b], s.world[b].balance + refund)
                ELSE s.world[b]
    BY <1>7, <1>8, CreditIs DEF Accounts
<1>13. /\ DOMAIN world = DOMAIN Prestate /\ destructed = s.destructed
       /\ \A a \in DOMAIN Prestate \ destructed : world[a] = Credit(s.world, tx.from, refund)[a]
    BY <1>3 DEF Closes, refund
<1>14. \A x, y : WithBalance(x, y).balance = y /\ WithBalance(x, y).storage = x.storage
    BY DEF WithBalance
<1>15. ASSUME NEW a \in DOMAIN world \ destructed
       PROVE  /\ poststate'[a].balance = world[a].balance
              /\ poststate'[a].storage = world[a].storage
              /\ NoCreation => poststate'[a] = world[a]
    <2>1. /\ poststate[a].balance = s.world[a].balance
          /\ poststate[a].storage = s.world[a].storage
          /\ NoCreation => poststate[a] = s.world[a]
        BY <1>5, <1>7, <1>13 DEF Agree, SameAssets
    <2> QED BY <1>9, <1>11, <1>12, <1>13, <1>14, <2>1
<1>16. Extracted'
    BY <1>9, <1>10, <1>11, <1>15 DEF Extracted
<1>17. Hashes(block_hashes', Asked')
    <2>1. {m \in 1 .. Len(logs) : logs[m].op = "BLOCKHASH"}
              = {k \in 1 .. (Len(logs) + 1) - 1 : logs[k].op = "BLOCKHASH"}
        BY <1>3
    <2>2. Asked' = AskedBefore(Len(logs) + 1)
        BY <1>10, <2>1 DEF Asked, AskedBefore
    <2> QED BY <1>5, <1>9, <2>2
<1> QED BY <1>1, <1>9, <1>10, <1>16, <1>17 DEF Follows

-----------------------------------------------------------------------------
(***************************************************************************)
(* The invariant of the node and the replay together                       *)
(***************************************************************************)
ExtractInv ==
    /\ IndInv /\ NodeInv
    /\ IF verdict = None THEN pc = "fetch" /\ rpc = None
       ELSE \E past : Past(past) /\ Follows(past)

LEMMA ExtractInvInit == ExtractInit => ExtractInv
BY IndInvInit DEF ExtractInit, ExtractInv, NodeInv, GethInit, Init

(* Whatever code the node answers with, the replay goes on only with none. *)
LEMMA ReplayIs ==
    ASSUME Replay
    PROVE  \/ \E prestate \in Prestates : Fetch(Answer(prestate))
           \/ pc \in Running /\ End("nocode")
           \/ ReplayStep
<1>1. ASSUME NEW code, Deploy(code)
      PROVE  Deploy(NoCode) \/ (pc \in Running /\ End("nocode"))
    BY <1>1 DEF Deploy, CodeAccepted, Running
<1>2. ASSUME NEW code, Create(code) PROVE Create(NoCode)
    BY <1>2 DEF Create, CodeAccepted
<1>3. ASSUME NEW code, CreateFails(code)
      PROVE  CreateFails(NoCode) \/ (pc \in Running /\ End("nocode"))
    BY <1>3 DEF CreateFails, CodeAccepted, Running, AtLog
<1> QED BY <1>1, <1>2, <1>3, NoCodeIsCode DEF Replay, ReplayStep

LEMMA ReplayKeeps ==
    ASSUME IndInv, NEW past, Past(past), verdict # None, Replay
    PROVE  IndInv'
<1>1. ASSUME NEW prestate \in Prestates, Fetch(Answer(prestate)) PROVE IndInv'
    BY <1>1, AnswerIs, FetchKeeps
<1>2. CASE pc \in Running /\ End("nocode")
    BY <1>2, EndNoCodeKeeps
<1>3. CASE ReplayStep
    BY <1>3, IndInvInductive DEF Next
<1> QED BY <1>1, <1>2, <1>3, ReplayIs

LEMMA ReplayFollows ==
    ASSUME IndInv, NEW past, Past(past), Follows(past), verdict # None, Replay,
           UNCHANGED gethVars
    PROVE  Follows(past)'
<1>1. ASSUME NEW prestate \in Prestates, Fetch(Answer(prestate)) PROVE Follows(past)'
    BY <1>1, FetchFollows
<1>2. CASE RpcFails
    <2>1. PICK how \in {"err", "panic"} : pc = "fetch" /\ End(how)
        BY <1>2 DEF RpcFails
    <2>2. rpc = None
        BY <2>1 DEF Follows
    <2> QED BY <2>1, <2>2, EndFollows DEF Excused
<1>3. ASSUME NEW code, Deploy(code) PROVE Follows(past)'
    BY <1>3, DeployFollows
<1>4. CASE TransferValue
    BY <1>4, TransferValueFollows
<1>5. CASE Refund
    BY <1>5, RefundFollows
<1>6. ASSUME NEW ops, AtLog(ops) PROVE Following(past)
    BY <1>6 DEF AtLog, Following
<1>7. ASSUME NEW code, CreateFails(code) PROVE Follows(past)'
    BY <1>7, EndFollows DEF CreateFails
<1>8. CASE Panic(Opcode)
    <2>1. Following(past) /\ Unwraps /\ End("panic")
        BY <1>6, <1>8 DEF Panic
    <2>2. ~ContextsKnown
        BY <2>1, NothingUnwraps
    <2> QED BY <2>1, <2>2, EndFollows
<1>9. ASSUME NEW code, Create(code) PROVE Follows(past)'
    BY ZenonT(40), <1>6, <1>9, CreateFollows DEF Create
<1>10. CASE Sstore
    BY ZenonT(40), <1>6, <1>10, SstoreFollows DEF Sstore
<1>11. CASE SelfDestruct
    BY ZenonT(40), <1>6, <1>11, SelfDestructFollows DEF SelfDestruct
<1>12. CASE Blockhash
    BY ZenonT(40), <1>6, <1>12, BlockhashFollows DEF Blockhash
<1>13. CASE Revert
    BY ZenonT(40), <1>6, <1>13, RevertFollows DEF Revert
<1>14. CASE Other
    BY ZenonT(40), <1>6, <1>14, OtherFollows DEF Other
<1>15. CASE Call
    BY ZenonT(40), <1>6, <1>15, CallFollows DEF Call
<1>16. CASE StaticCall
    BY ZenonT(40), <1>6, <1>16, StaticCallFollows DEF StaticCall
<1>17. CASE DelegateCall
    BY ZenonT(40), <1>6, <1>17, DelegateCallFollows DEF DelegateCall
<1> QED BY <1>1, <1>2, <1>3, <1>4, <1>5, <1>7, <1>8, <1>9, <1>10, <1>11, <1>12, <1>13,
           <1>14, <1>15, <1>16, <1>17 DEF Replay

LEMMA ExtractInvStep == ExtractInv /\ [ExtractNext]_vars => ExtractInv'
<1> SUFFICES ASSUME ExtractInv, [ExtractNext]_vars PROVE ExtractInv'
    OBVIOUS
<1>1. CASE GethStep /\ UNCHANGED replayVars
    <2>1. NodeInv' /\ verdict = None
        BY <1>1, NodeStep DEF ExtractInv
    <2>2. pc = "fetch" /\ rpc = None /\ pc' = pc /\ rpc' = rpc
        BY <1>1, <2>1 DEF ExtractInv, replayVars
    <2>3. IndInv'
        BY <1>1, StutterKeeps DEF ExtractInv
    <2>4. ASSUME verdict' # None PROVE (\E past : Past(past) /\ Follows(past))'
        <3>1. PICK past : Past(past)'
            BY <2>1, <2>4 DEF NodeInv
        <3>2. Follows(past)'
            BY <2>2 DEF Follows
        <3> QED BY <3>1, <3>2
    <2> QED BY <2>1, <2>2, <2>3, <2>4 DEF ExtractInv
<1>2. CASE verdict # None /\ Replay /\ UNCHANGED gethVars
    <2>1. PICK past : Past(past) /\ Follows(past)
        BY <1>2 DEF ExtractInv
    <2>2. IndInv' /\ Follows(past)'
        BY <1>2, <2>1, ReplayKeeps, ReplayFollows DEF ExtractInv
    <2>3. Past(past)' /\ verdict' = verdict /\ tx' = tx
        BY <1>2, <2>1, PastStays DEF gethVars
    <2>4. NodeInv'
        BY <1>2, <2>1, <2>3, FirstIs, NoneAssumption DEF NodeInv
    <2> QED BY <1>2, <2>2, <2>3, <2>4 DEF ExtractInv
<1>3. CASE UNCHANGED vars
    <2>1. UNCHANGED gethVars /\ UNCHANGED replayVars
        BY <1>3 DEF vars
    <2>2. IndInv'
        BY <2>1, StutterKeeps DEF ExtractInv
    <2>3. verdict' = verdict /\ tx' = tx /\ pc' = pc /\ rpc' = rpc
        BY <2>1 DEF gethVars, replayVars
    <2>4. NodeInv'
        <3>1. CASE tx = None
            BY <2>1, <3>1 DEF ExtractInv, NodeInv, gethVars
        <3>2. CASE tx # None
            BY <2>1, <2>3, <3>2, PastStays DEF ExtractInv, NodeInv
        <3> QED BY <3>1, <3>2
    <2>5. ASSUME NEW past, Past(past), Follows(past) PROVE Past(past)' /\ Follows(past)'
        BY <2>1, <2>5, PastStays
           DEF Follows, Excused, Prepared, Charged, Cleared, Abreast, Reaches, Doomed, AskedBefore,
               Asked, Extracted, Answer, gethVars, replayVars
    <2> QED BY <2>2, <2>3, <2>4, <2>5 DEF ExtractInv
<1> QED BY <1>1, <1>2, <1>3 DEF ExtractNext

(***************************************************************************)
(* At every step of an extraction, the replay is where the node once was.  *)
(***************************************************************************)
THEOREM ExtractInvariance == ExtractSpec => []ExtractInv
BY ExtractInvInit, ExtractInvStep, PTL DEF ExtractSpec

-----------------------------------------------------------------------------
(* The results *)

(***************************************************************************)
(* Whatever contracts call, create, destroy, ask and fail, in calls and in *)
(* constructors, every account that the transaction did not destroy is     *)
(* extracted with the balance and the storage the node left it: exactly    *)
(* what failed was undone, and with it all that was done in a context that *)
(* was not the node's.                                                     *)
(***************************************************************************)
THEOREM SurvivorsAreExtracted == ExtractSpec => [](pc = "done" => Extracted)
<1>1. ExtractInv => (pc = "done" => Extracted)
    BY DEF ExtractInv, Follows
<1> QED BY <1>1, ExtractInvariance, PTL

(***************************************************************************)
(* Where no contract is created, those accounts are extracted entirely as  *)
(* the node left them, nonce and code included.                            *)
(***************************************************************************)
THEOREM SurvivorsAgree ==
    ASSUME NoCreation
    PROVE  ExtractSpec => []AgreesOnSurvivors
<1>1. ExtractInv => AgreesOnSurvivors
    BY DEF ExtractInv, AgreesOnSurvivors, Follows, Extracted
<1> QED BY <1>1, ExtractInvariance, PTL

(***************************************************************************)
(* The vector has the hash of every block that some BLOCKHASH asked for,   *)
(* as the node pushed it, and no other but its own block's, also when the  *)
(* call that asked was undone and when a constructor asked.                *)
(***************************************************************************)
THEOREM HashesAreThoseSeen == ExtractSpec => []BlockHashesSound
<1>1. ExtractInv => BlockHashesSound
    BY DEF ExtractInv, BlockHashesSound, Follows, Hashes
<1> QED BY <1>1, ExtractInvariance, PTL

(***************************************************************************)
(* Where the contexts of the replay are accounts of the prestate, no       *)
(* unwrap of the replay fails: each account it looks up is in the          *)
(* prestate - the tracer may only hide the contract the transaction        *)
(* creates -, each failed call finds its snapshot, each BLOCKHASH is       *)
(* followed by a log.                                                      *)
(***************************************************************************)
THEOREM ReplayNeverPanics ==
    ASSUME ContextsKnown
    PROVE  ExtractSpec => []NeverPanics
<1>1. ExtractInv => NeverPanics
    BY DEF ExtractInv, NeverPanics, Follows, Excused, Answer, Restricted
<1> QED BY <1>1, ExtractInvariance, PTL

-----------------------------------------------------------------------------
(***************************************************************************)
(* Without SELFDESTRUCT no account is deleted, and every account survives. *)
(***************************************************************************)

(* no account is to be deleted, now or after the failure of an open call *)
Untouched(s) ==
    /\ s.destructed = {}
    /\ \A j \in 1 .. Len(s.frames) : s.frames[j].undo.destructed = {}

LEMMA StaysUntouched ==
    ASSUME NoDestruction, NEW s \in NodeState, NEW log, NEW t \in NodeState,
           Executed(s, log, t), Untouched(s)
    PROVE  Untouched(t)
<1>1. Len(s.frames) \in Nat /\ Len(s.frames) >= 1 /\ Len(t.frames) \in Nat
    BY LenProperties DEF Executed, NodeState
<1>2. Acting(s).undo.destructed = {} /\ s.destructed = {}
    BY <1>1 DEF Untouched, Acting
<1>3. ASSUME NEW w, Leaves(s, t, w), t.destructed = {} PROVE Untouched(t)
    BY <1>1, <1>3 DEF Leaves, Below, Untouched
<1>4. CASE Stays(s, t) /\ t.destructed = {}
    BY <1>1, <1>4 DEF Stays, Below, Untouched
<1>5. ASSUME NEW self, NEW creates, NEW before, Opens(s, t, self, creates, before),
             t.destructed = {}
      PROVE  Untouched(t)
    <2> DEFINE f == s.frames
               g == t.frames
    <2>1. /\ Len(g) = Len(f) + 1 /\ g[Len(g)].undo.destructed = {}
          /\ \A j \in 1 .. Len(f) : g[j].undo = f[j].undo
          /\ \A j \in 1 .. Len(f) : f[j].undo.destructed = {}
        BY <1>2, <1>5 DEF Opens, Below, Acting, Untouched
    <2> HIDE DEF f, g
    <2>2. \A j \in 1 .. Len(g) : g[j].undo.destructed = {}
        BY <1>1, <2>1 DEF f
    <2> QED BY <1>5, <2>2 DEF Untouched, g
<1>6. CASE IsFailure(s, log, t)
    BY <1>2, <1>3, <1>6 DEF IsFailure
<1>7. CASE IsReturn(s, log, t)
    BY <1>2, <1>3, <1>7 DEF IsReturn
<1>8. CASE IsWrite(s, log, t)
    BY <1>2, <1>4, <1>8 DEF IsWrite
<1>9. CASE IsAsked(s, log, t)
    BY <1>2, <1>4, <1>9 DEF IsAsked, Unchanged
<1>10. CASE IsRefused(s, log, t)
    BY <1>2, <1>4, <1>10 DEF IsRefused, Unchanged
<1>11. CASE IsCall(s, log, t)
    BY <1>2, <1>4, <1>5, <1>11 DEF IsCall
<1>12. CASE IsCreation(s, log, t)
    BY <1>2, <1>5, <1>12 DEF IsCreation
<1>13. ~IsDestruction(s, log, t)
    BY DEF IsDestruction, Executed, Permitted
<1> QED BY <1>6, <1>7, <1>8, <1>9, <1>10, <1>11, <1>12, <1>13 DEF Executed, Succeeds

LEMMA NothingDestroyedStep ==
    ASSUME NoDestruction, NodeInv, Untouched(Now), GethStep
    PROVE  Untouched(Now')
<1>1. /\ destructed = {}
      /\ \A j \in 1 .. Len(frames) : frames[j].undo.destructed = {}
    BY DEF Untouched, Now
<1>2. ASSUME NEW t \in Transactions, Begin(t) PROVE Untouched(Now')
    <2>1. \/ frames' = <<>>
          \/ Len(frames') = 1 /\ frames'[1].undo.destructed = {}
        BY <1>2 DEF Begin, Frame
    <2>2. destructed' = {}
        BY <1>1, <1>2 DEF Begin
    <2> QED BY <2>1, <2>2, EmptySeq DEF Untouched, Now
<1>3. ASSUME NEW gas \in 1 .. tx.gas, Finish(gas) PROVE Untouched(Now')
    BY <1>1, <1>3 DEF Finish, Untouched, Now
<1>4. ASSUME Executing, Return \/ \E instr \in Program[Here.code] : Execute(instr)
      PROVE  Untouched(Now')
    <2>1. tx # None /\ verdict = None
        BY <1>4 DEF Executing
    <2>2. PICK past : Past(past)
        BY <2>1 DEF NodeInv
    <2>3. past \in Seq(NodeState) /\ past[Len(past)] = Now /\ Len(past) \in Nat /\ Len(past) >= 1
        BY <2>1, <2>2, LenProperties DEF Past
    <2>4. Between /\ Now \in NodeState
        BY <2>1, <2>3, ElementOfSeq DEF Between
    <2>5. PICK log : Logging(log)
        BY <1>4, <2>4, ReturnLogs, ExecuteLogs
    <2>6. Now' \in NodeState /\ Executed(Now, log, Now')
        BY <2>5 DEF Logging
    <2> HIDE DEF Now
    <2> QED BY <2>4, <2>6, StaysUntouched
<1> QED BY <1>2, <1>3, <1>4 DEF GethStep, Return

(* Of the node: a transaction without SELFDESTRUCT deletes no account. *)
LEMMA NothingDestroyed ==
    ASSUME NoDestruction
    PROVE  ExtractSpec => [](destructed = {})
<1>1. ExtractInit => Untouched(Now)
    BY EmptySeq DEF ExtractInit, GethInit, Untouched, Now
<1>2. ExtractInv /\ Untouched(Now) /\ [ExtractNext]_vars => Untouched(Now)'
    <2> SUFFICES ASSUME ExtractInv, Untouched(Now), [ExtractNext]_vars
                 PROVE  Untouched(Now)'
        OBVIOUS
    <2>1. CASE GethStep
        BY <2>1, NothingDestroyedStep DEF ExtractInv, Untouched, Now
    <2>2. CASE UNCHANGED gethVars
        BY <2>2 DEF gethVars, Untouched, Now
    <2> QED BY <2>1, <2>2 DEF ExtractNext, vars
<1>3. Untouched(Now) => destructed = {}
    BY DEF Untouched, Now
<1> QED BY <1>1, <1>2, <1>3, ExtractInvariance, PTL DEF ExtractSpec

(* where nothing was destroyed, every account of the node is extracted *)
LEMMA AllExtracted ==
    ASSUME ExtractInv, destructed = {}, pc = "done"
    PROVE  /\ Extracted /\ DOMAIN world = DOMAIN Prestate
           /\ world = [a \in DOMAIN world |-> world[a]]
           /\ poststate = [a \in DOMAIN poststate |-> poststate[a]]
<1>1. verdict # None
    BY DEF ExtractInv
<1>2. PICK past : Past(past) /\ Follows(past)
    BY <1>1 DEF ExtractInv
<1>3. /\ DOMAIN world = DOMAIN Prestate
      /\ world = [a \in DOMAIN world |-> world[a]]
    BY <1>1, <1>2 DEF Past, Closes
<1>4. poststate \in EthStates
    BY DEF ExtractInv, IndInv
<1> QED BY <1>2, <1>3, <1>4 DEF Follows, EthStates

(***************************************************************************)
(* Where the contracts only call, write, ask and fail visibly, the         *)
(* extracted poststate is the state the node ended in, account by account, *)
(* whatever calls were undone on the way.                                  *)
(***************************************************************************)
THEOREM ReplayAgrees ==
    ASSUME NoCreation, NoDestruction
    PROVE  ExtractSpec => []AgreesWithGeth
<1>1. ExtractInv /\ destructed = {} => AgreesWithGeth
    BY AllExtracted DEF AgreesWithGeth, Extracted
<1> QED BY <1>1, ExtractInvariance, NothingDestroyed, PTL

(***************************************************************************)
(* Where they also create contracts, whose constructors call, create, ask  *)
(* and fail, every account of the node is extracted with its balance and   *)
(* its storage: a payment or a write in a constructor that fails is undone.*)
(***************************************************************************)
THEOREM CreationsAgree ==
    ASSUME NoDestruction
    PROVE  ExtractSpec => []AgreesUpToNonce
<1>1. ExtractInv /\ destructed = {} => AgreesUpToNonce
    BY AllExtracted DEF AgreesUpToNonce, Extracted
<1> QED BY <1>1, ExtractInvariance, NothingDestroyed, PTL

-----------------------------------------------------------------------------
(* Money: the steps of the replay conserve it over any trace. *)
LEMMA ReplayConserves ==
    ASSUME IndInv, ConservesMoney, NEW past, Past(past), verdict # None, Replay
    PROVE  ConservesMoney'
<1>1. ASSUME NEW prestate \in Prestates, Fetch(Answer(prestate))
      PROVE  ConservesMoney'
    BY <1>1, AnswerIs, FetchConserves
<1>2. CASE End("nocode")
    BY <1>2 DEF End, ConservesMoney, Running
<1>3. CASE ReplayStep
    BY <1>3, StepConserves
<1> QED BY <1>1, <1>2, <1>3, ReplayIs

(***************************************************************************)
(* In the extraction from a node, too, no money is made: of the prestate's *)
(* money the fee of the gas used is missing, and what was burnt, whatever  *)
(* was created and destroyed.                                              *)
(***************************************************************************)
THEOREM ExtractionConserves == ExtractSpec => []ConservesMoney
<1>1. ExtractInit => ConservesMoney
    BY DEF ExtractInit, Init, ConservesMoney, Running
<1>2. ExtractInv /\ ConservesMoney /\ [ExtractNext]_vars => ConservesMoney'
    <2> SUFFICES ASSUME ExtractInv, ConservesMoney, [ExtractNext]_vars
                 PROVE  ConservesMoney'
        OBVIOUS
    <2>1. CASE UNCHANGED replayVars
        BY <2>1, StepConserves DEF ExtractInv
    <2>2. CASE verdict # None /\ Replay /\ UNCHANGED gethVars
        BY <2>2, ReplayConserves DEF ExtractInv
    <2> QED BY <2>1, <2>2 DEF ExtractNext, vars
<1> QED BY <1>1, <1>2, ExtractInvariance, PTL DEF ExtractSpec
=============================================================================
