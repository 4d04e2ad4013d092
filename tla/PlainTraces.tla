----------------------------- MODULE PlainTraces -----------------------------
(***************************************************************************)
(* The transactions whose extraction is proved right: the prestate has     *)
(* every account that is acted for or paid - what a transaction creates it *)
(* has unless the tracer did not know it -, and a failure shows in the     *)
(* trace.                                                                  *)
(***************************************************************************)
EXTENDS Extract

(* an instruction, with operands of the types a log has *)
Instruction ==
    [op : Opcode, address : Address, amount : Nat, key : Key, data : Data]

(* the failures the replay sees: a halt, or an error that pushes no snapshot *)
VisibleFaults ==
    (HaltOps \X {FALSE}) \cup ({"OTHER", "SSTORE", "SELFDESTRUCT"} \X {TRUE})

ASSUME PlainAssumption ==
    /\ IsEthState(Prestate)
    /\ ThisBlock \in [number : Nat, hash : Word]
    /\ Transactions \subseteq
         [from : DOMAIN Prestate, to : DOMAIN Prestate \cup {None}, value : Nat,
          gas : Nat, gas_price : Nat]
    /\ Faults \subseteq VisibleFaults
    /\ \A a \in Address : \A instr \in Program[a] :
          /\ instr \in Instruction
          /\ instr.op \in {"CALL", "STATICCALL", "SELFDESTRUCT"}
                 => instr.address \in DOMAIN Prestate
          /\ instr.op = "CALL" /\ instr.address \in FailingPrecompiles
                 => instr.amount = 0

(* A transaction without a recipient creates the account the replay expects. *)
ASSUME CreationAssumption ==
    /\ \A t \in Transactions :
          t.to = None => /\ Created \in DOMAIN Prestate
                         /\ CreateAddress(t.from, Prestate[t.from].nonce) = Created
    /\ Deployed \in [Address -> Code]

ASSUME WordsAssumption ==
    /\ Address \cup {One} \subseteq Word
    /\ BlockHash \in [DOMAIN BlockHash -> Word]
    /\ Key # {} /\ Data # {}

(* None is no word - a stack that was pushed to is not empty -, no           *)
(* transaction and no verdict.                                               *)
ASSUME NoneAssumption ==
    None \notin Word \cup Transactions \cup [gas : Nat, failed : BOOLEAN]

(* the instances without contract creation, and without self-destruction *)
NoCreation ==
    /\ \A t \in Transactions : t.to # None
    /\ \A a \in Address : \A instr \in Program[a] : instr.op \notin CreateOps

NoDestruction ==
    \A a \in Address : \A instr \in Program[a] : instr.op # "SELFDESTRUCT"

(* the instances whose contexts are accounts of the prestate: the replay    *)
(* takes the zero address for the contract of a creation that fails         *)
ContextsKnown ==
    \/ Zero \in DOMAIN Prestate
    \/ \A a \in Address : \A instr \in Program[a] : instr.op \notin CreateOps
=============================================================================
