----------------------------- MODULE StructLogs -----------------------------
(***************************************************************************)
(* One entry of the default trace of debug_traceTransaction, as far as the *)
(* extractor reads it (src/src/extractor/opcodes.rs, transaction.rs).      *)
(***************************************************************************)
EXTENDS EthState

CONSTANTS
    Word,           \* U256 words a traced stack can hold
    Zero,           \* H160::zero(), and the word 0
    None,           \* an absent value (Option::None)
    MaxCallDepth    \* 1024

ASSUME TraceAssumption ==
    /\ Zero \in Address
    /\ None \notin Address
    /\ MaxCallDepth \in Nat \ {0}

CallOps   == {"CALL", "STATICCALL", "DELEGATECALL", "CALLCODE"}
CreateOps == {"CREATE", "CREATE2"}
HaltOps   == {"REVERT", "INVALID"}
Opcode == CallOps \cup CreateOps \cup HaltOps
            \cup {"SSTORE", "SELFDESTRUCT", "BLOCKHASH", "OTHER"}

(***************************************************************************)
(* A struct log, with the stack operands of its opcode by name.  "top" is  *)
(* the word on top of the stack, None on an empty stack; "unreadable" says *)
(* that the operands cannot be taken from the stack: it holds fewer words  *)
(* than the replay reads, or the block number is no u64.                   *)
(***************************************************************************)
StructLog == [op         : Opcode,
              depth      : Nat \ {0},
              error      : BOOLEAN,
              unreadable : BOOLEAN,
              top        : Word \cup {None},
              address    : Address,    \* callee, or beneficiary of SELFDESTRUCT
              amount     : Nat,        \* value sent, or number of BLOCKHASH
              key        : Key,
              data       : Data]
=============================================================================
