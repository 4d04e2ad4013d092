------------------------------- MODULE CarFile -------------------------------
(***************************************************************************)
(* What the export of a test vector promises of its car: it holds every    *)
(* block that was traced, once each, behind a header; or, when a traced    *)
(* block is not in the store, there is no car and the export panics.       *)
(***************************************************************************)
EXTENDS SequencesExt

CONSTANTS Cid,      \* identifiers of blocks, which stand for the blocks
          None      \* no car yet

VARIABLES
    traced,     \* TracingBlockStore.traced, once the trees are built
    stored,     \* the blocks of TracingBlockStore.base
    car,        \* what main read from the shared buffer
    status      \* "exporting", "done", or "panic"

fileVars == <<traced, stored, car, status>>

(* every element of S, once each *)
IsListing(s, S) ==
    /\ s \in Seq(S)
    /\ Range(s) = S
    /\ IsInjective(s)

IsCarOf(c, S) == c.header /\ IsListing(c.blocks, S)

FileInit ==
    /\ traced \in SUBSET Cid
    /\ stored \in SUBSET Cid
    /\ car = None
    /\ status = "exporting"

Publish ==
    /\ status = "exporting"
    /\ traced \subseteq stored
    /\ status' = "done"
    /\ IsCarOf(car', traced)
    /\ UNCHANGED <<traced, stored>>

GiveUp ==
    /\ status = "exporting"
    /\ ~(traced \subseteq stored)
    /\ status' = "panic"
    /\ UNCHANGED <<traced, stored, car>>

FileSpec == FileInit /\ [][Publish \/ GiveUp]_fileVars
=============================================================================
