------------------------------ MODULE CarExport ------------------------------
(***************************************************************************)
(* export_test_vector_file (src/src/lib.rs) writing the car: the main task *)
(* sends the traced blocks through a bounded channel to a writer task that *)
(* fills a shared buffer, and reads the buffer back.                       *)
(***************************************************************************)
EXTENDS Naturals, SequencesExt

CONSTANTS
    Cid,        \* identifiers of blocks, which stand for the blocks
    None,       \* no car yet
    Capacity    \* of the channel: 100

ASSUME CapacityAssumption == Capacity \in Nat \ {0}

VARIABLES
    traced, stored,     \* TracingBlockStore: the traced set, the base store
    pc,         \* main: "send" (the loop), "join", "read", "done" or "panic"
    todo,       \* what the iteration over traced has not come to
    sending,    \* the block of a pending tx.send
    channel,    \* bounded(Capacity)
    closed,     \* tx is dropped
    writer,     \* the task: "spawned", "locked", "writing" or "ended"
    buffer,     \* what the writer wrote: a header, then blocks
    car         \* car_bytes

vars == <<traced, stored, pc, todo, sending, channel, closed, writer, buffer, car>>

Ended == {"done", "panic"}

TypeOK ==
    /\ traced \in SUBSET Cid /\ stored \in SUBSET Cid
    /\ pc \in {"send", "join", "read"} \cup Ended
    /\ todo \in SUBSET traced
    /\ sending \in Seq(traced) /\ Len(sending) <= 1
    /\ channel \in Seq(traced) /\ Len(channel) <= Capacity
    /\ closed \in BOOLEAN
    /\ writer \in {"spawned", "locked", "writing", "ended"}
    /\ buffer \in [header : BOOLEAN, blocks : Seq(traced)]
    /\ car = None \/ car \in [header : BOOLEAN, blocks : Seq(traced)]

Init ==
    /\ traced \in SUBSET Cid
    /\ stored \in SUBSET Cid
    /\ pc = "send"
    /\ todo = traced
    /\ sending = <<>>
    /\ channel = <<>>
    /\ closed = FALSE
    /\ writer = "spawned"
    /\ buffer = [header |-> FALSE, blocks |-> <<>>]
    /\ car = None

-----------------------------------------------------------------------------
(* The main task *)

(* The next cid, in whatever order the hash set has; base.get(cid) is here. *)
NextBlock(c) ==
    /\ pc = "send"
    /\ sending = <<>>
    /\ c \in todo
    /\ c \in stored
    /\ todo' = todo \ {c}
    /\ sending' = <<c>>
    /\ UNCHANGED <<traced, stored, pc, channel, closed, writer, buffer, car>>

(* base.get(cid).unwrap().unwrap() panics; unwinding drops tx. *)
MissingBlock(c) ==
    /\ pc = "send"
    /\ sending = <<>>
    /\ c \in todo
    /\ c \notin stored
    /\ pc' = "panic"
    /\ closed' = TRUE
    /\ UNCHANGED <<traced, stored, todo, sending, channel, writer, buffer, car>>

(* mutant: the channel is unbounded *)
SendUnbounded ==
    /\ sending # <<>>
    /\ channel' = Append(channel, Head(sending))
    /\ sending' = <<>>
    /\ UNCHANGED <<traced, stored, pc, todo, closed, writer, buffer, car>>

(* mutant: the channel is tried once, and its refusal ignored *)
SendOnce ==
    /\ sending # <<>>
    /\ channel' = IF Len(channel) < Capacity THEN channel \o sending ELSE channel
    /\ sending' = <<>>
    /\ UNCHANGED <<traced, stored, pc, todo, closed, writer, buffer, car>>

(* tx.send(..).await completes when the channel has room. *)
Send ==
    /\ sending # <<>>
    /\ Len(channel) < Capacity
    /\ channel' = Append(channel, Head(sending))
    /\ sending' = <<>>
    /\ UNCHANGED <<traced, stored, pc, todo, closed, writer, buffer, car>>

(* mutant: the writer is awaited before the sender is dropped *)
AwaitBeforeDrop ==
    /\ pc = "send"
    /\ todo = {} /\ sending = <<>>
    /\ pc' = "join"
    /\ UNCHANGED <<traced, stored, todo, sending, channel, closed, writer, buffer, car>>

DropSender ==
    /\ pc = "send"
    /\ todo = {} /\ sending = <<>>
    /\ pc' = "join"
    /\ closed' = TRUE
    /\ UNCHANGED <<traced, stored, todo, sending, channel, writer, buffer, car>>

(* mutant: the writer is not awaited *)
DoNotJoin ==
    /\ pc = "join"
    /\ pc' = "read"
    /\ UNCHANGED <<traced, stored, todo, sending, channel, closed, writer, buffer, car>>

Join ==
    /\ pc = "join"
    /\ writer = "ended"
    /\ pc' = "read"
    /\ UNCHANGED <<traced, stored, todo, sending, channel, closed, writer, buffer, car>>

(* the writer holds the lock from its first step to its last *)
Locked == writer \in {"locked", "writing"}

ReadBuffer ==
    /\ pc = "read"
    /\ ~Locked
    /\ car' = buffer
    /\ pc' = "done"
    /\ UNCHANGED <<traced, stored, todo, sending, channel, closed, writer, buffer>>

MainStep == (\E c \in Cid : NextBlock(c) \/ MissingBlock(c))
              \/ Send \/ DropSender \/ Join \/ ReadBuffer

-----------------------------------------------------------------------------
(* The writer task *)

TakeLock ==
    /\ writer = "spawned"
    /\ writer' = "locked"
    /\ UNCHANGED <<traced, stored, pc, todo, sending, channel, closed, buffer, car>>

WriteHeader ==
    /\ writer = "locked"
    /\ buffer' = [buffer EXCEPT !.header = TRUE]
    /\ writer' = "writing"
    /\ UNCHANGED <<traced, stored, pc, todo, sending, channel, closed, car>>

WriteBlock ==
    /\ writer = "writing"
    /\ channel # <<>>
    /\ buffer' = [buffer EXCEPT !.blocks = Append(@, Head(channel))]
    /\ channel' = Tail(channel)
    /\ UNCHANGED <<traced, stored, pc, todo, sending, closed, writer, car>>

(* The stream ends when the sender is gone and the channel is empty. *)
EndStream ==
    /\ writer = "writing"
    /\ channel = <<>> /\ closed
    /\ writer' = "ended"
    /\ UNCHANGED <<traced, stored, pc, todo, sending, channel, closed, buffer, car>>

WriterStep == TakeLock \/ WriteHeader \/ WriteBlock \/ EndStream

(* both tasks are over: not a deadlock *)
Over == pc \in Ended /\ writer = "ended" /\ UNCHANGED vars

Next == MainStep \/ WriterStep \/ Over

(***************************************************************************)
(* The executor polls a task that can make progress: the main task is in   *)
(* block_on, the writer on async_std's thread pool.                        *)
(***************************************************************************)
Fairness == WF_vars(MainStep) /\ WF_vars(WriterStep)

Spec == Init /\ [][Next]_vars
FairSpec == Spec /\ Fairness

-----------------------------------------------------------------------------
(* Properties *)

(***************************************************************************)
(* No block is lost or duplicated between the traced set and the buffer:   *)
(* what is written, in the channel and being sent is what the iteration    *)
(* has come to, once each.  In which order is left open, as it is by the   *)
(* hash set that the blocks come from.                                     *)
(***************************************************************************)
Flow == buffer.blocks \o channel \o sending

NothingLost ==
    /\ IsInjective(Flow)
    /\ Range(Flow) = traced \ todo

(***************************************************************************)
(* Neither a full channel nor the lock nor the join leaves the two tasks   *)
(* waiting for each other: both end.                                       *)
(***************************************************************************)
BothEnd == <>(pc \in Ended /\ writer = "ended")

(***************************************************************************)
(* The export keeps the promise of CarFile: the car main reads is complete *)
(* and has no block twice, because main waits for the writer; it panics    *)
(* only when a traced block is missing from the store.                     *)
(***************************************************************************)
File == INSTANCE CarFile
          WITH status <- IF pc \in Ended THEN pc ELSE "exporting"

KeepsPromise == File!FileSpec
=============================================================================
