--------------------------- MODULE CarExportProofs ---------------------------
(***************************************************************************)
(* The export implements CarFile, for every set of blocks and every        *)
(* capacity of the channel.                                                *)
(***************************************************************************)
EXTENDS CarExport, SequenceTheorems, TLAPS

(***************************************************************************)
(* How far each task is tells what is left to be written.                  *)
(***************************************************************************)
Phases ==
    /\ pc = "send" <=> ~closed
    /\ sending # <<>> => pc = "send"
    /\ pc \in {"join", "read", "done"} => todo = {}
    /\ pc = "panic" => ~(traced \subseteq stored)
    /\ pc \in {"read", "done"} => writer = "ended"
    /\ writer \in {"writing", "ended"} => buffer.header
    /\ writer = "ended" => closed /\ channel = <<>>
    /\ traced \ todo \subseteq stored

IndInv == TypeOK /\ NothingLost /\ Phases

-----------------------------------------------------------------------------
(* What flows from the traced set to the buffer *)

LEMMA FlowType ==
    ASSUME TypeOK
    PROVE  Flow \in Seq(traced)
BY ConcatProperties DEF TypeOK, Flow

(* Appending a new element to a sequence without repetitions. *)
LEMMA AppendNew ==
    ASSUME NEW S, NEW s \in Seq(S), IsInjective(s), NEW e \in S, e \notin Range(s)
    PROVE  /\ IsInjective(s \o <<e>>)
           /\ Range(s \o <<e>>) = Range(s) \cup {e}
<1>1. /\ s \o <<e>> = Append(s, e)
      /\ Append(s, e) \in Seq(S)
      /\ Len(Append(s, e)) = Len(s) + 1
      /\ \A j \in 1 .. Len(s) : Append(s, e)[j] = s[j]
      /\ Append(s, e)[Len(s) + 1] = e
    BY AppendProperties, AppendIsConcat
<1>2. Len(s) \in Nat /\ DOMAIN s = 1 .. Len(s)
      /\ DOMAIN Append(s, e) = 1 .. Len(s) + 1
    BY <1>1, LenProperties
<1>3. \A j \in 1 .. Len(s) : s[j] # e
    BY <1>2 DEF Range
<1>4. IsInjective(Append(s, e))
    BY <1>1, <1>2, <1>3 DEF IsInjective
<1>5. Range(Append(s, e)) = Range(s) \cup {e}
    BY <1>1, <1>2 DEF Range
<1> QED BY <1>1, <1>4, <1>5

LEMMA HeadTail ==
    ASSUME NEW S, NEW s \in Seq(S), s # <<>>
    PROVE  /\ Head(s) \in S /\ Tail(s) \in Seq(S)
           /\ s = <<Head(s)>> \o Tail(s)
<1>1. Len(s) \in Nat \ {0}
    BY EmptySeq
<1>2. Head(s) \in S /\ Tail(s) \in Seq(S)
    BY HeadTailProperties
<1>3. s = <<s[1]>> \o SubSeq(s, 2, Len(s))
    BY <1>1, SubSeqRecursiveFirst, SubSeqFull
<1> QED BY <1>1, <1>2, <1>3, TailIsSubSeq

-----------------------------------------------------------------------------
(* The invariant *)

LEMMA InitEstablishes == Init => IndInv
<1> SUFFICES ASSUME Init PROVE IndInv
    OBVIOUS
<1>1. TypeOK
  <2>1. <<>> \in Seq(traced) /\ Len(<<>>) = 0
      BY EmptySeq
  <2>2. 0 <= Capacity
      BY CapacityAssumption
  <2>3. buffer \in [header : BOOLEAN, blocks : Seq(traced)]
      BY <2>1 DEF Init
  <2>4. /\ sending \in Seq(traced) /\ Len(sending) <= 1
        /\ channel \in Seq(traced) /\ Len(channel) <= Capacity
      BY <2>1, <2>2 DEF Init
  <2>5. /\ traced \in SUBSET Cid /\ stored \in SUBSET Cid
        /\ pc \in {"send", "join", "read"} \cup Ended
        /\ todo \in SUBSET traced
        /\ closed \in BOOLEAN
        /\ writer \in {"spawned", "locked", "writing", "ended"}
        /\ car = None
      BY DEF Init, Ended
  <2> QED BY <2>3, <2>4, <2>5 DEF TypeOK
<1>2. Flow = <<>>
    BY DEF Init, Flow
<1>3. NothingLost
    BY <1>2 DEF NothingLost, IsInjective, Range, Init
<1>4. Phases
    BY DEF Init, Phases
<1> QED BY <1>1, <1>3, <1>4 DEF IndInv

(* A block moves on, and the flow stays what it is. *)
LEMMA SendKeepsFlow ==
    ASSUME IndInv, Send
    PROVE  TypeOK' /\ Flow' = Flow
<1>1. sending \in Seq(traced) /\ sending # <<>> /\ Len(sending) <= 1
    BY DEF IndInv, TypeOK, Send
<1>2. /\ Head(sending) \in traced
      /\ sending = <<Head(sending)>> \o Tail(sending)
    BY <1>1, HeadTail
<1>3. sending = <<Head(sending)>>
  <2>1. Tail(sending) \in Seq(traced) /\ Len(Tail(sending)) = Len(sending) - 1
      BY <1>1, HeadTailProperties
  <2>2. Len(sending) = 1
    <3>1. Len(sending) \in Nat /\ Len(sending) # 0
        BY <1>1, EmptySeq, LenProperties
    <3> QED BY <1>1, <3>1
  <2>3. Tail(sending) = <<>>
    <3>1. Len(Tail(sending)) = 0
        BY <2>1, <2>2
    <3> QED BY <2>1, <3>1, EmptySeq
  <2>4. <<Head(sending)>> \in Seq(traced)
      BY <1>2
  <2> QED BY <1>2, <2>3, <2>4, ConcatEmptySeq
<1>4. /\ channel' \in Seq(traced)
      /\ Len(channel') = Len(channel) + 1
      /\ channel' = channel \o <<Head(sending)>>
    BY <1>2, AppendProperties, AppendIsConcat DEF IndInv, TypeOK, Send
<1>5. Flow' = Flow
  <2>1. Flow' = (buffer.blocks \o (channel \o sending)) \o <<>>
      BY <1>3, <1>4 DEF Flow, Send
  <2>2. /\ buffer.blocks \in Seq(traced) /\ channel \in Seq(traced)
        /\ sending \in Seq(traced)
      BY DEF IndInv, TypeOK
  <2>3. Flow = buffer.blocks \o (channel \o sending)
    <3>1. (buffer.blocks \o channel) \o sending
            = buffer.blocks \o (channel \o sending)
      <4> DEFINE b == buffer.blocks
      <4>1. \A s, t, u \in Seq(traced) : (s \o t) \o u = s \o (t \o u)
          BY ConcatAssociative
      <4>2. b \in Seq(traced) /\ channel \in Seq(traced) /\ sending \in Seq(traced)
          BY <2>2
      <4> HIDE DEF b
      <4>3. (b \o channel) \o sending = b \o (channel \o sending)
          BY <4>1, <4>2
      <4> QED BY <4>3 DEF b
    <3> QED BY <3>1 DEF Flow
  <2>4. buffer.blocks \o (channel \o sending) \in Seq(traced)
      BY <1>1, <2>2, ConcatProperties
  <2> QED BY <2>1, <2>3, <2>4, ConcatEmptySeq
<1>6. Len(channel) \in Nat /\ Capacity \in Nat
    BY CapacityAssumption, LenProperties DEF IndInv, TypeOK
<1>7. Len(channel') <= Capacity
    BY <1>4, <1>6 DEF Send
<1> QED BY <1>4, <1>5, <1>7 DEF IndInv, TypeOK, Send

LEMMA WriteKeepsFlow ==
    ASSUME IndInv, WriteBlock
    PROVE  TypeOK' /\ Flow' = Flow
<1>1. channel \in Seq(traced) /\ channel # <<>> /\ Len(channel) <= Capacity
    BY DEF IndInv, TypeOK, WriteBlock
<1>2. /\ Head(channel) \in traced /\ Tail(channel) \in Seq(traced)
      /\ channel = <<Head(channel)>> \o Tail(channel)
    BY <1>1, HeadTail
<1>3. Len(channel) \in Nat /\ Len(Tail(channel)) = Len(channel) - 1
    BY <1>1, HeadTailProperties, LenProperties
<1>4. /\ buffer'.blocks = buffer.blocks \o <<Head(channel)>>
      /\ buffer'.blocks \in Seq(traced)
      /\ buffer'.header = buffer.header
      /\ buffer' \in [header : BOOLEAN, blocks : Seq(traced)]
  <2>1. buffer.blocks \in Seq(traced)
      BY DEF IndInv, TypeOK
  <2>2. /\ Append(buffer.blocks, Head(channel)) \in Seq(traced)
        /\ Append(buffer.blocks, Head(channel)) = buffer.blocks \o <<Head(channel)>>
      BY <1>2, <2>1, AppendProperties, AppendIsConcat
  <2> QED BY <2>2 DEF IndInv, TypeOK, WriteBlock
<1>5. Flow' = Flow
  <2>1. <<Head(channel)>> \in Seq(traced) /\ buffer.blocks \in Seq(traced)
      BY <1>2 DEF IndInv, TypeOK
  <2>2. (buffer.blocks \o <<Head(channel)>>) \o Tail(channel)
          = buffer.blocks \o channel
      BY <1>2, <2>1, ConcatAssociative
  <2> QED BY <1>4, <2>2 DEF Flow, WriteBlock
<1>6. Len(channel') <= Capacity
    BY <1>1, <1>3, CapacityAssumption DEF WriteBlock
<1> QED BY <1>2, <1>4, <1>5, <1>6 DEF IndInv, TypeOK, WriteBlock

(* The next block is new to the flow. *)
LEMMA NextBlockExtendsFlow ==
    ASSUME NEW c \in Cid, IndInv, NextBlock(c)
    PROVE  TypeOK' /\ NothingLost'
<1>1. c \in traced /\ c \in todo /\ todo' = todo \ {c} /\ sending' = <<c>>
      /\ sending = <<>>
    BY DEF IndInv, TypeOK, NextBlock
<1>2. TypeOK'
    BY <1>1 DEF IndInv, TypeOK, NextBlock
<1>3. Flow \in Seq(traced) /\ c \notin Range(Flow) /\ IsInjective(Flow)
    BY <1>1, FlowType DEF IndInv, NothingLost
<1>4. Flow' = Flow \o <<c>>
  <2>1. buffer.blocks \o channel \in Seq(traced)
      BY ConcatProperties DEF IndInv, TypeOK
  <2>2. Flow = buffer.blocks \o channel
      BY <1>1, <2>1, ConcatEmptySeq DEF Flow
  <2> QED BY <1>1, <2>2 DEF Flow, NextBlock
<1>5. IsInjective(Flow') /\ Range(Flow') = Range(Flow) \cup {c}
    BY <1>1, <1>3, <1>4, AppendNew
<1>6. Range(Flow') = traced' \ todo'
    BY <1>1, <1>5 DEF IndInv, NothingLost, NextBlock, TypeOK
<1> QED BY <1>2, <1>5, <1>6 DEF NothingLost

LEMMA StepKeepsIndInv ==
    ASSUME IndInv, [Next]_vars
    PROVE  IndInv'
<1> USE DEF IndInv
<1>1. ASSUME NEW c \in Cid, NextBlock(c)
      PROVE  IndInv'
    BY <1>1, NextBlockExtendsFlow DEF NextBlock, Phases
<1>2. ASSUME NEW c \in Cid, MissingBlock(c)
      PROVE  IndInv'
  <2>1. TypeOK' /\ NothingLost'
      BY <1>2 DEF MissingBlock, TypeOK, NothingLost, Flow, Ended
  <2>2. Phases'
      BY <1>2 DEF MissingBlock, Phases, TypeOK
  <2> QED BY <2>1, <2>2
<1>3. CASE Send
  <2>1. TypeOK' /\ NothingLost'
      BY <1>3, SendKeepsFlow DEF NothingLost, Send
  <2>2. Phases'
      BY <1>3 DEF Send, Phases
  <2> QED BY <2>1, <2>2
<1>4. CASE DropSender
  <2>1. TypeOK' /\ NothingLost'
      BY <1>4 DEF DropSender, TypeOK, NothingLost, Flow
  <2>2. Phases'
      BY <1>4 DEF DropSender, Phases
  <2> QED BY <2>1, <2>2
<1>5. CASE Join
  <2>1. TypeOK' /\ NothingLost'
      BY <1>5 DEF Join, TypeOK, NothingLost, Flow
  <2>2. Phases'
      BY <1>5 DEF Join, Phases
  <2> QED BY <2>1, <2>2
<1>6. CASE ReadBuffer
  <2>1. TypeOK' /\ NothingLost'
      BY <1>6 DEF ReadBuffer, TypeOK, NothingLost, Flow, Ended
  <2>2. Phases'
      BY <1>6 DEF ReadBuffer, Phases
  <2> QED BY <2>1, <2>2
<1>7. CASE TakeLock
  <2>1. TypeOK' /\ NothingLost'
      BY <1>7 DEF TakeLock, TypeOK, NothingLost, Flow
  <2>2. Phases'
      BY <1>7 DEF TakeLock, Phases
  <2> QED BY <2>1, <2>2
<1>8. CASE WriteHeader
  <2>1. buffer' \in [header : BOOLEAN, blocks : Seq(traced)]
        /\ buffer'.header /\ buffer'.blocks = buffer.blocks
      BY <1>8 DEF WriteHeader, TypeOK
  <2>2. TypeOK' /\ NothingLost'
      BY <1>8, <2>1 DEF WriteHeader, TypeOK, NothingLost, Flow
  <2>3. Phases'
      BY <1>8, <2>1 DEF WriteHeader, Phases
  <2> QED BY <2>2, <2>3
<1>9. CASE WriteBlock
  <2>1. TypeOK' /\ NothingLost'
      BY <1>9, WriteKeepsFlow DEF NothingLost, WriteBlock
  <2>2. buffer'.header = buffer.header
      BY <1>9 DEF WriteBlock, TypeOK
  <2>3. Phases'
      BY <1>9, <2>2 DEF WriteBlock, Phases
  <2> QED BY <2>1, <2>3
<1>10. CASE EndStream
  <2>1. TypeOK' /\ NothingLost'
      BY <1>10 DEF EndStream, TypeOK, NothingLost, Flow
  <2>2. Phases'
      BY <1>10 DEF EndStream, Phases
  <2> QED BY <2>1, <2>2
<1>11. CASE UNCHANGED vars
    BY <1>11 DEF vars, TypeOK, NothingLost, Flow, Phases
<1> QED BY <1>1, <1>2, <1>3, <1>4, <1>5, <1>6, <1>7, <1>8, <1>9, <1>10, <1>11
        DEF Next, MainStep, WriterStep, Over

(* The invariant holds in every state of the export. *)
THEOREM IndInvHolds == Spec => []IndInv
<1>1. Init => IndInv
    BY InitEstablishes
<1>2. IndInv /\ [Next]_vars => IndInv'
    BY StepKeepsIndInv
<1> QED BY <1>1, <1>2, PTL DEF Spec

(* Every variable keeps its type, and the channel never holds more than its *)
(* capacity.                                                                *)
THEOREM TypeCorrect == Spec => []TypeOK
<1>1. IndInv => TypeOK
    BY DEF IndInv
<1> QED BY <1>1, IndInvHolds, PTL

(* Between the traced set and the buffer no block is lost or duplicated. *)
THEOREM NoBlockLost == Spec => []NothingLost
<1>1. IndInv => NothingLost
    BY DEF IndInv
<1> QED BY <1>1, IndInvHolds, PTL

-----------------------------------------------------------------------------
(* The refinement *)

(* When main reads the buffer, it is the car of the traced set. *)
LEMMA ReadIsPublish ==
    ASSUME IndInv, IndInv', ReadBuffer
    PROVE  File!Publish
<1>1. /\ pc = "read" /\ pc' = "done" /\ car' = buffer
      /\ UNCHANGED <<traced, stored>>
    BY DEF ReadBuffer
<1>2. todo = {} /\ sending = <<>> /\ channel = <<>> /\ buffer.header
    BY <1>1 DEF IndInv, Phases
<1>3. traced \subseteq stored
    BY <1>2 DEF IndInv, Phases
<1>4. Flow = buffer.blocks /\ buffer.blocks \in Seq(traced)
    BY <1>2, ConcatEmptySeq DEF IndInv, TypeOK, Flow
<1>5. IsInjective(buffer.blocks) /\ Range(buffer.blocks) = traced
    BY <1>2, <1>4 DEF IndInv, NothingLost
<1>6. File!IsListing(buffer.blocks, traced)
    BY <1>4, <1>5 DEF File!IsListing, File!Range, File!IsInjective,
                      Range, IsInjective
<1>7. File!IsCarOf(car', traced)
    BY <1>1, <1>2, <1>6 DEF File!IsCarOf
<1> QED BY <1>1, <1>3, <1>7 DEF File!Publish, Ended

LEMMA MissingIsGiveUp ==
    ASSUME NEW c \in Cid, IndInv, MissingBlock(c)
    PROVE  File!GiveUp
<1>1. c \in traced /\ c \notin stored
    BY DEF IndInv, TypeOK, MissingBlock
<1> QED BY <1>1 DEF File!GiveUp, MissingBlock, Ended

(* The export implements the promise of CarFile: it publishes the complete  *)
(* car, or panics because a traced block is missing from the store.         *)
THEOREM ExportKeepsPromise == Spec => KeepsPromise
<1>1. Init => File!FileInit
    BY DEF Init, File!FileInit, Ended
<1>2. IndInv /\ IndInv' /\ [Next]_vars
        => [File!Publish \/ File!GiveUp]_(File!fileVars)
  <2> SUFFICES ASSUME IndInv, IndInv', [Next]_vars
               PROVE  File!Publish \/ File!GiveUp \/ UNCHANGED File!fileVars
      OBVIOUS
  <2>1. CASE ReadBuffer
      BY <2>1, ReadIsPublish
  <2>2. CASE \E c \in Cid : MissingBlock(c)
      BY <2>2, MissingIsGiveUp
  <2>3. CASE \E c \in Cid : NextBlock(c)
      BY <2>3 DEF NextBlock, File!fileVars
  <2>4. CASE Send
      BY <2>4 DEF Send, File!fileVars
  <2>5. CASE DropSender \/ Join
      BY <2>5 DEF DropSender, Join, File!fileVars, Ended
  <2>6. CASE WriterStep
      BY <2>6 DEF WriterStep, TakeLock, WriteHeader, WriteBlock, EndStream,
                  File!fileVars
  <2>7. CASE UNCHANGED vars
      BY <2>7 DEF vars, File!fileVars
  <2> QED BY <2>1, <2>2, <2>3, <2>4, <2>5, <2>6, <2>7 DEF Next, MainStep, Over
<1> QED BY <1>1, <1>2, IndInvHolds, PTL DEF Spec, KeepsPromise, File!FileSpec
=============================================================================
