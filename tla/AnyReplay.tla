------------------------------ MODULE AnyReplay ------------------------------
(***************************************************************************)
(* The extraction of transaction.rs against any node: whatever the four    *)
(* requests answer, whether or not one EVM could have answered it.         *)
(***************************************************************************)
EXTENDS TraceReplay

CONSTANT Answers    \* what the node may answer about the transaction

ASSUME AnswersAssumption == \A answer \in Answers : IsRpcAnswer(answer)

Next ==
    \/ pc = "fetch" /\ \E answer \in Answers : Fetch(answer)
    \/ ReplayStep

Spec == Init /\ [][Next]_replayVars
=============================================================================
