---------------------------- MODULE MCPredictors ----------------------------
(***************************************************************************)
(* The predictors of BranchPredictors for TLC, either on mb.c's loop or     *)
(* (at = "any") on every trace of a few records, at two addresses that      *)
(* share every table entry and a third that shares a history register.      *)
(* (Predictor of MicroBenchmark predicts and updates in both cases.)        *)
(***************************************************************************)
EXTENDS MicroBenchmark

CONSTANTS AliasingPCs, AnyRecords

AnyTrace ==
    /\ at = "any"
    /\ \/ numInst < AnyRecords /\ OtherRecord
       \/ numInst < AnyRecords
            /\ \E b \in [PC : AliasingPCs, taken : Direction] : BranchRecord(b)
       \/ EndOfTrace
    /\ UNCHANGED <<at, i, period>>

AnyInit ==
    /\ Init /\ branch = [PC |-> LoopPC, taken |-> TAKEN]
    /\ at = "any" /\ i = 0 /\ period = 0

MCInit == MBInit \/ AnyInit
MCNext == MBNext \/ AnyTrace
MCSpec == MCInit /\ [][MCNext]_allVars
=============================================================================
