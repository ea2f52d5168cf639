--------------------------- MODULE MicroBenchmark ---------------------------
(***************************************************************************)
(* The program mb.c was written to show what the 2level predictor learns:   *)
(* a loop around one conditional branch that is taken every period-th       *)
(* iteration (test 1: period 7, test 2: period 8; "these results can be     *)
(* obtained by commenting out the other test and running each               *)
(* individually").  Compiled as mb.c's comments show, the loop branch is    *)
(* at the end and is reached first, with i = 0.                             *)
(*                                                                         *)
(* The predictors see its branches instead of an arbitrary trace.           *)
(***************************************************************************)
EXTENDS BranchPredictors

CONSTANTS
    LoopPC, TestPC,     \* the addresses of the two branches
    Iterations,         \* of the loop (100000)
    Periods,            \* the moduli that are tried
    HistBits            \* PATTERNS = 2^HistBits (6)

ASSUME BranchesAssumption ==
    /\ {LoopPC, TestPC} \subseteq PCs
    /\ PATTERNS = 2^HistBits

VARIABLES
    at,                 \* the branch of mb.c that is executed next, or "exit"
    i, period

allVars == <<vars, at, i, period>>

TestTaken(n) == n % period = 0

MBInit ==
    /\ Init /\ branch = [PC |-> LoopPC, taken |-> TAKEN]
    /\ at = "loop"
    /\ i = 0
    /\ period \in Periods

LoopBranch ==
    /\ at = "loop"
    /\ BranchRecord([PC    |-> LoopPC,
                     taken |-> IF i < Iterations THEN TAKEN ELSE NOT_TAKEN])
    /\ at' = IF i < Iterations THEN "test" ELSE "exit"
    /\ UNCHANGED <<i, period>>

TestBranch ==
    /\ at = "test"
    /\ BranchRecord([PC    |-> TestPC,
                     taken |-> IF TestTaken(i) THEN TAKEN ELSE NOT_TAKEN])
    /\ at' = "loop"
    /\ i' = i + 1
    /\ UNCHANGED period

Exit ==
    /\ at = "exit"
    /\ EndOfTrace
    /\ UNCHANGED <<at, i, period>>

Predictor ==
    /\ GetPredictions \/ UpdatePredictors
    /\ UNCHANGED <<at, i, period>>

MBNext == LoopBranch \/ TestBranch \/ Exit \/ Predictor

-----------------------------------------------------------------------------
(***************************************************************************)
(* "For branches that have a fixed pattern that can be fit in 6 bits, the   *)
(* 2level predictor is able to adapt and understand and predict all the     *)
(* future Taken/Not Taken values" (mb.c:4-6): a branch whose last HistBits  *)
(* outcomes tell its next one is not mispredicted again once the counters   *)
(* of its patterns have been trained; only the loop exit is.                *)
(***************************************************************************)
WarmUp == 2 * (HistBits + 1)

LearnsShortPatterns ==
    [][(period <= HistBits + 1 /\ i > WarmUp /\ at # "exit")
            => numMispred_2level' = numMispred_2level]_allVars
=============================================================================
