-------------------------- MODULE BranchPredictors --------------------------
(***************************************************************************)
(* Lab2-Branch-Predictor: the two-bit saturating predictor (2bitsat) and    *)
(* the private-history two-level predictor (2level, PAp) of predictor.cc,   *)
(* driven by main.cc.  For every conditional branch of the trace main asks  *)
(* every predictor for its prediction, then updates each with the outcome   *)
(* and counts the mispredictions.  The third predictor (openend) shares no  *)
(* state with these two and is not part of this module.                     *)
(*                                                                         *)
(* Masking with 2^n - 1 is % with the table size, shifting is \div and *.   *)
(* bitsat_log and pht_log are history variables: of every counter, how      *)
(* often the branches that used it changed direction and were mispredicted, *)
(* and the lengths (up to 3) of the last two runs of equal outcomes.        *)
(***************************************************************************)
EXTENDS Integers

CONSTANTS
    BITSAT_SIZE,        \* counters of 2bitsat (4096)
    PHT_TABLES,         \* pattern tables of 2level, selected by the PC (8)
    BHT_SIZE,           \* history registers of 2level (512)
    PATTERNS,           \* values of a history register (64)
    PCs,                \* the addresses branches are at
    MaxInst             \* bound on the records read

ASSUME TableAssumption ==
    /\ BITSAT_SIZE \in Nat \ {0} /\ PHT_TABLES \in Nat \ {0}
    /\ BHT_SIZE \in Nat \ {0}
    /\ PATTERNS \in Nat \ {0} /\ PATTERNS % 2 = 0
ASSUME AddressAssumption == PCs \subseteq Nat

VARIABLES
    pc,                 \* what main does next
    branch,             \* the record that was read
    bitsat, papbht, pappht,
    predDir_2bitsat, predDir_2level,
    numInst, numCondBranch, numMispred_2bitsat, numMispred_2level,
    bitsat_log, pht_log

counters == <<numInst, numCondBranch, numMispred_2bitsat, numMispred_2level>>
vars == <<pc, branch, bitsat, papbht, pappht, predDir_2bitsat,
          predDir_2level, counters, bitsat_log, pht_log>>

NOT_TAKEN == 0
TAKEN     == 1
Direction == {NOT_TAKEN, TAKEN}
Branch    == [PC : PCs, taken : Direction]

BitsatIndex == 0 .. BITSAT_SIZE - 1
PhtIndex    == 0 .. PHT_TABLES - 1
BhtIndex    == 0 .. BHT_SIZE - 1
Pattern     == 0 .. PATTERNS - 1
Log         == [changes : Nat, missed : Nat, last : Direction,
                run : 0 .. 3, before : 0 .. 3]
EmptyLog    == [changes |-> 0, missed |-> 0, last |-> NOT_TAKEN,
                run |-> 0, before |-> 0]

TypeOK ==
    /\ pc \in {"read", "predict", "update", "done"}
    /\ branch \in Branch
    /\ bitsat \in [BitsatIndex -> 0 .. 3]
    /\ papbht \in [BhtIndex -> Pattern]
    /\ pappht \in [PhtIndex -> [Pattern -> 0 .. 3]]
    /\ predDir_2bitsat \in Direction /\ predDir_2level \in Direction
    /\ numInst \in Nat /\ numCondBranch \in Nat
    /\ numMispred_2bitsat \in Nat /\ numMispred_2level \in Nat
    /\ bitsat_log \in [BitsatIndex -> Log]
    /\ pht_log \in [PhtIndex -> [Pattern -> Log]]

-----------------------------------------------------------------------------
(* A two-bit counter: 0 and 1 predict not taken, 2 and 3 taken; the outcome *)
(* moves it by one, up to its ends.                                         *)
Predict(state) == IF state \in {0, 1} THEN NOT_TAKEN ELSE TAKEN

\* Mutant: the counter wraps at its ends.
TrainWrapping(state, dir) ==
    IF dir = TAKEN THEN (state + 1) % 4 ELSE (state + 3) % 4
Train(state, dir) ==
    IF dir = NOT_TAKEN
      THEN IF state # 0 THEN state - 1 ELSE state
      ELSE IF state # 3 THEN state + 1 ELSE state

index(PC)    == PC % BITSAT_SIZE
phtIndex(PC) == PC % PHT_TABLES
bhtIndex(PC) == (PC \div PHT_TABLES) % BHT_SIZE

\* Mutant: a full history is not shifted any more.
newPatternKeepsOldest(old, dir) ==
    IF old >= PATTERNS \div 2 THEN old ELSE 2 * old + dir
newPattern(old, dir) == ((2 * old) % PATTERNS) + dir

Noted(log, predicted, dir) ==
    [changes |-> log.changes + (IF dir # log.last THEN 1 ELSE 0),
     missed  |-> log.missed + (IF dir # predicted THEN 1 ELSE 0),
     last    |-> dir,
     run     |-> IF dir # log.last THEN 1
                 ELSE IF log.run < 3 THEN log.run + 1 ELSE 3,
     before  |-> IF dir # log.last THEN log.run ELSE log.before]

-----------------------------------------------------------------------------
(* InitPredictor_2bitsat, InitPredictor_2level and the variables of main.   *)
Init ==
    /\ pc = "read"
    /\ branch \in Branch
    /\ bitsat = [i \in BitsatIndex |-> 1]
    /\ papbht = [b \in BhtIndex |-> 0]
    /\ pappht = [p \in PhtIndex |-> [h \in Pattern |-> 1]]
    /\ predDir_2bitsat = NOT_TAKEN /\ predDir_2level = NOT_TAKEN
    /\ numInst = 0 /\ numCondBranch = 0
    /\ numMispred_2bitsat = 0 /\ numMispred_2level = 0
    /\ bitsat_log = [i \in BitsatIndex |-> EmptyLog]
    /\ pht_log = [p \in PhtIndex |-> [h \in Pattern |-> EmptyLog]]

tables == <<bitsat, papbht, pappht, bitsat_log, pht_log>>

(* GetNextRecord at the end of the trace: main prints and returns.          *)
EndOfTrace ==
    /\ pc = "read"
    /\ pc' = "done"
    /\ UNCHANGED <<branch, tables, predDir_2bitsat, predDir_2level, counters>>

(* GetNextRecord finds an instruction that is no conditional branch.        *)
OtherRecord ==
    /\ pc = "read" /\ numInst < MaxInst
    /\ numInst' = numInst + 1
    /\ UNCHANGED <<pc, branch, tables, predDir_2bitsat, predDir_2level,
                   numCondBranch, numMispred_2bitsat, numMispred_2level>>

(* GetNextRecord finds a conditional branch.                                *)
BranchRecord(b) ==
    /\ pc = "read" /\ numInst < MaxInst
    /\ branch' = b
    /\ numInst' = numInst + 1 /\ numCondBranch' = numCondBranch + 1
    /\ pc' = "predict"
    /\ UNCHANGED <<tables, predDir_2bitsat, predDir_2level,
                   numMispred_2bitsat, numMispred_2level>>

(* main asks for both predictions before it updates either predictor.       *)
GetPrediction_2bitsat(PC) == Predict(bitsat[index(PC)])
GetPrediction_2level(PC) ==
    Predict(pappht[phtIndex(PC)][papbht[bhtIndex(PC)]])

GetPredictions ==
    /\ pc = "predict"
    /\ predDir_2bitsat' = GetPrediction_2bitsat(branch.PC)
    /\ predDir_2level' = GetPrediction_2level(branch.PC)
    /\ pc' = "update"
    /\ UNCHANGED <<branch, tables, counters>>

UpdatePredictor_2bitsat(PC, resolveDir) ==
    /\ bitsat' = [bitsat EXCEPT ![index(PC)] = Train(@, resolveDir)]
    /\ bitsat_log' = [bitsat_log EXCEPT ![index(PC)] =
                        Noted(@, predDir_2bitsat, resolveDir)]

(* 2level trains the counter of the pattern before the branch, then appends *)
(* the outcome to the history register.                                     *)
\* Mutant: the counter of the pattern after the branch is trained.
TrainedNew(PC, resolveDir) == newPattern(papbht[bhtIndex(PC)], resolveDir)
Trained(PC, resolveDir) == papbht[bhtIndex(PC)]

UpdatePredictor_2level(PC, resolveDir) ==
    LET table == phtIndex(PC)
        used  == papbht[bhtIndex(PC)]
    IN  /\ pappht' = [pappht EXCEPT ![table][Trained(PC, resolveDir)] =
                        Train(@, resolveDir)]
        /\ papbht' = [papbht EXCEPT ![bhtIndex(PC)] =
                        newPattern(used, resolveDir)]
        /\ pht_log' = [pht_log EXCEPT ![table][used] =
                        Noted(@, predDir_2level, resolveDir)]

UpdatePredictors ==
    /\ pc = "update"
    /\ UpdatePredictor_2bitsat(branch.PC, branch.taken)
    /\ UpdatePredictor_2level(branch.PC, branch.taken)
    /\ numMispred_2bitsat' = numMispred_2bitsat
                    + (IF predDir_2bitsat # branch.taken THEN 1 ELSE 0)
    /\ numMispred_2level' = numMispred_2level
                    + (IF predDir_2level # branch.taken THEN 1 ELSE 0)
    /\ pc' = "read"
    /\ UNCHANGED <<branch, predDir_2bitsat, predDir_2level, numInst,
                   numCondBranch>>

Next ==
    \/ EndOfTrace \/ OtherRecord
    \/ \E b \in Branch : BranchRecord(b)
    \/ GetPredictions \/ UpdatePredictors

Spec == Init /\ [][Next]_vars

-----------------------------------------------------------------------------
(***************************************************************************)
(* What a two-bit counter promises: the branches that share it are          *)
(* mispredicted at most twice for every time they change direction.  It     *)
(* holds of every 2bitsat counter, and of every counter of 2level, whose    *)
(* branches are those that found that pattern in their history register:    *)
(* there only because 2level trains the counter it predicted from, before   *)
(* it shifts the history.                                                   *)
(***************************************************************************)
TwicePerChange(log) == log.missed <= 2 * log.changes

BitsatMispredictions == \A i \in BitsatIndex : TwicePerChange(bitsat_log[i])
PatternMispredictions ==
    \A p \in PhtIndex, h \in Pattern : TwicePerChange(pht_log[p][h])

(***************************************************************************)
(* Hysteresis: two outcomes in a row decide the next prediction, and one    *)
(* odd outcome after three equal ones does not turn it.                     *)
(***************************************************************************)
FollowsHabit(state, log) ==
    /\ log.run >= 2 => Predict(state) = log.last
    /\ log.run = 1 /\ log.before = 3 => Predict(state) # log.last

Hysteresis ==
    /\ \A i \in BitsatIndex : FollowsHabit(bitsat[i], bitsat_log[i])
    /\ \A p \in PhtIndex, h \in Pattern :
            FollowsHabit(pappht[p][h], pht_log[p][h])

(***************************************************************************)
(* The inductive invariant.  Credit: the mispredictions a counter may still *)
(* make before its next change are paid for by the changes so far.  Reach:  *)
(* how far a run of equal outcomes has pushed the counter.                  *)
(***************************************************************************)
Credit(state, log) ==
    CASE log.last = NOT_TAKEN /\ state = 3 -> 2
      [] log.last = NOT_TAKEN /\ state = 2 -> 1
      [] log.last = TAKEN /\ state = 1     -> 1
      [] log.last = TAKEN /\ state = 0     -> 2
      [] OTHER                             -> 0

Reach(state, log) ==
    /\ log.last = TAKEN => state >= log.run
    /\ log.last = NOT_TAKEN => state <= 3 - log.run
    /\ log.run = 0 => log.before = 0
    /\ log.run = 1 /\ log.before = 3
         => state = (IF log.last = TAKEN THEN 1 ELSE 2)

Settled(state, log) ==
    /\ log.missed + Credit(state, log) <= 2 * log.changes
    /\ Reach(state, log)

CounterInv ==
    /\ \A i \in BitsatIndex : Settled(bitsat[i], bitsat_log[i])
    /\ \A p \in PhtIndex, h \in Pattern :
            Settled(pappht[p][h], pht_log[p][h])

(* The prediction is still that of the tables when they are updated.        *)
PredictionInv ==
    pc = "update" => /\ predDir_2bitsat = GetPrediction_2bitsat(branch.PC)
                     /\ predDir_2level = GetPrediction_2level(branch.PC)

IInv == TypeOK /\ CounterInv /\ PredictionInv
=============================================================================
