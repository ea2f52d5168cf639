----------------------- MODULE BranchPredictorsProofs -----------------------
(***************************************************************************)
(* For every table size and every trace: the predictors stay inside their   *)
(* tables, and each of their counters keeps the promises of a two-bit       *)
(* counter to the branches that use it.                                     *)
(***************************************************************************)
EXTENDS BranchPredictors, TLAPS

USE DEF NOT_TAKEN, TAKEN, Direction

-----------------------------------------------------------------------------
(* Masking an address or a history register stays inside the table.         *)
LEMMA ModRange ==
    ASSUME NEW n \in Nat \ {0}, NEW x \in Nat
    PROVE  x % n \in 0 .. n - 1
OBVIOUS

LEMMA IndexType ==
    ASSUME NEW PC \in PCs
    PROVE  /\ index(PC) \in BitsatIndex
           /\ phtIndex(PC) \in PhtIndex
           /\ bhtIndex(PC) \in BhtIndex
<1>1. PC \in Nat
  BY AddressAssumption
<1>2. PC \div PHT_TABLES \in Nat
  BY <1>1, TableAssumption
<1> QED
  BY <1>1, <1>2, ModRange, TableAssumption
     DEF index, phtIndex, bhtIndex, BitsatIndex, PhtIndex, BhtIndex

(* PATTERNS is even, so that the shifted history leaves its last bit free.  *)
LEMMA PatternType ==
    ASSUME NEW old \in Pattern, NEW dir \in Direction
    PROVE  newPattern(old, dir) \in Pattern
<1> USE TableAssumption
<1>1. (2 * old) % PATTERNS \in 0 .. PATTERNS - 1
  BY ModRange DEF Pattern
<1>2. PATTERNS \in Nat /\ PATTERNS = 2 * (PATTERNS \div 2)
  OBVIOUS
<1>3. (2 * old) % PATTERNS # PATTERNS - 1
  <2>1. CASE 2 * old < PATTERNS
    <3>1. (2 * old) % PATTERNS = 2 * old
      BY <2>1 DEF Pattern
    <3> QED BY <3>1, <1>2 DEF Pattern
  <2>2. CASE 2 * old >= PATTERNS
    <3>1. (2 * old) % PATTERNS = 2 * old - PATTERNS
      BY <2>2 DEF Pattern
    <3> QED BY <3>1, <1>2 DEF Pattern
  <2> QED BY <2>1, <2>2 DEF Pattern
<1> QED BY <1>1, <1>3 DEF newPattern, Pattern

-----------------------------------------------------------------------------
(* One counter: training it with an outcome and noting whether the outcome  *)
(* was the one it predicted keeps its promise.                              *)
LEMMA TrainType ==
    ASSUME NEW state \in 0 .. 3, NEW dir \in Direction
    PROVE  Train(state, dir) \in 0 .. 3 /\ Predict(state) \in Direction
BY DEF Train, Predict

LEMMA NotedType ==
    ASSUME NEW log \in Log, NEW dir \in Direction, NEW pred \in Direction
    PROVE  Noted(log, pred, dir) \in Log
BY DEF Noted, Log

LEMMA TrainSettled ==
    ASSUME NEW state \in 0 .. 3, NEW dir \in Direction, NEW log \in Log,
           Settled(state, log)
    PROVE  Settled(Train(state, dir), Noted(log, Predict(state), dir))
<1> DEFINE new == Noted(log, Predict(state), dir)
<1>1. /\ log.changes \in Nat /\ log.missed \in Nat /\ log.last \in {0, 1}
      /\ log.run \in 0 .. 3 /\ log.before \in 0 .. 3
  BY DEF Log
<1>2. /\ new.changes = log.changes + (IF dir # log.last THEN 1 ELSE 0)
      /\ new.missed = log.missed + (IF dir # Predict(state) THEN 1 ELSE 0)
      /\ new.last = dir
      /\ new.run = IF dir # log.last THEN 1
                   ELSE IF log.run < 3 THEN log.run + 1 ELSE 3
      /\ new.before = IF dir # log.last THEN log.run ELSE log.before
  BY DEF Noted
<1> HIDE DEF new
<1>3. Reach(Train(state, dir), new)
  <2>1. Reach(state, log) /\ Train(state, dir) \in 0 .. 3
    BY TrainType DEF Settled
  <2>2. /\ dir = TAKEN => Train(state, dir) >= new.run
        /\ dir = NOT_TAKEN => Train(state, dir) <= 3 - new.run
    <3>1. CASE dir = log.last
      BY <1>1, <1>2, <2>1, <3>1 DEF Reach, Train
    <3>2. CASE dir # log.last
      BY <1>1, <1>2, <2>1, <3>2 DEF Reach, Train
    <3> QED BY <3>1, <3>2
  <2>3. new.run = 1 /\ new.before = 3
          => Train(state, dir) = (IF dir = TAKEN THEN 1 ELSE 2)
    <3>1. CASE dir = log.last
      BY <1>1, <1>2, <2>1, <3>1 DEF Reach, Train
    <3>2. CASE dir # log.last
      BY <1>1, <1>2, <2>1, <3>2 DEF Reach, Train
    <3> QED BY <3>1, <3>2
  <2>4. new.run # 0
    BY <1>1, <1>2
  <2> QED BY <1>2, <2>2, <2>3, <2>4 DEF Reach
<1>4. new.missed + Credit(Train(state, dir), new) <= 2 * new.changes
  <2>1. CASE state = 0
    BY <1>1, <1>2, <2>1 DEF Settled, Reach, Train, Predict, Credit
  <2>2. CASE state = 1
    BY <1>1, <1>2, <2>2 DEF Settled, Reach, Train, Predict, Credit
  <2>3. CASE state = 2
    BY <1>1, <1>2, <2>3 DEF Settled, Reach, Train, Predict, Credit
  <2>4. CASE state = 3
    BY <1>1, <1>2, <2>4 DEF Settled, Reach, Train, Predict, Credit
  <2> QED BY <2>1, <2>2, <2>3, <2>4
<1> QED BY <1>3, <1>4 DEF Settled, new

LEMMA SettledMeans ==
    ASSUME NEW state \in 0 .. 3, NEW log \in Log, Settled(state, log)
    PROVE  TwicePerChange(log) /\ FollowsHabit(state, log)
<1>1. /\ log.changes \in Nat /\ log.missed \in Nat /\ log.last \in {0, 1}
      /\ log.run \in 0 .. 3 /\ log.before \in 0 .. 3
  BY DEF Log
<1>2. Credit(state, log) \in Nat
  BY <1>1 DEF Credit
<1>3. TwicePerChange(log)
  BY <1>1, <1>2 DEF Settled, TwicePerChange
<1>4. FollowsHabit(state, log)
  BY <1>1 DEF Settled, Reach, FollowsHabit, Predict
<1> QED BY <1>3, <1>4

-----------------------------------------------------------------------------
LEMMA InitInv == Init => IInv
<1> SUFFICES ASSUME Init PROVE IInv
    OBVIOUS
<1>1. EmptyLog \in Log /\ Settled(1, EmptyLog)
  BY DEF EmptyLog, Log, Settled, Credit, Reach
<1>2. TypeOK
  BY <1>1, TableAssumption DEF Init, TypeOK, Pattern
<1>3. CounterInv
  BY <1>1 DEF Init, CounterInv
<1>4. PredictionInv
  BY DEF Init, PredictionInv
<1> QED BY <1>2, <1>3, <1>4 DEF IInv

(* Training the counter a prediction was taken from.                        *)
LEMMA UpdateInv == IInv /\ UpdatePredictors => IInv'
<1> SUFFICES ASSUME IInv, UpdatePredictors PROVE IInv'
    OBVIOUS
<1> DEFINE i == index(branch.PC)
           p == phtIndex(branch.PC)
           b == bhtIndex(branch.PC)
           h == papbht[b]
           dir == branch.taken
<1>1. TypeOK /\ CounterInv /\ PredictionInv /\ pc = "update"
  BY DEF IInv, UpdatePredictors
<1>2. branch.PC \in PCs /\ dir \in Direction
  BY <1>1 DEF TypeOK, Branch
<1>3. i \in BitsatIndex /\ p \in PhtIndex /\ b \in BhtIndex
  BY <1>2, IndexType
<1>4. h \in Pattern
  BY <1>1, <1>3 DEF TypeOK
<1>5. /\ predDir_2bitsat = Predict(bitsat[i])
      /\ predDir_2level = Predict(pappht[p][h])
  BY <1>1 DEF PredictionInv, GetPrediction_2bitsat, GetPrediction_2level
<1>6. /\ bitsat' = [bitsat EXCEPT ![i] = Train(@, dir)]
      /\ bitsat_log' = [bitsat_log EXCEPT ![i] = Noted(@, predDir_2bitsat, dir)]
      /\ pappht' = [pappht EXCEPT ![p][h] = Train(@, dir)]
      /\ papbht' = [papbht EXCEPT ![b] = newPattern(h, dir)]
      /\ pht_log' = [pht_log EXCEPT ![p][h] = Noted(@, predDir_2level, dir)]
  BY DEF UpdatePredictors, UpdatePredictor_2bitsat, UpdatePredictor_2level,
         Trained
<1>7. newPattern(h, dir) \in Pattern
  BY <1>2, <1>4, PatternType
<1> HIDE DEF i, p, b, h
<1>8. /\ bitsat[i] \in 0 .. 3 /\ bitsat_log[i] \in Log
      /\ pappht[p][h] \in 0 .. 3 /\ pht_log[p][h] \in Log
  BY <1>1, <1>3, <1>4 DEF TypeOK
<1>9. TypeOK'
  <2>1. bitsat' \in [BitsatIndex -> 0 .. 3]
    BY <1>1, <1>2, <1>6, <1>8, TrainType DEF TypeOK
  <2>2. papbht' \in [BhtIndex -> Pattern]
    BY <1>1, <1>6, <1>7 DEF TypeOK
  <2>3. pappht' \in [PhtIndex -> [Pattern -> 0 .. 3]]
    <3>1. Train(pappht[p][h], dir) \in 0 .. 3
      BY <1>2, <1>8, TrainType
    <3> QED BY <1>1, <1>6, <3>1 DEF TypeOK
  <2>4. bitsat_log' \in [BitsatIndex -> Log]
    BY <1>1, <1>2, <1>6, <1>8, NotedType DEF TypeOK
  <2>5. pht_log' \in [PhtIndex -> [Pattern -> Log]]
    <3>1. Noted(pht_log[p][h], predDir_2level, dir) \in Log
      BY <1>1, <1>2, <1>8, NotedType DEF TypeOK
    <3> QED BY <1>1, <1>6, <3>1 DEF TypeOK
  <2> QED BY <1>1, <2>1, <2>2, <2>3, <2>4, <2>5 DEF TypeOK, UpdatePredictors
<1>10. CounterInv'
  <2>1. ASSUME NEW j \in BitsatIndex
        PROVE  Settled(bitsat'[j], bitsat_log'[j])
    <3>1. CASE j = i
      <4>1. /\ bitsat'[j] = Train(bitsat[i], dir)
            /\ bitsat_log'[j] = Noted(bitsat_log[i], Predict(bitsat[i]), dir)
        BY <1>1, <1>3, <1>5, <1>6, <3>1 DEF TypeOK
      <4>2. Settled(bitsat[i], bitsat_log[i])
        BY <1>1, <1>3 DEF CounterInv
      <4> QED BY <4>1, <4>2, <1>2, <1>8, TrainSettled
    <3>2. CASE j # i
      <4>1. bitsat'[j] = bitsat[j] /\ bitsat_log'[j] = bitsat_log[j]
        BY <1>1, <1>6, <3>2 DEF TypeOK
      <4> QED BY <4>1, <1>1 DEF CounterInv
    <3> QED BY <3>1, <3>2
  <2>2. ASSUME NEW q \in PhtIndex, NEW g \in Pattern
        PROVE  Settled(pappht'[q][g], pht_log'[q][g])
    <3>1. CASE q = p /\ g = h
      <4>1. /\ pappht'[q][g] = Train(pappht[p][h], dir)
            /\ pht_log'[q][g] = Noted(pht_log[p][h], Predict(pappht[p][h]), dir)
        BY <1>1, <1>3, <1>4, <1>5, <1>6, <3>1 DEF TypeOK
      <4>2. Settled(pappht[p][h], pht_log[p][h])
        BY <1>1, <1>3, <1>4 DEF CounterInv
      <4> QED BY <4>1, <4>2, <1>2, <1>8, TrainSettled
    <3>2. CASE ~(q = p /\ g = h)
      <4>1. pappht'[q][g] = pappht[q][g] /\ pht_log'[q][g] = pht_log[q][g]
        BY <1>1, <1>6, <3>2 DEF TypeOK
      <4> QED BY <4>1, <1>1 DEF CounterInv
    <3> QED BY <3>1, <3>2
  <2> QED BY <2>1, <2>2 DEF CounterInv
<1>11. PredictionInv'
  BY DEF UpdatePredictors, PredictionInv
<1> QED BY <1>9, <1>10, <1>11 DEF IInv

LEMMA NextInv == IInv /\ [Next]_vars => IInv'
<1> SUFFICES ASSUME IInv, [Next]_vars PROVE IInv'
    OBVIOUS
<1> USE DEF IInv
<1>1. CASE UpdatePredictors
  BY <1>1, UpdateInv
<1>2. CASE GetPredictions
  <2>1. /\ UNCHANGED <<branch, bitsat, papbht, pappht, bitsat_log, pht_log>>
        /\ predDir_2bitsat' = GetPrediction_2bitsat(branch.PC)
        /\ predDir_2level' = GetPrediction_2level(branch.PC)
    BY <1>2 DEF GetPredictions, tables
  <2>2. /\ predDir_2bitsat' \in Direction /\ predDir_2level' \in Direction
    BY <2>1 DEF GetPrediction_2bitsat, GetPrediction_2level, Predict
  <2>3. TypeOK'
    BY <1>2, <2>1, <2>2 DEF TypeOK, GetPredictions, counters
  <2>4. CounterInv'
    BY <2>1 DEF CounterInv
  <2>5. PredictionInv'
    BY <2>1 DEF PredictionInv, GetPrediction_2bitsat, GetPrediction_2level
  <2> QED BY <2>3, <2>4, <2>5
<1>3. CASE EndOfTrace \/ OtherRecord \/ \E b \in Branch : BranchRecord(b)
  <2>1. /\ UNCHANGED <<bitsat, papbht, pappht, bitsat_log, pht_log>>
        /\ pc' # "update"
    BY <1>3 DEF EndOfTrace, OtherRecord, BranchRecord, tables
  <2>2. TypeOK'
    BY <1>3, <2>1 DEF TypeOK, EndOfTrace, OtherRecord, BranchRecord, counters
  <2>3. CounterInv' /\ PredictionInv'
    BY <2>1 DEF CounterInv, PredictionInv
  <2> QED BY <2>2, <2>3
<1>4. CASE UNCHANGED vars
  BY <1>4 DEF vars, counters, TypeOK, CounterInv, PredictionInv,
              GetPrediction_2bitsat, GetPrediction_2level
<1> QED BY <1>1, <1>2, <1>3, <1>4 DEF Next

-----------------------------------------------------------------------------
(***************************************************************************)
(* The inductive invariant of the predictors, for every table size and      *)
(* every trace.                                                             *)
(***************************************************************************)
THEOREM PredictorInvariant == Spec => []IInv
BY InitInv, NextInv, PTL DEF Spec

(***************************************************************************)
(* Every index and every history pattern stays inside its table and every   *)
(* counter inside its two bits.                                             *)
(***************************************************************************)
THEOREM PredictorTypes == Spec => []TypeOK
<1>1. IInv => TypeOK BY DEF IInv
<1> QED BY <1>1, PredictorInvariant, PTL

(***************************************************************************)
(* No counter of 2bitsat, and no counter of 2level, is mispredicted more    *)
(* than twice for each time the branches that use it change direction.      *)
(***************************************************************************)
THEOREM MispredictionBound ==
    Spec => [](BitsatMispredictions /\ PatternMispredictions)
<1>1. IInv => BitsatMispredictions /\ PatternMispredictions
  BY SettledMeans DEF IInv, CounterInv, TypeOK, BitsatMispredictions,
                      PatternMispredictions
<1> QED BY <1>1, PredictorInvariant, PTL

(***************************************************************************)
(* Every counter follows two equal outcomes and forgives one odd one.       *)
(***************************************************************************)
THEOREM HysteresisCorrect == Spec => []Hysteresis
<1>1. IInv => Hysteresis
  BY SettledMeans DEF IInv, CounterInv, TypeOK, Hysteresis
<1> QED BY <1>1, PredictorInvariant, PTL
=============================================================================
