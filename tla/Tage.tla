-------------------------------- MODULE Tage --------------------------------
(***************************************************************************)
(* Lab2-Branch-Predictor/predictor.cc, openend: a TAGE predictor.  T0 is a  *)
(* two-level predictor, and tables 1 to N are tagged and indexed by ever    *)
(* longer histories, folded into the circular shift registers CSR.  The     *)
(* seven tables, written out one by one in the code, are one function here; *)
(* the widths and sizes of the code (the #defines) are parameters.          *)
(*                                                                         *)
(* A branch is predicted and then updated, before the next one is looked at *)
(* (main.cc).  Exclusive-or is that of the binary digits.  probability      *)
(* counts on from 2 without effect; 2 stands for all of these values.       *)
(***************************************************************************)
EXTENDS Integers, Sequences, FiniteSetsExt

CONSTANTS
    HIS_BITS,           \* <<8, 16, 32, 64, 128, 256, 512>>
    TAG_WIDTH,          \* 11
    NUM_TAGE_ENTRIES,   \* 1024 = 2^(TAG_WIDTH - 1)
    T0_PHRT_ENTRIES,    \* 1024
    T0_PHT_TABLES,      \* 8
    T0_PHT_ENTRIES,     \* 512
    USE_MAX, USE_INIT,  \* 255 and 128
    PCs,                \* addresses of conditional branches
    MaxBranches         \* bound on the branches of a trace

Pow2[k \in 0 .. TAG_WIDTH] == IF k = 0 THEN 1 ELSE 2 * Pow2[k - 1]

NUM_TAGE_TABLES == Len(HIS_BITS)
Tables  == 1 .. NUM_TAGE_TABLES
Entries == 0 .. NUM_TAGE_ENTRIES - 1
NUM_GHR_BITS == Max({HIS_BITS[t] : t \in Tables})

ASSUME TageAssumption ==
    /\ HIS_BITS \in Seq(Nat \ {0}) /\ HIS_BITS # <<>>
    /\ TAG_WIDTH \in Nat /\ TAG_WIDTH > 2
    /\ NUM_TAGE_ENTRIES = Pow2[TAG_WIDTH - 1]
    /\ {T0_PHRT_ENTRIES, T0_PHT_TABLES, T0_PHT_ENTRIES} \subseteq Nat \ {0}
    /\ T0_PHT_ENTRIES % 2 = 0
    /\ USE_INIT \in 1 .. USE_MAX /\ USE_MAX \in Nat
    /\ PCs \subseteq Nat

NOT_TAKEN == 0
TAKEN == 1

VARIABLES
    T0Phrt, T0Pht, GHR, CSR, T,
    providerComp, providerPred, providerIndex, altPred,
    probability, useCounter,
    branch,             \* the branch that was predicted and not updated
    predDir,            \* the direction predicted for it
    branches

provider == <<providerComp, providerPred, providerIndex, altPred>>
vars == <<T0Phrt, T0Pht, GHR, CSR, T, provider, probability, useCounter,
          branch, predDir, branches>>

NoBranch == -1

-----------------------------------------------------------------------------
(* The default predictor T0.                                                *)
phrtIndex(PC) == (PC \div 8) % T0_PHRT_ENTRIES
phtIndex(PC)  == PC % T0_PHT_TABLES
\* Mutant: the counter is compared with all of its modes, not half of them.
DirectionOfAllModes(mode) == IF mode <= 7 THEN NOT_TAKEN ELSE TAKEN
Direction(mode) == IF mode <= 3 THEN NOT_TAKEN ELSE TAKEN
Train(mode, dir) ==
    IF dir = TAKEN THEN IF mode < 7 THEN mode + 1 ELSE mode
    ELSE IF mode > 0 THEN mode - 1 ELSE mode

getT0(PC) == Direction(T0Pht[phtIndex(PC)][T0Phrt[phrtIndex(PC)]])

updateT0(PC, dir) ==
    /\ T0Pht' = [T0Pht EXCEPT
                   ![phtIndex(PC)][T0Phrt[phrtIndex(PC)]] = Train(@, dir)]
    /\ T0Phrt' = [T0Phrt EXCEPT
                    ![phrtIndex(PC)] = ((@ * 2) % T0_PHT_ENTRIES) + dir]

-----------------------------------------------------------------------------
(* The circular shift registers: CSR[t][0] has TAG_WIDTH bits, CSR[t][1]    *)
(* one less (its last element is never written).                            *)
Xor(a, b) == (a + b) % 2

Shifted(reg, width, h, first, old) ==
    [k \in DOMAIN reg |->
       IF k >= width THEN reg[k]
       ELSE LET bit == IF k = 0 THEN Xor(first, reg[width - 1])
                       ELSE reg[k - 1]
            IN IF k = h % width THEN Xor(bit, old) ELSE bit]

\* Mutant: the second register is folded at the width of the first.
updateCSRSameWidth(csr, ghr, h) ==
    <<Shifted(csr[1], TAG_WIDTH, h, ghr[0], ghr[h]),
      [Shifted(csr[2], TAG_WIDTH - 1, h, ghr[0], 0) EXCEPT
         ![h % TAG_WIDTH] = Xor(@, ghr[h])]>>
(* updateCSR(t, h), after the newest outcome has become ghr[0].             *)
updateCSR(csr, ghr, h) ==
    <<Shifted(csr[1], TAG_WIDTH, h, ghr[0], ghr[h]),
      Shifted(csr[2], TAG_WIDTH - 1, h, ghr[0], ghr[h])>>

(* The number with the n digits digit[0], ..., digit[n - 1], lowest first:  *)
(* sum[k] is that of the k highest ones.                                    *)
Value(base, digit, n) ==
    LET sum[k \in 0 .. n] ==
          IF k = 0 THEN 0 ELSE base * sum[k - 1] + digit[n - k]
    IN sum[n]

\* Mutant: the power of ten is raised before the first digit is added.
getCSRRaised(csr, num) ==
    (10 * Value(10, csr[num + 1], TAG_WIDTH - 1 + num)) % NUM_TAGE_ENTRIES
(* getCSR(t, num) adds the digits up with powers of ten, ten of register 0  *)
(* and eleven of register 1; only the bits that masks leave are kept here.  *)
getCSR(csr, num) ==
    Value(10, csr[num + 1], TAG_WIDTH - 1 + num) % NUM_TAGE_ENTRIES

Bit(n, k) == (n \div 2^k) % 2
(* The exclusive-or of three numbers, masked with NUM_TAGE_ENTRIES - 1.     *)
XorMasked(a, b, c) ==
    Value(2, [k \in 0 .. TAG_WIDTH - 2 |->
                IF (Bit(a, k) + Bit(b, k) + Bit(c, k)) % 2 = 1 THEN 1 ELSE 0],
          TAG_WIDTH - 1) % NUM_TAGE_ENTRIES

tag(t, PC) == XorMasked(PC, getCSR(CSR[t], 0), 2 * getCSR(CSR[t], 1))
ind(t, PC) == XorMasked(PC, PC \div 2^TAG_WIDTH, getCSR(CSR[t], 1))

-----------------------------------------------------------------------------
InitPredictor_openend ==
    /\ T0Phrt = [i \in 0 .. T0_PHRT_ENTRIES - 1 |-> 0]
    /\ T0Pht = [i \in 0 .. T0_PHT_TABLES - 1 |->
                  [j \in 0 .. T0_PHT_ENTRIES - 1 |-> 3]]
    /\ GHR = [i \in 0 .. NUM_GHR_BITS - 1 |-> 0]
    /\ CSR = [t \in Tables |-> <<[k \in 0 .. TAG_WIDTH - 1 |-> 0],
                                 [k \in 0 .. TAG_WIDTH - 1 |-> 0]>>]
    /\ T = [t \in Tables |->
              [i \in Entries |-> [pred |-> 3, tag |-> 0, useful |-> 0]]]
    /\ providerComp = 0 /\ providerPred = 0 /\ providerIndex = 0 /\ altPred = 0
    /\ probability = 0
    /\ useCounter = USE_INIT

Init ==
    /\ InitPredictor_openend
    /\ branch = NoBranch /\ predDir = NOT_TAKEN /\ branches = 0

(* The tables in which the branch has an entry, and the longest of them.    *)
Matches(PC) == {t \in Tables : T[t][ind(t, PC)].tag = tag(t, PC)}
Entry(t, PC) == T[t][ind(t, PC)]

(* The alternate prediction: T0's, or, if a shorter table matches too, the  *)
(* provider's own (cc:390 reads pred[i] where pred[j] is meant).            *)
AltPred(PC, i) ==
    IF \E j \in Matches(PC) : j < i THEN Direction(Entry(i, PC).pred)
    ELSE getT0(PC)

Weak(entry) == entry.pred \in {3, 4} \/ entry.useful = 0

(* GetPrediction_openend                                                    *)
GetPrediction(PC) ==
    /\ branch = NoBranch /\ branches < MaxBranches
    /\ LET i == IF Matches(PC) = {} THEN 0 ELSE Max(Matches(PC))
       IN IF i = 0
            THEN /\ providerComp' = 0 /\ providerIndex' = -1
                 /\ providerPred' = getT0(PC) /\ altPred' = getT0(PC)
                 /\ predDir' = getT0(PC)
            ELSE /\ providerComp' = i /\ providerIndex' = ind(i, PC)
                 /\ providerPred' = Direction(Entry(i, PC).pred)
                 /\ altPred' = AltPred(PC, i)
                 /\ predDir' = IF Weak(Entry(i, PC)) THEN altPred'
                               ELSE providerPred'
    /\ branch' = PC
    /\ branches' = branches + 1
    /\ UNCHANGED <<T0Phrt, T0Pht, GHR, CSR, T, probability, useCounter>>

-----------------------------------------------------------------------------
(* UpdatePredictor_openend, in the order of its parts.                      *)

(* The provider's counter and its useful bit.                               *)
Useful(dir, old) ==
    IF providerPred = altPred THEN old
    ELSE IF providerPred = dir THEN 1 ELSE 0
Trained(entry, dir) ==
    [entry EXCEPT !.pred = Train(@, dir), !.useful = Useful(dir, @)]
ProviderTrained(dir) ==
    IF providerComp = 0 THEN T
    ELSE [T EXCEPT ![providerComp][providerIndex] = Trained(@, dir)]

CounterAfter(dir) ==
    IF providerComp = 0 \/ providerPred = altPred THEN useCounter
    ELSE IF providerPred = dir
           THEN IF useCounter < USE_MAX THEN useCounter + 1 ELSE useCounter
           ELSE IF useCounter > 0 THEN useCounter - 1 ELSE useCounter

(* pred and useful are only read when the counter moves, and are 0 if not.  *)
Moved(dir) ==
    /\ providerComp # 0
    /\ LET p == T[providerComp][providerIndex].pred IN Train(p, dir) # p
WeakProvider(dir) ==
    /\ Moved(dir)
    /\ T[providerComp][providerIndex].useful = 0
    /\ Train(T[providerComp][providerIndex].pred, dir) \in {3, 4}

Allocates(dir) ==
    /\ providerComp # NUM_TAGE_TABLES
    /\ dir # providerPred
    /\ ~WeakProvider(dir)

(* The tables that may give up an entry: those with a longer history than   *)
(* the provider's, not useful, the first two of them only.                  *)
\* Mutant: useful entries are given up like any other.
FreeUseful(PC) == {t \in Tables : t > providerComp}
Free(PC) == {t \in Tables : t > providerComp /\ Entry(t, PC).useful = 0}
Found(PC) == {t \in Free(PC) : Cardinality({u \in Free(PC) : u < t}) < 2}

Allocated(tables, t, PC, dir) ==
    [tables EXCEPT ![t][ind(t, PC)] =
       [pred |-> IF dir = TAKEN THEN 4 ELSE 3, tag |-> tag(t, PC), useful |-> 0]]
NotUseful(tables, S) ==
    [t \in Tables |->
       IF t \in S THEN [i \in Entries |-> [tables[t][i] EXCEPT !.useful = 0]]
       ELSE tables[t]]

(* The allocation: with two candidates the longer one every other time.     *)
AfterAllocation(tables, PC, dir) ==
    IF ~Allocates(dir) THEN tables
    ELSE IF Found(PC) = {}
           THEN NotUseful(tables, {t \in Tables : t > providerComp})
    ELSE IF Cardinality(Found(PC)) > 1 /\ probability >= 2
           THEN Allocated(tables, Max(Found(PC)), PC, dir)
    ELSE Allocated(tables, Min(Found(PC)), PC, dir)

ProbabilityAfter(PC, dir) ==
    IF ~Allocates(dir) \/ Found(PC) = {} THEN probability
    ELSE IF Cardinality(Found(PC)) > 1 /\ probability >= 2 THEN 1
    ELSE IF probability < 2 THEN probability + 1 ELSE 2

NewGHR(dir) ==
    [i \in DOMAIN GHR |-> IF i = 0 THEN dir ELSE GHR[i - 1]]

UpdatePredictor(dir) ==
    /\ branch # NoBranch
    /\ updateT0(branch, dir)
    /\ LET tables  == AfterAllocation(ProviderTrained(dir), branch, dir)
           counter == CounterAfter(dir)
       IN /\ T' = IF counter = 0 THEN NotUseful(tables, Tables) ELSE tables
          /\ useCounter' = IF counter = 0 THEN USE_INIT ELSE counter
    /\ probability' = ProbabilityAfter(branch, dir)
    /\ GHR' = NewGHR(dir)
    /\ CSR' = [t \in Tables |-> updateCSR(CSR[t], NewGHR(dir), HIS_BITS[t] - 1)]
    /\ branch' = NoBranch
    /\ UNCHANGED <<provider, predDir, branches>>

Next ==
    \/ \E PC \in PCs : GetPrediction(PC)
    \/ \E dir \in {TAKEN, NOT_TAKEN} : UpdatePredictor(dir)

Spec == Init /\ [][Next]_vars

-----------------------------------------------------------------------------
(* Properties.                                                              *)

Bit01 == {0, 1}
EntryType == [pred : 0 .. 7, tag : Entries, useful : Bit01]

(* Indices, counters and register bits stay in their ranges; the useful     *)
(* counter leaves 0 in the update that reaches it.                          *)
TypeOK ==
    /\ T0Phrt \in [0 .. T0_PHRT_ENTRIES - 1 -> 0 .. T0_PHT_ENTRIES - 1]
    /\ T0Pht \in [0 .. T0_PHT_TABLES - 1 -> [0 .. T0_PHT_ENTRIES - 1 -> 0 .. 7]]
    /\ GHR \in [0 .. NUM_GHR_BITS - 1 -> Bit01]
    /\ CSR \in [Tables -> [1 .. 2 -> [0 .. TAG_WIDTH - 1 -> Bit01]]]
    /\ T \in [Tables -> [Entries -> EntryType]]
    /\ providerComp \in 0 .. NUM_TAGE_TABLES
    /\ providerComp # 0 => providerIndex \in Entries
    /\ {providerPred, altPred, predDir} \subseteq Bit01
    /\ probability \in 0 .. 2
    /\ useCounter \in 1 .. USE_MAX
    /\ branch \in PCs \cup {NoBranch} /\ branches \in Nat

(* The circular shift registers always hold the folded history: bit k is    *)
(* the parity of every width-th outcome from the k-th newest on, within the *)
(* length of the history (cc:230-243).  A shift too many, an outcome that   *)
(* is not taken out again where it left the history, and tags and indices   *)
(* of the same history differ forever.                                      *)
Ones(ghr, length, width, k) ==
    {i \in 0 .. length - 1 : i % width = k /\ ghr[i] = 1}
Folded(length, width, k) == Cardinality(Ones(GHR, length, width, k)) % 2
FoldExact ==
    \A t \in Tables :
      /\ \A k \in 0 .. TAG_WIDTH - 1 :
           CSR[t][1][k] = Folded(HIS_BITS[t] - 1, TAG_WIDTH, k)
      /\ \A k \in 0 .. TAG_WIDTH - 2 :
           CSR[t][2][k] = Folded(HIS_BITS[t] - 1, TAG_WIDTH - 1, k)
      /\ CSR[t][2][TAG_WIDTH - 1] = 0

(* getCSR reads the bits of a register as decimal digits (cc:246), and only *)
(* the low bits of the sum are used: yet the registers that differ in any   *)
(* of their TAG_WIDTH - 1 low bits give another number, so that no part of  *)
(* the history but that of the highest bit is lost to tags and indices.     *)
Flipped(reg, S) == [k \in DOMAIN reg |-> IF k \in S THEN 1 - reg[k] ELSE reg[k]]
DigitsKept ==
    \A t \in Tables, num \in {0, 1}, S \in SUBSET (0 .. TAG_WIDTH - 2) :
      S # {} => getCSR([CSR[t] EXCEPT ![num + 1] = Flipped(@, S)], num)
                  # getCSR(CSR[t], num)

(* A useful entry is never given to another branch: an entry changes its    *)
(* tag only when it was not useful, in a table with a longer history than   *)
(* the provider's, after a misprediction, and one entry at a time (cc:503). *)
UsefulProtected ==
    [][LET changed == {ti \in Tables \X Entries :
                         T'[ti[1]][ti[2]].tag # T[ti[1]][ti[2]].tag}
       IN /\ Cardinality(changed) <= 1
          /\ \A ti \in changed : /\ T[ti[1]][ti[2]].useful = 0
                                 /\ ti[1] > providerComp
                                 /\ GHR'[0] # providerPred]_vars

(* The condition to allocate reads pred and useful, which are only set when *)
(* the provider's counter moves (cc:412): after a misprediction it always   *)
(* does, because the counter still is on the side that was predicted.       *)
MispredictionMoves ==
    branch # NoBranch /\ providerComp # 0
      => \A dir \in Bit01 : dir # providerPred => Moved(dir)

(* The strengthening the proofs need: until its update, a prediction of a   *)
(* tagged table is the direction of the entry it was made from.             *)
PredictedByProvider ==
    branch # NoBranch /\ providerComp # 0
      => providerPred = Direction(T[providerComp][providerIndex].pred)
IInv == TypeOK /\ FoldExact /\ PredictedByProvider

(* cc:121: "Use altPred as the prediction when the predictor component has  *)
(* a weak prediction or is not useful", as in [2]: the prediction of the    *)
(* next longest history that matches.                                       *)
AltIsNextShorter ==
    branch # NoBranch =>
      LET shorter == {t \in Matches(branch) : t < providerComp}
      IN shorter # {} =>
           altPred = Direction(Entry(Max(shorter), branch).pred)
=============================================================================
