------------------------------ MODULE Tomasulo ------------------------------
(***************************************************************************)
(* The timing simulator of Lab3-Tomasulo/tomasulo.c: a 4-stage Tomasulo     *)
(* pipeline (dispatch, issue, execute, common data bus) replaying a         *)
(* recorded instruction trace.  runTomasulo calls one function per stage,   *)
(* in reverse pipeline order, once per simulated cycle; every such call is  *)
(* one action here and pc names the function that is called next.           *)
(*                                                                         *)
(* A pointer to an instruction is the instruction's index in the trace; the *)
(* NULL pointer is -1.  Entry 0 of the trace is the zeroed entry that       *)
(* sim_main leaves in front of the first instruction.                       *)
(***************************************************************************)
EXTENDS Integers

CONSTANTS
    INSTR_QUEUE_SIZE, RESERV_INT_SIZE, RESERV_FP_SIZE,
    FU_INT_SIZE, FU_FP_SIZE, FU_INT_LATENCY, FU_FP_LATENCY,
    sim_num_insn,   \* number of instructions sim_main recorded
    Reg,            \* the registers 0 .. MD_TOTAL_REGS-1
    Traces,         \* the recorded traces that may be simulated
    MaxCycle        \* bound on the simulated cycles

NULL == -1
DNA  == -1

Index   == 0 .. sim_num_insn
Ptr     == Index \cup {NULL}
QSlot   == 0 .. INSTR_QUEUE_SIZE - 1
RSInt   == 0 .. RESERV_INT_SIZE - 1
RSFp    == 0 .. RESERV_FP_SIZE - 1
FUInt   == 0 .. FU_INT_SIZE - 1
FUFp    == 0 .. FU_FP_SIZE - 1
In      == 0 .. 2
Out     == 0 .. 1

(***************************************************************************)
(* Operation classes, by the flags of target-pisa/pisa.def.  "NA" is the    *)
(* opcode OP_NA (0) of the zeroed entry, "CTRL" a branch, jump or call.     *)
(***************************************************************************)
Op == {"NA", "ICOMP", "LOAD", "STORE", "FCOMP", "CTRL", "TRAP"}

IS_TRAP(op)     == op = "TRAP"
USES_INT_FU(op) == op \in {"ICOMP", "LOAD", "STORE"}
USES_FP_FU(op)  == op = "FCOMP"
WRITES_CDB(op)  == op \in {"ICOMP", "LOAD", "FCOMP"}
UsesRS(op)      == USES_INT_FU(op) \/ USES_FP_FU(op)

Instruction == [op    : Op,
                r_in  : [In -> Reg \cup {DNA}],
                r_out : [Out -> Reg \cup {DNA}]]

ZeroedInstr == [op    |-> "NA",
                r_in  |-> [j \in In |-> 0],
                r_out |-> [j \in Out |-> 0]]

ASSUME SizeAssumption ==
    /\ INSTR_QUEUE_SIZE \in Nat \ {0}
    /\ RESERV_INT_SIZE \in Nat \ {0} /\ RESERV_FP_SIZE \in Nat \ {0}
    /\ FU_INT_SIZE \in Nat \ {0}     /\ FU_FP_SIZE \in Nat \ {0}
    /\ FU_INT_LATENCY \in Nat \ {0}  /\ FU_FP_LATENCY \in Nat \ {0}
    /\ sim_num_insn \in Nat \ {0}
    /\ MaxCycle \in Nat \ {0}

ASSUME RegAssumption == Reg \subseteq Nat /\ 0 \in Reg

(***************************************************************************)
(* What the ISA guarantees of a recorded trace: an instruction that enters  *)
(* a reservation station and does not write the CDB (a store) has no output *)
(* register.                                                                *)
(***************************************************************************)
ASSUME TraceAssumption ==
    \A t \in Traces :
        /\ t \in [Index -> Instruction]
        /\ t[0] = ZeroedInstr
        /\ \A i \in Index : UsesRS(t[i].op) /\ ~WRITES_CDB(t[i].op)
                              => \A k \in Out : t[i].r_out[k] = DNA

VARIABLES
    pc,                 \* the function runTomasulo calls next, or "done"
    trace,              \* the recorded trace (never written)
    instr_queue, instr_queue_size,
    reservINT, reservFP,
    fuINT, fuFP,
    commonDataBus,
    map_table,
    fetch_index, dont_fetch,
    cycle,
    Q,                  \* Q[i][j]: the producer instruction i waits for
    tom_dispatch_cycle, tom_issue_cycle, tom_execute_cycle, tom_cdb_cycle

stamps == <<tom_dispatch_cycle, tom_issue_cycle, tom_execute_cycle,
            tom_cdb_cycle>>
queueVars == <<instr_queue, instr_queue_size, fetch_index, dont_fetch>>
vars == <<pc, trace, queueVars, reservINT, reservFP, fuINT, fuFP,
          commonDataBus, map_table, cycle, Q, stamps>>

Functions == {"CDB_To_retire", "execute_To_CDB", "issue_To_execute",
              "fetch_To_dispatch", "dispatch_To_issue", "is_simulation_done",
              "done"}

TypeOK ==
    /\ pc \in Functions
    /\ trace \in [Index -> Instruction]
    /\ instr_queue \in [QSlot -> Ptr]
    /\ instr_queue_size \in 0 .. INSTR_QUEUE_SIZE
    /\ reservINT \in [RSInt -> Ptr] /\ reservFP \in [RSFp -> Ptr]
    /\ fuINT \in [FUInt -> Ptr]     /\ fuFP \in [FUFp -> Ptr]
    /\ commonDataBus \in Ptr
    /\ map_table \in [Reg -> Ptr]
    /\ fetch_index \in Index /\ dont_fetch \in BOOLEAN
    /\ cycle \in Nat \ {0}
    /\ Q \in [Index -> [In -> Ptr]]
    /\ tom_dispatch_cycle \in [Index -> Nat]
    /\ tom_issue_cycle \in [Index -> Nat]
    /\ tom_execute_cycle \in [Index -> Nat]
    /\ tom_cdb_cycle \in [Index -> Nat]

-----------------------------------------------------------------------------
(* runTomasulo's initialisation; the static variables start at zero and     *)
(* runTomasulo is called once.                                              *)
Init ==
    /\ pc = "CDB_To_retire"
    /\ trace \in Traces
    /\ instr_queue = [s \in QSlot |-> NULL]
    /\ instr_queue_size = 0
    /\ reservINT = [s \in RSInt |-> NULL]
    /\ reservFP = [s \in RSFp |-> NULL]
    /\ fuINT = [f \in FUInt |-> NULL]
    /\ fuFP = [f \in FUFp |-> NULL]
    /\ commonDataBus = NULL
    /\ map_table = [r \in Reg |-> NULL]
    /\ fetch_index = 0
    /\ dont_fetch = FALSE
    /\ cycle = 1
    /\ Q = [i \in Index |-> [j \in In |-> NULL]]
    /\ tom_dispatch_cycle = [i \in Index |-> 0]
    /\ tom_issue_cycle = [i \in Index |-> 0]
    /\ tom_execute_cycle = [i \in Index |-> 0]
    /\ tom_cdb_cycle = [i \in Index |-> 0]

InINT(i) == \E s \in RSInt : reservINT[s] = i
InFP(i)  == \E s \in RSFp : reservFP[s] = i
InRS(i)  == InINT(i) \/ InFP(i)

(***************************************************************************)
(* The instruction on the CDB wakes the instructions in the reservation     *)
(* stations that wait for it, leaves the map table and then the bus.        *)
(***************************************************************************)
WakeUp(b) == [i \in Index |-> [j \in In |->
                IF InRS(i) /\ Q[i][j] = b THEN NULL ELSE Q[i][j]]]

\* Mutant: the map table keeps naming the retired instruction.
KeepMapped(b) == map_table

Unmap(b) == [r \in Reg |-> IF map_table[r] = b THEN NULL ELSE map_table[r]]

CDB_To_retire ==
    /\ pc = "CDB_To_retire"
    /\ IF commonDataBus # NULL
       THEN Q' = WakeUp(commonDataBus) /\ map_table' = Unmap(commonDataBus)
       ELSE UNCHANGED <<Q, map_table>>
    /\ commonDataBus' = NULL
    /\ pc' = "execute_To_CDB"
    /\ UNCHANGED <<trace, queueVars, reservINT, reservFP, fuINT, fuFP, cycle,
                   stamps>>

(***************************************************************************)
(* execute_To_CDB.  A unit has finished once its latency has passed since   *)
(* the execute stamp of the instruction in it.  Finished instructions that  *)
(* do not write the CDB leave their unit and station at once; of the others *)
(* the oldest one takes the bus, from the first unit that holds it.         *)
(***************************************************************************)
\* Mutant: the unit is given up one cycle early.
FinishedINTEarly(f) ==
    /\ fuINT[f] # NULL
    /\ cycle >= tom_execute_cycle[fuINT[f]] + FU_INT_LATENCY - 1

FinishedINT(f) == /\ fuINT[f] # NULL
                  /\ cycle >= tom_execute_cycle[fuINT[f]] + FU_INT_LATENCY
FinishedFP(f)  == /\ fuFP[f] # NULL
                  /\ cycle >= tom_execute_cycle[fuFP[f]] + FU_FP_LATENCY

SilentINT(f) == FinishedINT(f) /\ ~WRITES_CDB(trace[fuINT[f]].op)
WriterINT(f) == FinishedINT(f) /\ WRITES_CDB(trace[fuINT[f]].op)

CDBCandidates == {fuINT[f] : f \in {g \in FUInt : WriterINT(g)}}
                   \cup {fuFP[f] : f \in {g \in FUFp : FinishedFP(g)}}

IsOldest(w, S) == w \in S /\ \A x \in S : w <= x

FirstUnit(fu, f, w) == fu[f] = w /\ \A g \in DOMAIN fu : fu[g] = w => f <= g

DropSilent(s) == \E f \in FUInt : SilentINT(f) /\ reservINT[s] = fuINT[f]

\* The stores alone: what the first loop of execute_To_CDB frees.
NoBroadcast ==
    /\ CDBCandidates = {}
    /\ fuINT' = [f \in FUInt |-> IF SilentINT(f) THEN NULL ELSE fuINT[f]]
    /\ reservINT' = [s \in RSInt |->
                        IF DropSilent(s) THEN NULL ELSE reservINT[s]]
    /\ UNCHANGED <<fuFP, reservFP, commonDataBus, tom_cdb_cycle>>

BroadcastINT(w) ==
    /\ \E st \in FUInt :
        /\ FirstUnit(fuINT, st, w)
        /\ fuINT' = [f \in FUInt |->
                        IF SilentINT(f) \/ f = st THEN NULL ELSE fuINT[f]]
    /\ reservINT' = [s \in RSInt |->
                        IF DropSilent(s) \/ reservINT[s] = w
                        THEN NULL ELSE reservINT[s]]
    /\ UNCHANGED <<fuFP, reservFP>>

BroadcastFP(w) ==
    /\ \A f \in FUInt : fuINT[f] # w
    /\ \E st \in FUFp :
        /\ FirstUnit(fuFP, st, w)
        /\ fuFP' = [fuFP EXCEPT ![st] = NULL]
    /\ reservFP' = [s \in RSFp |->
                        IF reservFP[s] = w THEN NULL ELSE reservFP[s]]
    /\ fuINT' = [f \in FUInt |-> IF SilentINT(f) THEN NULL ELSE fuINT[f]]
    /\ reservINT' = [s \in RSInt |->
                        IF DropSilent(s) THEN NULL ELSE reservINT[s]]

Broadcast ==
    \E w \in CDBCandidates :
        /\ IsOldest(w, CDBCandidates)
        /\ BroadcastINT(w) \/ BroadcastFP(w)
        /\ commonDataBus' = w
        /\ tom_cdb_cycle' = [tom_cdb_cycle EXCEPT ![w] = cycle]

execute_To_CDB ==
    /\ pc = "execute_To_CDB"
    /\ NoBroadcast \/ Broadcast
    /\ pc' = "issue_To_execute"
    /\ UNCHANGED <<trace, queueVars, map_table, cycle, Q, tom_dispatch_cycle,
                   tom_issue_cycle, tom_execute_cycle>>

(***************************************************************************)
(* issue_To_execute.  Every empty unit takes the oldest instruction of the  *)
(* reservation stations with no pending operand.  The instruction keeps its *)
(* station, and the loop does not look at the other units, so all the units *)
(* that are empty in a cycle take the same instruction.                     *)
(***************************************************************************)
\* Mutant: only the first operand is checked.
ReadyFirstOperand(i) == Q[i][0] = NULL

Ready(i) == \A j \in In : Q[i][j] = NULL

ReadyINT == {i \in Index : InINT(i) /\ Ready(i)}
ReadyFP  == {i \in Index : InFP(i) /\ Ready(i)}

\* The empty units of fu after the loop: idle, or all with the oldest of ready.
Start(fu, fuNext, ready) ==
    \/ ready = {} /\ fuNext = fu
    \/ \E w \in ready :
        /\ IsOldest(w, ready)
        /\ fuNext = [f \in DOMAIN fu |-> IF fu[f] = NULL THEN w ELSE fu[f]]

\* Mutant: the stamp is written only when the whole bank of units is idle.
StartsIdleBank(i, fu, ready) ==
    (\A f \in DOMAIN fu : fu[f] = NULL) /\ IsOldest(i, ready)

Starts(i, fu, ready) ==
    (\E f \in DOMAIN fu : fu[f] = NULL) /\ IsOldest(i, ready)

issue_To_execute ==
    /\ pc = "issue_To_execute"
    /\ Start(fuINT, fuINT', ReadyINT)
    /\ Start(fuFP, fuFP', ReadyFP)
    /\ tom_execute_cycle' =
          [i \in Index |->
              IF Starts(i, fuINT, ReadyINT) \/ Starts(i, fuFP, ReadyFP)
              THEN cycle ELSE tom_execute_cycle[i]]
    /\ pc' = "fetch_To_dispatch"
    /\ UNCHANGED <<trace, queueVars, reservINT, reservFP, commonDataBus,
                   map_table, cycle, Q, tom_dispatch_cycle, tom_issue_cycle,
                   tom_cdb_cycle>>

(***************************************************************************)
(* fetch_To_dispatch.  The dispatch stamp is written for every fetched      *)
(* instruction, a TRAP included: the if at line 449 guards line 450 only.   *)
(***************************************************************************)
CanFetch == instr_queue_size # INSTR_QUEUE_SIZE /\ ~dont_fetch

fetch_To_dispatch ==
    /\ pc = "fetch_To_dispatch"
    /\ IF CanFetch
       THEN /\ IF IS_TRAP(trace[fetch_index].op)
               THEN UNCHANGED <<instr_queue, instr_queue_size>>
               ELSE /\ instr_queue' =
                          [instr_queue EXCEPT ![instr_queue_size] = fetch_index]
                    /\ instr_queue_size' = instr_queue_size + 1
            /\ fetch_index' = fetch_index + 1
            /\ tom_dispatch_cycle' =
                  [tom_dispatch_cycle EXCEPT ![fetch_index] = cycle]
       ELSE UNCHANGED <<instr_queue, instr_queue_size, fetch_index,
                        tom_dispatch_cycle>>
    /\ pc' = "dispatch_To_issue"
    /\ UNCHANGED <<trace, dont_fetch, reservINT, reservFP, fuINT, fuFP,
                   commonDataBus, map_table, cycle, Q, tom_issue_cycle,
                   tom_execute_cycle, tom_cdb_cycle>>

(***************************************************************************)
(* dispatch_To_issue.  The head of the queue takes the first free station   *)
(* of its class, reads its producers from the map table and only then       *)
(* becomes the producer of its own output registers.                        *)
(***************************************************************************)
head == instr_queue[0]

\* Mutant: the counter is not decremented.
ShiftKeepingSize ==
    /\ instr_queue' = [s \in QSlot |-> IF s = INSTR_QUEUE_SIZE - 1
                                       THEN NULL ELSE instr_queue[s + 1]]
    /\ UNCHANGED instr_queue_size

ShiftQueue ==
    /\ instr_queue' = [s \in QSlot |-> IF s = INSTR_QUEUE_SIZE - 1
                                       THEN NULL ELSE instr_queue[s + 1]]
    /\ instr_queue_size' = instr_queue_size - 1

FirstFree(rs, s) == rs[s] = NULL /\ \A t \in DOMAIN rs : t < s => rs[t] # NULL

Writes(i, r) == \E k \in Out : trace[i].r_out[k] = r

\* Mutant: the outputs are renamed before the inputs are read.
ProducersAfterRenaming(i) ==
    [j \in In |-> IF trace[i].r_in[j] = DNA THEN NULL
                  ELSE IF Writes(i, trace[i].r_in[j]) THEN i
                  ELSE map_table[trace[i].r_in[j]]]

Producers(i) == [j \in In |-> IF trace[i].r_in[j] # DNA
                              THEN map_table[trace[i].r_in[j]] ELSE NULL]

\* Mutant: the second output register is forgotten.
RenameFirstOutput(i) == [r \in Reg |-> IF trace[i].r_out[0] = r THEN i
                                       ELSE map_table[r]]

Rename(i) == [r \in Reg |-> IF Writes(i, r) THEN i ELSE map_table[r]]

EnterStation ==
    /\ tom_issue_cycle' = [tom_issue_cycle EXCEPT ![head] = cycle]
    /\ Q' = [Q EXCEPT ![head] = Producers(head)]
    /\ map_table' = Rename(head)
    /\ ShiftQueue

IssueINT ==
    /\ head # NULL /\ USES_INT_FU(trace[head].op)
    /\ \E s \in RSInt : /\ FirstFree(reservINT, s)
                        /\ reservINT' = [reservINT EXCEPT ![s] = head]
    /\ EnterStation
    /\ UNCHANGED reservFP

IssueFP ==
    /\ head # NULL /\ USES_FP_FU(trace[head].op)
    /\ \E s \in RSFp : /\ FirstFree(reservFP, s)
                       /\ reservFP' = [reservFP EXCEPT ![s] = head]
    /\ EnterStation
    /\ UNCHANGED reservINT

Evict ==
    /\ head # NULL /\ ~UsesRS(trace[head].op)
    /\ ShiftQueue
    /\ UNCHANGED <<reservINT, reservFP, Q, map_table, tom_issue_cycle>>

\* An empty queue, or no free station of the head's class.
Stall ==
    /\ \/ head = NULL
       \/ /\ head # NULL /\ USES_INT_FU(trace[head].op)
          /\ \A s \in RSInt : reservINT[s] # NULL
       \/ /\ head # NULL /\ USES_FP_FU(trace[head].op)
          /\ \A s \in RSFp : reservFP[s] # NULL
    /\ UNCHANGED <<instr_queue, instr_queue_size, reservINT, reservFP, Q,
                   map_table, tom_issue_cycle>>

dispatch_To_issue ==
    /\ pc = "dispatch_To_issue"
    /\ IssueINT \/ IssueFP \/ Evict \/ Stall
    /\ pc' = "is_simulation_done"
    /\ UNCHANGED <<trace, fetch_index, dont_fetch, fuINT, fuFP, commonDataBus,
                   cycle, tom_dispatch_cycle, tom_execute_cycle,
                   tom_cdb_cycle>>

(***************************************************************************)
(* The end of the loop body of runTomasulo: cycle++, then                   *)
(* is_simulation_done, which also stops the fetch.                          *)
(***************************************************************************)
\* Mutant: one more instruction than were recorded.
AllFetchedLate == fetch_index > sim_num_insn

AllFetched == fetch_index >= sim_num_insn

\* Mutant: the floating-point half of the pipeline is not looked at.
IntegerPipelineEmpty ==
    /\ \A s \in QSlot : instr_queue[s] = NULL
    /\ \A s \in RSInt : reservINT[s] = NULL
    /\ \A f \in FUInt : fuINT[f] = NULL
    /\ commonDataBus = NULL

PipelineEmpty ==
    /\ \A s \in QSlot : instr_queue[s] = NULL
    /\ \A s \in RSInt : reservINT[s] = NULL
    /\ \A s \in RSFp : reservFP[s] = NULL
    /\ \A f \in FUInt : fuINT[f] = NULL
    /\ \A f \in FUFp : fuFP[f] = NULL
    /\ commonDataBus = NULL

is_simulation_done ==
    /\ pc = "is_simulation_done"
    /\ cycle < MaxCycle
    /\ cycle' = cycle + 1
    /\ dont_fetch' = (dont_fetch \/ AllFetched)
    /\ pc' = IF AllFetched /\ PipelineEmpty THEN "done" ELSE "CDB_To_retire"
    /\ UNCHANGED <<trace, instr_queue, instr_queue_size, fetch_index,
                   reservINT, reservFP, fuINT, fuFP, commonDataBus, map_table,
                   Q, stamps>>

Next ==
    \/ CDB_To_retire
    \/ execute_To_CDB
    \/ issue_To_execute
    \/ fetch_To_dispatch
    \/ dispatch_To_issue
    \/ is_simulation_done

Spec == Init /\ [][Next]_vars

\* runTomasulo is one sequential loop: the only fairness is that it runs.
FairSpec == Spec /\ WF_vars(Next)

-----------------------------------------------------------------------------
Issued(i)    == tom_issue_cycle[i] # 0
InQueue(i)   == \E s \in QSlot : instr_queue[s] = i

(***************************************************************************)
(* The instruction queue is a FIFO in program order: the slots below        *)
(* instr_queue_size (and no others) are occupied, by fetched instructions   *)
(* in increasing order, none of which has been issued; and nothing fetched  *)
(* is lost: a fetched instruction that needs a station is in the queue or   *)
(* was issued.                                                              *)
(***************************************************************************)
QueueInOrder ==
    /\ \A s \in QSlot : instr_queue[s] # NULL <=> s < instr_queue_size
    /\ \A s, t \in 0 .. instr_queue_size - 1 :
            s < t => instr_queue[s] < instr_queue[t]
    /\ \A i \in Index : InQueue(i) => i < fetch_index /\ ~Issued(i)
    /\ \A i \in Index : i < fetch_index /\ UsesRS(trace[i].op)
                          => InQueue(i) \/ Issued(i)

(***************************************************************************)
(* No wake-up is lost: every producer an instruction in a station waits     *)
(* for, and every producer in the map table, is still to be broadcast or    *)
(* retired: it holds a station or is on the bus, it writes the CDB and it   *)
(* is older than the waiter.  (CDB_To_retire clears the references in one   *)
(* cycle only; a reference made later would never be cleared.)              *)
(***************************************************************************)
Live(p) == InRS(p) \/ commonDataBus = p

NoLostWakeup ==
    /\ \A i \in Index, j \in In :
            InRS(i) /\ Q[i][j] # NULL
              => Live(Q[i][j]) /\ Q[i][j] < i /\ WRITES_CDB(trace[Q[i][j]].op)
    /\ \A r \in Reg :
            map_table[r] # NULL
              => Live(map_table[r]) /\ WRITES_CDB(trace[map_table[r]].op)

(***************************************************************************)
(* Register renaming is exact.  Of the writers of a register the map table  *)
(* names the one issued last, and no other, for as long as it has not       *)
(* broadcast: it never falls back to an older writer still in flight, and   *)
(* never forgets the last one before its result was on the bus.             *)
(***************************************************************************)
LastIssuedWriter(p, r) ==
    /\ Issued(p) /\ Writes(p, r)
    /\ \A q \in Index : Issued(q) /\ Writes(q, r) => q <= p

MapTableExact ==
    \A r \in Reg, p \in Index :
        LastIssuedWriter(p, r) => \/ map_table[r] = p
                                  \/ map_table[r] = NULL /\ ~InRS(p)

(***************************************************************************)
(* "All RAW dependences need to have been resolved with stalls before an    *)
(* instruction enters execute" (tomasulo.c:272): of an instruction that has *)
(* entered execute, the last writer in program order of every input has     *)
(* been broadcast and has given up its station.                             *)
(***************************************************************************)
Producer(p, i, r) ==
    /\ p < i /\ UsesRS(trace[p].op) /\ Writes(p, r)
    /\ \A q \in Index : p < q /\ q < i /\ UsesRS(trace[q].op) => ~Writes(q, r)

RAWResolved ==
    \A i, p \in Index, j \in In :
        /\ tom_execute_cycle[i] # 0
        /\ trace[i].r_in[j] # DNA
        /\ Producer(p, i, trace[i].r_in[j])
        => tom_cdb_cycle[p] # 0 /\ ~InRS(p)

(***************************************************************************)
(* The recorded table is a pipeline diagram: an instruction enters its      *)
(* stages in order, its latency apart; issue is in program order, one       *)
(* instruction per cycle.                                                   *)
(***************************************************************************)
Latency(i) == IF USES_FP_FU(trace[i].op) THEN FU_FP_LATENCY ELSE FU_INT_LATENCY

StagesInOrder ==
    /\ \A i \in Index :
        /\ Issued(i) => tom_dispatch_cycle[i] \in 1 .. tom_issue_cycle[i]
        /\ tom_execute_cycle[i] # 0
             => Issued(i) /\ tom_issue_cycle[i] < tom_execute_cycle[i]
        /\ tom_cdb_cycle[i] # 0
             => /\ tom_execute_cycle[i] # 0
                /\ tom_execute_cycle[i] + Latency(i) <= tom_cdb_cycle[i]
    /\ \A i, k \in Index : i < k /\ Issued(i) /\ Issued(k)
                             => tom_issue_cycle[i] < tom_issue_cycle[k]

(***************************************************************************)
(* The fetch stays inside the recorded trace and the simulation ends with   *)
(* every fetched instruction through all its stages and no register still   *)
(* waiting for a producer.                                                  *)
(***************************************************************************)
Complete(i) ==
    UsesRS(trace[i].op) =>
        /\ Issued(i) /\ tom_execute_cycle[i] # 0
        /\ WRITES_CDB(trace[i].op) => tom_cdb_cycle[i] # 0

DoneMeansComplete ==
    pc = "done" => /\ \A i \in 0 .. sim_num_insn - 1 : Complete(i)
                   /\ \A r \in Reg : map_table[r] = NULL

-----------------------------------------------------------------------------
(* The facts, besides the properties above, that make them inductive.       *)

\* Fetch: there is an entry left whenever fetch_To_dispatch may read one.
FetchInv ==
    \/ dont_fetch
    \/ pc \in {"dispatch_To_issue", "is_simulation_done"}
    \/ fetch_index < sim_num_insn

\* Issue takes the queue from the front: what was issued is older than what
\* is queued.
IssueInv ==
    \A i \in Index : Issued(i) =>
        /\ i < fetch_index /\ UsesRS(trace[i].op)
        /\ \A s \in QSlot : instr_queue[s] # NULL => i < instr_queue[s]

\* Stations and units hold issued instructions of their class; what has left
\* its station has executed and, if it writes the CDB, was broadcast.
StationInv ==
    /\ \A s \in RSInt : reservINT[s] # NULL
          => Issued(reservINT[s]) /\ USES_INT_FU(trace[reservINT[s]].op)
    /\ \A s \in RSFp : reservFP[s] # NULL
          => Issued(reservFP[s]) /\ USES_FP_FU(trace[reservFP[s]].op)
    /\ \A f \in FUInt : fuINT[f] # NULL
          => /\ tom_execute_cycle[fuINT[f]] # 0
             /\ USES_INT_FU(trace[fuINT[f]].op)
    /\ \A f \in FUFp : fuFP[f] # NULL
          => /\ tom_execute_cycle[fuFP[f]] # 0
             /\ USES_FP_FU(trace[fuFP[f]].op)
    /\ \A i \in Index : Issued(i) /\ ~InRS(i)
          => /\ tom_execute_cycle[i] # 0
             /\ WRITES_CDB(trace[i].op) => tom_cdb_cycle[i] # 0
    /\ \A i \in Index : tom_execute_cycle[i] # 0 => Issued(i) /\ Ready(i)
    /\ \A i \in Index : tom_cdb_cycle[i] # 0 => ~InRS(i)

\* The bus is free when execute_To_CDB runs, and is never held by an
\* instruction that has not been stamped.
BusInv ==
    /\ pc = "execute_To_CDB" => commonDataBus = NULL
    /\ commonDataBus # NULL => tom_cdb_cycle[commonDataBus] # 0

\* An issued instruction waits for the last writer of each input, or that
\* writer has left its station.
RAWInv ==
    \A i, p \in Index, j \in In :
        /\ Issued(i)
        /\ trace[i].r_in[j] # DNA
        /\ Producer(p, i, trace[i].r_in[j])
        => Q[i][j] = p \/ ~InRS(p)

\* No stamp is in the future, and an issue stamp is in the past until the
\* cycle's own dispatch_To_issue has run.
ClockInv ==
    /\ \A i \in Index : /\ tom_issue_cycle[i] <= cycle
                        /\ pc # "is_simulation_done"
                             => tom_issue_cycle[i] < cycle
    /\ \A s \in QSlot : instr_queue[s] # NULL
          => tom_dispatch_cycle[instr_queue[s]] \in 1 .. cycle

DoneInv == pc = "done" => AllFetched /\ PipelineEmpty

(***************************************************************************)
(* The inductive invariant of the pipeline: the properties above together   *)
(* with the facts about stations, bus, queue and clock they rest on.        *)
(***************************************************************************)
IInv ==
    /\ TypeOK
    /\ FetchInv /\ QueueInOrder /\ IssueInv
    /\ StationInv /\ BusInv
    /\ NoLostWakeup /\ MapTableExact /\ RAWInv
    /\ ClockInv /\ StagesInOrder
    /\ DoneInv

(***************************************************************************)
(* runTomasulo returns: no dependence cycle, no lost station, unit or bus   *)
(* slot keeps the pipeline from draining.                                   *)
(***************************************************************************)
Termination == <>(pc = "done")

-----------------------------------------------------------------------------
(* What the comments of the code say and the code does not do; each is      *)
(* refuted by a run of its own.                                             *)

(***************************************************************************)
(* "Checks if simulation is done by finishing the very last instruction"    *)
(* (tomasulo.c:110): the recorded instructions, 1 .. sim_num_insn, are all  *)
(* complete when runTomasulo returns.                                       *)
(***************************************************************************)
LastInstructionSimulated ==
    pc = "done" => \A i \in 1 .. sim_num_insn : Complete(i)

(***************************************************************************)
(* "Specify the cycle an instruction **entered** this stage" (instr.h:22):  *)
(* an instruction enters execute, and the CDB, once, so a stamp that was    *)
(* written is not written again.                                            *)
(***************************************************************************)
EntersStageOnce ==
    [][\A i \in Index :
        /\ tom_execute_cycle[i] # 0
             => tom_execute_cycle'[i] = tom_execute_cycle[i]
        /\ tom_cdb_cycle[i] # 0 => tom_cdb_cycle'[i] = tom_cdb_cycle[i]]_vars
=============================================================================
