----------------------------- MODULE InstrTrace -----------------------------
(***************************************************************************)
(* The instruction trace that connects the functional simulator to the      *)
(* timing simulator: a list of fixed-size chunks (Lab3-Tomasulo/instr.c).   *)
(* sim_main (sim-safe.c) appends every executed instruction with put_instr, *)
(* runTomasulo reads entry 0, 1, 2, ... with get_instr, and print_all_instr *)
(* walks the list to print the table.                                       *)
(*                                                                         *)
(* An entry is the index field of the instruction stored in it (sim_main    *)
(* numbers instructions from 1); 0 is an entry that memset has zeroed.      *)
(* Every loop of instr.c is an action per iteration, so the positions the   *)
(* walks reach are part of the state.  The call of print_all_instr is       *)
(* commented out in sim-safe.c:421; it is kept here as a call that may or   *)
(* may not be made between runTomasulo and free.                            *)
(***************************************************************************)
EXTENDS Integers, Sequences

CONSTANTS
    INSTR_TRACE_SIZE,   \* entries per chunk
    InstructionLimits,  \* the values of -max:inst that are tried; 0: none
    MaxInsn             \* bound on the instructions a program executes

ASSUME ChunkAssumption == INSTR_TRACE_SIZE \in Nat /\ INSTR_TRACE_SIZE >= 2
ASSUME LimitAssumption == InstructionLimits \subseteq Nat /\ MaxInsn \in Nat

VARIABLES
    pc,             \* where sim_main, or the function it called, has arrived
    chunks,         \* the chunks in list order; the next of the last is NULL
    trace,          \* the chunk a walk is at; NULL when it fell off the list
    index,          \* the entry of that chunk
    sim_num_insn, max_insts,
    fetch_index,    \* of tomasulo.c: the next entry to ask for
    instr,          \* the entry the last get_instr returned
    printed_count

vars == <<pc, chunks, trace, index, sim_num_insn, max_insts, fetch_index,
          instr, printed_count>>

NULL    == 0
Slot    == 0 .. INSTR_TRACE_SIZE - 1
Chunk   == [table : [Slot -> Nat], size : 0 .. INSTR_TRACE_SIZE]
Zeroed  == [table |-> [k \in Slot |-> 0], size |-> 0]

Places == {"execute", "put", "recorded", "fetch", "get", "ran", "print",
           "done", "exited", "out_of_memory", "assert_failed"}

TypeOK ==
    /\ pc \in Places
    /\ chunks \in Seq(Chunk)
    /\ trace \in 0 .. Len(chunks)
    /\ index \in Nat /\ instr \in Nat
    /\ sim_num_insn \in Nat /\ max_insts \in Nat
    /\ fetch_index \in Nat /\ printed_count \in Nat

\* Mutant: the walk does not advance.
StuckNext == trace
next == IF trace < Len(chunks) THEN trace + 1 ELSE NULL

Full == chunks[trace].size = INSTR_TRACE_SIZE

Store(chunk, i) == [table |-> [chunk.table EXCEPT ![chunk.size] = i],
                    size  |-> chunk.size + 1]

-----------------------------------------------------------------------------
(* sim_main: one zeroed chunk whose first entry is skipped.                 *)
\* Mutant: the first entry is not skipped.
FirstChunkNotSkipped == Zeroed
FirstChunk == [Zeroed EXCEPT !.size = 1]

Init ==
    /\ pc = "execute"
    /\ chunks = <<FirstChunk>>
    /\ trace = 1 /\ index = 0
    /\ sim_num_insn = 0
    /\ max_insts \in InstructionLimits
    /\ fetch_index = 0 /\ instr = 0
    /\ printed_count = 0

(* The simulated instruction is executed and put_instr called with it.      *)
Execute ==
    /\ pc = "execute" /\ sim_num_insn < MaxInsn
    /\ sim_num_insn' = sim_num_insn + 1
    /\ trace' = 1
    /\ pc' = "put"
    /\ UNCHANGED <<chunks, index, max_insts, fetch_index, instr,
                   printed_count>>

(* The instruction is an exit system call: it leaves sim_main by longjmp,   *)
(* so that it is not recorded and runTomasulo is not called.                *)
ExitSyscall ==
    /\ pc = "execute" /\ sim_num_insn < MaxInsn
    /\ sim_num_insn' = sim_num_insn + 1
    /\ pc' = "exited"
    /\ UNCHANGED <<chunks, trace, index, max_insts, fetch_index, instr,
                   printed_count>>

(* put_instr walks over the full chunks that have a successor, ...          *)
PutWalk ==
    /\ pc = "put"
    /\ Full /\ next # NULL
    /\ trace' = next
    /\ UNCHANGED <<pc, chunks, index, sim_num_insn, max_insts, fetch_index,
                   instr, printed_count>>

(* ... stores in the first chunk that has room, ...                         *)
PutStore ==
    /\ pc = "put"
    /\ ~Full
    /\ chunks' = [chunks EXCEPT ![trace] = Store(@, sim_num_insn)]
    /\ pc' = "recorded"
    /\ UNCHANGED <<trace, index, sim_num_insn, max_insts, fetch_index,
                   instr, printed_count>>

(* ... and allocates a chunk when the last one is full.                     *)
\* Mutant: the new chunk skips its first entry, too.
NewChunkSkipsFirst == FirstChunk
NewChunk == Zeroed

PutGrow ==
    /\ pc = "put"
    /\ Full /\ next = NULL
    /\ chunks' = Append(chunks, Store(NewChunk, sim_num_insn))
    /\ trace' = trace + 1
    /\ pc' = "recorded"
    /\ UNCHANGED <<index, sim_num_insn, max_insts, fetch_index, instr,
                   printed_count>>

PutOutOfMemory ==
    /\ pc = "put"
    /\ Full /\ next = NULL
    /\ pc' = "out_of_memory"
    /\ UNCHANGED <<chunks, trace, index, sim_num_insn, max_insts,
                   fetch_index, instr, printed_count>>

(* The rest of sim_main's loop body: a fault is fatal, the limit ends the   *)
(* loop and starts the timing simulation.                                   *)
Fault ==
    /\ pc = "recorded"
    /\ pc' = "exited"
    /\ UNCHANGED <<chunks, trace, index, sim_num_insn, max_insts,
                   fetch_index, instr, printed_count>>

LimitReached == max_insts # 0 /\ sim_num_insn >= max_insts

EndOfInstruction ==
    /\ pc = "recorded"
    /\ pc' = IF LimitReached THEN "fetch" ELSE "execute"
    /\ UNCHANGED <<chunks, trace, index, sim_num_insn, max_insts,
                   fetch_index, instr, printed_count>>

-----------------------------------------------------------------------------
(* fetch_To_dispatch: get_instr(trace, fetch_index++) until dont_fetch.     *)
\* Mutant: two more entries are fetched.
AllFetchedLate == fetch_index > sim_num_insn + 1
AllFetched == fetch_index >= sim_num_insn

Get ==
    /\ pc = "fetch" /\ ~AllFetched
    /\ trace' = 1
    /\ index' = fetch_index
    /\ fetch_index' = fetch_index + 1
    /\ pc' = "get"
    /\ UNCHANGED <<chunks, sim_num_insn, max_insts, instr, printed_count>>

GetWalk ==
    /\ pc = "get" /\ index >= INSTR_TRACE_SIZE
    /\ index' = index - INSTR_TRACE_SIZE
    /\ trace' = next
    /\ pc' = IF next = NULL THEN "assert_failed" ELSE "get"
    /\ UNCHANGED <<chunks, sim_num_insn, max_insts, fetch_index, instr,
                   printed_count>>

GetReturn ==
    /\ pc = "get" /\ index < INSTR_TRACE_SIZE
    /\ instr' = chunks[trace].table[index]
    /\ pc' = "fetch"
    /\ UNCHANGED <<chunks, trace, index, sim_num_insn, max_insts,
                   fetch_index, printed_count>>

TomasuloReturns ==
    /\ pc = "fetch" /\ AllFetched
    /\ pc' = "ran"
    /\ UNCHANGED <<chunks, trace, index, sim_num_insn, max_insts,
                   fetch_index, instr, printed_count>>

-----------------------------------------------------------------------------
(* print_all_instr starts at entry 1 of the first chunk.                    *)
PrintCall ==
    /\ pc = "ran" /\ printed_count = 0
    /\ trace' = 1 /\ index' = 1
    /\ pc' = "print"
    /\ UNCHANGED <<chunks, sim_num_insn, max_insts, fetch_index, instr,
                   printed_count>>

(* One iteration of its loop: the entry is printed and counted, then the    *)
(* walk moves to the next entry, in the next chunk if need be.              *)
\* Mutant: one more entry is printed.
LastPrintedLate == printed_count = sim_num_insn
LastPrinted == printed_count + 1 = sim_num_insn

PrintIteration ==
    /\ pc = "print"
    /\ printed_count' = printed_count + 1
    /\ IF LastPrinted
         THEN pc' = "ran" /\ UNCHANGED <<trace, index>>
         ELSE IF index + 1 = INSTR_TRACE_SIZE
           THEN /\ trace' = next /\ index' = 0
                /\ pc' = IF next = NULL THEN "ran" ELSE "print"
           ELSE pc' = "print" /\ index' = index + 1 /\ UNCHANGED trace
    /\ UNCHANGED <<chunks, sim_num_insn, max_insts, fetch_index, instr>>

(* free(instruction_trace): sim_main returns.                               *)
Free ==
    /\ pc = "ran"
    /\ pc' = "done"
    /\ UNCHANGED <<chunks, trace, index, sim_num_insn, max_insts,
                   fetch_index, instr, printed_count>>

Next ==
    \/ Execute \/ ExitSyscall
    \/ PutWalk \/ PutStore \/ PutGrow \/ PutOutOfMemory
    \/ Fault \/ EndOfInstruction
    \/ Get \/ GetWalk \/ GetReturn \/ TomasuloReturns
    \/ PrintCall \/ PrintIteration \/ Free

Spec == Init /\ [][Next]_vars

\* sim_main is one sequential program: the only fairness is that it runs.
FairSpec == Spec /\ WF_vars(Next)

-----------------------------------------------------------------------------
(* The position of entry k of chunk c in the trace, and what was recorded.  *)
Position(c, k) == (c - 1) * INSTR_TRACE_SIZE + k
Recorded == Position(Len(chunks), chunks[Len(chunks)].size)

(***************************************************************************)
(* The list is packed: every chunk but the last is full, none is empty, and *)
(* the entry at position p is instruction p.  So position arithmetic and    *)
(* list walks agree, whichever chunk an instruction fell into; in           *)
(* particular only the first chunk has a skipped entry.  Once an            *)
(* instruction is recorded the list holds all sim_num_insn of them.         *)
(***************************************************************************)
TracePacked ==
    /\ \A c \in 1 .. Len(chunks) :
            /\ chunks[c].size > 0
            /\ c < Len(chunks) => chunks[c].size = INSTR_TRACE_SIZE
            /\ \A k \in 0 .. chunks[c].size - 1 :
                    chunks[c].table[k] = Position(c, k)
    /\ pc \in {"recorded", "fetch", "get", "ran", "print"}
         => Recorded = sim_num_insn + 1

(***************************************************************************)
(* get_instr returns what was asked for: the timing simulator sees the      *)
(* zeroed entry and then the instructions in execution order, none twice    *)
(* and none left out, across chunk boundaries.                              *)
(***************************************************************************)
FetchedInOrder == pc = "fetch" /\ fetch_index > 0 => instr = fetch_index - 1

(* assert(trace != NULL) of get_instr holds for every entry asked for.      *)
AssertHolds == pc # "assert_failed"

(***************************************************************************)
(* print_all_instr prints instruction 1, 2, ... up to the last: the entry   *)
(* it prints next is the one after those it has printed, and when it        *)
(* returns it has printed all of them.  (The loop has a second exit, at     *)
(* the end of the list, which must not cut the table short.)                *)
(***************************************************************************)
PrintsAll ==
    /\ pc = "print" => /\ trace # NULL
                       /\ chunks[trace].table[index] = printed_count + 1
    /\ pc = "ran" => printed_count \in {0, sim_num_insn}

(***************************************************************************)
(* A simulation with an instruction limit ends: no walk over the list goes  *)
(* round for ever.                                                          *)
(***************************************************************************)
Termination ==
    max_insts # 0 ~> pc \in {"done", "exited", "out_of_memory"}

(***************************************************************************)
(* The inductive invariant: the positions the walks have reached.           *)
(***************************************************************************)
PutInv == pc = "put" => trace # NULL /\ Recorded = sim_num_insn
GetInv == pc = "get" => /\ trace # NULL
                        /\ Position(trace, index) = fetch_index - 1
                        /\ fetch_index <= sim_num_insn
PrintInv == pc = "print" => /\ trace # NULL /\ index \in Slot
                            /\ Position(trace, index) = printed_count + 1
                            /\ printed_count < sim_num_insn
CountInv ==
    /\ Len(chunks) > 0
    /\ pc = "execute" => Recorded = sim_num_insn + 1
    /\ pc \in {"put", "recorded", "fetch", "ran"} => sim_num_insn > 0
    /\ pc \in {"execute", "put", "recorded", "fetch", "get"}
         => printed_count = 0
    /\ pc \in {"execute", "put", "recorded"} => fetch_index = 0

IInv ==
    /\ TypeOK /\ TracePacked /\ FetchedInOrder /\ AssertHolds /\ PrintsAll
    /\ PutInv /\ GetInv /\ PrintInv /\ CountInv
=============================================================================
