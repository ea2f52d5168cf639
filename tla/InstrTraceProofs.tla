-------------------------- MODULE InstrTraceProofs --------------------------
(***************************************************************************)
(* For every chunk size, instruction limit and program length: the trace    *)
(* list stays packed, get_instr and print_all_instr reach the entries they  *)
(* are meant to reach, and the assertion of get_instr never fails.          *)
(***************************************************************************)
EXTENDS InstrTrace, TLAPS

USE DEF NULL, Slot, Position

(* The entry that put_instr fills is the one after those recorded.          *)
LEMMA StoreType ==
    ASSUME NEW ch \in Chunk, ch.size < INSTR_TRACE_SIZE, NEW i \in Nat
    PROVE  /\ Store(ch, i) \in Chunk
           /\ Store(ch, i).size = ch.size + 1
           /\ \A k \in 0 .. ch.size - 1 : Store(ch, i).table[k] = ch.table[k]
           /\ Store(ch, i).table[ch.size] = i
BY ChunkAssumption DEF Store, Chunk

LEMMA ZeroedType == Zeroed \in Chunk /\ FirstChunk \in Chunk
BY ChunkAssumption DEF Zeroed, FirstChunk, Chunk

LEMMA InitInv == Init => IInv
<1> SUFFICES ASSUME Init PROVE IInv
    OBVIOUS
<1>1. chunks \in Seq(Chunk) /\ Len(chunks) = 1 /\ chunks[1] = FirstChunk
  BY ZeroedType DEF Init
<1>2. FirstChunk.size = 1 /\ FirstChunk.table[0] = 0
  BY ChunkAssumption DEF FirstChunk, Zeroed
<1>3. TypeOK
  BY <1>1, LimitAssumption DEF Init, TypeOK, Places
<1>4. TracePacked
  BY <1>1, <1>2, ChunkAssumption DEF Init, TracePacked, Recorded
<1>5. FetchedInOrder /\ AssertHolds /\ PrintsAll
  BY DEF Init, FetchedInOrder, AssertHolds, PrintsAll
<1>6. PutInv /\ GetInv /\ PrintInv /\ CountInv
  BY <1>1, <1>2, ChunkAssumption DEF Init, PutInv, GetInv, PrintInv, CountInv, Recorded
<1> QED BY <1>3, <1>4, <1>5, <1>6 DEF IInv

(* The actions that leave the list alone keep it packed.                    *)
LEMMA ListKept ==
    ASSUME TypeOK, TracePacked, UNCHANGED <<chunks, sim_num_insn>>,
           pc' \in {"recorded", "fetch", "get", "ran", "print"}
             => Recorded = sim_num_insn + 1
    PROVE  TracePacked'
BY DEF TracePacked, Recorded, TypeOK

(* Arithmetic of positions.                                                 *)
LEMMA PositionOrder ==
    ASSUME NEW c \in Nat, NEW k \in Int, NEW l \in Int
    PROVE  Position(c, k) < Position(c, l) <=> k < l
<1>1. (c - 1) * INSTR_TRACE_SIZE \in Int
  BY ChunkAssumption
<1> QED BY <1>1

LEMMA ChunkType ==
    ASSUME TypeOK, NEW c \in 1 .. Len(chunks)
    PROVE  /\ chunks[c] \in Chunk
           /\ chunks[c].size \in 0 .. INSTR_TRACE_SIZE
           /\ chunks[c].table \in [Slot -> Nat]
<1>1. chunks[c] \in Chunk
  BY DEF TypeOK
<1> QED BY <1>1 DEF Chunk

(* An entry whose position has been recorded is inside its chunk and holds  *)
(* the instruction of that number.                                          *)
LEMMA EntryAt ==
    ASSUME TypeOK, TracePacked, Len(chunks) > 0,
           NEW c \in 1 .. Len(chunks), NEW k \in Slot,
           Position(c, k) < Recorded
    PROVE  chunks[c].table[k] = Position(c, k)
<1>1. chunks[c].size \in 0 .. INSTR_TRACE_SIZE
  BY ChunkType
<1>2. k < chunks[c].size
  <2>1. CASE c < Len(chunks)
    BY <2>1, ChunkAssumption DEF TracePacked
  <2>2. CASE c = Len(chunks)
    <3>1. Position(c, k) < Position(c, chunks[c].size)
      BY <2>2 DEF Recorded
    <3> QED BY <3>1, <1>1, PositionOrder, ChunkAssumption
  <2> QED BY <2>1, <2>2 DEF TypeOK
<1> QED BY <1>1, <1>2, ChunkAssumption DEF TracePacked

(* The walk of get_instr and of print_all_instr.                            *)
LEMMA NextPosition ==
    ASSUME NEW c \in Nat, NEW k \in Int
    PROVE  Position(c + 1, k) = Position(c, k + INSTR_TRACE_SIZE)
BY ChunkAssumption

(* A recorded position is not beyond the last chunk.                        *)
LEMMA NotBeyond ==
    ASSUME TypeOK, Len(chunks) > 0, NEW k \in Nat,
           Position(Len(chunks), k) < Recorded
    PROVE  k < INSTR_TRACE_SIZE
<1>1. chunks[Len(chunks)].size \in 0 .. INSTR_TRACE_SIZE
  BY ChunkType DEF TypeOK
<1>2. k < chunks[Len(chunks)].size
  BY <1>1, PositionOrder, ChunkAssumption DEF Recorded, TypeOK
<1> QED BY <1>1, <1>2, ChunkAssumption

-----------------------------------------------------------------------------
(* put_instr storing in a chunk that has room: it is the last chunk.        *)
LEMMA PutStorePacked == IInv /\ PutStore => IInv'
<1> SUFFICES ASSUME IInv, PutStore PROVE IInv'
    OBVIOUS
<1> USE ChunkAssumption
<1> DEFINE L == Len(chunks)
<1>1. /\ TypeOK /\ TracePacked /\ PutInv /\ CountInv
      /\ pc = "put" /\ pc' = "recorded"
  BY DEF IInv, PutStore
<1>2. trace = L /\ L \in Nat \ {0}
  BY <1>1 DEF PutStore, Full, PutInv, TracePacked, CountInv, TypeOK
<1>3. chunks[L] \in Chunk /\ chunks[L].size \in 1 .. INSTR_TRACE_SIZE - 1
  BY <1>1, <1>2, ChunkType DEF PutStore, Full, TracePacked
<1> DEFINE new == Store(chunks[L], sim_num_insn)
<1>4. /\ new \in Chunk /\ new.size = chunks[L].size + 1
      /\ \A k \in 0 .. chunks[L].size - 1 : new.table[k] = chunks[L].table[k]
      /\ new.table[chunks[L].size] = sim_num_insn
  BY <1>1, <1>3, StoreType DEF TypeOK
<1>5. /\ chunks' \in Seq(Chunk) /\ Len(chunks') = L /\ chunks'[L] = new
      /\ \A c \in 1 .. L : c # L => chunks'[c] = chunks[c]
  BY <1>1, <1>2, <1>4 DEF PutStore, TypeOK
<1> HIDE DEF new
<1>6. UNCHANGED <<sim_num_insn, printed_count, fetch_index>>
  BY DEF PutStore
<1>7. Position(L, chunks[L].size) = sim_num_insn
  BY <1>1, <1>2 DEF PutInv, Recorded
<1>8. Recorded' = sim_num_insn + 1
  <2>1. Recorded' = Position(L, new.size)
    BY <1>5 DEF Recorded
  <2> QED BY <2>1, <1>2, <1>3, <1>4, <1>7 DEF TypeOK
<1>9. TracePacked'
  <2>1. ASSUME NEW c \in 1 .. L
        PROVE  /\ chunks'[c].size > 0
               /\ c < L => chunks'[c].size = INSTR_TRACE_SIZE
               /\ \A k \in 0 .. chunks'[c].size - 1 :
                     chunks'[c].table[k] = Position(c, k)
    <3>1. CASE c # L
      BY <1>1, <1>5, <3>1 DEF TracePacked
    <3>2. CASE c = L
      <4>1. ASSUME NEW k \in 0 .. new.size - 1
            PROVE  new.table[k] = Position(L, k)
        <5>1. CASE k = chunks[L].size
          BY <5>1, <1>4, <1>7
        <5>2. CASE k # chunks[L].size
          <6>1. k \in 0 .. chunks[L].size - 1
            BY <5>2, <1>3, <1>4
          <6> QED BY <6>1, <1>1, <1>2, <1>4 DEF TracePacked
        <5> QED BY <5>1, <5>2
      <4> QED BY <4>1, <3>2, <1>2, <1>3, <1>4, <1>5
    <3> QED BY <3>1, <3>2
  <2> QED BY <2>1, <1>5, <1>6, <1>8 DEF TracePacked
<1>10. TypeOK'
  BY <1>1, <1>5 DEF PutStore, TypeOK, Places
<1>11. CountInv' /\ FetchedInOrder' /\ AssertHolds' /\ PrintsAll'
  BY <1>1, <1>2, <1>5, <1>6 DEF CountInv, FetchedInOrder, AssertHolds, PrintsAll
<1>12. PutInv' /\ GetInv' /\ PrintInv'
  BY <1>1 DEF PutInv, GetInv, PrintInv
<1> QED BY <1>9, <1>10, <1>11, <1>12 DEF IInv

(* put_instr allocating a chunk: the list was full.                         *)
LEMMA PutGrowPacked == IInv /\ PutGrow => IInv'
<1> SUFFICES ASSUME IInv, PutGrow PROVE IInv'
    OBVIOUS
<1> USE ChunkAssumption
<1> DEFINE L == Len(chunks)
<1>1. /\ TypeOK /\ TracePacked /\ PutInv /\ CountInv
      /\ pc = "put" /\ pc' = "recorded"
  BY DEF IInv, PutGrow
<1>2. trace = L /\ L \in Nat \ {0} /\ trace' = L + 1
  BY <1>1 DEF PutGrow, next, PutInv, CountInv, TypeOK
<1> DEFINE new == Store(NewChunk, sim_num_insn)
<1>3. new \in Chunk /\ new.size = 1 /\ new.table[0] = sim_num_insn
  <2>1. NewChunk \in Chunk /\ NewChunk.size = 0
    BY ZeroedType DEF NewChunk, Zeroed
  <2> QED BY <1>1, <2>1, StoreType DEF TypeOK
<1>4. /\ chunks' \in Seq(Chunk) /\ Len(chunks') = L + 1
      /\ chunks'[L + 1] = new
      /\ \A c \in 1 .. L : chunks'[c] = chunks[c]
  BY <1>1, <1>2, <1>3 DEF PutGrow, TypeOK
<1> HIDE DEF new
<1>5. UNCHANGED <<sim_num_insn, printed_count, fetch_index>>
  BY DEF PutGrow
<1>6. chunks[L].size = INSTR_TRACE_SIZE
  BY <1>2 DEF PutGrow, Full
<1>7. Position(L + 1, 0) = sim_num_insn
  <2>1. Position(L, INSTR_TRACE_SIZE) = sim_num_insn
    BY <1>1, <1>6 DEF PutInv, Recorded
  <2> QED BY <2>1, <1>2, NextPosition
<1>8. Recorded' = sim_num_insn + 1
  <2>1. Recorded' = Position(L + 1, 1)
    BY <1>3, <1>4 DEF Recorded
  <2> QED BY <2>1, <1>1, <1>2, <1>7 DEF TypeOK
<1>9. TracePacked'
  <2>1. ASSUME NEW c \in 1 .. L + 1
        PROVE  /\ chunks'[c].size > 0
               /\ c < L + 1 => chunks'[c].size = INSTR_TRACE_SIZE
               /\ \A k \in 0 .. chunks'[c].size - 1 :
                     chunks'[c].table[k] = Position(c, k)
    <3>1. CASE c = L + 1
      BY <3>1, <1>2, <1>3, <1>4, <1>7
    <3>2. CASE c # L + 1
      <4>1. c \in 1 .. L /\ chunks'[c] = chunks[c]
        BY <3>2, <1>2, <1>4
      <4>2. chunks[c].size = INSTR_TRACE_SIZE
        BY <4>1, <1>1, <1>2, <1>6 DEF TracePacked
      <4> QED BY <4>1, <4>2, <1>1 DEF TracePacked
    <3> QED BY <3>1, <3>2
  <2> QED BY <2>1, <1>4, <1>5, <1>8 DEF TracePacked
<1>10. TypeOK'
  BY <1>1, <1>2, <1>4 DEF PutGrow, TypeOK, Places
<1>11. CountInv' /\ FetchedInOrder' /\ AssertHolds' /\ PrintsAll'
  BY <1>1, <1>2, <1>4, <1>5 DEF CountInv, FetchedInOrder, AssertHolds, PrintsAll
<1>12. PutInv' /\ GetInv' /\ PrintInv'
  BY <1>1 DEF PutInv, GetInv, PrintInv
<1> QED BY <1>9, <1>10, <1>11, <1>12 DEF IInv

-----------------------------------------------------------------------------
(* get_instr moving to the next chunk: there is one, because the entry      *)
(* asked for has been recorded.                                             *)
LEMMA GetWalkInv == IInv /\ GetWalk => GetInv' /\ AssertHolds'
<1> SUFFICES ASSUME IInv, GetWalk PROVE GetInv' /\ AssertHolds'
    OBVIOUS
<1> USE ChunkAssumption
<1>1. /\ TypeOK /\ TracePacked /\ CountInv /\ pc = "get" /\ trace # NULL
      /\ index \in Nat /\ index >= INSTR_TRACE_SIZE
      /\ Position(trace, index) = fetch_index - 1
      /\ fetch_index <= sim_num_insn
      /\ trace \in 1 .. Len(chunks)
      /\ Recorded = sim_num_insn + 1
  BY DEF IInv, GetWalk, GetInv, TypeOK, TracePacked
<1>2. trace # Len(chunks)
  <2> SUFFICES ASSUME trace = Len(chunks) PROVE FALSE
      OBVIOUS
  <2>1. Position(Len(chunks), index) < Recorded
    BY <1>1 DEF TypeOK
  <2> QED BY <2>1, <1>1, NotBeyond DEF CountInv
<1>3. next = trace + 1 /\ next # NULL
  BY <1>1, <1>2 DEF next, TypeOK
<1>4. Position(trace + 1, index - INSTR_TRACE_SIZE) = fetch_index - 1
  BY <1>1, NextPosition DEF TypeOK
<1> QED BY <1>1, <1>3, <1>4 DEF GetWalk, GetInv, AssertHolds

LEMMA GetReturnInv == IInv /\ GetReturn => FetchedInOrder'
<1> SUFFICES ASSUME IInv, GetReturn PROVE FetchedInOrder'
    OBVIOUS
<1>1. /\ TypeOK /\ TracePacked /\ CountInv /\ trace \in 1 .. Len(chunks)
      /\ index \in Slot
      /\ Position(trace, index) = fetch_index - 1
      /\ Position(trace, index) < Recorded
  BY ChunkAssumption DEF IInv, GetReturn, GetInv, TypeOK, TracePacked
<1>2. chunks[trace].table[index] = fetch_index - 1
  BY <1>1, EntryAt DEF CountInv
<1> QED BY <1>2 DEF GetReturn, FetchedInOrder

(* print_all_instr moving on: the next entry has been recorded, so that the *)
(* end of the list is not reached before the last instruction is printed.   *)
LEMMA PrintIterationInv == IInv /\ PrintIteration => PrintInv' /\ PrintsAll'
<1> SUFFICES ASSUME IInv, PrintIteration PROVE PrintInv' /\ PrintsAll'
    OBVIOUS
<1> USE ChunkAssumption
<1>1. /\ TypeOK /\ TracePacked /\ CountInv /\ pc = "print"
      /\ trace \in 1 .. Len(chunks) /\ index \in Slot
      /\ Position(trace, index) = printed_count + 1
      /\ printed_count < sim_num_insn /\ printed_count \in Nat
      /\ sim_num_insn \in Nat
      /\ Recorded = sim_num_insn + 1 /\ Len(chunks) > 0
  BY DEF IInv, PrintIteration, PrintInv, TypeOK, TracePacked, CountInv
<1>2. /\ UNCHANGED <<chunks, sim_num_insn>>
      /\ printed_count' = printed_count + 1
  BY DEF PrintIteration
<1>3. CASE LastPrinted
  BY <1>1, <1>2, <1>3 DEF PrintIteration, LastPrinted, PrintInv, PrintsAll
<1>4. ASSUME ~LastPrinted, NEW c \in 1 .. Len(chunks), NEW k \in Slot,
             trace' = c, index' = k, pc' = "print",
             Position(c, k) = printed_count + 2
      PROVE  PrintInv' /\ PrintsAll'
  <2>1. printed_count + 1 < sim_num_insn
    BY <1>1, <1>4 DEF LastPrinted
  <2>2. chunks[c].table[k] = printed_count + 2
    BY <1>1, <1>4, <2>1, EntryAt
  <2>3. PrintInv'
    BY <1>1, <1>2, <1>4, <2>1 DEF PrintInv
  <2> QED BY <1>1, <1>2, <1>4, <2>2, <2>3 DEF PrintsAll
<1>5. CASE ~LastPrinted /\ index + 1 = INSTR_TRACE_SIZE
  <2>1. Position(trace, INSTR_TRACE_SIZE) = printed_count + 2
    BY <1>1, <1>5 DEF TypeOK
  <2>2. Position(trace, INSTR_TRACE_SIZE) < Recorded
    BY <1>1, <1>5, <2>1 DEF LastPrinted
  <2>3. trace # Len(chunks)
    <3> SUFFICES ASSUME trace = Len(chunks) PROVE FALSE
        OBVIOUS
    <3>1. Position(Len(chunks), INSTR_TRACE_SIZE) < Recorded
      BY <2>2
    <3> QED BY <3>1, <1>1, NotBeyond
  <2>4. next = trace + 1 /\ next \in 1 .. Len(chunks)
    BY <1>1, <2>3 DEF next, TypeOK
  <2>5. Position(trace + 1, 0) = printed_count + 2
    BY <1>1, <2>1, NextPosition DEF TypeOK
  <2>6. trace' = trace + 1 /\ index' = 0 /\ pc' = "print"
    BY <1>5, <2>4 DEF PrintIteration
  <2> QED BY <1>4, <1>5, <2>4, <2>5, <2>6
<1>6. CASE ~LastPrinted /\ index + 1 # INSTR_TRACE_SIZE
  <2>1. trace' = trace /\ index' = index + 1 /\ pc' = "print"
    BY <1>6 DEF PrintIteration
  <2>2. index + 1 \in Slot
    BY <1>1, <1>6
  <2>3. Position(trace, index + 1) = printed_count + 2
    BY <1>1 DEF TypeOK
  <2> QED BY <1>1, <1>4, <1>6, <2>1, <2>2, <2>3
<1> QED BY <1>3, <1>5, <1>6

-----------------------------------------------------------------------------
(* Every step of sim_main keeps the invariant.                              *)
LEMMA NextInv == IInv /\ [Next]_vars => IInv'
<1> SUFFICES ASSUME IInv, [Next]_vars PROVE IInv'
    OBVIOUS
<1> USE ChunkAssumption
<1>t. TypeOK /\ TracePacked /\ CountInv
  BY DEF IInv
<1>1. CASE Execute
  <2>1. /\ UNCHANGED <<chunks, printed_count, fetch_index>>
        /\ pc = "execute" /\ pc' = "put" /\ trace' = 1
        /\ sim_num_insn' = sim_num_insn + 1 /\ Recorded' = sim_num_insn + 1
    BY <1>t, <1>1 DEF Execute, CountInv, Recorded
  <2>2. TypeOK'
    BY <1>t, <1>1 DEF Execute, TypeOK, Places, CountInv
  <2>3. TracePacked'
    BY <1>t, <2>1 DEF TracePacked
  <2>4. CountInv' /\ PutInv'
    BY <1>t, <1>1, <2>1 DEF CountInv, PutInv, Execute, TypeOK
  <2> QED BY <2>1, <2>2, <2>3, <2>4
          DEF IInv, FetchedInOrder, AssertHolds, PrintsAll, GetInv, PrintInv
<1>2. CASE ExitSyscall
  <2>1. TypeOK'
    BY <1>t, <1>2 DEF ExitSyscall, TypeOK, Places
  <2>2. TracePacked'
    BY <1>t, <1>2 DEF ExitSyscall, TracePacked
  <2> QED BY <1>t, <1>2, <2>1, <2>2
          DEF IInv, ExitSyscall, FetchedInOrder, AssertHolds, PrintsAll,
              PutInv, GetInv, PrintInv, CountInv
<1>3. CASE PutStore
  BY <1>3, PutStorePacked
<1>4. CASE PutGrow
  BY <1>4, PutGrowPacked
<1>5. CASE PutWalk
  <2>1. /\ UNCHANGED <<pc, chunks, sim_num_insn, printed_count, fetch_index>>
        /\ pc = "put" /\ Recorded' = Recorded /\ PutInv
        /\ trace' # NULL /\ trace' \in 1 .. Len(chunks)
    BY <1>t, <1>5 DEF PutWalk, Recorded, IInv, next, TypeOK
  <2>2. TypeOK'
    BY <1>t, <1>5, <2>1 DEF PutWalk, TypeOK
  <2>3. TracePacked'
    BY <1>t, <2>1, ListKept
  <2>4. PutInv' /\ CountInv'
    BY <1>t, <2>1 DEF PutInv, CountInv
  <2> QED BY <2>1, <2>2, <2>3, <2>4
          DEF IInv, FetchedInOrder, AssertHolds, PrintsAll, GetInv, PrintInv
<1>6. CASE PutOutOfMemory \/ Fault
  <2>1. /\ UNCHANGED <<chunks, sim_num_insn>>
        /\ pc' \in {"out_of_memory", "exited"}
    BY <1>6 DEF PutOutOfMemory, Fault
  <2>2. TypeOK'
    BY <1>t, <1>6 DEF PutOutOfMemory, Fault, TypeOK, Places
  <2>3. TracePacked'
    BY <1>t, <2>1, ListKept
  <2> QED BY <1>t, <2>1, <2>2, <2>3
          DEF IInv, FetchedInOrder, AssertHolds, PrintsAll, PutInv, GetInv,
              PrintInv, CountInv
<1>7. CASE EndOfInstruction
  <2>1. /\ UNCHANGED <<chunks, sim_num_insn, printed_count, fetch_index>>
        /\ pc = "recorded" /\ pc' \in {"fetch", "execute"}
        /\ Recorded = sim_num_insn + 1 /\ Recorded' = Recorded
    BY <1>t, <1>7 DEF EndOfInstruction, TracePacked, Recorded
  <2>2. TypeOK'
    BY <1>t, <1>7 DEF EndOfInstruction, TypeOK, Places
  <2>3. TracePacked'
    BY <1>t, <2>1, ListKept
  <2>4. CountInv'
    BY <1>t, <2>1 DEF CountInv
  <2>5. FetchedInOrder'
    BY <1>t, <2>1 DEF FetchedInOrder, CountInv
  <2> QED BY <2>1, <2>2, <2>3, <2>4, <2>5
          DEF IInv, AssertHolds, PrintsAll, PutInv, GetInv, PrintInv
<1>8. CASE Get
  <2>1. /\ UNCHANGED <<chunks, sim_num_insn, printed_count>>
        /\ pc = "fetch" /\ pc' = "get" /\ trace' = 1 /\ index' = fetch_index
        /\ fetch_index' = fetch_index + 1 /\ fetch_index < sim_num_insn
        /\ Recorded = sim_num_insn + 1
    BY <1>t, <1>8 DEF Get, AllFetched, TracePacked, TypeOK
  <2>2. TypeOK'
    BY <1>t, <1>8 DEF Get, TypeOK, Places, CountInv
  <2>3. TracePacked'
    BY <1>t, <2>1, ListKept
  <2>4. GetInv'
    BY <1>t, <2>1 DEF GetInv, TypeOK
  <2>5. CountInv'
    BY <1>t, <2>1 DEF CountInv
  <2> QED BY <2>1, <2>2, <2>3, <2>4, <2>5
          DEF IInv, FetchedInOrder, AssertHolds, PrintsAll, PutInv, PrintInv
<1>9. CASE GetWalk
  <2>1. /\ UNCHANGED <<chunks, sim_num_insn, printed_count>> /\ pc = "get"
        /\ pc' \in {"get", "assert_failed"} /\ Recorded = sim_num_insn + 1
    BY <1>t, <1>9 DEF GetWalk, TracePacked
  <2>2. TypeOK'
    BY <1>t, <1>9 DEF GetWalk, TypeOK, Places, next
  <2>3. TracePacked'
    BY <1>t, <2>1, ListKept
  <2>4. GetInv' /\ AssertHolds'
    BY <1>9, GetWalkInv
  <2>5. CountInv'
    BY <1>t, <2>1 DEF CountInv
  <2> QED BY <2>1, <2>2, <2>3, <2>4, <2>5
          DEF IInv, FetchedInOrder, PrintsAll, PutInv, PrintInv
<1>10. CASE GetReturn
  <2>1. /\ UNCHANGED <<chunks, sim_num_insn, printed_count, fetch_index>>
        /\ pc = "get" /\ pc' = "fetch" /\ Recorded = sim_num_insn + 1
        /\ sim_num_insn > 0
    BY <1>t, <1>10 DEF GetReturn, TracePacked, IInv, GetInv, TypeOK
  <2>2. TypeOK'
    <3>1. chunks[trace].table[index] \in Nat
      BY <1>t, <1>10, ChunkType DEF IInv, GetReturn, GetInv, TypeOK
    <3> QED BY <1>t, <1>10, <3>1 DEF GetReturn, TypeOK, Places
  <2>3. TracePacked'
    BY <1>t, <2>1, ListKept
  <2>4. FetchedInOrder'
    BY <1>10, GetReturnInv
  <2>5. CountInv'
    BY <1>t, <2>1 DEF CountInv
  <2> QED BY <2>1, <2>2, <2>3, <2>4, <2>5
          DEF IInv, AssertHolds, PrintsAll, PutInv, GetInv, PrintInv
<1>11. CASE TomasuloReturns
  <2>1. /\ UNCHANGED <<chunks, sim_num_insn, printed_count>>
        /\ pc = "fetch" /\ pc' = "ran" /\ Recorded = sim_num_insn + 1
    BY <1>t, <1>11 DEF TomasuloReturns, TracePacked
  <2>2. TypeOK'
    BY <1>t, <1>11 DEF TomasuloReturns, TypeOK, Places
  <2>3. TracePacked'
    BY <1>t, <2>1, ListKept
  <2> QED BY <1>t, <2>1, <2>2, <2>3
          DEF IInv, FetchedInOrder, AssertHolds, PrintsAll, PutInv, GetInv,
              PrintInv, CountInv
<1>12. CASE PrintCall
  <2>1. /\ UNCHANGED <<chunks, sim_num_insn, printed_count>>
        /\ pc = "ran" /\ pc' = "print" /\ trace' = 1 /\ index' = 1
        /\ Recorded = sim_num_insn + 1 /\ sim_num_insn > 0
        /\ printed_count = 0 /\ Len(chunks) > 0
    BY <1>t, <1>12 DEF PrintCall, TracePacked, CountInv
  <2>2. TypeOK'
    BY <1>t, <1>12, <2>1 DEF PrintCall, TypeOK, Places
  <2>3. TracePacked'
    BY <1>t, <2>1, ListKept
  <2>4. chunks[1].table[1] = 1
    <3>1. Position(1, 1) = 1
      OBVIOUS
    <3> QED BY <1>t, <2>1, <3>1, EntryAt DEF TypeOK
  <2>5. PrintInv' /\ PrintsAll'
    BY <1>t, <2>1, <2>4 DEF PrintInv, PrintsAll
  <2>6. CountInv'
    BY <1>t, <2>1 DEF CountInv
  <2> QED BY <2>1, <2>2, <2>3, <2>5, <2>6
          DEF IInv, FetchedInOrder, AssertHolds, PutInv, GetInv
<1>13. CASE PrintIteration
  <2>1. /\ UNCHANGED <<chunks, sim_num_insn>> /\ pc = "print"
        /\ pc' \in {"print", "ran"} /\ Recorded = sim_num_insn + 1
        /\ sim_num_insn > 0
    BY <1>t, <1>13 DEF PrintIteration, TracePacked, IInv, PrintInv, TypeOK
  <2>2. TypeOK'
    BY <1>t, <1>13 DEF PrintIteration, TypeOK, Places, next
  <2>3. TracePacked'
    BY <1>t, <2>1, ListKept
  <2>4. PrintInv' /\ PrintsAll'
    BY <1>13, PrintIterationInv
  <2>5. CountInv'
    BY <1>t, <2>1 DEF CountInv
  <2> QED BY <2>1, <2>2, <2>3, <2>4, <2>5
          DEF IInv, FetchedInOrder, AssertHolds, PutInv, GetInv
<1>14. CASE Free
  <2>1. UNCHANGED <<chunks, sim_num_insn>> /\ pc' = "done"
    BY <1>14 DEF Free
  <2>2. TypeOK'
    BY <1>t, <1>14 DEF Free, TypeOK, Places
  <2>3. TracePacked'
    BY <1>t, <2>1, ListKept
  <2> QED BY <1>t, <2>1, <2>2, <2>3
          DEF IInv, FetchedInOrder, AssertHolds, PrintsAll, PutInv, GetInv,
              PrintInv, CountInv
<1>15. CASE UNCHANGED vars
  BY <1>15 DEF vars, IInv, TypeOK, TracePacked, Recorded, FetchedInOrder,
              AssertHolds, PrintsAll, PutInv, GetInv, PrintInv, CountInv
<1> QED
  BY <1>1, <1>2, <1>3, <1>4, <1>5, <1>6, <1>7, <1>8, <1>9, <1>10, <1>11,
     <1>12, <1>13, <1>14, <1>15 DEF Next

-----------------------------------------------------------------------------
(***************************************************************************)
(* Every state sim_main reaches satisfies the inductive invariant of the    *)
(* trace list, whatever the chunk size and the instruction limit.           *)
(***************************************************************************)
THEOREM TraceInvariant == Spec => []IInv
BY InitInv, NextInv, PTL DEF Spec

(***************************************************************************)
(* put_instr keeps the list packed: position p of the trace is instruction  *)
(* p, across chunk boundaries.                                              *)
(***************************************************************************)
THEOREM ListCorrect == Spec => []TracePacked
<1>1. IInv => TracePacked BY DEF IInv
<1> QED BY <1>1, TraceInvariant, PTL

(***************************************************************************)
(* get_instr hands the recorded instructions to the timing simulator in     *)
(* order, and its assertion never fails.                                    *)
(***************************************************************************)
THEOREM GetCorrect == Spec => [](FetchedInOrder /\ AssertHolds)
<1>1. IInv => FetchedInOrder /\ AssertHolds BY DEF IInv
<1> QED BY <1>1, TraceInvariant, PTL

(***************************************************************************)
(* print_all_instr prints every recorded instruction, in order, and does    *)
(* not run off the list.                                                    *)
(***************************************************************************)
THEOREM PrintCorrect == Spec => []PrintsAll
<1>1. IInv => PrintsAll BY DEF IInv
<1> QED BY <1>1, TraceInvariant, PTL
=============================================================================
