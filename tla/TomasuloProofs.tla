--------------------------- MODULE TomasuloProofs ---------------------------
(***************************************************************************)
(* Proofs about the pipeline of Tomasulo, for every size of the queue, the  *)
(* stations and the units, every latency, every register set and every      *)
(* recorded trace, and the proof that it implements Dataflow.               *)
(***************************************************************************)
EXTENDS TomasuloRefinement, TLAPS

TraceOK == trace \in Traces

Inv == TraceOK /\ IInv

USE DEF NULL, DNA

\* What the ISA assumption says of the trace being simulated.
LEMMA TraceFacts ==
    ASSUME TraceOK
    PROVE  /\ trace \in [Index -> Instruction]
           /\ \A i \in Index : UsesRS(trace[i].op) /\ ~WRITES_CDB(trace[i].op)
                                 => \A k \in Out : trace[i].r_out[k] = DNA
BY TraceAssumption DEF TraceOK

\* Everything is empty at the start of runTomasulo.
LEMMA InitInv == Init => Inv
<1> SUFFICES ASSUME Init PROVE Inv
  OBVIOUS
<1>1. TraceOK
  BY DEF Init, TraceOK
<1>2. TypeOK
  <2>1. trace \in [Index -> Instruction]
    BY <1>1, TraceFacts
  <2>2. 0 \in Index /\ NULL \in Ptr /\ 0 \in 0 .. INSTR_QUEUE_SIZE
    BY SizeAssumption DEF Index, Ptr
  <2>3. Q \in [Index -> [In -> Ptr]]
    BY <2>2 DEF Init
  <2>4. pc \in Functions
    BY DEF Init, Functions
  <2>5. dont_fetch \in BOOLEAN
    BY DEF Init
  <2> QED
    BY <2>1, <2>2, <2>3, <2>4, <2>5 DEF Init, TypeOK
<1>3. FetchInv /\ QueueInOrder /\ IssueInv
  BY SizeAssumption
  DEF Init, FetchInv, QueueInOrder, IssueInv, InQueue, Issued, Index, QSlot
<1>4. StationInv /\ BusInv
  BY DEF Init, StationInv, BusInv, Issued
<1>5. NoLostWakeup /\ MapTableExact /\ RAWInv
  BY DEF Init, NoLostWakeup, MapTableExact, LastIssuedWriter, RAWInv, Issued,
         InRS, InINT, InFP, Index
<1>6. ClockInv /\ StagesInOrder /\ DoneInv
  BY DEF Init, ClockInv, StagesInOrder, DoneInv, Issued
<1> QED
  BY <1>1, <1>2, <1>3, <1>4, <1>5, <1>6 DEF Inv, IInv

LEMMA RetireInv == Inv /\ CDB_To_retire => Inv'
<1> SUFFICES ASSUME Inv, CDB_To_retire PROVE Inv'
  OBVIOUS
<1> USE DEF Inv, IInv
<1>0. TypeOK /\ trace \in [Index -> Instruction]
  BY DEF TypeOK
<1>a. /\ \A i \in Index, j \in In :
            /\ Q'[i][j] = Q[i][j] \/ Q'[i][j] = NULL
            /\ InRS(i) /\ Q[i][j] = commonDataBus => Q'[i][j] = NULL
            /\ Q'[i][j] = Q[i][j] \/ commonDataBus = Q[i][j]
      /\ \A r \in Reg :
            /\ map_table[r] = commonDataBus => map_table'[r] = NULL
            /\ map_table[r] # commonDataBus => map_table'[r] = map_table[r]
  BY <1>0 DEF CDB_To_retire, WakeUp, Unmap, TypeOK
<1>1. TraceOK' /\ TypeOK'
  BY DEF TraceOK, TypeOK, CDB_To_retire, WakeUp, Unmap, Functions, queueVars, stamps, Ptr
<1>2. FetchInv' /\ QueueInOrder' /\ IssueInv'
  BY DEF CDB_To_retire, queueVars, stamps, FetchInv, QueueInOrder, IssueInv,
         InQueue, Issued
<1>3. StationInv'
  BY <1>0, <1>a DEF CDB_To_retire, queueVars, stamps, StationInv, Issued, InRS,
         InINT, InFP, Ready
<1>4. BusInv'
  BY DEF CDB_To_retire, BusInv
<1>5. NoLostWakeup'
  BY <1>0, <1>a DEF CDB_To_retire, queueVars, stamps, NoLostWakeup, Live, InRS,
         InINT, InFP
<1>6. MapTableExact'
  BY <1>0, <1>a DEF CDB_To_retire, queueVars, stamps, MapTableExact, BusInv,
         StationInv, LastIssuedWriter, Issued, Writes, InRS, InINT, InFP
<1>7. RAWInv'
  <2> SUFFICES ASSUME NEW i \in Index, NEW p \in Index, NEW j \in In,
                      Issued(i), trace[i].r_in[j] # DNA,
                      Producer(p, i, trace[i].r_in[j])
               PROVE  Q'[i][j] = p \/ ~InRS(p)
    BY DEF CDB_To_retire, queueVars, stamps, RAWInv, Producer, Issued, Writes,
           InRS, InINT, InFP
  <2>1. Q[i][j] = p \/ ~InRS(p)
    BY DEF RAWInv
  <2>2. commonDataBus = p => ~InRS(p)
    BY DEF BusInv, StationInv, Index
  <2> QED
    BY <1>a, <2>1, <2>2
<1>8. ClockInv' /\ StagesInOrder' /\ DoneInv'
  BY DEF CDB_To_retire, queueVars, stamps, ClockInv, StagesInOrder, DoneInv,
         Issued, Latency
<1> QED
  BY <1>1, <1>2, <1>3, <1>4, <1>5, <1>6, <1>7, <1>8

\* What execute_To_CDB does to the stations, the units and the bus.
LEMMA ExecuteStep ==
    ASSUME Inv, execute_To_CDB
    PROVE  /\ reservINT' \in [RSInt -> Ptr] /\ reservFP' \in [RSFp -> Ptr]
           /\ fuINT' \in [FUInt -> Ptr] /\ fuFP' \in [FUFp -> Ptr]
           /\ \A s \in RSInt : reservINT'[s] \in {reservINT[s], NULL}
           /\ \A s \in RSFp : reservFP'[s] \in {reservFP[s], NULL}
           /\ \A f \in FUInt : fuINT'[f] \in {fuINT[f], NULL}
           /\ \A f \in FUFp : fuFP'[f] \in {fuFP[f], NULL}
           /\ \A i \in Index : InRS(i) /\ ~InRS(i)'
                => /\ tom_execute_cycle[i] # 0
                   /\ WRITES_CDB(trace[i].op) => commonDataBus' = i
           /\ \/ commonDataBus' = NULL /\ tom_cdb_cycle' = tom_cdb_cycle
              \/ \E w \in Index :
                    /\ commonDataBus' = w
                    /\ tom_cdb_cycle' = [tom_cdb_cycle EXCEPT ![w] = cycle]
                    /\ tom_execute_cycle[w] # 0 /\ ~InRS(w)'
                    /\ tom_execute_cycle[w] + Latency(w) <= cycle
<1> USE DEF Inv, IInv
<1>0. TypeOK /\ commonDataBus = NULL
  BY DEF execute_To_CDB, BusInv
<1>1. \A f \in FUInt : SilentINT(f) =>
        /\ fuINT[f] \in Index
        /\ tom_execute_cycle[fuINT[f]] # 0
        /\ ~WRITES_CDB(trace[fuINT[f]].op)
  BY DEF SilentINT, FinishedINT, StationInv, TypeOK, Ptr
<1>2. CASE NoBroadcast
  <2>1. /\ reservINT' \in [RSInt -> Ptr] /\ reservFP' \in [RSFp -> Ptr]
        /\ fuINT' \in [FUInt -> Ptr] /\ fuFP' \in [FUFp -> Ptr]
    BY <1>0, <1>2 DEF NoBroadcast, TypeOK, Ptr
  <2>2. \A i \in Index : InRS(i) /\ ~InRS(i)'
          => tom_execute_cycle[i] # 0 /\ ~WRITES_CDB(trace[i].op)
    BY <1>1, <1>2 DEF NoBroadcast, DropSilent, InRS, InINT, InFP
  <2> QED
    BY <1>0, <1>2, <2>1, <2>2 DEF NoBroadcast
<1>3. ASSUME NEW w \in CDBCandidates, IsOldest(w, CDBCandidates),
             BroadcastINT(w) \/ BroadcastFP(w),
             commonDataBus' = w,
             tom_cdb_cycle' = [tom_cdb_cycle EXCEPT ![w] = cycle]
      PROVE  /\ reservINT' \in [RSInt -> Ptr] /\ reservFP' \in [RSFp -> Ptr]
             /\ fuINT' \in [FUInt -> Ptr] /\ fuFP' \in [FUFp -> Ptr]
             /\ \A s \in RSInt : reservINT'[s] \in {reservINT[s], NULL}
             /\ \A s \in RSFp : reservFP'[s] \in {reservFP[s], NULL}
             /\ \A f \in FUInt : fuINT'[f] \in {fuINT[f], NULL}
             /\ \A f \in FUFp : fuFP'[f] \in {fuFP[f], NULL}
             /\ \A i \in Index : InRS(i) /\ ~InRS(i)'
                  => /\ tom_execute_cycle[i] # 0
                     /\ WRITES_CDB(trace[i].op) => i = w
             /\ w \in Index /\ tom_execute_cycle[w] # 0 /\ ~InRS(w)'
             /\ tom_execute_cycle[w] + Latency(w) <= cycle
  <2>1. w \in Index /\ tom_execute_cycle[w] # 0
    BY <1>0 DEF CDBCandidates, WriterINT, FinishedINT, FinishedFP, StationInv,
                TypeOK, Ptr
  <2>2. tom_execute_cycle[w] + Latency(w) <= cycle
    BY <1>0, <2>1, SizeAssumption
    DEF CDBCandidates, WriterINT, FinishedINT, FinishedFP, StationInv,
        Latency, TypeOK, Ptr, USES_INT_FU, USES_FP_FU
  <2>3. CASE BroadcastINT(w)
    <3>1. ~InFP(w)
      BY <1>0, <2>1, <2>3 DEF BroadcastINT, FirstUnit, StationInv, InFP, Index,
                   USES_INT_FU, USES_FP_FU
    <3>2. /\ reservINT' \in [RSInt -> Ptr] /\ reservFP' \in [RSFp -> Ptr]
          /\ fuINT' \in [FUInt -> Ptr] /\ fuFP' \in [FUFp -> Ptr]
      BY <1>0, <2>3 DEF BroadcastINT, TypeOK, Ptr
    <3>3. /\ \A s \in RSInt : reservINT'[s] \in {reservINT[s], NULL}
          /\ \A s \in RSFp : reservFP'[s] \in {reservFP[s], NULL}
          /\ \A f \in FUInt : fuINT'[f] \in {fuINT[f], NULL}
          /\ \A f \in FUFp : fuFP'[f] \in {fuFP[f], NULL}
      BY <2>3 DEF BroadcastINT
    <3>4. ~InRS(w)'
      BY <2>1, <2>3, <3>1 DEF BroadcastINT, InRS, InINT, InFP, Index
    <3>5. \A i \in Index : InRS(i) /\ ~InRS(i)'
                  => /\ tom_execute_cycle[i] # 0
                     /\ WRITES_CDB(trace[i].op) => i = w
      BY <1>1, <2>1, <2>3 DEF BroadcastINT, DropSilent, InRS, InINT, InFP
    <3> QED
      BY <2>1, <2>2, <3>2, <3>3, <3>4, <3>5
  <2>4. CASE BroadcastFP(w)
    <3>1. ~InINT(w)
      BY <1>0, <2>1, <2>4 DEF BroadcastFP, FirstUnit, StationInv, InINT, Index,
                   USES_INT_FU, USES_FP_FU
    <3>2. /\ reservINT' \in [RSInt -> Ptr] /\ reservFP' \in [RSFp -> Ptr]
          /\ fuINT' \in [FUInt -> Ptr] /\ fuFP' \in [FUFp -> Ptr]
      BY <1>0, <2>4 DEF BroadcastFP, TypeOK, Ptr
    <3>3. /\ \A s \in RSInt : reservINT'[s] \in {reservINT[s], NULL}
          /\ \A s \in RSFp : reservFP'[s] \in {reservFP[s], NULL}
          /\ \A f \in FUInt : fuINT'[f] \in {fuINT[f], NULL}
          /\ \A f \in FUFp : fuFP'[f] \in {fuFP[f], NULL}
      BY <1>0, <2>4 DEF BroadcastFP, TypeOK
    <3>4. ~InRS(w)'
      BY <2>1, <2>4, <3>1 DEF BroadcastFP, InRS, InINT, InFP, Index
    <3>5. \A i \in Index : InRS(i) /\ ~InRS(i)'
                  => /\ tom_execute_cycle[i] # 0
                     /\ WRITES_CDB(trace[i].op) => i = w
      BY <1>1, <2>1, <2>4 DEF BroadcastFP, DropSilent, InRS, InINT, InFP
    <3> QED
      BY <2>1, <2>2, <3>2, <3>3, <3>4, <3>5
  <2> QED
    BY <1>3, <2>3, <2>4
<1> QED
  BY <1>2, <1>3 DEF execute_To_CDB, Broadcast

LEMMA ExecuteShrinks ==
    ASSUME Inv, execute_To_CDB
    PROVE  \A i \in Index : InRS(i)' => InRS(i)
BY ExecuteStep DEF InRS, InINT, InFP, Index

LEMMA ExecuteInv == Inv /\ execute_To_CDB => Inv'
<1> SUFFICES ASSUME Inv, execute_To_CDB PROVE Inv'
  OBVIOUS
<1> USE DEF Inv, IInv
<1>0. TypeOK /\ commonDataBus = NULL
  BY DEF execute_To_CDB, BusInv
<1>a. /\ trace' = trace /\ Q' = Q /\ map_table' = map_table /\ cycle' = cycle
      /\ instr_queue' = instr_queue /\ instr_queue_size' = instr_queue_size
      /\ fetch_index' = fetch_index /\ dont_fetch' = dont_fetch
      /\ tom_dispatch_cycle' = tom_dispatch_cycle
      /\ tom_issue_cycle' = tom_issue_cycle
      /\ tom_execute_cycle' = tom_execute_cycle
      /\ pc = "execute_To_CDB" /\ pc' = "issue_To_execute"
  BY DEF execute_To_CDB, queueVars
<1>b. \A i \in Index : InRS(i)' => InRS(i)
  BY ExecuteShrinks
<1>c. /\ commonDataBus' \in Ptr
      /\ tom_cdb_cycle' \in [Index -> Nat]
      /\ \A i \in Index :
            IF commonDataBus' = i THEN tom_cdb_cycle'[i] = cycle /\ ~InRS(i)'
            ELSE tom_cdb_cycle'[i] = tom_cdb_cycle[i]
  <2>0. tom_cdb_cycle \in [Index -> Nat] /\ cycle \in Nat
    BY <1>0 DEF TypeOK
  <2>1. CASE commonDataBus' = NULL /\ tom_cdb_cycle' = tom_cdb_cycle
    BY <2>0, <2>1 DEF Ptr, Index
  <2>2. ASSUME NEW w \in Index, commonDataBus' = w, ~InRS(w)',
               tom_cdb_cycle' = [tom_cdb_cycle EXCEPT ![w] = cycle]
        PROVE  <1>c!:
    BY <2>0, <2>2 DEF Ptr
  <2> QED
    BY <2>1, <2>2, ExecuteStep
<1>1. TraceOK' /\ TypeOK'
  <2>1. pc' \in Functions
    BY <1>a DEF Functions
  <2> QED
    BY <1>0, <1>a, <1>c, <2>1, ExecuteStep DEF TraceOK, TypeOK
<1>2. FetchInv' /\ QueueInOrder' /\ IssueInv'
  BY <1>a DEF FetchInv, QueueInOrder, IssueInv, InQueue, Issued
<1>3. StationInv'
  <2>1. \A i \in Index : Issued(i) /\ ~InRS(i)'
          => /\ tom_execute_cycle[i] # 0
             /\ WRITES_CDB(trace[i].op) => tom_cdb_cycle'[i] # 0
    BY <1>0, <1>c, ExecuteStep DEF StationInv, TypeOK
  <2>2. \A i \in Index : tom_cdb_cycle'[i] # 0 => ~InRS(i)'
    BY <1>b, <1>c DEF StationInv
  <2>3. /\ \A s \in RSInt : reservINT'[s] # NULL
              => /\ Issued(reservINT'[s])
                 /\ USES_INT_FU(trace[reservINT'[s]].op)
        /\ \A s \in RSFp : reservFP'[s] # NULL
              => Issued(reservFP'[s]) /\ USES_FP_FU(trace[reservFP'[s]].op)
        /\ \A f \in FUInt : fuINT'[f] # NULL
              => /\ tom_execute_cycle[fuINT'[f]] # 0
                 /\ USES_INT_FU(trace[fuINT'[f]].op)
        /\ \A f \in FUFp : fuFP'[f] # NULL
              => /\ tom_execute_cycle[fuFP'[f]] # 0
                 /\ USES_FP_FU(trace[fuFP'[f]].op)
    BY ExecuteStep DEF StationInv
  <2> QED
    BY <1>a, <2>1, <2>2, <2>3 DEF StationInv, Issued, Ready
<1>4. BusInv'
  BY <1>0, <1>a, <1>c DEF BusInv, TypeOK, Ptr
<1>5. NoLostWakeup'
  <2>1. \A p \in Index : Live(p) /\ WRITES_CDB(trace[p].op) => Live(p)'
    BY <1>0, ExecuteStep DEF Live, Index
  <2>2. \A i \in Index, j \in In : Q[i][j] # NULL => Q[i][j] \in Index
    BY <1>0 DEF TypeOK, Ptr
  <2>3. \A r \in Reg : map_table[r] # NULL => map_table[r] \in Index
    BY <1>0 DEF TypeOK, Ptr
  <2>4. \A i \in Index, j \in In : InRS(i)' /\ Q[i][j] # NULL
          => /\ Live(Q[i][j])' /\ Q[i][j] < i
             /\ WRITES_CDB(trace[Q[i][j]].op)
    BY <1>a, <1>b, <2>1, <2>2 DEF NoLostWakeup
  <2>5. \A r \in Reg : map_table[r] # NULL
          => Live(map_table[r])' /\ WRITES_CDB(trace[map_table[r]].op)
    BY <1>a, <2>1, <2>3 DEF NoLostWakeup
  <2> QED
    BY <1>a, <2>4, <2>5 DEF NoLostWakeup
<1>6. MapTableExact'
  BY <1>a, <1>b DEF MapTableExact, LastIssuedWriter, Issued, Writes
<1>7. RAWInv'
  BY <1>a, <1>b DEF RAWInv, Producer, Issued, Writes
<1>8. ClockInv' /\ DoneInv'
  BY <1>a DEF ClockInv, DoneInv
<1>9. StagesInOrder'
  <2>1. \A i \in Index : tom_cdb_cycle'[i] # 0
          => /\ tom_execute_cycle[i] # 0
             /\ tom_execute_cycle[i] + Latency(i) <= tom_cdb_cycle'[i]
    BY <1>0, ExecuteStep DEF StagesInOrder, TypeOK
  <2> QED
    BY <1>a, <2>1 DEF StagesInOrder, Issued, Latency
<1> QED
  BY <1>1, <1>2, <1>3, <1>4, <1>5, <1>6, <1>7, <1>8, <1>9

LEMMA IssueToExecuteInv == Inv /\ issue_To_execute => Inv'
<1> SUFFICES ASSUME Inv, issue_To_execute PROVE Inv'
  OBVIOUS
<1> USE DEF Inv, IInv
<1> DEFINE Started(i) == Starts(i, fuINT, ReadyINT) \/ Starts(i, fuFP, ReadyFP)
<1>0. TypeOK
  OBVIOUS
<1>a. /\ trace' = trace /\ Q' = Q /\ map_table' = map_table /\ cycle' = cycle
      /\ instr_queue' = instr_queue /\ instr_queue_size' = instr_queue_size
      /\ fetch_index' = fetch_index /\ dont_fetch' = dont_fetch
      /\ reservINT' = reservINT /\ reservFP' = reservFP
      /\ commonDataBus' = commonDataBus
      /\ tom_dispatch_cycle' = tom_dispatch_cycle
      /\ tom_issue_cycle' = tom_issue_cycle
      /\ tom_cdb_cycle' = tom_cdb_cycle
      /\ pc = "issue_To_execute" /\ pc' = "fetch_To_dispatch"
  BY DEF issue_To_execute, queueVars
<1>b. /\ tom_execute_cycle' \in [Index -> Nat]
      /\ \A i \in Index : tom_execute_cycle'[i] =
            IF Started(i) THEN cycle ELSE tom_execute_cycle[i]
  BY <1>0 DEF issue_To_execute, TypeOK
<1>c. /\ fuINT' \in [FUInt -> Ptr]
      /\ \A f \in FUInt : \/ fuINT'[f] = fuINT[f]
                          \/ fuINT'[f] \in ReadyINT /\ Started(fuINT'[f])
  <2>1. fuINT \in [FUInt -> Ptr] /\ ReadyINT \subseteq Index
    BY <1>0 DEF TypeOK, ReadyINT
  <2>2. CASE fuINT' = fuINT
    BY <2>1, <2>2
  <2>3. ASSUME NEW w \in ReadyINT, IsOldest(w, ReadyINT),
               fuINT' = [f \in DOMAIN fuINT |-> IF fuINT[f] = NULL THEN w ELSE fuINT[f]]
        PROVE  <1>c!:
    BY <2>1, <2>3 DEF Ptr, Starts
  <2> QED
    BY <2>2, <2>3 DEF issue_To_execute, Start
<1>d. /\ fuFP' \in [FUFp -> Ptr]
      /\ \A f \in FUFp : \/ fuFP'[f] = fuFP[f]
                         \/ fuFP'[f] \in ReadyFP /\ Started(fuFP'[f])
  <2>1. fuFP \in [FUFp -> Ptr] /\ ReadyFP \subseteq Index
    BY <1>0 DEF TypeOK, ReadyFP
  <2>2. CASE fuFP' = fuFP
    BY <2>1, <2>2
  <2>3. ASSUME NEW w \in ReadyFP, IsOldest(w, ReadyFP),
               fuFP' = [f \in DOMAIN fuFP |-> IF fuFP[f] = NULL THEN w ELSE fuFP[f]]
        PROVE  <1>d!:
    BY <2>1, <2>3 DEF Ptr, Starts
  <2> QED
    BY <2>2, <2>3 DEF issue_To_execute, Start
<1>e. \A i \in Index : Started(i) => InRS(i) /\ Ready(i) /\ Issued(i)
  BY DEF Starts, IsOldest, ReadyINT, ReadyFP, InRS, InINT, InFP, StationInv,
         Index
<1>f. /\ cycle \in Nat \ {0} /\ tom_execute_cycle \in [Index -> Nat]
      /\ tom_issue_cycle \in [Index -> Nat] /\ tom_cdb_cycle \in [Index -> Nat]
  BY <1>0 DEF TypeOK
<1>g. \A i \in Index : InRS(i)' <=> InRS(i)
  BY <1>a DEF InRS, InINT, InFP
<1>1. TraceOK' /\ TypeOK'
  <2>1. pc' \in Functions
    BY <1>a DEF Functions
  <2> QED
    BY <1>0, <1>a, <1>b, <1>c, <1>d, <2>1 DEF TraceOK, TypeOK
<1>2. FetchInv' /\ QueueInOrder' /\ IssueInv'
  BY <1>a DEF FetchInv, QueueInOrder, IssueInv, InQueue, Issued
<1>3. StationInv'
  <2>1. \A f \in FUInt : fuINT'[f] # NULL
              => /\ tom_execute_cycle'[fuINT'[f]] # 0
                 /\ USES_INT_FU(trace[fuINT'[f]].op)
    BY <1>b, <1>c, <1>f DEF StationInv, ReadyINT, InINT, Ptr, Index
  <2>2. \A f \in FUFp : fuFP'[f] # NULL
              => /\ tom_execute_cycle'[fuFP'[f]] # 0
                 /\ USES_FP_FU(trace[fuFP'[f]].op)
    BY <1>b, <1>d, <1>f DEF StationInv, ReadyFP, InFP, Ptr, Index
  <2>3. \A i \in Index : Issued(i) /\ ~InRS(i)
          => /\ tom_execute_cycle'[i] # 0
             /\ WRITES_CDB(trace[i].op) => tom_cdb_cycle[i] # 0
    BY <1>b, <1>f DEF StationInv
  <2>4. \A i \in Index : tom_execute_cycle'[i] # 0 => Issued(i) /\ Ready(i)
    BY <1>b, <1>e DEF StationInv
  <2> QED
    BY <1>a, <1>g, <2>1, <2>2, <2>3, <2>4 DEF StationInv, Issued, Ready
<1>4. BusInv'
  BY <1>a DEF BusInv
<1>5. NoLostWakeup'
  BY <1>a DEF NoLostWakeup, Live, InRS, InINT, InFP
<1>6. MapTableExact'
  BY <1>a, <1>g DEF MapTableExact, LastIssuedWriter, Issued, Writes
<1>7. RAWInv'
  BY <1>a, <1>g DEF RAWInv, Producer, Issued, Writes
<1>8. ClockInv' /\ DoneInv'
  BY <1>a DEF ClockInv, DoneInv
<1>9. StagesInOrder'
  <2>1. \A i \in Index : tom_execute_cycle'[i] # 0
          => Issued(i) /\ tom_issue_cycle[i] < tom_execute_cycle'[i]
    BY <1>a, <1>b, <1>e DEF StagesInOrder, ClockInv
  <2>2. \A i \in Index : tom_cdb_cycle[i] # 0
          => tom_execute_cycle'[i] = tom_execute_cycle[i]
    BY <1>b, <1>e DEF StationInv
  <2> QED
    BY <1>a, <2>1, <2>2 DEF StagesInOrder, Issued, Latency
<1> QED
  BY <1>1, <1>2, <1>3, <1>4, <1>5, <1>6, <1>7, <1>8, <1>9

LEMMA FetchToDispatchInv == Inv /\ fetch_To_dispatch => Inv'
<1> SUFFICES ASSUME Inv, fetch_To_dispatch PROVE Inv'
  OBVIOUS
<1> USE DEF Inv, IInv
<1>0. TypeOK
  OBVIOUS
<1>a. /\ trace' = trace /\ Q' = Q /\ map_table' = map_table /\ cycle' = cycle
      /\ dont_fetch' = dont_fetch
      /\ reservINT' = reservINT /\ reservFP' = reservFP
      /\ fuINT' = fuINT /\ fuFP' = fuFP
      /\ commonDataBus' = commonDataBus
      /\ tom_issue_cycle' = tom_issue_cycle
      /\ tom_execute_cycle' = tom_execute_cycle
      /\ tom_cdb_cycle' = tom_cdb_cycle
      /\ pc = "fetch_To_dispatch" /\ pc' = "dispatch_To_issue"
  BY DEF fetch_To_dispatch
<1>b. /\ StationInv' /\ BusInv' /\ NoLostWakeup' /\ MapTableExact' /\ RAWInv'
      /\ FetchInv' /\ DoneInv'
  BY <1>a DEF StationInv, BusInv, NoLostWakeup, MapTableExact, RAWInv, DoneInv,
     FetchInv, LastIssuedWriter, Producer, Live, Issued, Ready, Writes, InRS,
     InINT, InFP
<1>c. \A i \in Index : Issued(i)' <=> Issued(i)
  BY <1>a DEF Issued
<1>d. \A i \in Index : i >= fetch_index => ~Issued(i)
  BY <1>0 DEF IssueInv, TypeOK, Index
<1>1. CASE ~CanFetch
  <2>1. /\ instr_queue' = instr_queue /\ instr_queue_size' = instr_queue_size
        /\ fetch_index' = fetch_index
        /\ tom_dispatch_cycle' = tom_dispatch_cycle
    BY <1>1 DEF fetch_To_dispatch
  <2>2. TraceOK' /\ TypeOK'
    <3>1. pc' \in Functions
      BY <1>a DEF Functions
    <3> QED
      BY <1>0, <1>a, <2>1, <3>1 DEF TraceOK, TypeOK
  <2>3. QueueInOrder' /\ IssueInv' /\ ClockInv' /\ StagesInOrder'
    BY <1>a, <2>1 DEF QueueInOrder, IssueInv, ClockInv, StagesInOrder, InQueue,
                      Issued, Latency
  <2> QED
    BY <1>b, <2>2, <2>3
<1>2. CASE CanFetch
  <2>a. /\ fetch_index < sim_num_insn /\ fetch_index \in Index
        /\ fetch_index + 1 \in Index
    BY <1>0, <1>2, <1>a, SizeAssumption DEF CanFetch, FetchInv, TypeOK, Index
  <2>b. /\ fetch_index' = fetch_index + 1
        /\ tom_dispatch_cycle' = [tom_dispatch_cycle EXCEPT ![fetch_index] = cycle]
    BY <1>2 DEF fetch_To_dispatch
  <2>c. /\ \A i \in Index : Issued(i) =>
              tom_dispatch_cycle'[i] = tom_dispatch_cycle[i]
        /\ tom_dispatch_cycle' \in [Index -> Nat]
    BY <1>0, <1>d, <2>a, <2>b DEF TypeOK, Index
  <2>d. StagesInOrder'
    BY <1>a, <2>c DEF StagesInOrder, Issued, Latency
  <2>e. instr_queue_size \in 0 .. INSTR_QUEUE_SIZE - 1
    BY <1>0, <1>2, SizeAssumption DEF CanFetch, TypeOK
  <2>f. pc' \in Functions
    BY <1>a DEF Functions
  <2>1. CASE IS_TRAP(trace[fetch_index].op)
    <3>1. instr_queue' = instr_queue /\ instr_queue_size' = instr_queue_size
      BY <1>2, <2>1 DEF fetch_To_dispatch
    <3>2. TraceOK' /\ TypeOK'
      BY <1>0, <1>a, <2>a, <2>b, <2>c, <2>f, <3>1 DEF TraceOK, TypeOK
    <3>3. QueueInOrder'
      <4>1. ~UsesRS(trace[fetch_index].op)
        BY <2>1 DEF IS_TRAP, UsesRS, USES_INT_FU, USES_FP_FU
      <4> QED
        BY <1>0, <1>a, <2>a, <2>b, <3>1, <4>1
        DEF QueueInOrder, InQueue, Issued, TypeOK, Index
    <3>4. IssueInv'
      BY <1>0, <1>a, <2>b, <3>1 DEF IssueInv, Issued, TypeOK, Index
    <3>5. ClockInv'
      BY <1>0, <1>a, <2>a, <2>b, <2>c, <3>1, SizeAssumption
      DEF ClockInv, TypeOK, Index, Ptr, QSlot
    <3> QED
      BY <1>b, <2>d, <3>2, <3>3, <3>4, <3>5
  <2>2. CASE ~IS_TRAP(trace[fetch_index].op)
    <3>1. /\ instr_queue' = [instr_queue EXCEPT ![instr_queue_size] = fetch_index]
          /\ instr_queue_size' = instr_queue_size + 1
      BY <1>2, <2>2 DEF fetch_To_dispatch
    <3>2. /\ instr_queue' \in [QSlot -> Ptr]
          /\ instr_queue_size' \in 0 .. INSTR_QUEUE_SIZE
          /\ instr_queue_size \in QSlot
          /\ \A s \in QSlot : instr_queue'[s] = IF s = instr_queue_size
                                THEN fetch_index ELSE instr_queue[s]
      BY <1>0, <2>a, <2>e, <3>1, SizeAssumption DEF TypeOK, Ptr, QSlot
    <3>3. TraceOK' /\ TypeOK'
      BY <1>0, <1>a, <2>a, <2>b, <2>c, <2>f, <3>2 DEF TraceOK, TypeOK
    <3>4. QueueInOrder'
      <4>1. \A s \in QSlot : instr_queue'[s] # NULL <=> s < instr_queue_size'
        BY <1>0, <2>a, <2>e, <3>1, <3>2 DEF QueueInOrder, TypeOK, QSlot, Index
      <4>2. \A s, t \in 0 .. instr_queue_size' - 1 :
                s < t => instr_queue'[s] < instr_queue'[t]
        <5> SUFFICES ASSUME NEW s \in 0 .. instr_queue_size' - 1,
                            NEW t \in 0 .. instr_queue_size' - 1, s < t
                     PROVE  instr_queue'[s] < instr_queue'[t]
          OBVIOUS
        <5>1. /\ s \in QSlot /\ t \in QSlot /\ s # instr_queue_size
              /\ s \in 0 .. instr_queue_size - 1
          BY <2>e, <3>1, SizeAssumption DEF QSlot
        <5>2. instr_queue[s] \in Index /\ instr_queue[s] < fetch_index
          BY <1>0, <5>1 DEF QueueInOrder, InQueue, TypeOK, Ptr
        <5>3. CASE t = instr_queue_size
          BY <3>2, <5>1, <5>2, <5>3
        <5>4. CASE t # instr_queue_size
          BY <2>e, <3>1, <3>2, <5>1, <5>4 DEF QueueInOrder
        <5> QED
          BY <5>3, <5>4
      <4>3. \A i \in Index : InQueue(i)' <=> InQueue(i) \/ i = fetch_index
        BY <1>0, <2>e, <3>2 DEF QueueInOrder, InQueue, TypeOK, QSlot, Index
      <4> QED
        BY <1>0, <1>c, <1>a, <1>d, <2>a, <2>b, <4>1, <4>2, <4>3
        DEF QueueInOrder, TypeOK, Index
    <3>5. IssueInv'
      BY <1>0, <1>a, <2>b, <3>2 DEF IssueInv, Issued, TypeOK, Index
    <3>6. ClockInv'
      BY <1>0, <1>a, <2>a, <2>b, <2>c, <3>2, SizeAssumption
      DEF ClockInv, TypeOK, Index, Ptr, QSlot
    <3> QED
      BY <1>b, <2>d, <3>3, <3>4, <3>5, <3>6
  <2> QED
    BY <2>1, <2>2
<1> QED
  BY <1>1, <1>2

\* The head of the queue, if there is one, is the oldest instruction that has
\* not entered a station, and no stage has seen it.
LEMMA HeadFacts ==
    ASSUME Inv, head # NULL
    PROVE  /\ head \in Index /\ 0 < instr_queue_size /\ 0 \in QSlot
           /\ head < fetch_index /\ ~Issued(head) /\ ~InRS(head)
           /\ tom_execute_cycle[head] = 0 /\ tom_cdb_cycle[head] = 0
           /\ tom_dispatch_cycle[head] \in 1 .. cycle
           /\ \A i \in Index : Issued(i) => i < head
           /\ \A i \in Index : InQueue(i) => head <= i
<1> USE DEF Inv, IInv
<1>0. TypeOK /\ 0 \in QSlot
  BY SizeAssumption DEF QSlot
<1>1. head \in Index /\ 0 < instr_queue_size
  BY <1>0 DEF head, TypeOK, Ptr, QueueInOrder
<1>2. InQueue(head)
  BY <1>0 DEF InQueue, head
<1>3. head < fetch_index /\ ~Issued(head)
  BY <1>1, <1>2 DEF QueueInOrder
<1>4. ~InRS(head) /\ tom_execute_cycle[head] = 0
  BY <1>1, <1>3 DEF InRS, InINT, InFP, StationInv, Index
<1>5. tom_cdb_cycle[head] = 0
  BY <1>1, <1>4 DEF StagesInOrder
<1>6. tom_dispatch_cycle[head] \in 1 .. cycle
  BY <1>0 DEF ClockInv, head
<1>7. \A i \in Index : Issued(i) => i < head
  BY <1>0 DEF IssueInv, head
<1>8. \A i \in Index : InQueue(i) => head <= i
  <2> SUFFICES ASSUME NEW i \in Index, NEW s \in QSlot, instr_queue[s] = i
               PROVE  head <= i
    BY DEF InQueue
  <2>1. s \in 0 .. instr_queue_size - 1
    BY <1>0 DEF QueueInOrder, TypeOK, Index, QSlot
  <2>2. CASE s = 0
    BY <1>1, <2>2 DEF head, Index
  <2>3. CASE s > 0
    BY <1>0, <1>1, <2>1, <2>3 DEF QueueInOrder, head, TypeOK, Index
  <2> QED
    BY <2>1, <2>2, <2>3
<1> QED
  BY <1>0, <1>1, <1>3, <1>4, <1>5, <1>6, <1>7, <1>8

\* Shifting the queue removes its head and nothing else.
LEMMA ShiftFacts ==
    ASSUME Inv, head # NULL, ShiftQueue
    PROVE  /\ instr_queue' \in [QSlot -> Ptr]
           /\ instr_queue_size' \in 0 .. INSTR_QUEUE_SIZE
           /\ \A s \in QSlot : instr_queue'[s] # NULL <=> s < instr_queue_size'
           /\ \A s, t \in 0 .. instr_queue_size' - 1 :
                s < t => instr_queue'[s] < instr_queue'[t]
           /\ \A i \in Index : InQueue(i)' <=> InQueue(i) /\ i # head
           /\ \A s \in QSlot : instr_queue'[s] # NULL =>
                head < instr_queue'[s] /\ InQueue(instr_queue'[s])
<1> USE DEF Inv, IInv
<1>0. TypeOK /\ INSTR_QUEUE_SIZE \in Nat \ {0} /\ instr_queue_size \in Nat
  BY SizeAssumption DEF TypeOK
<1>1. \A s \in QSlot : /\ instr_queue'[s] = IF s = INSTR_QUEUE_SIZE - 1
                                             THEN NULL ELSE instr_queue[s + 1]
                       /\ s # INSTR_QUEUE_SIZE - 1 => s + 1 \in QSlot
  BY <1>0 DEF ShiftQueue, QSlot
<1>2. instr_queue' \in [QSlot -> Ptr]
  BY <1>0, <1>1 DEF ShiftQueue, TypeOK, Ptr
<1>3. /\ instr_queue_size' = instr_queue_size - 1
      /\ instr_queue_size' \in 0 .. INSTR_QUEUE_SIZE
      /\ instr_queue_size <= INSTR_QUEUE_SIZE
  BY <1>0, HeadFacts DEF ShiftQueue, TypeOK
<1>4. \A s \in QSlot : instr_queue'[s] # NULL <=> s < instr_queue_size'
  BY <1>0, <1>1, <1>3 DEF QueueInOrder, QSlot
<1>5. \A s, t \in 0 .. instr_queue_size' - 1 :
                s < t => instr_queue'[s] < instr_queue'[t]
  <2> SUFFICES ASSUME NEW s \in 0 .. instr_queue_size' - 1,
                      NEW t \in 0 .. instr_queue_size' - 1, s < t
               PROVE  instr_queue'[s] < instr_queue'[t]
    OBVIOUS
  <2>1. /\ s \in QSlot /\ t \in QSlot
        /\ s + 1 \in 0 .. instr_queue_size - 1
        /\ t + 1 \in 0 .. instr_queue_size - 1
    BY <1>0, <1>3 DEF QSlot
  <2>2. instr_queue'[s] = instr_queue[s + 1] /\ instr_queue'[t] = instr_queue[t + 1]
    BY <1>0, <1>1, <1>3, <2>1
  <2> QED
    BY <2>1, <2>2 DEF QueueInOrder
<1>6. \A s \in QSlot : instr_queue'[s] # NULL =>
                head < instr_queue'[s] /\ InQueue(instr_queue'[s])
  <2> SUFFICES ASSUME NEW s \in QSlot, instr_queue'[s] # NULL
               PROVE  head < instr_queue'[s] /\ InQueue(instr_queue'[s])
    OBVIOUS
  <2>1. s + 1 \in QSlot /\ instr_queue'[s] = instr_queue[s + 1]
    BY <1>1
  <2>2. s + 1 \in 0 .. instr_queue_size - 1 /\ 0 \in 0 .. instr_queue_size - 1
    BY <1>0, <1>3, <1>4 DEF QSlot
  <2> QED
    BY <2>1, <2>2 DEF QueueInOrder, head, InQueue, QSlot
<1>7. \A i \in Index : InQueue(i)' => InQueue(i) /\ i # head
  BY <1>6, HeadFacts DEF InQueue, Index
<1>8. \A i \in Index : InQueue(i) /\ i # head => InQueue(i)'
  <2> SUFFICES ASSUME NEW i \in Index, NEW s \in QSlot, instr_queue[s] = i,
                      i # head
               PROVE  InQueue(i)'
    BY DEF InQueue
  <2>1. s # 0 /\ s - 1 \in QSlot /\ s - 1 # INSTR_QUEUE_SIZE - 1
    BY <1>0 DEF head, QSlot
  <2>2. (s - 1) + 1 = s
    BY DEF QSlot
  <2>3. instr_queue'[s - 1] = i
    BY <1>1, <2>1, <2>2
  <2> QED
    BY <2>1, <2>3 DEF InQueue
<1> QED
  BY <1>2, <1>3, <1>4, <1>5, <1>6, <1>7, <1>8

\* The head of the queue takes a free station: nothing else moves.
LEMMA StationFacts ==
    ASSUME Inv, IssueINT \/ IssueFP
    PROVE  /\ reservINT' \in [RSInt -> Ptr] /\ reservFP' \in [RSFp -> Ptr]
           /\ head # NULL /\ UsesRS(trace[head].op) /\ EnterStation
           /\ \A s \in RSInt :
                \/ reservINT'[s] = reservINT[s]
                \/ reservINT'[s] = head /\ USES_INT_FU(trace[head].op)
           /\ \A s \in RSFp :
                \/ reservFP'[s] = reservFP[s]
                \/ reservFP'[s] = head /\ USES_FP_FU(trace[head].op)
           /\ \A i \in Index : InRS(i)' <=> InRS(i) \/ i = head
<1>0. TypeOK /\ head \in Ptr
  BY SizeAssumption DEF Inv, IInv, TypeOK, head, QSlot
<1>1. CASE IssueINT
  <2>1. head # NULL /\ USES_INT_FU(trace[head].op) /\ EnterStation
    BY <1>1 DEF IssueINT
  <2>2. PICK s \in RSInt : /\ FirstFree(reservINT, s)
                           /\ reservINT' = [reservINT EXCEPT ![s] = head]
    BY <1>1 DEF IssueINT
  <2>3. /\ reservINT' \in [RSInt -> Ptr] /\ reservFP' = reservFP
        /\ \A t \in RSInt : reservINT'[t] = IF t = s THEN head ELSE reservINT[t]
        /\ reservINT[s] = NULL
    BY <1>0, <1>1, <2>1, <2>2 DEF IssueINT, FirstFree, TypeOK
  <2>4. \A i \in Index : InRS(i)' <=> InRS(i) \/ i = head
    BY <2>3 DEF InRS, InINT, InFP, Index
  <2> QED
    BY <1>0, <2>1, <2>3, <2>4 DEF UsesRS, TypeOK
<1>2. CASE IssueFP
  <2>1. head # NULL /\ USES_FP_FU(trace[head].op) /\ EnterStation
    BY <1>2 DEF IssueFP
  <2>2. PICK s \in RSFp : /\ FirstFree(reservFP, s)
                          /\ reservFP' = [reservFP EXCEPT ![s] = head]
    BY <1>2 DEF IssueFP
  <2>3. /\ reservFP' \in [RSFp -> Ptr] /\ reservINT' = reservINT
        /\ \A t \in RSFp : reservFP'[t] = IF t = s THEN head ELSE reservFP[t]
        /\ reservFP[s] = NULL
    BY <1>0, <1>2, <2>1, <2>2 DEF IssueFP, FirstFree, TypeOK
  <2>4. \A i \in Index : InRS(i)' <=> InRS(i) \/ i = head
    BY <2>3 DEF InRS, InINT, InFP, Index
  <2> QED
    BY <1>0, <2>1, <2>3, <2>4 DEF UsesRS, TypeOK
<1> QED
  BY <1>1, <1>2

LEMMA DispatchInv == Inv /\ dispatch_To_issue => Inv'
<1> SUFFICES ASSUME Inv, dispatch_To_issue PROVE Inv'
  OBVIOUS
<1> USE DEF Inv, IInv
<1>0. TypeOK
  OBVIOUS
<1>a. /\ trace' = trace /\ cycle' = cycle
      /\ fetch_index' = fetch_index /\ dont_fetch' = dont_fetch
      /\ fuINT' = fuINT /\ fuFP' = fuFP
      /\ commonDataBus' = commonDataBus
      /\ tom_dispatch_cycle' = tom_dispatch_cycle
      /\ tom_execute_cycle' = tom_execute_cycle
      /\ tom_cdb_cycle' = tom_cdb_cycle
      /\ pc = "dispatch_To_issue" /\ pc' = "is_simulation_done"
  BY DEF dispatch_To_issue
<1>b. FetchInv' /\ BusInv' /\ DoneInv'
  BY <1>a DEF FetchInv, BusInv, DoneInv
<1>c. TraceOK' /\ pc' \in Functions
  BY <1>a DEF TraceOK, Functions
<1>1. ASSUME UNCHANGED <<reservINT, reservFP, Q, map_table, tom_issue_cycle>>
      PROVE  StationInv' /\ NoLostWakeup' /\ MapTableExact' /\ RAWInv'
             /\ StagesInOrder'
  BY <1>1, <1>a DEF StationInv, NoLostWakeup, MapTableExact, RAWInv,
     StagesInOrder, LastIssuedWriter, Producer, Live, Issued, Ready, Writes,
     Latency, InRS, InINT, InFP
<1>2. CASE Stall
  <2>1. /\ UNCHANGED <<reservINT, reservFP, Q, map_table, tom_issue_cycle>>
        /\ instr_queue' = instr_queue /\ instr_queue_size' = instr_queue_size
    BY <1>2 DEF Stall
  <2>2. TypeOK'
    BY <1>0, <1>a, <1>c, <2>1 DEF TypeOK
  <2>3. QueueInOrder' /\ IssueInv' /\ ClockInv'
    BY <1>a, <2>1 DEF QueueInOrder, IssueInv, ClockInv, InQueue, Issued
  <2> QED
    BY <1>b, <1>c, <1>1, <2>1, <2>2, <2>3
<1>3. ASSUME head # NULL, ShiftQueue,
             \A i \in Index : Issued(i)' <=> Issued(i) \/
                                (i = head /\ UsesRS(trace[head].op))
      PROVE  QueueInOrder' /\ IssueInv'
  <2>1. \A i \in Index : i = head /\ UsesRS(trace[i].op) => Issued(i)'
    BY <1>3
  <2>2. QueueInOrder'
    BY <1>3, <1>a, <2>1, HeadFacts, ShiftFacts DEF QueueInOrder
  <2>3. \A i \in Index, s \in QSlot :
            Issued(i) /\ instr_queue'[s] # NULL => i < instr_queue'[s]
    <3> SUFFICES ASSUME NEW i \in Index, NEW s \in QSlot, Issued(i),
                        instr_queue'[s] # NULL
                 PROVE  i < instr_queue'[s]
      OBVIOUS
    <3>1. i < head /\ head \in Index
      BY <1>3, HeadFacts
    <3>2. head < instr_queue'[s] /\ instr_queue'[s] \in Index
      BY <1>3, ShiftFacts DEF Ptr
    <3> QED
      BY <3>1, <3>2 DEF Index
  <2>4. IssueInv'
    BY <1>3, <1>a, <2>3, HeadFacts, ShiftFacts DEF IssueInv
  <2> QED
    BY <2>2, <2>4
<1>4. ASSUME head # NULL, ShiftQueue
      PROVE  \A s \in QSlot : instr_queue'[s] # NULL
                => tom_dispatch_cycle'[instr_queue'[s]] \in 1 .. cycle'
  BY <1>4, <1>a, ShiftFacts DEF ClockInv, InQueue
<1>5. CASE Evict
  <2>1. /\ head # NULL /\ ShiftQueue /\ ~UsesRS(trace[head].op)
        /\ UNCHANGED <<reservINT, reservFP, Q, map_table, tom_issue_cycle>>
    BY <1>5 DEF Evict
  <2>2. TypeOK'
    BY <1>0, <1>a, <1>c, <2>1, ShiftFacts DEF TypeOK
  <2>3. ClockInv'
    BY <1>a, <1>4, <2>1 DEF ClockInv
  <2>4. QueueInOrder' /\ IssueInv'
    <3>1. \A i \in Index : Issued(i)' <=> Issued(i)
      BY <2>1 DEF Issued
    <3> QED
      BY <1>3, <2>1, <3>1
  <2> QED
    BY <1>b, <1>c, <1>1, <2>1, <2>2, <2>3, <2>4
<1>6. ASSUME head # NULL, UsesRS(trace[head].op), EnterStation,
             reservINT' \in [RSInt -> Ptr], reservFP' \in [RSFp -> Ptr],
             \A s \in RSInt :
                \/ reservINT'[s] = reservINT[s]
                \/ reservINT'[s] = head /\ USES_INT_FU(trace[head].op),
             \A s \in RSFp :
                \/ reservFP'[s] = reservFP[s]
                \/ reservFP'[s] = head /\ USES_FP_FU(trace[head].op),
             \A i \in Index : InRS(i)' <=> InRS(i) \/ i = head
      PROVE  Inv'
  <2>0. /\ head \in Index /\ ~Issued(head) /\ cycle \in Nat \ {0}
        /\ \A i \in Index : Issued(i) => i < head
        /\ tom_execute_cycle[head] = 0 /\ tom_cdb_cycle[head] = 0
    BY <1>0, <1>6, HeadFacts DEF TypeOK
  <2>a. /\ tom_issue_cycle' = [tom_issue_cycle EXCEPT ![head] = cycle]
        /\ Q' = [Q EXCEPT ![head] = Producers(head)]
        /\ map_table' = [r \in Reg |->
                            IF Writes(head, r) THEN head ELSE map_table[r]]
        /\ ShiftQueue
    BY <1>6 DEF EnterStation, Rename
  <2>b. /\ tom_issue_cycle' \in [Index -> Nat]
        /\ \A i \in Index : tom_issue_cycle'[i] =
                              IF i = head THEN cycle ELSE tom_issue_cycle[i]
    BY <1>0, <2>0, <2>a DEF TypeOK
  <2>c. \A i \in Index : Issued(i)' <=> Issued(i) \/ i = head
    BY <2>0, <2>b DEF Issued
  <2>d. \A j \in In : trace[head].r_in[j] # DNA => trace[head].r_in[j] \in Reg
    BY <1>0, <2>0 DEF TypeOK, Instruction
  <2>e. Producers(head) \in [In -> Ptr]
    BY <1>0, <2>d DEF TypeOK, Producers, Ptr
  <2>f. /\ Q' \in [Index -> [In -> Ptr]]
        /\ \A i \in Index, j \in In :
              Q'[i][j] = IF i = head THEN Producers(head)[j] ELSE Q[i][j]
    BY <1>0, <2>0, <2>a, <2>e DEF TypeOK
  <2>g. /\ map_table' \in [Reg -> Ptr]
        /\ \A r \in Reg : map_table'[r] = IF Writes(head, r) THEN head
                                          ELSE map_table[r]
    BY <1>0, <2>0, <2>a DEF TypeOK, Ptr
  <2>h. \A i \in Index, r \in Reg : Writes(i, r)' <=> Writes(i, r)
    BY <1>a DEF Writes
  <2>i. \A r \in Reg : Writes(head, r) => WRITES_CDB(trace[head].op)
    <3>1. WRITES_CDB(trace[head].op) \/ \A k \in Out : trace[head].r_out[k] = DNA
      BY <1>6, <2>0, TraceFacts
    <3> QED
      BY <3>1, RegAssumption DEF Writes
  <2>j. \A p \in Index : Live(p) => Live(p)'
    BY <1>6, <1>a DEF Live
  <2>1. TypeOK'
    BY <1>0, <1>a, <1>c, <1>6, <2>a, <2>b, <2>f, <2>g, ShiftFacts DEF TypeOK
  <2>2. QueueInOrder' /\ IssueInv'
    BY <1>3, <1>6, <2>a, <2>c
  <2>3. StationInv'
    <3>1. /\ \A s \in RSInt : reservINT'[s] # NULL
                => /\ tom_issue_cycle'[reservINT'[s]] # 0
                   /\ USES_INT_FU(trace[reservINT'[s]].op)
          /\ \A s \in RSFp : reservFP'[s] # NULL
                => /\ tom_issue_cycle'[reservFP'[s]] # 0
                   /\ USES_FP_FU(trace[reservFP'[s]].op)
      <4>1. \A i \in Index : Issued(i) \/ i = head => tom_issue_cycle'[i] # 0
        BY <2>c DEF Issued
      <4>2. /\ \A s \in RSInt : reservINT'[s] # NULL => reservINT'[s] \in Index
            /\ \A s \in RSFp : reservFP'[s] # NULL => reservFP'[s] \in Index
        BY <1>6 DEF Ptr
      <4> QED
        BY <1>6, <4>1, <4>2 DEF StationInv
    <3>2. \A i \in Index : Issued(i)' /\ ~InRS(i)'
            => /\ tom_execute_cycle[i] # 0
               /\ WRITES_CDB(trace[i].op) => tom_cdb_cycle[i] # 0
      BY <1>6, <2>c DEF StationInv
    <3>3. \A i \in Index : tom_execute_cycle[i] # 0 => Issued(i)' /\ Ready(i)'
      BY <2>0, <2>c, <2>f DEF StationInv, Ready
    <3>4. \A i \in Index : tom_cdb_cycle[i] # 0 => ~InRS(i)'
      BY <1>6, <2>0 DEF StationInv
    <3> QED
      BY <1>a, <3>1, <3>2, <3>3, <3>4 DEF StationInv, Issued
  <2>4. NoLostWakeup'
    <3>1. \A r \in Reg : map_table[r] # NULL =>
            /\ map_table[r] \in Index /\ Live(map_table[r])
            /\ WRITES_CDB(trace[map_table[r]].op) /\ map_table[r] < head
      <4> SUFFICES ASSUME NEW r \in Reg, map_table[r] # NULL
                   PROVE  /\ map_table[r] \in Index /\ Live(map_table[r])
                          /\ WRITES_CDB(trace[map_table[r]].op)
                          /\ map_table[r] < head
        OBVIOUS
      <4>1. /\ map_table[r] \in Index /\ Live(map_table[r])
            /\ WRITES_CDB(trace[map_table[r]].op)
        BY <1>0 DEF NoLostWakeup, TypeOK, Ptr
      <4>2. Issued(map_table[r])
        BY <4>1 DEF Live, InRS, InINT, InFP, StationInv, BusInv, StagesInOrder,
                    Index
      <4> QED
        BY <2>0, <4>1, <4>2
    <3>2. \A i \in Index, j \in In : InRS(i)' /\ Q'[i][j] # NULL
            => /\ Q'[i][j] \in Index /\ Live(Q'[i][j]) /\ Q'[i][j] < i
               /\ WRITES_CDB(trace[Q'[i][j]].op)
      <4> SUFFICES ASSUME NEW i \in Index, NEW j \in In, InRS(i)',
                          Q'[i][j] # NULL
                   PROVE  /\ Q'[i][j] \in Index /\ Live(Q'[i][j])
                          /\ Q'[i][j] < i /\ WRITES_CDB(trace[Q'[i][j]].op)
        OBVIOUS
      <4>1. CASE i = head
        BY <2>d, <2>f, <3>1, <4>1 DEF Producers
      <4>2. CASE i # head
        BY <1>0, <1>6, <2>f, <4>2 DEF NoLostWakeup, TypeOK, Ptr
      <4> QED
        BY <4>1, <4>2
    <3>3. \A r \in Reg : map_table'[r] # NULL =>
            /\ map_table'[r] \in Index
            /\ Live(map_table'[r]) \/ map_table'[r] = head
            /\ WRITES_CDB(trace[map_table'[r]].op)
      BY <2>0, <2>g, <2>i, <3>1
    <3>4. \A p \in Index : p = head => Live(p)'
      BY <1>6 DEF Live
    <3>5. \A i \in Index, j \in In : InRS(i)' /\ Q'[i][j] # NULL
            => Live(Q[i][j])'
      <4> SUFFICES ASSUME NEW i \in Index, NEW j \in In, InRS(i)',
                          Q'[i][j] # NULL
                   PROVE  Live(Q[i][j])'
        OBVIOUS
      <4>1. ASSUME NEW p \in Index, p = Q'[i][j] PROVE Live(Q[i][j])'
        BY <2>j, <3>2, <4>1 DEF Live, InRS, InINT, InFP
      <4> QED
        BY <3>2, <4>1
    <3>6. \A r \in Reg : map_table'[r] # NULL => Live(map_table[r])'
      <4> SUFFICES ASSUME NEW r \in Reg, map_table'[r] # NULL
                   PROVE  Live(map_table[r])'
        OBVIOUS
      <4>1. ASSUME NEW p \in Index, p = map_table'[r] PROVE Live(map_table[r])'
        BY <2>0, <2>j, <3>3, <3>4, <4>1 DEF Live, InRS, InINT, InFP
      <4> QED
        BY <3>3, <4>1
    <3> QED
      BY <1>a, <3>2, <3>3, <3>5, <3>6 DEF NoLostWakeup
  <2>5. MapTableExact'
    <3> SUFFICES ASSUME NEW r \in Reg, NEW p \in Index, LastIssuedWriter(p, r)'
                 PROVE  \/ map_table'[r] = p
                        \/ map_table'[r] = NULL /\ ~InRS(p)'
      BY DEF MapTableExact
    <3>0. /\ Issued(p) \/ p = head
          /\ Writes(p, r)
          /\ \A q \in Index : (Issued(q) \/ q = head) /\ Writes(q, r) => q <= p
      BY <2>c, <2>h DEF LastIssuedWriter
    <3>1. CASE Writes(head, r)
      BY <2>0, <2>g, <3>0, <3>1 DEF Index
    <3>2. CASE ~Writes(head, r)
      <4>1. LastIssuedWriter(p, r) /\ p # head
        BY <3>0, <3>2 DEF LastIssuedWriter
      <4> QED
        BY <1>6, <2>g, <3>2, <4>1 DEF MapTableExact
    <3> QED
      BY <3>1, <3>2
  <2>6. RAWInv'
    <3> SUFFICES ASSUME NEW i \in Index, NEW p \in Index, NEW j \in In,
                        Issued(i) \/ i = head, trace[i].r_in[j] # DNA,
                        Producer(p, i, trace[i].r_in[j])
                 PROVE  Q'[i][j] = p \/ ~InRS(p)'
      BY <1>a, <2>c DEF RAWInv, Producer, Writes
    <3>0. p < i /\ p # head
      BY <2>0 DEF Producer, Index
    <3>1. CASE i # head
      BY <1>6, <2>f, <3>0, <3>1 DEF RAWInv
    <3>2. CASE i = head
      <4> DEFINE r == trace[head].r_in[j]
      <4>1. r \in Reg /\ Q'[i][j] = map_table[r]
        <5>1. r \in Reg /\ Producers(head)[j] = map_table[r]
          BY <2>d, <3>2 DEF Producers
        <5> QED
          BY <2>f, <3>2, <5>1
      <4>2. Issued(p)
        <5>1. p < fetch_index /\ UsesRS(trace[p].op)
          BY <1>0, <1>6, <3>0, <3>2, HeadFacts DEF Producer, TypeOK, Index
        <5>2. ~InQueue(p)
          BY <1>6, <3>0, <3>2, HeadFacts DEF Index
        <5> QED
          BY <5>1, <5>2 DEF QueueInOrder
      <4>3. \A q \in Index : Issued(q) => UsesRS(trace[q].op) /\ q < head
        BY <2>0 DEF IssueInv
      <4>4. LastIssuedWriter(p, r)
        BY <3>2, <4>2, <4>3 DEF LastIssuedWriter, Producer, Index
      <4> QED
        BY <1>6, <3>0, <4>1, <4>4 DEF MapTableExact
    <3> QED
      BY <3>1, <3>2
  <2>7. ClockInv'
    BY <1>0, <1>a, <1>4, <1>6, <2>a, <2>b DEF ClockInv, TypeOK
  <2>8. StagesInOrder'
    <3>1. \A i \in Index :
            /\ Issued(i)' => tom_dispatch_cycle[i] \in 1 .. tom_issue_cycle'[i]
            /\ tom_execute_cycle[i] # 0
                 => Issued(i)' /\ tom_issue_cycle'[i] < tom_execute_cycle[i]
      BY <1>6, <2>0, <2>b, <2>c, HeadFacts DEF StagesInOrder
    <3>2. \A i, k \in Index : i < k /\ Issued(i)' /\ Issued(k)'
            => tom_issue_cycle'[i] < tom_issue_cycle'[k]
      BY <1>a, <2>0, <2>b, <2>c DEF StagesInOrder, ClockInv, Index
    <3> QED
      BY <1>a, <3>1, <3>2 DEF StagesInOrder, Latency
  <2> QED
    BY <1>b, <1>c, <2>1, <2>2, <2>3, <2>4, <2>5, <2>6, <2>7, <2>8
<1>7. CASE IssueINT \/ IssueFP
  BY <1>6, <1>7, StationFacts
<1> QED
  BY <1>2, <1>5, <1>7 DEF dispatch_To_issue

LEMMA DoneCheckInv == Inv /\ is_simulation_done => Inv'
<1> SUFFICES ASSUME Inv, is_simulation_done PROVE Inv'
  OBVIOUS
<1> USE DEF Inv, IInv
<1>0. TypeOK
  OBVIOUS
<1>a. /\ trace' = trace /\ Q' = Q /\ map_table' = map_table
      /\ instr_queue' = instr_queue /\ instr_queue_size' = instr_queue_size
      /\ fetch_index' = fetch_index
      /\ reservINT' = reservINT /\ reservFP' = reservFP
      /\ fuINT' = fuINT /\ fuFP' = fuFP
      /\ commonDataBus' = commonDataBus
      /\ tom_dispatch_cycle' = tom_dispatch_cycle
      /\ tom_issue_cycle' = tom_issue_cycle
      /\ tom_execute_cycle' = tom_execute_cycle
      /\ tom_cdb_cycle' = tom_cdb_cycle
  BY DEF is_simulation_done, stamps
<1>b. /\ cycle \in Nat \ {0} /\ cycle' = cycle + 1 /\ cycle' \in Nat \ {0}
      /\ pc = "is_simulation_done" /\ pc' \in {"done", "CDB_To_retire"}
      /\ pc' = "done" => AllFetched /\ PipelineEmpty
  BY <1>0 DEF is_simulation_done, TypeOK
<1>c. dont_fetch' \in BOOLEAN /\ (dont_fetch' <=> dont_fetch \/ AllFetched)
  BY DEF is_simulation_done
<1>1. TraceOK' /\ TypeOK'
  <2>1. pc' \in Functions
    BY <1>b DEF Functions
  <2> QED
    BY <1>0, <1>a, <1>b, <1>c, <2>1 DEF TraceOK, TypeOK
<1>2. FetchInv'
  <2>1. dont_fetch' \/ fetch_index' < sim_num_insn
    BY <1>0, <1>a, <1>c, SizeAssumption DEF AllFetched, TypeOK, Index
  <2> QED
    BY <2>1 DEF FetchInv
<1>3. /\ QueueInOrder' /\ IssueInv' /\ NoLostWakeup' /\ MapTableExact'
      /\ RAWInv' /\ StagesInOrder'
  BY <1>a DEF QueueInOrder, IssueInv, NoLostWakeup, MapTableExact, RAWInv,
     StagesInOrder, LastIssuedWriter, Producer, Live, Issued, Writes, Latency,
     InQueue, InRS, InINT, InFP
<1>4. StationInv' /\ BusInv'
  BY <1>a, <1>b DEF StationInv, BusInv, Issued, Ready, InRS, InINT, InFP
<1>5. ClockInv'
  BY <1>0, <1>a, <1>b DEF ClockInv, TypeOK, Ptr
<1>6. DoneInv'
  BY <1>a, <1>b DEF DoneInv, AllFetched, PipelineEmpty
<1> QED
  BY <1>1, <1>2, <1>3, <1>4, <1>5, <1>6

\* The pipeline invariant is inductive.
LEMMA NextInv == Inv /\ [Next]_vars => Inv'
<1> SUFFICES ASSUME Inv, [Next]_vars PROVE Inv'
  OBVIOUS
<1>1. CASE CDB_To_retire
  BY <1>1, RetireInv
<1>2. CASE execute_To_CDB
  BY <1>2, ExecuteInv
<1>3. CASE issue_To_execute
  BY <1>3, IssueToExecuteInv
<1>4. CASE fetch_To_dispatch
  BY <1>4, FetchToDispatchInv
<1>5. CASE dispatch_To_issue
  BY <1>5, DispatchInv
<1>6. CASE is_simulation_done
  BY <1>6, DoneCheckInv
<1>7. CASE UNCHANGED vars
  BY <1>7 DEF vars, queueVars, stamps, Inv, IInv, TraceOK, TypeOK, FetchInv,
     QueueInOrder, IssueInv, StationInv, BusInv, NoLostWakeup, MapTableExact,
     RAWInv, ClockInv, StagesInOrder, DoneInv, InQueue, Issued, InRS, InINT,
     InFP, Ready, Live, LastIssuedWriter, Writes, Producer, Latency,
     AllFetched, PipelineEmpty
<1> QED
  BY <1>1, <1>2, <1>3, <1>4, <1>5, <1>6, <1>7 DEF Next

LEMMA SpecInv == Spec => []Inv
BY InitInv, NextInv, PTL DEF Spec

(***************************************************************************)
(* The inductive invariant holds of every simulation: for every size of     *)
(* queue, stations and units and every recorded trace.                      *)
(***************************************************************************)
THEOREM PipelineInvariant == Spec => []IInv
<1>1. Inv => IInv
  BY DEF Inv
<1> QED
  BY <1>1, SpecInv, PTL

(***************************************************************************)
(* Type correctness, with the two bounds that hold the arrays together: the *)
(* queue counter stays within the queue and fetch_To_dispatch never reads   *)
(* past the recorded trace.                                                 *)
(***************************************************************************)
THEOREM TypeCorrect == Spec => []TypeOK
<1>1. IInv => TypeOK
  BY DEF IInv
<1> QED
  BY <1>1, PipelineInvariant, PTL

(***************************************************************************)
(* The array and the counter of the instruction queue always describe the   *)
(* same FIFO in program order, and no fetched instruction is dropped.       *)
(***************************************************************************)
THEOREM QueueCorrect == Spec => []QueueInOrder
<1>1. IInv => QueueInOrder
  BY DEF IInv
<1> QED
  BY <1>1, PipelineInvariant, PTL

(***************************************************************************)
(* No instruction waits for a producer that has already retired.            *)
(***************************************************************************)
THEOREM WakeupCorrect == Spec => []NoLostWakeup
<1>1. IInv => NoLostWakeup
  BY DEF IInv
<1> QED
  BY <1>1, PipelineInvariant, PTL

(***************************************************************************)
(* The map table names the last issued writer of a register until that      *)
(* writer has broadcast.                                                    *)
(***************************************************************************)
THEOREM RenamingCorrect == Spec => []MapTableExact
<1>1. IInv => MapTableExact
  BY DEF IInv
<1> QED
  BY <1>1, PipelineInvariant, PTL

(***************************************************************************)
(* No instruction enters execute before the last writer, in program order,  *)
(* of each of its inputs has been broadcast on the CDB.                     *)
(***************************************************************************)
THEOREM RAWCorrect == Spec => []RAWResolved
<1>1. Inv => RAWResolved
  <2> SUFFICES ASSUME Inv, NEW i \in Index, NEW p \in Index, NEW j \in In,
                      tom_execute_cycle[i] # 0,
                      trace[i].r_in[j] # DNA,
                      Producer(p, i, trace[i].r_in[j])
               PROVE  tom_cdb_cycle[p] # 0 /\ ~InRS(p)
    BY DEF RAWResolved
  <2> USE DEF Inv, IInv
  <2>1. Issued(i) /\ Q[i][j] = NULL
    BY DEF StationInv, Ready
  <2>2. ~InRS(p)
    BY <2>1 DEF RAWInv, Index
  <2>3. p < fetch_index /\ p < i /\ UsesRS(trace[p].op)
    BY <2>1 DEF Producer, IssueInv, TypeOK, Index
  <2>4. ~InQueue(p)
    <3> SUFFICES ASSUME NEW s \in QSlot, instr_queue[s] = p PROVE FALSE
      BY DEF InQueue
    <3> QED
      BY <2>1, <2>3 DEF IssueInv, Index
  <2>5. Issued(p)
    BY <2>3, <2>4 DEF QueueInOrder
  <2>6. WRITES_CDB(trace[p].op)
    <3>1. trace[i].r_in[j] # DNA /\ Writes(p, trace[i].r_in[j])
      BY DEF Producer
    <3> QED
      BY <2>3, <3>1, TraceFacts DEF Writes
  <2> QED
    BY <2>2, <2>5, <2>6 DEF StationInv
<1> QED
  BY <1>1, SpecInv, PTL

(***************************************************************************)
(* The recorded table is a pipeline diagram.                                *)
(***************************************************************************)
THEOREM TableCorrect == Spec => []StagesInOrder
<1>1. IInv => StagesInOrder
  BY DEF IInv
<1> QED
  BY <1>1, PipelineInvariant, PTL

(***************************************************************************)
(* When runTomasulo returns, every fetched instruction has been through all *)
(* its stages and the map table is empty.                                   *)
(***************************************************************************)
THEOREM CompletionCorrect == Spec => []DoneMeansComplete
<1>1. Inv => DoneMeansComplete
  <2> SUFFICES ASSUME Inv, pc = "done"
               PROVE  /\ \A i \in 0 .. sim_num_insn - 1 : Complete(i)
                      /\ \A r \in Reg : map_table[r] = NULL
    BY DEF DoneMeansComplete
  <2> USE DEF Inv, IInv
  <2>1. AllFetched /\ PipelineEmpty
    BY DEF DoneInv
  <2>2. \A i \in Index : ~InRS(i) /\ ~InQueue(i) /\ commonDataBus # i
    BY <2>1 DEF PipelineEmpty, InRS, InINT, InFP, InQueue, Index
  <2>3. ASSUME NEW i \in 0 .. sim_num_insn - 1 PROVE Complete(i)
    <3>1. i \in Index /\ i < fetch_index
      BY <2>1, SizeAssumption DEF AllFetched, TypeOK, Index
    <3> QED
      BY <2>2, <3>1 DEF Complete, QueueInOrder, StationInv
  <2>4. ASSUME NEW r \in Reg PROVE map_table[r] = NULL
    BY <2>2 DEF NoLostWakeup, Live, TypeOK, Ptr
  <2> QED
    BY <2>3, <2>4
<1> QED
  BY <1>1, SpecInv, PTL

-----------------------------------------------------------------------------
(* Tomasulo implements Dataflow.                                            *)

\* An instruction's phase follows from its issue stamp, its station and its
\* execute stamp alone.
LEMMA PhaseUnchanged ==
    ASSUME trace' = trace,
           \A i \in Fetched :
              /\ Issued(i)' <=> Issued(i)
              /\ InRS(i)' <=> InRS(i)
              /\ tom_execute_cycle'[i] = 0 <=> tom_execute_cycle[i] = 0
    PROVE  UNCHANGED <<phase, program>>
BY DEF phase, program

\* A producer in the sense of Dataflow is one in the sense of Tomasulo.
LEMMA FeedsProducer ==
    ASSUME Inv, NEW p \in Fetched, NEW i \in Fetched, DF!Feeds(p, i)
    PROVE  /\ UsesRS(trace[p].op)
           /\ \E j \in In : /\ trace[i].r_in[j] # DNA
                            /\ Producer(p, i, trace[i].r_in[j])
<1> USE DEF Fetched
<1>0. p \in Index /\ i \in Index
  BY SizeAssumption DEF Index
<1>1. PICK r \in program[p].writes \cap program[i].reads :
        \A q \in Fetched : p < q /\ q < i /\ program[q].executes
                             => r \notin program[q].writes
  BY DEF DF!Feeds, DF!Executes
<1>2. p < i /\ UsesRS(trace[p].op)
  BY DEF DF!Feeds, DF!Executes, program
<1>3. PICK j \in In : r = trace[i].r_in[j] /\ r # DNA
  BY <1>1 DEF program
<1>4. Writes(p, r)
  BY <1>1 DEF program, Writes
<1>5. \A q \in Index : p < q /\ q < i /\ UsesRS(trace[q].op) => ~Writes(q, r)
  <2> SUFFICES ASSUME NEW q \in Index, p < q, q < i, UsesRS(trace[q].op),
                      Writes(q, r)
               PROVE  FALSE
    OBVIOUS
  <2>1. q \in Fetched
    BY SizeAssumption DEF Index
  <2>2. program[q].executes /\ r \in program[q].writes
    BY <1>3, <2>1 DEF program, Writes
  <2> QED
    BY <1>1, <2>1, <2>2
<1> QED
  BY <1>2, <1>3, <1>4, <1>5 DEF Producer

LEMMA StepRefines ==
    ASSUME Inv, Inv', [Next]_vars
    PROVE  [DF!Next]_<<phase, program>>
<1>0. /\ TypeOK /\ Fetched \subseteq Index
      /\ \A i \in Fetched : i \in Int
  BY SizeAssumption DEF Inv, IInv, Index, Fetched
<1>a. /\ StationInv /\ RAWInv /\ IssueInv /\ QueueInOrder
      /\ \A i \in Index : tom_execute_cycle'[i] # 0 => Issued(i)' /\ Ready(i)'
  BY DEF Inv, IInv, StationInv
<1>1. CASE CDB_To_retire
  <2>1. \A i \in Fetched :
              /\ Issued(i)' <=> Issued(i)
              /\ InRS(i)' <=> InRS(i)
              /\ tom_execute_cycle'[i] = 0 <=> tom_execute_cycle[i] = 0
    BY <1>1 DEF CDB_To_retire, stamps, Issued, InRS, InINT, InFP
  <2> QED
    BY <1>1, <2>1, PhaseUnchanged DEF CDB_To_retire
<1>2. CASE execute_To_CDB
  <2> DEFINE S == {i \in Fetched : InRS(i) /\ ~InRS(i)'}
  <2>1. /\ trace' = trace /\ tom_issue_cycle' = tom_issue_cycle
        /\ tom_execute_cycle' = tom_execute_cycle
    BY <1>2 DEF execute_To_CDB
  <2>2. \A i \in Index : InRS(i)' => InRS(i)
    BY <1>2, ExecuteShrinks
  <2>3. \A i \in S : /\ Issued(i) /\ InRS(i) /\ tom_execute_cycle[i] # 0
                     /\ WRITES_CDB(trace[i].op) => commonDataBus' = i
    <3> SUFFICES ASSUME NEW i \in S
                 PROVE  /\ Issued(i) /\ InRS(i) /\ tom_execute_cycle[i] # 0
                        /\ WRITES_CDB(trace[i].op) => commonDataBus' = i
      OBVIOUS
    <3>1. /\ i \in Index /\ InRS(i) /\ tom_execute_cycle[i] # 0
          /\ WRITES_CDB(trace[i].op) => commonDataBus' = i
      BY <1>0, <1>2, ExecuteStep
    <3> QED
      BY <1>a, <3>1 DEF StationInv
  <2>4. \A i \in S : phase[i] = "executing"
    BY <2>3 DEF phase
  <2>5. \A i, k \in S : program[i].broadcasts /\ program[k].broadcasts => i = k
    BY <2>3 DEF program
  <2>6. phase' = [i \in Fetched |-> IF i \in S THEN "done" ELSE phase[i]]
    <3> SUFFICES ASSUME NEW i \in Fetched
                 PROVE  phase'[i] = IF i \in S THEN "done" ELSE phase[i]
      BY DEF phase
    <3>1. CASE i \in S
      BY <2>1, <2>3, <3>1 DEF phase, Issued
    <3>2. CASE i \notin S
      <4>1. InRS(i)' <=> InRS(i)
        BY <1>0, <2>2, <3>2
      <4> QED
        BY <2>1, <3>2, <4>1 DEF phase, Issued
    <3> QED
      BY <3>1, <3>2
  <2>7. program' = program
    BY <2>1 DEF program
  <2>8. DF!Finish(S)
    BY <2>4, <2>5, <2>6 DEF DF!Finish
  <2>9. S \in SUBSET Fetched
    OBVIOUS
  <2> QED
    BY <2>7, <2>8, <2>9 DEF DF!Next
<1>3. CASE issue_To_execute
  <2> DEFINE S == {i \in Fetched : tom_execute_cycle[i] = 0
                                     /\ tom_execute_cycle'[i] # 0}
  <2>1. /\ trace' = trace /\ tom_issue_cycle' = tom_issue_cycle
        /\ reservINT' = reservINT /\ reservFP' = reservFP /\ Q' = Q
    BY <1>3 DEF issue_To_execute
  <2>2. \A i \in Index : tom_execute_cycle[i] # 0 => tom_execute_cycle'[i] # 0
    BY <1>0, <1>3 DEF issue_To_execute, TypeOK
  <2>3. \A i \in Index : InRS(i)' <=> InRS(i)
    BY <2>1 DEF InRS, InINT, InFP
  <2>4. \A i \in S : Issued(i) /\ InRS(i) /\ Ready(i)
    <3> SUFFICES ASSUME NEW i \in S PROVE Issued(i) /\ InRS(i) /\ Ready(i)
      OBVIOUS
    <3>1. Issued(i) /\ Ready(i)
      BY <1>0, <1>a, <2>1 DEF Issued, Ready
    <3>2. InRS(i)
      BY <1>0, <1>a, <3>1 DEF StationInv
    <3> QED
      BY <3>1, <3>2
  <2>5. ASSUME NEW i \in S, NEW p \in Fetched, DF!Feeds(p, i)
        PROVE  phase[p] = "done"
    <3>0. i \in Index /\ p \in Index /\ i \in Fetched
      BY <1>0
    <3>1. UsesRS(trace[p].op) /\ p < i
      BY <2>5, <3>0, FeedsProducer DEF DF!Feeds
    <3>2. PICK j \in In : /\ trace[i].r_in[j] # DNA
                          /\ Producer(p, i, trace[i].r_in[j])
      BY <2>5, <3>0, FeedsProducer
    <3>3. ~InRS(p)
      <4>1. Issued(i) /\ Q[i][j] = NULL
        BY <2>4 DEF Ready
      <4>2. Q[i][j] = p \/ ~InRS(p)
        BY <1>a, <3>0, <3>2, <4>1 DEF RAWInv
      <4>3. p # NULL
        BY <3>0 DEF Index
      <4> QED
        BY <4>1, <4>2, <4>3
    <3>4. p < fetch_index
      BY <1>0, <1>a, <2>4, <3>0, <3>1 DEF IssueInv, TypeOK, Index
    <3>5. ~InQueue(p)
      <4> SUFFICES ASSUME NEW s \in QSlot, instr_queue[s] = p PROVE FALSE
        BY DEF InQueue
      <4>1. p # NULL /\ Issued(i)
        BY <2>4, <3>0 DEF Index
      <4>2. i < p
        BY <1>a, <3>0, <4>1 DEF IssueInv
      <4> QED
        BY <1>0, <3>0, <3>1, <4>2
    <3>6. Issued(p)
      BY <1>a, <3>0, <3>1, <3>4, <3>5 DEF QueueInOrder
    <3> QED
      BY <3>3, <3>6 DEF phase
  <2>6. \A i \in S : phase[i] = "waiting"
    BY <2>4 DEF phase
  <2>7. phase' = [i \in Fetched |-> IF i \in S THEN "executing" ELSE phase[i]]
    <3> SUFFICES ASSUME NEW i \in Fetched
                 PROVE  phase'[i] = IF i \in S THEN "executing" ELSE phase[i]
      BY DEF phase
    <3>0. InRS(i)' <=> InRS(i)
      BY <1>0, <2>3
    <3>1. CASE i \in S
      BY <2>1, <2>4, <3>0, <3>1 DEF phase, Issued
    <3>2. CASE i \notin S
      BY <1>0, <2>1, <2>2, <3>0, <3>2 DEF phase, Issued
    <3> QED
      BY <3>1, <3>2
  <2>8. program' = program
    BY <2>1 DEF program
  <2>9. DF!Start(S)
    BY <2>5, <2>6, <2>7 DEF DF!Start
  <2>10. S \in SUBSET Fetched
    OBVIOUS
  <2> QED
    BY <2>8, <2>9, <2>10 DEF DF!Next
<1>4. CASE fetch_To_dispatch
  <2>1. \A i \in Fetched :
              /\ Issued(i)' <=> Issued(i)
              /\ InRS(i)' <=> InRS(i)
              /\ tom_execute_cycle'[i] = 0 <=> tom_execute_cycle[i] = 0
    BY <1>4 DEF fetch_To_dispatch, Issued, InRS, InINT, InFP
  <2> QED
    BY <1>4, <2>1, PhaseUnchanged DEF fetch_To_dispatch
<1>5. CASE dispatch_To_issue
  <2>0. trace' = trace /\ tom_execute_cycle' = tom_execute_cycle
    BY <1>5 DEF dispatch_To_issue
  <2>1. CASE Stall \/ Evict
    <3>1. \A i \in Fetched :
              /\ Issued(i)' <=> Issued(i)
              /\ InRS(i)' <=> InRS(i)
              /\ tom_execute_cycle'[i] = 0 <=> tom_execute_cycle[i] = 0
      BY <2>0, <2>1 DEF Stall, Evict, Issued, InRS, InINT, InFP
    <3> QED
      BY <2>0, <3>1, PhaseUnchanged
  <2>2. ASSUME head # NULL, EnterStation, UsesRS(trace[head].op),
               \A i \in Index : InRS(i)' <=> InRS(i) \/ i = head
        PROVE  DF!Next
    <3>1. /\ head \in Fetched /\ head \in Index /\ ~Issued(head)
          /\ tom_execute_cycle[head] = 0
      <4>1. /\ head \in Index /\ ~Issued(head) /\ head < fetch_index
            /\ tom_execute_cycle[head] = 0
        BY <2>2, HeadFacts
      <4> QED
        BY <1>0, <4>1, SizeAssumption DEF TypeOK, Index, Fetched
    <3>2. \A i \in Index : tom_issue_cycle'[i] =
                              IF i = head THEN cycle ELSE tom_issue_cycle[i]
      BY <1>0, <2>2, <3>1 DEF EnterStation, TypeOK
    <3>3. cycle # 0
      BY <1>0 DEF TypeOK
    <3>4. phase[head] = "idle" /\ program[head].executes
      BY <2>2, <3>1 DEF phase, program
    <3>5. \A p \in Fetched : p < head /\ program[p].executes
                               => phase[p] # "idle"
      <4> SUFFICES ASSUME NEW p \in Fetched, p < head, UsesRS(trace[p].op)
                   PROVE  phase[p] # "idle"
        BY DEF program
      <4>1. p < fetch_index /\ ~InQueue(p)
        BY <1>0, <2>2, HeadFacts DEF TypeOK, Index
      <4>2. Issued(p)
        BY <1>0, <1>a, <4>1 DEF QueueInOrder
      <4> QED
        BY <4>2 DEF phase
    <3>6. phase' = [phase EXCEPT ![head] = "waiting"]
      <4> SUFFICES ASSUME NEW i \in Fetched
                   PROVE  phase'[i] = IF i = head THEN "waiting" ELSE phase[i]
        BY <3>1 DEF phase
      <4>1. i \in Index
        BY <1>0
      <4>2. CASE i = head
        BY <2>0, <2>2, <3>1, <3>2, <3>3, <4>1, <4>2 DEF phase, Issued
      <4>3. CASE i # head
        BY <2>0, <2>2, <3>2, <4>1, <4>3 DEF phase, Issued
      <4> QED
        BY <4>2, <4>3
    <3>7. program' = program
      BY <2>0 DEF program
    <3>8. DF!Issue(head)
      BY <3>4, <3>5, <3>6 DEF DF!Issue, DF!Executes
    <3> QED
      BY <3>1, <3>7, <3>8 DEF DF!Next
  <2>3. CASE IssueINT \/ IssueFP
    BY <2>2, <2>3, StationFacts
  <2> QED
    BY <1>5, <2>1, <2>3 DEF dispatch_To_issue
<1>6. CASE is_simulation_done
  <2>1. \A i \in Fetched :
              /\ Issued(i)' <=> Issued(i)
              /\ InRS(i)' <=> InRS(i)
              /\ tom_execute_cycle'[i] = 0 <=> tom_execute_cycle[i] = 0
    BY <1>6 DEF is_simulation_done, stamps, Issued, InRS, InINT, InFP
  <2> QED
    BY <1>6, <2>1, PhaseUnchanged DEF is_simulation_done
<1>7. CASE UNCHANGED vars
  <2>1. \A i \in Fetched :
              /\ Issued(i)' <=> Issued(i)
              /\ InRS(i)' <=> InRS(i)
              /\ tom_execute_cycle'[i] = 0 <=> tom_execute_cycle[i] = 0
    BY <1>7 DEF vars, stamps, Issued, InRS, InINT, InFP
  <2> QED
    BY <1>7, <2>1, PhaseUnchanged DEF vars
<1> QED
  BY <1>1, <1>2, <1>3, <1>4, <1>5, <1>6, <1>7 DEF Next

(***************************************************************************)
(* For every trace and every size of the machine the pipeline of tomasulo.c *)
(* is a dataflow execution of the fetched instructions: issue in program    *)
(* order, no start before the producers' results, one result a cycle.       *)
(***************************************************************************)
THEOREM TomasuloImplementsDataflow == Spec => ImplementsDataflow
<1>1. Init => DF!Init
  BY SizeAssumption DEF Init, DF!Init, phase, Issued, Fetched, Index
<1>2. Inv /\ Inv' /\ [Next]_vars => [DF!Next]_<<phase, program>>
  BY StepRefines
<1> QED
  BY <1>1, <1>2, SpecInv, PTL DEF Spec, ImplementsDataflow, DF!Spec
=============================================================================
