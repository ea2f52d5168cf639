---------------------------- MODULE Prefetchers ----------------------------
(***************************************************************************)
(* Lab4-Cache-Data-Prefetcher/cache.c: the whole of cache_access, with its  *)
(* statistics, its latencies and the prefetches it makes.  A demand access  *)
(* (prefetch = 0) ends by calling generate_prefetch, and the next-line, the *)
(* stride and the open-ended (delta-correlating) prefetcher call            *)
(* cache_access again, on the cache that is being accessed, with            *)
(* prefetch = 1.                                                            *)
(*                                                                         *)
(* The state that a call changes is a record m, passed from call to call:   *)
(* the cache, the time each block is ready, the bus, the counters, the two  *)
(* prediction tables, the latency returned.  sim-cache.c makes every access *)
(* at time 0.                                                               *)
(* The arrays cand and prefetch of the open-ended prefetcher have 4 and 2   *)
(* elements; a write behind their end goes either unnoticed or ends the     *)
(* simulator (overrun), which is a choice here.                             *)
(***************************************************************************)
EXTENDS Cache, StrideTable, Sequences

CONSTANTS
    OPEN_ROWS,          \* rows of the DCPT (512)
    Workloads           \* what is accessed, and with which prefetcher:
    (* [name, config, prefetch_type: 0 none, 1 next line, 2 open-ended,     *)
    (* n > 2: stride with an RPT of n rows, addrs: the addresses that the   *)
    (* k-th access may have, k = 0, 1, ..., PCs: of the loads and stores,   *)
    (* cmds: "Read" and "Write", or one of them, invalidations: no flush    *)
    (* once so many blocks were invalidated]                                *)

ASSUME RowsAssumption == OPEN_ROWS \in Nat \ {0}
ASSUME WorkloadAssumption ==
    \A w \in Workloads :
      /\ w.config \in Configs /\ w.prefetch_type \in Nat
      /\ DOMAIN w.addrs \subseteq Nat
      /\ \A k \in DOMAIN w.addrs : w.addrs[k] \subseteq 0 .. AddrSpace - 1
      /\ w.PCs \subseteq Nat /\ w.cmds \subseteq {"Read", "Write"}
      /\ w.invalidations \in Nat

DELTAS == 6             \* deltas per row; the code is written for this value
CAND_SIZE == (DELTAS - 4) * (DELTAS - 4)
PREFETCH_SIZE == DELTAS - 4

VARIABLES
    workload, ready, bus_free, stats, RPT, DCPT,
    overrun,            \* an array was written behind its end
    last,               \* history: the last demand access and its latency
    runs                \* history: per RPT entry, equal strides in a row

pvars == <<cp, unwritten, workload, ready, bus_free, stats, RPT, DCPT,
           overrun, last, runs>>

prefetch_type == workload.prefetch_type

-----------------------------------------------------------------------------
(* One access without its prefetch.                                         *)

BOUND_POS(n) == IF n > 0 THEN n ELSE 0
Bigger(a, b) == IF a > b THEN a ELSE b
HIT_LATENCY  == 1       \* hit latency of every cache of sim-cache.c
NEXT_LATENCY == 1       \* what its miss handlers return for main memory

Counted(st, cmd, kind, prefetch) ==
    IF prefetch = 1
      THEN [st EXCEPT !.prefetch_hits = @ + (IF kind = "hit" THEN 1 ELSE 0),
                      !.prefetch_misses = @ + (IF kind = "hit" THEN 0 ELSE 1)]
      ELSE LET h == IF kind = "hit" THEN 1 ELSE 0
               r == IF cmd = "Read" THEN 1 ELSE 0
           IN [st EXCEPT !.hits = @ + h, !.misses = @ + (1 - h),
                         !.read_hits = @ + h * r,
                         !.read_misses = @ + (1 - h) * r]

HitBlk(c, addr) ==
    IF FastHit(c, addr) THEN c.last_blk
    ELSE <<CACHE_SET(c, addr), CHOOSE w \in Found(c, addr) : TRUE>>

HitTimed(m, cmd, addr, now, prefetch) ==
    LET c   == AccessBlock(m.cp, cmd, addr, 0)
        blk == HitBlk(m.cp, addr)
    IN [m EXCEPT
         !.cp = c,
         !.stats = Counted(@, cmd, "hit", prefetch),
         !.unwritten = IF cmd = "Write" /\ ~c.crashed
                         THEN @ \cup {CACHE_BADDR(c, addr)} ELSE @,
         !.lat = IF c.crashed THEN 0
                 ELSE Bigger(HIT_LATENCY, m.ready[blk[1]][blk[2]] - now)]

\* Mutant: only the replacements that write back are counted.
MissTimedDirtyOnly(m, cmd, addr, now, prefetch, rand) ==
    LET back == WrittenBack(m.cp, addr, rand)
        st   == Counted(m.stats, cmd, "miss", prefetch)
    IN [m EXCEPT
         !.cp = AccessBlock(m.cp, cmd, addr, rand),
         !.stats = [st EXCEPT !.replacements = @ + Cardinality(back),
                              !.writebacks = @ + Cardinality(back)]]
MissTimed(m, cmd, addr, now, prefetch, rand) ==
    LET c     == m.cp
        set   == CACHE_SET(c, addr)
        repl  == Replaced(c, addr, rand)
        valid == VALID \in c.status[set][repl]
        back  == WrittenBack(c, addr, rand)
        settled == BOUND_POS(m.ready[set][repl] - now)
        onBus   == settled + BOUND_POS(m.bus_free - (now + settled))
        lat   == (IF valid THEN onBus ELSE 0)
                 + (IF back # {} THEN NEXT_LATENCY ELSE 0) + NEXT_LATENCY
        counted == [Counted(m.stats, cmd, "miss", prefetch) EXCEPT
                      !.replacements = @ + (IF valid THEN 1 ELSE 0),
                      !.writebacks = @ + Cardinality(back)]
    IN [m EXCEPT
         !.cp = AccessBlock(c, cmd, addr, rand),
         !.stats = counted,
         !.unwritten = (@ \ back) \cup (IF cmd = "Write"
                                          THEN {CACHE_BADDR(c, addr)} ELSE {}),
         !.bus_free = IF valid THEN Bigger(@, now + onBus) + 1 ELSE @,
         !.ready[set][repl] = now + lat,
         !.lat = lat]

AccessTimed(m, cmd, addr, now, prefetch, rand) ==
    IF Miss(m.cp, addr) THEN MissTimed(m, cmd, addr, now, prefetch, rand)
    ELSE HitTimed(m, cmd, addr, now, prefetch)

(* A prefetch: cache_access(cp, Read, baddr, ..., now = NULL, ..., 1).      *)
Prefetch(m, addr, rand) ==
    IF m.cp.crashed THEN m
    ELSE AccessTimed(m, "Read", CACHE_BADDR(m.cp, addr), 0, 1, rand)
PrefetchUnlessCached(m, addr, rand) ==
    IF cache_probe(m.cp, CACHE_BADDR(m.cp, addr)) THEN m
    ELSE Prefetch(m, addr, rand)

-----------------------------------------------------------------------------
(* next_line_prefetcher                                                     *)
next_line_prefetcher(m, addr, rand) ==
    PrefetchUnlessCached(m, (addr + m.cp.bsize) % AddrSpace, rand)

-----------------------------------------------------------------------------
(* stride_prefetcher: the row of the table of StrideTable is the PC's.       *)
RptIndex(m, PC) == ((PC \div 4) % Len(m.RPT)) + 1

stride_prefetcher(m, addr, PC, rand) ==
    LET i     == RptIndex(m, PC)
        entry == StrideTrained(m.RPT[i], PC \div 4, addr)
        after == [m EXCEPT !.RPT[i] = entry]
    IN IF m.RPT[i].PC = PC \div 4 /\ entry.state # NOPRED
         THEN PrefetchUnlessCached(after, (addr + entry.stride) % AddrSpace,
                                   rand)
         ELSE after

-----------------------------------------------------------------------------
(* open_ended_prefetcher: the delta-correlating prediction table.  Columns  *)
(* 3 to 8 of a row are its deltas, the latest first; -1 is no delta.        *)
NODELTA == AddrSpace - 1

\* Mutant: the new delta takes the place of the latest one.
RowOverwritten(row, PC, addr) ==
    IF row.PC # PC
      THEN [PC |-> PC, prev |-> addr, pref |-> 0,
            delta |-> [d \in 1 .. DELTAS |-> NODELTA]]
    ELSE [row EXCEPT !.prev = addr, !.delta[1] = Stride(row, addr)]
RowTrained(row, PC, addr) ==
    IF row.PC # PC
      THEN [PC |-> PC, prev |-> addr, pref |-> 0,
            delta |-> [d \in 1 .. DELTAS |-> NODELTA]]
    ELSE IF addr = row.prev THEN row
    ELSE [row EXCEPT
            !.prev = addr,
            !.delta = [d \in 1 .. DELTAS |-> IF d = 1 THEN Stride(row, addr)
                                             ELSE row.delta[d - 1]]]

(* Where the two latest deltas occurred before, at d and d - 1: the deltas  *)
(* that followed then, added to the address.                                *)
\* Mutant: the latest delta itself is a candidate, too.
CandidatesAtOneMore(row, addr, d) ==
    IF row.delta[d] = row.delta[1] /\ row.delta[d - 1] = row.delta[2]
      THEN [n \in 1 .. d - 2 |-> (addr + row.delta[d - 1 - n]) % AddrSpace]
      ELSE <<>>
CandidatesAt(row, addr, d) ==
    IF row.delta[d] = row.delta[1] /\ row.delta[d - 1] = row.delta[2]
      THEN [n \in 1 .. d - 3 |-> (addr + row.delta[d - 1 - n]) % AddrSpace]
      ELSE <<>>
Candidates(row, addr) ==
    CandidatesAt(row, addr, DELTAS) \o CandidatesAt(row, addr, DELTAS - 1)

(* One turn of the loop that selects among the candidates.  inFlight        *)
(* starts as thirty-two times -1.                                           *)
SelectCandidate(c, last_prefetch, sel, cand) ==
    LET fresh  == cand \notin sel.inFlight /\ ~cache_probe(c, CACHE_BADDR(c, cand))
        chosen == IF fresh THEN Append(sel.prefetch, cand) ELSE sel.prefetch
    IN [prefetch |-> IF cand = last_prefetch THEN <<>> ELSE chosen,
        pref     |-> IF fresh THEN cand ELSE sel.pref,
        inFlight |-> IF fresh THEN sel.inFlight \cup {cand} ELSE sel.inFlight,
        overrun  |-> sel.overrun \/ Len(chosen) > PREFETCH_SIZE]

Selected(c, row, addr) ==
    LET cands == Candidates(row, addr)
        start == [prefetch |-> <<>>, pref |-> row.pref, inFlight |-> {NODELTA},
                  overrun |-> Len(cands) > CAND_SIZE]
        sel[k \in 0 .. Len(cands)] ==
          IF k = 0 THEN start
          ELSE SelectCandidate(c, row.pref, sel[k - 1], cands[k])
    IN sel[Len(cands)]

(* The prefetches of the first n addresses, one after the other.            *)
Fetched(m, addrs, n, rands) ==
    LET f[j \in 0 .. n] ==
          IF j = 0 THEN m ELSE Prefetch(f[j - 1], addrs[j], rands[j])
    IN f[n]

open_ended_prefetcher(m, addr, PC, rands) ==
    LET i   == ((PC \div 4) % Len(m.DCPT)) + 1
        old == m.DCPT[i]
        row == RowTrained(old, PC \div 4, addr)
        sel == Selected(m.cp, row, addr)
        trained == [row EXCEPT !.pref = sel.pref]
        n   == IF Len(sel.prefetch) < 5 THEN Len(sel.prefetch) ELSE 5
    IN IF old.PC # PC \div 4 \/ addr = old.prev
         THEN [m EXCEPT !.DCPT[i] = row]
         ELSE Fetched([m EXCEPT !.DCPT[i] = trained,
                                !.overrun = @ \/ sel.overrun],
                      sel.prefetch, n, rands)

-----------------------------------------------------------------------------
generate_prefetch(m, type, addr, PC, rands) ==
    CASE type = 0 -> m
      [] type = 1 -> next_line_prefetcher(m, addr, rands[1])
      [] type = 2 -> open_ended_prefetcher(m, addr, PC, rands)
      [] OTHER    -> stride_prefetcher(m, addr, PC, rands[1])

(* cache_access with prefetch = 0.  A hit returns the time the block is     *)
(* ready as it is after the prefetch (cache.c:996, 1041).                   *)
DemandAccess(m, type, cmd, addr, PC, now, rands) ==
    LET done    == AccessTimed(m, cmd, addr, now, 0, rands[0])
        blk     == HitBlk(m.cp, addr)
        Timed(fetched, first_lat) ==
          [fetched EXCEPT
            !.first_lat = first_lat,
            !.lat = IF Miss(m.cp, addr) THEN first_lat
                    ELSE Bigger(HIT_LATENCY,
                                fetched.ready[blk[1]][blk[2]] - now)]
    IN IF done.cp.crashed THEN done
       ELSE Timed(generate_prefetch(done, type, addr, PC, rands), done.lat)

-----------------------------------------------------------------------------
NoStats == [hits |-> 0, misses |-> 0, read_hits |-> 0, read_misses |-> 0,
            prefetch_hits |-> 0, prefetch_misses |-> 0,
            replacements |-> 0, writebacks |-> 0, invalidations |-> 0]
EmptyRow == [PC |-> AddrSpace - 1, prev |-> AddrSpace - 1,
             pref |-> AddrSpace - 1,
             delta |-> [d \in 1 .. DELTAS |-> NODELTA]]
RptRows(w) == IF w.prefetch_type > 2 THEN w.prefetch_type ELSE 0
DcptRows(w) == IF w.prefetch_type = 2 THEN OPEN_ROWS ELSE 0
NoAccess == [addr |-> NULL, lat |-> 0, first_lat |-> 0]

PFInit ==
    /\ workload \in Workloads
    /\ cp = cache_create(workload.config) /\ unwritten = {}
    /\ ready = [s \in SetIdx(cp) |-> [w \in Way(cp) |-> 0]]
    /\ bus_free = 0
    /\ stats = NoStats
    /\ RPT = [i \in 1 .. RptRows(workload) |-> EmptyEntry]
    /\ DCPT = [i \in 1 .. DcptRows(workload) |-> EmptyRow]
    /\ overrun = FALSE
    /\ last = NoAccess
    /\ runs = [i \in DOMAIN RPT |-> [n |-> 0, stride |-> 0]]

Machine == [cp |-> cp, ready |-> ready, bus_free |-> bus_free, stats |-> stats,
            unwritten |-> unwritten, RPT |-> RPT, DCPT |-> DCPT,
            overrun |-> FALSE, lat |-> 0, first_lat |-> 0]

(* The values myrand returns in one call of cache_access.                   *)
Rands == IF cp.policy = "Random" THEN [0 .. 5 -> Way(cp)]
         ELSE {[i \in 0 .. 5 |-> 0]}

(* runs: how often the owner of an entry has made its stride, up to three.  *)
RunAfter(run, entry, PC, addr) ==
    IF entry.PC # PC THEN [n |-> 0, stride |-> 0]
    ELSE [n |-> IF run.n = 0 \/ run.stride # Stride(entry, addr) THEN 1
                ELSE IF run.n < 3 THEN run.n + 1 ELSE 3,
          stride |-> Stride(entry, addr)]

Accesses == stats.hits + stats.misses

Access(cmd, addr, PC) ==
    /\ ~cp.crashed
    /\ \E rands \in Rands :
         LET m == DemandAccess(Machine, prefetch_type, cmd, addr, PC, 0, rands)
         IN /\ \/ cp' = m.cp
               \/ m.overrun /\ cp' = [m.cp EXCEPT !.crashed = TRUE]
            /\ unwritten' = m.unwritten /\ ready' = m.ready
            /\ bus_free' = m.bus_free /\ stats' = m.stats
            /\ RPT' = m.RPT /\ DCPT' = m.DCPT
            /\ overrun' = (overrun \/ m.overrun)
            /\ last' = [addr |-> addr, lat |-> m.lat, first_lat |-> m.first_lat]
    /\ runs' = IF prefetch_type > 2
                 THEN LET i == RptIndex(Machine, PC)
                      IN [runs EXCEPT
                            ![i] = RunAfter(@, RPT[i], PC \div 4, addr)]
                 ELSE runs
    /\ UNCHANGED workload

(* cache_flush and cache_flush_addr count what they invalidate.             *)
Flushed(blocks, back) ==
    /\ stats' = [stats EXCEPT !.invalidations = @ + blocks,
                              !.writebacks = @ + Cardinality(back)]
    /\ unwritten' = unwritten \ back
    /\ last' = NoAccess
    /\ UNCHANGED <<workload, ready, bus_free, RPT, DCPT, overrun, runs>>

ValidWays(c) == {sw \in SetIdx(c) \X Way(c) : VALID \in c.status[sw[1]][sw[2]]}

Flush ==
    /\ ~cp.crashed
    /\ cp' = cache_flush(cp)
    /\ Flushed(Cardinality(ValidWays(cp)), DirtyBlocks(cp))

FlushAddr(addr) ==
    /\ ~cp.crashed
    /\ cp' = cache_flush_addr(cp, addr)
    /\ Flushed(IF Found(cp, addr) = {} THEN 0 ELSE 1, FlushedAddr(cp, addr))

PFNext ==
    \/ /\ Accesses \in DOMAIN workload.addrs
       /\ \E cmd \in workload.cmds, PC \in workload.PCs,
             addr \in workload.addrs[Accesses] : Access(cmd, addr, PC)
    \/ /\ stats.invalidations < workload.invalidations
       /\ \/ Flush
          \/ \E addr \in UNION {workload.addrs[k] : k \in DOMAIN workload.addrs} :
               FlushAddr(addr)

PFSpec == PFInit /\ [][PFNext]_pvars

-----------------------------------------------------------------------------
(* Properties.                                                              *)

(* What the record m is made of, in a run of a workload.                    *)
StatsType ==
    [hits : Nat, misses : Nat, read_hits : Nat, read_misses : Nat,
     prefetch_hits : Nat, prefetch_misses : Nat,
     replacements : Nat, writebacks : Nat, invalidations : Nat]
RowType == [PC : Nat, prev : Nat, pref : Nat, delta : [1 .. DELTAS -> Address]]
MachineType(w) ==
    [cp : CacheType(w.config),
     ready : [Sets(w.config) -> [Ways(w.config) -> Int]], bus_free : Int,
     stats : StatsType, unwritten : SUBSET Nat,
     RPT : [1 .. RptRows(w) -> EntryType],
     DCPT : [1 .. DcptRows(w) -> RowType],
     overrun : BOOLEAN, lat : Int, first_lat : Int]
RunType == [n : 0 .. 3, stride : Address]

PFTypeOK ==
    /\ workload \in Workloads
    /\ Machine \in MachineType(workload)
    /\ overrun \in BOOLEAN
    /\ last \in [addr : Address \cup {NULL}, lat : Int, first_lat : Int]
    /\ runs \in [1 .. RptRows(workload) -> RunType]

(* The counters add up, whatever order demands, prefetches and flushes came *)
(* in: a block is in the cache for every miss, demanded or prefetched, that *)
(* was not replaced or invalidated since (cache.c:840-893, 1119, 1177).     *)
CountsAddUp ==
    ~cp.crashed =>
      /\ Cardinality(ValidWays(cp)) = stats.misses + stats.prefetch_misses
                                  - stats.replacements - stats.invalidations
      /\ stats.writebacks <= stats.replacements + stats.invalidations

(* The same, of a cache that has crashed, too.                              *)
BlocksCounted(c, st) ==
    /\ Cardinality(ValidWays(c)) = st.misses + st.prefetch_misses
                                 - st.replacements - st.invalidations
    /\ st.writebacks <= st.replacements + st.invalidations

(* A prefetch never evicts the block that the demand access it follows has  *)
(* just read or written, nor delays it: that block is the head of an LRU    *)
(* list of at least two, and one prefetch is made (cache.c:940, 996).  The  *)
(* open-ended prefetcher makes up to three, FIFO does not reorder on a hit, *)
(* and a set of one way has no other block to give up.                      *)
DemandBlockStays ==
    /\ ~cp.crashed /\ last.addr # NULL
    /\ cp.policy = "LRU" /\ cp.assoc > 1 /\ prefetch_type # 2
    => cache_probe(cp, last.addr) /\ last.lat = last.first_lat

(* An instruction that has made the same stride three times in a row is     *)
(* predicted to make it again, whatever state its entry of the table was    *)
(* left in: a new owner inherits the state of the old one, because          *)
(* RPT[index][3] is reset and RPT[index][4] is used (cache.c:674, 684).     *)
LocksOn ==
    ~cp.crashed =>
      \A i \in DOMAIN RPT :
        runs[i].n = 3 => RPT[i].state = STEADY /\ RPT[i].stride = runs[i].stride

(* How far an entry is on the way to STEADY once its owner has made a       *)
(* stride, and made it again.                                               *)
Learned(entry, run) ==
    /\ run.n = 1 => entry.state = INITIAL \/ entry.stride = run.stride
    /\ run.n = 2 => /\ entry.state \in {TRANSIENT, STEADY}
                    /\ entry.stride = run.stride
    /\ run.n = 3 => entry.state = STEADY /\ entry.stride = run.stride
StridesLearned ==
    ~cp.crashed => \A i \in DOMAIN RPT : Learned(RPT[i], runs[i])

(* A demand access makes one prefetch, with the open-ended prefetcher       *)
(* three, although prefetch has two elements and cand four (cache.c:591,    *)
(* 605): the writes that go behind their ends go one element behind.        *)
Prefetches == stats.prefetch_hits + stats.prefetch_misses
PrefetchesBounded ==
    [][Prefetches' - Prefetches <= (CASE prefetch_type = 0 -> 0
                                      [] prefetch_type = 2 -> PREFETCH_SIZE + 1
                                      [] OTHER -> 1)]_pvars

(* The inductive invariant: the cache is as Cache promises, the counters    *)
(* account for its blocks, and the entries are on their way.                *)
PFInv == /\ PFTypeOK /\ IInv /\ BlocksCounted(cp, stats) /\ StridesLearned
         /\ DemandBlockStays
=============================================================================
