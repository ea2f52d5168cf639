------------------------------ MODULE SimCache ------------------------------
(***************************************************************************)
(* Lab4-Cache-Data-Prefetcher/sim-cache.c: the caches and TLBs of the       *)
(* functional cache simulator, wired together by their miss handlers, and   *)
(* the accesses its main loop makes for each instruction.  A cache is that  *)
(* of CacheBlocks and an entry of the prediction table that of StrideTable; *)
(* times and latencies are left out ("No timing information is generated"), *)
(* and so is the open-ended prefetcher.                                     *)
(*                                                                         *)
(* A machine is a record: caches, by the name of the option that creates    *)
(* them ("il1" may be another name of "dl1" or "dl2", and "il2" of "dl2"),  *)
(* their statistics, the one reference prediction table, a global of        *)
(* cache.c that every cache_create with a stride prefetcher replaces, and   *)
(* how many random numbers were drawn.  upper and lower are history: the    *)
(* blocks of dl1 that were written and not yet passed down, and those       *)
(* passed to dl2 and not yet to memory.                                     *)
(***************************************************************************)
EXTENDS CacheBlocks, StrideTable, Sequences

CONSTANTS
    Hierarchies,        \* cache options: dl1, dl2, il1, il2, itlb, dtlb
    Addrs,              \* addresses of loads and stores
    PCs,                \* addresses of instructions
    Randoms,            \* what myrand() returns, over and over
    MaxInsns            \* bound on sim_num_insn

VARIABLES options, caches, stats, RPT, drawn,
          stopped,      \* what the simulator stopped with, or "none":
                        \* "fatal": an access larger than a block; "fault": a
                        \* null last_blk; "wild": a row behind the table
          upper, lower, sim_num_insn, flush_on_syscalls

svars == <<options, caches, stats, RPT, drawn, stopped, upper, lower,
           sim_num_insn, flush_on_syscalls>>

-----------------------------------------------------------------------------
(* sim_check_options.  The field "is" of an option says whether the cache   *)
(* is left out, another name of dl1 or dl2, or one of its own; that has a   *)
(* geometry (config) and a type of prefetcher.                              *)
NONE == "none"
Names == {"dl1", "dl2", "il1", "il2", "itlb", "dtlb"}
Own(opts)      == {n \in Names : opts[n].is = "own"}
Alias(opts, n) == IF opts[n].is = "own" THEN n ELSE opts[n].is

ASSUME HierarchyAssumption ==
    \A opts \in Hierarchies : \A n \in Names :
      /\ opts[n].is \in {NONE, "own"} \cup
           (CASE n = "il1" -> {"dl1", "dl2"} [] n = "il2" -> {"dl2"}
              [] OTHER -> {})
      /\ opts[n].is = "own" => /\ opts[n].config \in Configs
                               /\ opts[n].prefetch_type \in Nat \ {2}
ASSUME AddressAssumption ==
    /\ Addrs \subseteq Nat /\ PCs \subseteq Nat
ASSUME RandomsAssumption == Randoms \in Seq(Nat) /\ Randoms # << >>

OptionsAccepted(opts) ==
    /\ opts["dl1"].is = NONE => opts["dl2"].is = NONE
    /\ opts["il1"].is # "own" => opts["il2"].is = NONE
    /\ \A n \in {"il1", "il2"} :
         opts[n].is \in {"dl1", "dl2"} => opts[opts[n].is].is = "own"

(* The rows of the table that the last stride prefetcher created allocates. *)
CreationOrder == <<"dl1", "dl2", "il1", "il2", "itlb", "dtlb">>
HasStride(opts, n) == n \in Own(opts) /\ opts[n].prefetch_type > 2
LastStride(opts) ==
    {k \in 1 .. 6 : /\ HasStride(opts, CreationOrder[k])
                    /\ \A j \in k + 1 .. 6 : ~HasStride(opts, CreationOrder[j])}
RptRows(opts) ==
    IF LastStride(opts) = {} THEN 0
    ELSE opts[CreationOrder[CHOOSE k \in LastStride(opts) : TRUE]].prefetch_type

-----------------------------------------------------------------------------
(* cache_access on a cache of the machine, without what it makes the next   *)
(* level do.                                                                *)

Count(st, c, addr, prefetch, back) ==
    [st EXCEPT !.hits = @ + (IF Miss(c, addr) THEN 0 ELSE 1 - prefetch),
               !.misses = @ + (IF Miss(c, addr) THEN 1 - prefetch ELSE 0),
               !.prefetches = @ + prefetch,
               !.prefetch_misses = @ + (IF Miss(c, addr) THEN prefetch ELSE 0),
               !.writebacks = @ + Cardinality(back)]

(* The history: what a write or a write-back makes of upper and lower.      *)
Wrote(m, n, cmd, addr) ==
    IF n = "dl1" /\ cmd = "Write"
      THEN [m EXCEPT !.upper = @ \cup {CACHE_BADDR(m.caches[n], addr)}]
      ELSE m
PassedDown(m, n, blocks) ==
    CASE n = "dl1" -> [m EXCEPT !.upper = @ \ blocks,
                                !.lower = IF "dl2" \in DOMAIN m.caches
                                            THEN @ \cup blocks ELSE @]
      [] n = "dl2" -> [m EXCEPT !.lower =
                         {b \in @ : CACHE_BADDR(m.caches["dl2"], b) \notin blocks}]
      [] OTHER     -> m

(* myrand() & (assoc - 1)                                                   *)
Drawn(m, n) == Randoms[(m.drawn % Len(Randoms)) + 1] % m.caches[n].assoc
Draws(c, addr) == IF Miss(c, addr) /\ c.policy = "Random" THEN 1 ELSE 0

Running(m) == m.stopped = "none"

Accessed(m, n, cmd, addr, prefetch) ==
    LET c     == m.caches[n]
        after == AccessBlock(c, cmd, addr, Drawn(m, n))
        back  == WrittenBack(c, addr, Drawn(m, n))
        own   == [m EXCEPT
                   !.caches[n] = after,
                   !.stats[n] = Count(@, c, addr, prefetch, back),
                   !.drawn = @ + Draws(c, addr),
                   !.stopped = IF after.crashed THEN "fault" ELSE @]
    IN Wrote(PassedDown(own, n, back), n, cmd, addr)

(* generate_prefetch, up to the access it makes: the machine with its table *)
(* trained, and the block to prefetch, if there is one and it is not there. *)
(* A row behind the end of the table is read all the same.                  *)
Row(n, PC) == ((PC \div 4) % options[n].prefetch_type) + 1
Trained(m, n, addr, PC) ==
    IF options[n].prefetch_type <= 2 THEN m
    ELSE IF Row(n, PC) > Len(m.RPT) THEN [m EXCEPT !.stopped = "wild"]
    ELSE [m EXCEPT !.RPT[Row(n, PC)] = StrideTrained(@, PC \div 4, addr)]
Predicted(m, n, addr, PC) ==
    LET type  == options[n].prefetch_type
        old   == m.RPT[Row(n, PC)]
        entry == StrideTrained(old, PC \div 4, addr)
    IN CASE type = 1 -> {addr + m.caches[n].bsize}
         [] /\ type > 2 /\ Row(n, PC) <= Len(m.RPT)
            /\ old.PC = PC \div 4 /\ entry.state # NOPRED -> {addr + entry.stride}
         [] OTHER -> {}
ToPrefetch(m, n, addr, PC) ==
    {b \in {CACHE_BADDR(m.caches[n], a % AddrSpace) :
              a \in Predicted(m, n, addr, PC)} : ~cache_probe(m.caches[n], b)}

-----------------------------------------------------------------------------
(* An access to a cache whose miss handler goes to memory.                  *)
LastOnce(m, n, cmd, addr, PC, prefetch) ==
    IF Running(m) THEN Accessed(m, n, cmd, addr, prefetch) ELSE m

(* A demand access ends with the prefetch that it generates.                *)
Prefetching(Access(_, _, _, _, _, _), m, n, cmd, addr, PC, prefetch) ==
    LET done    == Access(m, n, cmd, addr, PC, prefetch)
        trained == Trained(done, n, addr, PC)
        blocks  == ToPrefetch(done, n, addr, PC)
    IN IF prefetch = 1 \/ ~Running(done) THEN done
       ELSE IF blocks = {} \/ ~Running(trained) THEN trained
       ELSE Access(trained, n, "Read", CHOOSE b \in blocks : TRUE, PC, 1)

LastAccess(m, n, cmd, addr, PC, prefetch) ==
    Prefetching(LastOnce, m, n, cmd, addr, PC, prefetch)

(* The miss handlers access the next cache, if there is one, and that goes  *)
(* to memory: dl2_access_fn and il2_access_fn access no cache.              *)
Below(n) ==
    CASE n = "dl1" -> "dl2" [] n = "il1" -> Alias(options, "il2") [] OTHER -> NONE

\* Mutant: the handler reads whatever it is asked to do.
access_fnReading(m, n, cmd, baddr, PC, prefetch) ==
    IF ~Running(m) \/ Below(n) \notin DOMAIN m.caches THEN m
    ELSE IF m.caches[n].bsize > m.caches[Below(n)].bsize
      THEN [m EXCEPT !.stopped = "fatal"]
    ELSE LastAccess(m, Below(n), "Read", baddr, PC, prefetch)
\* Mutant: the handler does not pass the prefetch flag on.
access_fnDemanding(m, n, cmd, baddr, PC, prefetch) ==
    IF ~Running(m) \/ Below(n) \notin DOMAIN m.caches THEN m
    ELSE IF m.caches[n].bsize > m.caches[Below(n)].bsize
      THEN [m EXCEPT !.stopped = "fatal"]
    ELSE LastAccess(m, Below(n), cmd, baddr, PC, 0)
access_fn(m, n, cmd, baddr, PC, prefetch) ==
    IF ~Running(m) \/ Below(n) \notin DOMAIN m.caches THEN m
    ELSE IF m.caches[n].bsize > m.caches[Below(n)].bsize
      THEN [m EXCEPT !.stopped = "fatal"]
    ELSE LastAccess(m, Below(n), cmd, baddr, PC, prefetch)

(* On a miss the replaced block is written to the next level, then the new  *)
(* one is read from there, as a prefetch if the access is one.              *)
AccessOnce(m, n, cmd, addr, PC, prefetch) ==
    LET c     == m.caches[n]
        back  == WrittenBack(c, addr, Drawn(m, n))
        own   == Accessed(m, n, cmd, addr, prefetch)
        saved == IF back = {} THEN own
                 ELSE access_fn(own, n, "Write", CHOOSE b \in back : TRUE, PC, 0)
    IN IF ~Running(m) THEN m
       ELSE IF Miss(c, addr)
         THEN access_fn(saved, n, "Read", CACHE_BADDR(c, addr), PC, prefetch)
       ELSE own

cache_access(m, n, cmd, addr, PC, prefetch) ==
    Prefetching(AccessOnce, m, n, cmd, addr, PC, prefetch)

-----------------------------------------------------------------------------
(* An access by the main loop to a cache or TLB that may not exist.         *)
Demand(m, name, cmd, addr, PC) ==
    LET n == Alias(options, name)
    IN IF n = NONE \/ ~Running(m) THEN m ELSE cache_access(m, n, cmd, addr, PC, 0)

(* cache_flush: the blocks become invalid, and those that were dirty are    *)
(* written to the next level set by set, in the order of the way list.      *)
(* The k-th place is that of a set and a position in its list.              *)
BlockAt(c, k) ==
    <<k \div c.assoc,
      CHOOSE w \in Way(c) : c.way[k \div c.assoc][w] = k % c.assoc>>
BlockAddr(c, sw) == CACHE_MK_BADDR(c, c.tag[sw[1]][sw[2]], sw[1])
IsDirty(c, sw) == {VALID, DIRTY} \subseteq c.status[sw[1]][sw[2]]

FlushCache(m, n, PC) ==
    LET c    == m.caches[n]
        back == DirtyBlocks(c)
        gone == PassedDown([m EXCEPT
                  !.caches[n] = cache_flush(c),
                  !.stats[n].writebacks = @ + Cardinality(back)], n, back)
        visit[k \in 0 .. c.nsets * c.assoc] ==
          IF k = 0 THEN gone
          ELSE IF IsDirty(c, BlockAt(c, k - 1))
            THEN access_fn(visit[k - 1], n, "Write",
                           BlockAddr(c, BlockAt(c, k - 1)), PC, 0)
          ELSE visit[k - 1]
    IN IF n \notin DOMAIN m.caches \/ ~Running(m) THEN m
       ELSE visit[c.nsets * c.assoc]

\* Mutant: the second level is flushed before the first.
FlushAllUpwards(m, PC) ==
    FlushCache(FlushCache(FlushCache(m, "dl2", PC), "dl1", PC), "dtlb", PC)
FlushAll(m, PC) ==
    FlushCache(FlushCache(FlushCache(m, "dtlb", PC), "dl1", PC), "dl2", PC)

-----------------------------------------------------------------------------
NoStats == [hits |-> 0, misses |-> 0, prefetches |-> 0, prefetch_misses |-> 0,
            writebacks |-> 0]

Init ==
    /\ options \in Hierarchies /\ OptionsAccepted(options)
    /\ caches = [n \in Own(options) |-> cache_create(options[n].config)]
    /\ stats = [n \in Own(options) |-> NoStats]
    /\ RPT = [k \in 1 .. RptRows(options) |-> EmptyEntry]
    /\ drawn = 0
    /\ stopped = "none"
    /\ upper = {} /\ lower = {}
    /\ sim_num_insn = 0
    /\ flush_on_syscalls \in BOOLEAN

Machine == [caches |-> caches, stats |-> stats, RPT |-> RPT, drawn |-> drawn,
            stopped |-> stopped, upper |-> upper, lower |-> lower]

Fetched(PC) ==
    Demand(Demand(Machine, "itlb", "Read", PC, PC), "il1", "Read", PC, PC)

Become(m) ==
    /\ caches' = m.caches /\ stats' = m.stats /\ RPT' = m.RPT
    /\ drawn' = m.drawn /\ stopped' = m.stopped
    /\ upper' = m.upper /\ lower' = m.lower
    /\ sim_num_insn' = sim_num_insn + 1
    /\ UNCHANGED <<options, flush_on_syscalls>>

Goes == stopped = "none" /\ sim_num_insn < MaxInsns

(* sim_main: one turn of the loop, for an instruction that does not access  *)
(* memory, a load or store (or a system call that reads or writes memory),  *)
(* and a system call that flushes.                                          *)
NoMemory(PC) == Goes /\ Become(Fetched(PC))

LoadStore(PC, cmd, addr) ==
    /\ Goes
    /\ Become(Demand(Demand(Fetched(PC), "dtlb", cmd, addr, PC),
                     "dl1", cmd, addr, PC))

Syscall(PC) ==
    /\ Goes /\ flush_on_syscalls
    /\ Become(FlushAll(Fetched(PC), PC))

Next ==
    \E PC \in PCs :
      \/ NoMemory(PC)
      \/ \E cmd \in {"Read", "Write"}, addr \in Addrs : LoadStore(PC, cmd, addr)
      \/ Syscall(PC)

Spec == Init /\ [][Next]_svars

-----------------------------------------------------------------------------
(* Properties, of a simulator that has not stopped.                         *)

(* A block that the program wrote and that has not reached memory is dirty  *)
(* in dl1, or was passed to dl2 and is dirty there, although neither level  *)
(* includes the other: a victim of dl1 may have to displace another dirty   *)
(* block of dl2, or the block that is being read (cache.c:890, 902).        *)
WritesKept ==
    stopped = "none" =>
      /\ "dl1" \in DOMAIN caches => upper = DirtyBlocks(caches["dl1"])
      /\ \A b \in lower :
           CACHE_BADDR(caches["dl2"], b) \in DirtyBlocks(caches["dl2"])

(* After a system call that flushes, all that was written is in memory: dl1 *)
(* is flushed into dl2 before dl2 is.                                       *)
FlushReachesMemory ==
    [][(\E PC \in PCs : Syscall(PC)) /\ stopped' = "none"
         => upper' = {} /\ lower' = {}]_svars

(* Every access of the unified second level comes from the level above: a   *)
(* miss is one read, a write-back one write, and a prefetch stays one       *)
(* (cache.c:890, 902, with the prefetch flag that the handlers pass on).    *)
FromAbove(opts) == {"dl1"} \cup {n \in {"il1"} : opts["il2"].is = "dl2"}
Counted(opts) ==
    /\ "dl2" \in Own(opts) /\ opts["dl2"].prefetch_type = 0
    /\ opts["il1"].is # "dl2"
Sent(st, n)  == IF n \in FromAbove(options) /\ n \in Own(options)
                  THEN st[n].misses + st[n].writebacks ELSE 0
Ahead(st, n) == IF n \in FromAbove(options) /\ n \in Own(options)
                  THEN st[n].prefetch_misses ELSE 0
TrafficAddsUp ==
    stopped = "none" /\ Counted(options) =>
      /\ stats["dl2"].hits + stats["dl2"].misses
           = Sent(stats, "dl1") + Sent(stats, "il1")
      /\ stats["dl2"].prefetches = Ahead(stats, "dl1") + Ahead(stats, "il1")
=============================================================================
