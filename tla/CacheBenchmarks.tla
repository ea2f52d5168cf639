-------------------------- MODULE CacheBenchmarks --------------------------
(***************************************************************************)
(* Lab4-Cache-Data-Prefetcher/mbq1.c, mbq2.c and mbq6.c, the benchmarks of  *)
(* the three prefetchers, run on the data cache of q1.cfg, q2.cfg and       *)
(* q6.cfg (direct mapped, blocks of two integers).  A benchmark is the      *)
(* sequence of its loads of a[i]; the variables the compiler keeps on the   *)
(* stack are left out.                                                      *)
(***************************************************************************)
EXTENDS Prefetchers

DataCache == [nsets |-> 16, bsize |-> 8, assoc |-> 1, policy |-> "LRU"]

Increment(file, i) ==
    CASE file = "mbq1" -> 1
      [] file = "mbq2" -> 2
      [] file = "mbq6" -> IF i % 2 = 1 THEN 5 ELSE 11

(* The index i of the k-th load.                                            *)
Index(file) ==
    LET i[k \in Nat] ==
          IF k = 0 THEN 0
          ELSE LET before == i[k - 1] IN before + Increment(file, before)
    IN i

(* The first loads of a benchmark, with the array a at base.                *)
Benchmark(file, base, loads, type) ==
    [name |-> file, config |-> DataCache, prefetch_type |-> type,
     addrs |-> [k \in 0 .. loads - 1 |-> {base + 4 * Index(file)[k]}],
     PCs |-> {8}, cmds |-> {"Read"}, invalidations |-> 0]

-----------------------------------------------------------------------------
(* Properties.                                                              *)

(* Each benchmark misses with its own prefetcher only while that warms up.  *)
(* mbq1.c, next line: the first access.  mbq2.c, stride: the first two, as  *)
(* the table knows the stride from the second on.  mbq6.c, open-ended, of   *)
(* which it says "DCPT should give nearly perfect values": until each of    *)
(* the two deltas has been seen often enough to be found behind an earlier  *)
(* pair, although a row holds six deltas and each access prefetches one     *)
(* block too many.                                                          *)
WarmUp ==
    CASE workload.name = "mbq1" -> 1
      [] workload.name = "mbq2" -> 2
      [] workload.name = "mbq6" -> DELTAS
MissesOnlyInWarmUp ==
    workload.name \in {"mbq1", "mbq2", "mbq6"} => stats.misses <= WarmUp
=============================================================================
