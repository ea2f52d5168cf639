--------------------------- MODULE MCPrefetchers ---------------------------
(***************************************************************************)
(* Workloads for TLC, each exhausting one prefetcher on a small cache:      *)
(* reads, writes and flushes with no prefetcher and with the next-line one; *)
(* two instructions that share the first entry of a stride table of three;  *)
(* seven reads by one instruction with the open-ended prefetcher; and the   *)
(* benchmarks, with two placements of the array in a block.                 *)
(***************************************************************************)
EXTENDS CacheBenchmarks

Geometry(nsets, assoc, policy) ==
    [nsets |-> nsets, bsize |-> 8, assoc |-> assoc, policy |-> policy]

(* n accesses, the first of them to one address.                            *)
From(first, n, addrs) ==
    [k \in 0 .. n - 1 |-> IF k = 0 THEN {first} ELSE addrs]

MixedWorkloads ==
    {[name |-> "mixed", config |-> config, prefetch_type |-> type,
      addrs |-> From(8, 4, {8, 16, 40}), PCs |-> {24},
      cmds |-> {"Read", "Write"}, invalidations |-> 1] :
       config \in {Geometry(1, 2, "LRU"), Geometry(1, 2, "FIFO"),
                   Geometry(2, 1, "LRU")},
       type \in {0, 1}}
SharedEntry ==
    [name |-> "stride", config |-> Geometry(1, 2, "LRU"), prefetch_type |-> 3,
     addrs |-> From(8, 6, {8, 16, 24}), PCs |-> {24, 48}, cmds |-> {"Read"},
     invalidations |-> 0]
OneRow ==
    [name |-> "open-ended", config |-> Geometry(1, 2, "LRU"),
     prefetch_type |-> 2, addrs |-> From(32, 7, {8, 16, 32, 48}), PCs |-> {8},
     cmds |-> {"Read"}, invalidations |-> 0]
OwnPrefetcher == {<<"mbq1", 1>>, <<"mbq2", 16>>, <<"mbq6", 2>>}

MCWorkloads ==
    MixedWorkloads \cup {SharedEntry, OneRow}
      \cup {Benchmark(b[1], base, 40, b[2]) :
              b \in OwnPrefetcher, base \in {64, 68}}
MCConfigs == {w.config : w \in MCWorkloads}
=============================================================================
