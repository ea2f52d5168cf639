----------------------------- MODULE MCSimCache -----------------------------
(***************************************************************************)
(* Small hierarchies: the default one (a unified second level), with TLBs   *)
(* and a prefetcher, a unified first level, stride prefetchers on the first *)
(* data level and on both, where the first asks for a table longer than the *)
(* second's, a second level with smaller blocks than the first, other       *)
(* policies, and TLBs alone, with pages so large that all data is in the    *)
(* first.                                                                   *)
(***************************************************************************)
EXTENDS SimCache

Replacing(policy, nsets, bsize, assoc, prefetch_type) ==
    [is |-> "own", prefetch_type |-> prefetch_type,
     config |-> [nsets |-> nsets, bsize |-> bsize, assoc |-> assoc,
                 policy |-> policy]]
Geometry(nsets, bsize, assoc, prefetch_type) ==
    Replacing("LRU", nsets, bsize, assoc, prefetch_type)
Another(name) == [is |-> name]
NoCache == Another(NONE)
Options(dl1, dl2, il1, il2, tlb) ==
    [n \in Names |-> CASE n = "dl1" -> dl1 [] n = "dl2" -> dl2
                       [] n = "il1" -> il1 [] n = "il2" -> il2
                       [] OTHER -> tlb]

TwoLevels ==
    {Options(Geometry(1, 8, 2, 0), Geometry(1, 16, 2, 0), Geometry(1, 8, 1, 0),
             Another("dl2"), NoCache),
     Options(Geometry(1, 8, 1, 1), Geometry(1, 16, 1, 0), Geometry(1, 8, 1, 0),
             Another("dl2"), Geometry(1, 64, 1, 0)),
     Options(Geometry(1, 8, 2, 1), Geometry(1, 8, 2, 0), Another("dl1"), NoCache, NoCache),
     Options(Geometry(1, 8, 2, 3), Geometry(1, 8, 2, 0), Another("dl2"), NoCache, NoCache),
     Options(Geometry(1, 8, 1, 5), Geometry(1, 16, 2, 3), NoCache, NoCache, NoCache),
     Options(Geometry(1, 16, 1, 0), Geometry(1, 8, 1, 0), NoCache, NoCache, NoCache),
     Options(Replacing("Random", 1, 8, 2, 0), Replacing("FIFO", 1, 8, 2, 0),
             NoCache, NoCache, NoCache),
     Options(NoCache, NoCache, NoCache, NoCache, Geometry(1, 128, 1, 0))}

Geometries ==
    {opts[n].config : <<opts, n>> \in
       {on \in TwoLevels \X Names : on[1][on[2]].is = "own"}}
SomeRandoms == <<1, 0, 0, 3>>
=============================================================================
