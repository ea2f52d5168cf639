------------------------------ MODULE MCCache ------------------------------
(***************************************************************************)
(* Instances of one cache for TLC: two sets of two ways under LRU; a set of *)
(* two ways under FIFO and under random replacement; and a set of eight     *)
(* ways, which has a hash table of two chains.  The last one has many       *)
(* states, so its operations are counted and bounded; the others run        *)
(* forever.                                                                 *)
(***************************************************************************)
EXTENDS CacheRefinement

CONSTANT MaxOps         \* operations on the cache with a hash table

VARIABLE ops

Geometry(nsets, assoc, policy) ==
    [nsets |-> nsets, bsize |-> 8, assoc |-> assoc, policy |-> policy]

SmallConfigs == {Geometry(2, 2, "LRU"), Geometry(1, 2, "FIFO"),
                 Geometry(1, 2, "Random"), Geometry(1, 8, "LRU")}

MCInit == Init /\ ops = 0
MCNext ==
    /\ cp.hsize > 0 => ops < MaxOps
    /\ Next
    /\ ops' = IF cp.hsize > 0 THEN ops + 1 ELSE 0
MCSpec == MCInit /\ [][MCNext]_<<vars, ops>>
=============================================================================
