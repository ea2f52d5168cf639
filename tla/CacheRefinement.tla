-------------------------- MODULE CacheRefinement --------------------------
(***************************************************************************)
(* cache.c implements AbstractCache: the valid blocks are resident, and of  *)
(* two blocks of a set the one nearer to the head of the way list is newer. *)
(* (Under random replacement the list is never reordered and means nothing.)*)
(***************************************************************************)
EXTENDS Cache

BlockAt(c, s, w) == CACHE_MK_BADDR(c, c.tag[s][w], s)
ValidIn(c, s)    == {w \in Way(c) : VALID \in c.status[s][w]}
ResidentBlocks(c) ==
    UNION {{BlockAt(c, s, w) : w \in ValidIn(c, s)} : s \in SetIdx(c)}
NewerPairs(c) ==
    IF c.policy = "Random" THEN {}
    ELSE UNION {{<<BlockAt(c, s, p[1]), BlockAt(c, s, p[2])>> :
                   p \in {p \in ValidIn(c, s) \X ValidIn(c, s) :
                            c.way[s][p[1]] < c.way[s][p[2]]}} :
                s \in SetIdx(c)}
GeometryOf(c) == [nsets |-> c.nsets, bsize |-> c.bsize, assoc |-> c.assoc,
                  policy |-> c.policy]

Abstract == INSTANCE AbstractCache WITH
    geometry <- GeometryOf(cp),
    resident <- ResidentBlocks(cp),
    dirty    <- DirtyBlocks(cp),
    newer    <- NewerPairs(cp)

(* Every operation of cache.c does to the resident blocks what the policy   *)
(* says, or nothing: the fast hit, the stale tags of invalid blocks and the *)
(* list handling of flushes never show.                                     *)
ImplementsAbstractCache == Abstract!Spec
=============================================================================
