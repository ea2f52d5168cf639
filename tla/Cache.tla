------------------------------- MODULE Cache -------------------------------
(***************************************************************************)
(* One cache of Lab4-Cache-Data-Prefetcher/cache.c under arbitrary         *)
(* sequences of its operations (CacheBlocks).                              *)
(*                                                                         *)
(* unwritten is a history variable: the blocks written by an access since  *)
(* they were last passed to the next level.                                *)
(***************************************************************************)
EXTENDS CacheBlocks

CONSTANT Addrs          \* the addresses that are accessed
ASSUME AddrAssumption == Addrs \subseteq Nat

VARIABLES cp, unwritten

vars == <<cp, unwritten>>

-----------------------------------------------------------------------------
Init ==
    /\ \E config \in Configs : cp = cache_create(config)
    /\ unwritten = {}

CacheAccess(cmd, addr) ==
    /\ ~cp.crashed
    /\ \E rand \in Way(cp) :
         /\ cp' = AccessBlock(cp, cmd, addr, rand)
         /\ unwritten' = (unwritten \ WrittenBack(cp, addr, rand))
              \cup IF cmd = "Write" /\ ~cp'.crashed
                     THEN {CACHE_BADDR(cp, addr)} ELSE {}

CacheFlush ==
    /\ ~cp.crashed
    /\ cp' = cache_flush(cp)
    /\ unwritten' = unwritten \ DirtyBlocks(cp)

CacheFlushAddr(addr) ==
    /\ ~cp.crashed
    /\ cp' = cache_flush_addr(cp, addr)
    /\ unwritten' = unwritten \ FlushedAddr(cp, addr)

Next ==
    \/ \E cmd \in {"Read", "Write"}, addr \in Addrs : CacheAccess(cmd, addr)
    \/ CacheFlush
    \/ \E addr \in Addrs : CacheFlushAddr(addr)

Spec == Init /\ [][Next]_vars

-----------------------------------------------------------------------------
(* Properties.                                                              *)

(* What the cache and the history are made of.                              *)
TypeOK ==
    /\ \E config \in Configs : cp \in CacheType(config)
    /\ unwritten \subseteq Nat

(* The way list holds every block of the set once: what the assertions of   *)
(* update_way_list (cache.c:216, 223, 236, 248) rest on, and what keeps a   *)
(* block from never being replaced again.                                   *)
WayListWhole == WholeLists(cp)

(* Every block, valid or not, is on the chain of its tag and on no other:   *)
(* the assertion of unlink_htab_ent (cache.c:174), and the reason a search  *)
(* along one chain finds what is in the set.                                *)
ChainsExact == ChainedByTag(cp)

(* No block of memory is in two ways: whatever evictions, prefetches and    *)
(* flushes came before, a write goes to the only copy.                      *)
OneCopy == Single(cp)

(* The block remembered for the fast hit (cache.c:806) is still valid and   *)
(* holds the remembered address, and under LRU it is still the head of its  *)
(* way list, so that the fast hit may leave the list alone (cache.c:1024).  *)
LastHitExact == LastIsThere(cp)

(* A block that was written and not passed on since is in the cache, valid  *)
(* and dirty, and no other is: no write is lost by a replacement or a       *)
(* flush, and the dirty bit that a flush leaves set does not come back.     *)
NoLostWrite == unwritten = DirtyBlocks(cp)

(* Under LRU and FIFO the invalid blocks of a set are at the end of its way *)
(* list: a miss takes a free way before it gives up a block, although it    *)
(* never looks for one (cache.c:862), because cache_flush_addr puts the     *)
(* block it invalidates there (cache.c:1180).                               *)
FreeWaysLast == InvalidAtEnd(cp)

IInv == /\ TypeOK /\ WayListWhole /\ ChainsExact /\ OneCopy /\ LastHitExact
        /\ NoLostWrite /\ FreeWaysLast
=============================================================================
