--------------------------- MODULE AbstractCache ---------------------------
(***************************************************************************)
(* What the cache of Lab4-Cache-Data-Prefetcher promises, without lists,    *)
(* chains or a last block: a set of resident memory blocks, the dirty ones  *)
(* among them, and which of two blocks of a set is the newer one.           *)
(***************************************************************************)
EXTENDS Integers, FiniteSets

CONSTANTS Configs, Addrs

VARIABLES geometry, resident, dirty, newer

vars == <<geometry, resident, dirty, newer>>

BlockOf(addr) == addr - (addr % geometry.bsize)
SetOf(block)  == (block \div geometry.bsize) % geometry.nsets

SameSet(block) == {x \in resident : SetOf(x) = SetOf(block)}
IsFull(block)  == Cardinality(SameSet(block)) = geometry.assoc
Oldest(block)  == {v \in SameSet(block) :
                     \A x \in SameSet(block) \ {v} : <<x, v>> \in newer}

(* The order of the blocks that stay, and with a block put before the       *)
(* others of its set.                                                       *)
OrderOf(kept) == {p \in newer : p[1] \in kept /\ p[2] \in kept}
PutFirst(kept, block) ==
    OrderOf(kept \ {block})
      \cup {<<block, x>> : x \in {x \in kept \ {block} : SetOf(x) = SetOf(block)}}

Init ==
    /\ geometry \in Configs
    /\ resident = {} /\ dirty = {} /\ newer = {}

DirtyAfter(cmd, block) == IF cmd = "Write" THEN {block} ELSE {}

Hit(cmd, block) ==
    /\ block \in resident
    /\ dirty' = dirty \cup DirtyAfter(cmd, block)
    /\ newer' = IF geometry.policy = "LRU" THEN PutFirst(resident, block)
                ELSE newer
    /\ UNCHANGED <<geometry, resident>>

(* LRU and FIFO give up the oldest block of a full set; random replacement  *)
(* may also give up a block while there is room.                            *)
Victims(block) ==
    CASE geometry.policy = "Random" ->
           {{v} : v \in SameSet(block)}
             \cup (IF IsFull(block) THEN {} ELSE {{}})
      [] OTHER ->
           IF IsFull(block) THEN {{v} : v \in Oldest(block)} ELSE {{}}

Fill(cmd, block) ==
    /\ block \notin resident
    /\ \E gone \in Victims(block) :
         /\ resident' = (resident \ gone) \cup {block}
         /\ dirty' = (dirty \ gone) \cup DirtyAfter(cmd, block)
         /\ newer' = IF geometry.policy = "Random" THEN {}
                     ELSE PutFirst(resident \ gone, block)
    /\ UNCHANGED geometry

Drop(block) ==
    /\ resident' = resident \ {block}
    /\ dirty' = dirty \ {block}
    /\ newer' = OrderOf(resident \ {block})
    /\ UNCHANGED geometry

DropAll ==
    /\ resident' = {} /\ dirty' = {} /\ newer' = {}
    /\ UNCHANGED geometry

Next ==
    \/ \E cmd \in {"Read", "Write"}, addr \in Addrs :
         Hit(cmd, BlockOf(addr)) \/ Fill(cmd, BlockOf(addr))
    \/ \E addr \in Addrs : Drop(BlockOf(addr))
    \/ DropAll

Spec == Init /\ [][Next]_vars
=============================================================================
