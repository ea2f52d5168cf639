---------------------------- MODULE CacheBlocks ----------------------------
(***************************************************************************)
(* Lab4-Cache-Data-Prefetcher/cache.c: what a set-associative write-back   *)
(* cache is made of, and what the functions of cache.c make of it.  A      *)
(* cache is a record, as in the code, and every function an operator on    *)
(* it, so that caches with different geometries can be composed (Cache     *)
(* drives one, Prefetchers one with its prefetcher, SimCache a hierarchy). *)
(*                                                                         *)
(* The doubly linked way list of a set is the position of each block in    *)
(* it, 0 at the head.  A hash chain is the set of the blocks on it.        *)
(* Shifts and masks are division and remainder.  The caches of sim-cache.c *)
(* hold no data (balloc is FALSE).  The statistics, the latencies and the  *)
(* prefetches are in Prefetchers.                                          *)
(***************************************************************************)
EXTENDS Integers, FiniteSets

CONSTANTS
    Configs,            \* geometries: [nsets, bsize, assoc, policy]
    NULL

(* The parameters that cache_create accepts.                                *)
PowersOfTwo == {k \in Nat : k > 0 /\ \E n \in 0 .. 30 : k = 2^n}
ConfigType == [nsets : PowersOfTwo, bsize : PowersOfTwo \ {1, 2, 4},
               assoc : PowersOfTwo, policy : {"LRU", "FIFO", "Random"}]
ASSUME ConfigAssumption == Configs \subseteq ConfigType
ASSUME NullAssumption == NULL \notin Nat \X Nat

VALID == "valid"
DIRTY == "dirty"

-----------------------------------------------------------------------------
(* Decoding of addresses.                                                   *)
CACHE_TAG(c, addr)    == addr \div (c.bsize * c.nsets)
CACHE_SET(c, addr)    == (addr \div c.bsize) % c.nsets
CACHE_TAGSET(c, addr) == addr - (addr % c.bsize)
CACHE_BADDR(c, addr)  == addr - (addr % c.bsize)
CACHE_MK_BADDR(c, tag, set) == tag * (c.bsize * c.nsets) + set * c.bsize

(* (key >> 24 ^ key >> 16 ^ key >> 8 ^ key) & (hsize - 1): a chain is named *)
(* by the set of the bits that are 1 in its index.                          *)
Bit(k, i) == (k \div 2^i) % 2
HashedBits(hsize, key) ==
    {i \in 0 .. 29 : /\ 2^(i + 1) <= hsize
                     /\ (Bit(key, 24 + i) + Bit(key, 16 + i)
                         + Bit(key, 8 + i) + Bit(key, i)) % 2 = 1}
CACHE_HASH(c, key) == HashedBits(c.hsize, key)

SetIdx(c) == 0 .. c.nsets - 1
Way(c)    == 0 .. c.assoc - 1

CACHE_HIGHLY_ASSOC(c) == c.assoc > 4

(* cache_create: all blocks invalid with tag 0; a block is linked at the    *)
(* head of the way list, so the last one is the head.                       *)
cache_create(config) ==
    LET sets  == 0 .. config.nsets - 1
        ways  == 0 .. config.assoc - 1
        hsize == IF CACHE_HIGHLY_ASSOC(config) THEN config.assoc \div 4 ELSE 0
    IN [nsets  |-> config.nsets, bsize |-> config.bsize,
        assoc  |-> config.assoc, hsize |-> hsize, policy |-> config.policy,
        way    |-> [s \in sets |-> [w \in ways |-> config.assoc - 1 - w]],
        tag    |-> [s \in sets |-> [w \in ways |-> 0]],
        status |-> [s \in sets |-> [w \in ways |-> {}]],
        hash   |-> [s \in sets |->
                      IF hsize > 0
                        THEN {<<HashedBits(hsize, 0), w>> : w \in ways}
                        ELSE {}],
        last_tagset |-> 0,
        last_blk    |-> NULL,
        crashed     |-> FALSE]

(* update_way_list: move a block to one end of the way list.                *)
\* Mutant: the moved block is not taken out before it is put at the head.
MoveToHeadUnlinkedLate(way, blk) ==
    [w \in DOMAIN way |-> IF w = blk THEN 0 ELSE way[w] + 1]
\* Mutant: the old head stays the head.
MoveToHeadOnTop(way, blk) == [way EXCEPT ![blk] = 0]
MoveToHead(way, blk) ==
    [w \in DOMAIN way |-> IF w = blk THEN 0
                          ELSE IF way[w] < way[blk] THEN way[w] + 1 ELSE way[w]]
MoveToTail(way, blk) ==
    [w \in DOMAIN way |-> IF w = blk THEN Cardinality(DOMAIN way) - 1
                          ELSE IF way[w] > way[blk] THEN way[w] - 1 ELSE way[w]]

(* Blocks that a search for an address stops at: along the hash chain of    *)
(* its tag if the set has a hash table, else along the way list.            *)
Searched(c, set, tag) ==
    IF c.hsize > 0
      THEN {w \in Way(c) : <<CACHE_HASH(c, tag), w>> \in c.hash[set]}
      ELSE Way(c)
Found(c, addr) ==
    LET set == CACHE_SET(c, addr) tag == CACHE_TAG(c, addr)
    IN {w \in Searched(c, set, tag) :
          c.tag[set][w] = tag /\ VALID \in c.status[set][w]}

cache_probe(c, addr) == Found(c, addr) # {}

FastHit(c, addr) == CACHE_TAGSET(c, addr) = c.last_tagset
Miss(c, addr)    == ~FastHit(c, addr) /\ Found(c, addr) = {}

-----------------------------------------------------------------------------
(* cache_access, up to the prefetch it may generate.                        *)

Marked(status, cmd) == IF cmd = "Write" THEN status \cup {DIRTY} ELSE status

(* The last block is taken without looking: if there is none, NULL is       *)
(* dereferenced and the simulator ends.                                     *)
FastHitAccess(c, cmd, addr) ==
    IF c.last_blk = NULL
      THEN [c EXCEPT !.crashed = TRUE]
      ELSE [c EXCEPT
             !.status[c.last_blk[1]][c.last_blk[2]] = Marked(@, cmd)]

\* Mutant: a hit does not reorder the way list.
SlowHitInPlace(c, cmd, addr) ==
    LET set == CACHE_SET(c, addr)
        blk == CHOOSE w \in Found(c, addr) : TRUE
    IN [c EXCEPT !.status[set][blk] = Marked(@, cmd),
                 !.last_tagset = CACHE_TAGSET(c, addr),
                 !.last_blk = <<set, blk>>]
SlowHitAccess(c, cmd, addr) ==
    LET set == CACHE_SET(c, addr)
        blk == CHOOSE w \in Found(c, addr) : TRUE
    IN [c EXCEPT
         !.status[set][blk] = Marked(@, cmd),
         !.way[set] = IF c.policy = "LRU" THEN MoveToHead(@, blk) ELSE @,
         !.last_tagset = CACHE_TAGSET(c, addr),
         !.last_blk = <<set, blk>>]

(* The block a miss replaces: the tail of the way list, or the one that     *)
(* myrand picks.                                                            *)
Replaced(c, addr, rand) ==
    IF c.policy = "Random" THEN rand
    ELSE CHOOSE w \in Way(c) :
           c.way[CACHE_SET(c, addr)][w] = c.assoc - 1

(* The entry of a block in the hash table of its set, if there is one.      *)
Entry(c, tag, blk) ==
    IF c.hsize > 0 THEN {<<CACHE_HASH(c, tag), blk>>} ELSE {}
unlink_htab_ent(c, set, blk) ==
    [c EXCEPT !.hash[set] = @ \ Entry(c, c.tag[set][blk], blk)]
link_htab_ent(c, set, blk) ==
    [c EXCEPT !.hash[set] = @ \cup Entry(c, c.tag[set][blk], blk)]

\* Mutant: the replaced block stays at the end of the way list.
UnlinkedInPlace(c, set, repl) ==
    [unlink_htab_ent(c, set, repl) EXCEPT !.last_tagset = 0, !.last_blk = NULL]
\* Mutant: the block of the last hit is still remembered after a miss.
UnlinkedKeepingLast(c, set, repl) ==
    [unlink_htab_ent(c, set, repl) EXCEPT
       !.way[set] = IF c.policy = "Random" THEN @ ELSE MoveToHead(@, repl)]
Unlinked(c, set, repl) ==
    [unlink_htab_ent(c, set, repl) EXCEPT
       !.way[set] = IF c.policy = "Random" THEN @ ELSE MoveToHead(@, repl),
       !.last_tagset = 0,
       !.last_blk = NULL]

\* Mutant: the block leaves the hash chain after its tag has changed.
MissRetagged(c, cmd, addr, rand) ==
    LET set  == CACHE_SET(c, addr)
        repl == Replaced(c, addr, rand)
        new  == [c EXCEPT !.tag[set][repl] = CACHE_TAG(c, addr),
                          !.status[set][repl] = Marked({VALID}, cmd)]
    IN link_htab_ent(Unlinked(new, set, repl), set, repl)
\* Mutant: the new block inherits the dirty bit of the old one.
MissKeepingDirty(c, cmd, addr, rand) ==
    LET set  == CACHE_SET(c, addr)
        repl == Replaced(c, addr, rand)
        gone == Unlinked(c, set, repl)
    IN link_htab_ent([gone EXCEPT
                        !.tag[set][repl] = CACHE_TAG(c, addr),
                        !.status[set][repl] = Marked(@ \cup {VALID}, cmd)],
                     set, repl)
MissAccess(c, cmd, addr, rand) ==
    LET set  == CACHE_SET(c, addr)
        repl == Replaced(c, addr, rand)
        gone == Unlinked(c, set, repl)
    IN link_htab_ent([gone EXCEPT
                        !.tag[set][repl] = CACHE_TAG(c, addr),
                        !.status[set][repl] = Marked({VALID}, cmd)],
                     set, repl)

AccessBlock(c, cmd, addr, rand) ==
    IF FastHit(c, addr) THEN FastHitAccess(c, cmd, addr)
    ELSE IF Found(c, addr) # {} THEN SlowHitAccess(c, cmd, addr)
    ELSE MissAccess(c, cmd, addr, rand)

(* What an access writes to the next level before it reads the new block    *)
(* from there: the replaced block, if it is valid and dirty.                *)
WrittenBack(c, addr, rand) ==
    LET set == CACHE_SET(c, addr) repl == Replaced(c, addr, rand)
    IN IF Miss(c, addr) /\ {VALID, DIRTY} \subseteq c.status[set][repl]
         THEN {CACHE_MK_BADDR(c, c.tag[set][repl], set)} ELSE {}

-----------------------------------------------------------------------------
(* cache_flush: every block becomes invalid; its dirty bit stays set.       *)
cache_flush(c) ==
    [c EXCEPT !.status = [s \in SetIdx(c) |->
                            [w \in Way(c) |-> c.status[s][w] \ {VALID}]],
              !.last_tagset = 0,
              !.last_blk = NULL]

(* The blocks a flush writes to the next level.                             *)
DirtyBlocks(c) ==
    {CACHE_MK_BADDR(c, c.tag[sw[1]][sw[2]], sw[1]) :
       sw \in {sw \in SetIdx(c) \X Way(c) :
                 {VALID, DIRTY} \subseteq c.status[sw[1]][sw[2]]}}

(* cache_flush_addr: one block, which goes to the end of the way list.      *)
cache_flush_addr(c, addr) ==
    LET set == CACHE_SET(c, addr)
        blk == CHOOSE w \in Found(c, addr) : TRUE
    IN IF Found(c, addr) = {} THEN c
       ELSE [c EXCEPT !.status[set][blk] = @ \ {VALID},
                      !.way[set] = MoveToTail(@, blk),
                      !.last_tagset = 0,
                      !.last_blk = NULL]
FlushedAddr(c, addr) ==
    LET set == CACHE_SET(c, addr)
    IN {CACHE_MK_BADDR(c, c.tag[set][w], set) :
          w \in {w \in Found(c, addr) : DIRTY \in c.status[set][w]}}

-----------------------------------------------------------------------------
(* What holds of a well-formed cache, part by part.                         *)

StatusType == SUBSET {VALID, DIRTY}

(* What a cache of a given geometry is made of.                             *)
Ways(config) == 0 .. config.assoc - 1
Sets(config) == 0 .. config.nsets - 1
CacheType(config) ==
    [nsets  : {config.nsets}, bsize : {config.bsize}, assoc : {config.assoc},
     hsize  : {IF config.assoc > 4 THEN config.assoc \div 4 ELSE 0},
     policy : {config.policy},
     way    : [Sets(config) -> [Ways(config) -> Ways(config)]],
     tag    : [Sets(config) -> [Ways(config) -> Nat]],
     status : [Sets(config) -> [Ways(config) -> StatusType]],
     hash   : [Sets(config) -> SUBSET ((SUBSET (0 .. 29)) \X Ways(config))],
     last_tagset : Nat,
     last_blk    : (Sets(config) \X Ways(config)) \cup {NULL},
     crashed     : BOOLEAN]

WholeLists(c) ==
    \A s \in SetIdx(c) :
      /\ \A v, w \in Way(c) : c.way[s][v] = c.way[s][w] => v = w
      /\ \A i \in Way(c) : \E w \in Way(c) : c.way[s][w] = i

ChainedByTag(c) ==
    c.hsize > 0 =>
      \A s \in SetIdx(c) :
        c.hash[s] = {<<CACHE_HASH(c, c.tag[s][w]), w>> : w \in Way(c)}

Single(c) ==
    \A s \in SetIdx(c) : \A v, w \in Way(c) :
      /\ VALID \in c.status[s][v] /\ VALID \in c.status[s][w]
      /\ c.tag[s][v] = c.tag[s][w]
      => v = w

LastIsThere(c) ==
    IF c.last_blk = NULL THEN c.last_tagset = 0
    ELSE LET s == c.last_blk[1] w == c.last_blk[2]
         IN /\ VALID \in c.status[s][w]
            /\ c.last_tagset = CACHE_MK_BADDR(c, c.tag[s][w], s)
            /\ c.policy = "LRU" => c.way[s][w] = 0

InvalidAtEnd(c) ==
    c.policy # "Random" =>
      \A s \in SetIdx(c) : \A v, w \in Way(c) :
        VALID \in c.status[s][v] /\ VALID \notin c.status[s][w]
          => c.way[s][v] < c.way[s][w]
=============================================================================
