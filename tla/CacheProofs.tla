---------------------------- MODULE CacheProofs ----------------------------
(***************************************************************************)
(* Cache, for every geometry, replacement policy and set of addresses: the  *)
(* lists, chains and the block of the last hit stay right, no block is      *)
(* cached twice and no write is lost; and Cache implements AbstractCache.   *)
(*                                                                         *)
(* Prefetchers, for every geometry, workload and prefetcher: the counters   *)
(* account for the blocks of the cache, a prefetch spares the block it      *)
(* follows, the stride prefetcher locks on, and no access makes more than   *)
(* three prefetches.  A demand access is a chain of accesses, each of which *)
(* takes a machine m that is Fit to another.                                *)
(***************************************************************************)
EXTENDS CacheRefinement, Prefetchers, CacheBlocksProofs

-----------------------------------------------------------------------------
(* The invariant, in terms of the geometry that the cache was created with. *)
LEMMA InvMeans ==
    /\ IInv <=> /\ \E config \in Configs : Sound(config, cp)
                /\ unwritten = DirtyBlocks(cp)
    /\ IInv' <=> /\ \E config \in Configs : Sound(config, cp')
                 /\ unwritten' = DirtyBlocks(cp')
<1>1. ASSUME NEW config \in Configs, NEW c, Sound(config, c)
      PROVE  DirtyBlocks(c) \subseteq Nat
  BY <1>1, DirtyBlocksMeans DEF Sound
<1> QED BY <1>1 DEF IInv, TypeOK, Sound, WayListWhole, ChainsExact, OneCopy,
               LastHitExact, NoLostWrite, FreeWaysLast

LEMMA InitInv == Init => IInv
BY CreatedSound, InvMeans DEF Init

LEMMA AccessInv ==
    ASSUME IInv, NEW cmd, NEW addr \in Addrs, CacheAccess(cmd, addr)
    PROVE  IInv'
<1>1. addr \in Nat
  BY AddrAssumption
<1>2. PICK config \in Configs : Sound(config, cp)
  BY InvMeans
<1>3. unwritten = DirtyBlocks(cp)
  BY InvMeans
<1>4. Way(cp) = Ways(config)
  BY <1>2, CacheFields DEF Sound
<1>5. PICK rand \in Ways(config) :
        /\ cp' = AccessBlock(cp, cmd, addr, rand)
        /\ unwritten' = (unwritten \ WrittenBack(cp, addr, rand))
             \cup IF cmd = "Write" /\ ~cp'.crashed
                    THEN {CACHE_BADDR(cp, addr)} ELSE {}
  BY <1>4 DEF CacheAccess
<1>6. ~cp.crashed /\ cp \in CacheType(config)
  BY <1>2 DEF CacheAccess, Sound
<1>7. CASE FastHit(cp, addr) /\ cp.last_blk = NULL
  <2>1. cp' = [cp EXCEPT !.crashed = TRUE]
    BY <1>5, <1>7 DEF AccessBlock, FastHitAccess
  <2>2. WrittenBack(cp, addr, rand) = {}
    BY <1>7 DEF WrittenBack, Miss
  <2>3. cp'.crashed
    BY <1>6, <2>1 DEF CacheType
  <2>4. unwritten' = unwritten
    BY <1>5, <2>2, <2>3
  <2>5. cp' \in CacheType(config)
    BY <1>6, <2>1 DEF CacheType
  <2>6. /\ cp'.nsets = cp.nsets /\ cp'.bsize = cp.bsize /\ cp'.assoc = cp.assoc
        /\ cp'.hsize = cp.hsize /\ cp'.policy = cp.policy
        /\ cp'.way = cp.way /\ cp'.tag = cp.tag /\ cp'.status = cp.status
        /\ cp'.hash = cp.hash /\ cp'.last_tagset = cp.last_tagset
        /\ cp'.last_blk = cp.last_blk
    BY <1>6, <2>1 DEF CacheType
  <2>9. InvalidAtEnd(cp')
    BY <1>2, <2>6 DEF Sound, InvalidAtEnd, SetIdx, Way
  <2>7. Sound(config, cp')
    BY <1>2, <2>5, <2>6, <2>9 DEF Sound, WholeLists, ChainedByTag, Single, LastIsThere,
       SetIdx, Way, CACHE_HASH, CACHE_MK_BADDR
  <2>8. DirtyBlocks(cp') = DirtyBlocks(cp)
    BY <2>6 DEF DirtyBlocks, SetIdx, Way, CACHE_MK_BADDR
  <2> QED BY <1>3, <2>4, <2>7, <2>8, InvMeans
<1>8. CASE ~(FastHit(cp, addr) /\ cp.last_blk = NULL)
  <2>1. /\ Sound(config, cp')
        /\ DirtyBlocks(cp') = (DirtyBlocks(cp) \ WrittenBack(cp, addr, rand))
                                 \cup Writes(cmd, CACHE_BADDR(cp, addr))
        /\ cp'.crashed = cp.crashed
    <3>1. CASE FastHit(cp, addr)
      <4>1. /\ cp' = FastHitAccess(cp, cmd, addr) /\ cp.last_blk # NULL
            /\ WrittenBack(cp, addr, rand) = {}
        BY <1>5, <1>8, <3>1 DEF AccessBlock, WrittenBack, Miss
      <4> QED BY <1>1, <1>2, <3>1, <4>1, FastHitSound
    <3>2. CASE ~FastHit(cp, addr) /\ Found(cp, addr) # {}
      <4>1. /\ cp' = SlowHitAccess(cp, cmd, addr)
            /\ WrittenBack(cp, addr, rand) = {}
        BY <1>5, <3>2 DEF AccessBlock, WrittenBack, Miss
      <4> QED BY <1>1, <1>2, <3>2, <4>1, SlowHitSound
    <3>3. CASE Miss(cp, addr)
      <4>1. cp' = MissAccess(cp, cmd, addr, rand)
        BY <1>5, <3>3 DEF AccessBlock, Miss
      <4> QED BY <1>1, <1>2, <3>3, <4>1, MissSound
    <3> QED BY <3>1, <3>2, <3>3 DEF Miss
  <2> QED BY <1>3, <1>5, <1>6, <2>1, InvMeans DEF Writes
<1> QED BY <1>7, <1>8

LEMMA NextInv == IInv /\ [Next]_vars => IInv'
<1> SUFFICES ASSUME IInv, [Next]_vars PROVE IInv'
  OBVIOUS
<1>1. PICK config \in Configs : Sound(config, cp)
  BY InvMeans
<1>2. unwritten = DirtyBlocks(cp)
  BY InvMeans
<1>3. ASSUME NEW cmd \in {"Read", "Write"}, NEW addr \in Addrs,
             CacheAccess(cmd, addr)
      PROVE  IInv'
  BY <1>3, AccessInv
<1>4. CASE CacheFlush
  <2>1. cp' = cache_flush(cp) /\ unwritten' = {}
    BY <1>2, <1>4 DEF CacheFlush
  <2> QED BY <1>1, <2>1, FlushSound, InvMeans
<1>5. ASSUME NEW addr \in Addrs, CacheFlushAddr(addr)
      PROVE  IInv'
  <2>1. /\ cp' = cache_flush_addr(cp, addr)
        /\ unwritten' = unwritten \ FlushedAddr(cp, addr)
    BY <1>5 DEF CacheFlushAddr
  <2>2. addr \in Nat
    BY AddrAssumption
  <2> QED BY <1>1, <1>2, <2>1, <2>2, FlushAddrSound, InvMeans
<1>6. CASE UNCHANGED vars
  BY <1>1, <1>2, <1>6, InvMeans DEF vars
<1> QED BY <1>3, <1>4, <1>5, <1>6 DEF Next

-----------------------------------------------------------------------------
(* The invariant holds of every cache that cache_create accepts, after      *)
(* any sequence of accesses and flushes.                                    *)
THEOREM CacheCorrect == Spec => []IInv
BY InitInv, NextInv, PTL DEF Spec

(* The types of the fields of a cache and of the blocks it has written.     *)
THEOREM CacheTypes == Spec => []TypeOK
<1>1. IInv => TypeOK
  BY DEF IInv
<1> QED BY <1>1, CacheCorrect, PTL

(* update_way_list never loses or repeats a block of a set.                 *)
THEOREM WayListsWhole == Spec => []WayListWhole
<1>1. IInv => WayListWhole
  BY DEF IInv
<1> QED BY <1>1, CacheCorrect, PTL

(* Every block is on the hash chain of its tag, and on no other.            *)
THEOREM HashChainsExact == Spec => []ChainsExact
<1>1. IInv => ChainsExact
  BY DEF IInv
<1> QED BY <1>1, CacheCorrect, PTL

(* A miss takes a free way before it gives up a block.                      *)
THEOREM FreeWayTaken == Spec => []FreeWaysLast
<1>1. IInv => FreeWaysLast
  BY DEF IInv
<1> QED BY <1>1, CacheCorrect, PTL

(* A block of memory is cached at most once.                                *)
THEOREM CachedOnce == Spec => []OneCopy
<1>1. IInv => OneCopy
  BY DEF IInv
<1> QED BY <1>1, CacheCorrect, PTL

(* The remembered block of the fast hit is valid and is the one remembered. *)
THEOREM LastHitRight == Spec => []LastHitExact
<1>1. IInv => LastHitExact
  BY DEF IInv
<1> QED BY <1>1, CacheCorrect, PTL

(* What was written and not passed on is exactly what is valid and dirty.   *)
THEOREM WritesNotLost == Spec => []NoLostWrite
<1>1. IInv => NoLostWrite
  BY DEF IInv
<1> QED BY <1>1, CacheCorrect, PTL

-----------------------------------------------------------------------------
(* The refinement.                                                          *)

(* The set that a block of memory belongs to.                               *)
SetIn(c, block) == (block \div c.bsize) % c.nsets

LEMMA DivOf ==
    ASSUME NEW d \in Nat \ {0}, NEW q \in Nat, NEW r \in 0 .. d - 1,
           NEW a \in Nat, a = d * q + r
    PROVE  a \div d = q /\ a % d = r
<1>1. /\ a \div d \in Nat /\ a % d \in 0 .. d - 1
      /\ a = d * (a \div d) + (a % d)
  BY DivMod
<1>2. \A x \in Nat, y \in 0 .. d - 1 : a = d * x + y => x = q /\ y = r
  BY DivUnique
<1> QED BY <1>1, <1>2

LEMMA SetOfBlock ==
    ASSUME NEW config \in Configs, NEW c \in CacheType(config),
           NEW t \in Nat, NEW s \in Sets(config)
    PROVE  SetIn(c, CACHE_MK_BADDR(c, t, s)) = s
<1>1. PICK b \in Nat \ {0}, n \in Nat \ {0} :
        c.bsize = b /\ c.nsets = n /\ s \in 0 .. n - 1
  BY CacheFields DEF Sets
<1> DEFINE k == n * t + s
<1>2. k \in Nat
  BY <1>1
<1>3. CACHE_MK_BADDR(c, t, s) = b * k
  BY <1>1 DEF CACHE_MK_BADDR
<1> DEFINE a == CACHE_MK_BADDR(c, t, s)
<1>4. a \in Nat /\ a = b * k + 0 /\ 0 \in 0 .. b - 1
  BY <1>1, <1>2, <1>3
<1>8. ASSUME NEW x \in Nat, x = n * t + s PROVE x % n = s
  <2>1. s \in 0 .. n - 1
    BY <1>1
  <2> QED BY <1>8, <2>1, DivOf
<1>6. k % n = s
  BY <1>2, <1>8
<1> HIDE DEF k, a
<1>5. a \div b = k
  BY <1>2, <1>4, DivOf
<1>7. SetIn(c, a) = (a \div b) % n
  BY <1>1 DEF SetIn
<1> QED BY <1>5, <1>6, <1>7 DEF a

-----------------------------------------------------------------------------
(* The refinement mapping, way by way.                                      *)
LEMMA ResidentMeans ==
    ASSUME NEW config \in Configs, NEW c \in CacheType(config)
    PROVE  \A b : b \in ResidentBlocks(c) <=>
             \E s \in Sets(config), w \in Ways(config) :
               VALID \in c.status[s][w] /\ b = BlockAt(c, s, w)
<1>1. SetIdx(c) = Sets(config) /\ Way(c) = Ways(config)
  BY CacheFields
<1> QED BY <1>1 DEF ResidentBlocks, ValidIn

LEMMA NewerMeans ==
    ASSUME NEW config \in Configs, NEW c \in CacheType(config)
    PROVE  \A p : p \in NewerPairs(c) <=>
             /\ c.policy # "Random"
             /\ \E s \in Sets(config), v \in Ways(config), w \in Ways(config) :
                  /\ VALID \in c.status[s][v] /\ VALID \in c.status[s][w]
                  /\ c.way[s][v] < c.way[s][w]
                  /\ p = <<BlockAt(c, s, v), BlockAt(c, s, w)>>
<1>1. SetIdx(c) = Sets(config) /\ Way(c) = Ways(config)
  BY CacheFields
<1> SUFFICES ASSUME NEW p
             PROVE  p \in NewerPairs(c) <=>
               /\ c.policy # "Random"
               /\ \E s \in Sets(config), v \in Ways(config), w \in Ways(config) :
                    /\ VALID \in c.status[s][v] /\ VALID \in c.status[s][w]
                    /\ c.way[s][v] < c.way[s][w]
                    /\ p = <<BlockAt(c, s, v), BlockAt(c, s, w)>>
  OBVIOUS
<1>2. ASSUME p \in NewerPairs(c)
      PROVE  /\ c.policy # "Random"
             /\ \E s \in Sets(config), v \in Ways(config), w \in Ways(config) :
                  /\ VALID \in c.status[s][v] /\ VALID \in c.status[s][w]
                  /\ c.way[s][v] < c.way[s][w]
                  /\ p = <<BlockAt(c, s, v), BlockAt(c, s, w)>>
  <2>1. c.policy # "Random"
    BY <1>2 DEF NewerPairs
  <2>2. PICK s \in Sets(config) :
          p \in {<<BlockAt(c, s, q[1]), BlockAt(c, s, q[2])>> :
                   q \in {q \in ValidIn(c, s) \X ValidIn(c, s) :
                            c.way[s][q[1]] < c.way[s][q[2]]}}
    BY <1>1, <1>2, <2>1 DEF NewerPairs
  <2>3. PICK q \in ValidIn(c, s) \X ValidIn(c, s) :
          /\ c.way[s][q[1]] < c.way[s][q[2]]
          /\ p = <<BlockAt(c, s, q[1]), BlockAt(c, s, q[2])>>
    BY <2>2
  <2>4. q[1] \in ValidIn(c, s) /\ q[2] \in ValidIn(c, s)
    OBVIOUS
  <2> QED BY <1>1, <2>1, <2>3, <2>4 DEF ValidIn
<1>3. ASSUME c.policy # "Random",
             NEW s \in Sets(config), NEW v \in Ways(config), NEW w \in Ways(config),
             VALID \in c.status[s][v], VALID \in c.status[s][w],
             c.way[s][v] < c.way[s][w],
             p = <<BlockAt(c, s, v), BlockAt(c, s, w)>>
      PROVE  p \in NewerPairs(c)
  <2> DEFINE q == <<v, w>>
  <2>1. q \in ValidIn(c, s) \X ValidIn(c, s) /\ q[1] = v /\ q[2] = w
    BY <1>1, <1>3 DEF ValidIn
  <2> HIDE DEF q
  <2>2. p \in {<<BlockAt(c, s, r[1]), BlockAt(c, s, r[2])>> :
                 r \in {r \in ValidIn(c, s) \X ValidIn(c, s) :
                          c.way[s][r[1]] < c.way[s][r[2]]}}
    BY <1>3, <2>1
  <2> QED BY <1>1, <1>3, <2>2 DEF NewerPairs
<1> QED BY <1>2, <1>3

(* Two ways never hold the same block.                                      *)
LEMMA BlockAtOne ==
    ASSUME NEW config \in Configs, NEW c, Sound(config, c),
           NEW u \in Sets(config), NEW v \in Sets(config),
           NEW x \in Ways(config), NEW y \in Ways(config),
           VALID \in c.status[u][x], VALID \in c.status[v][y],
           BlockAt(c, u, x) = BlockAt(c, v, y)
    PROVE  u = v /\ x = y
<1>1. c \in CacheType(config)
  BY DEF Sound
<1>2. /\ SetIdx(c) = Sets(config) /\ Way(c) = Ways(config)
      /\ c.tag[u][x] \in Nat /\ c.tag[v][y] \in Nat
  BY <1>1, CacheFields
<1>3. c.tag[u][x] = c.tag[v][y] /\ u = v
  BY <1>1, <1>2, BlockAddress DEF BlockAt
<1> QED BY <1>2, <1>3 DEF Sound, Single

-----------------------------------------------------------------------------
(* The blocks that a change of one way leaves alone.                        *)
Elsewhere(c, s, w, v, x) == ~(v = s /\ x = w) /\ VALID \in c.status[v][x]

(* The block that a way makes resident.                                     *)
Present(c, s, tag, status) ==
    IF VALID \in status THEN {CACHE_MK_BADDR(c, tag, s)} ELSE {}

Kept(c, s, w) ==
    ResidentBlocks(c) \ Present(c, s, c.tag[s][w], c.status[s][w])

LEMMA KeptMeans ==
    ASSUME NEW config \in Configs, NEW c, Sound(config, c),
           NEW s \in Sets(config), NEW w \in Ways(config)
    PROVE  \A b : b \in Kept(c, s, w)
             <=> \E v \in Sets(config), x \in Ways(config) :
                   Elsewhere(c, s, w, v, x) /\ b = BlockAt(c, v, x)
<1>1. c \in CacheType(config)
  BY DEF Sound
<1>2. Present(c, s, c.tag[s][w], c.status[s][w])
        = IF VALID \in c.status[s][w] THEN {BlockAt(c, s, w)} ELSE {}
  BY DEF Present, BlockAt
<1> SUFFICES ASSUME NEW b
             PROVE  b \in Kept(c, s, w)
                      <=> \E v \in Sets(config), x \in Ways(config) :
                            Elsewhere(c, s, w, v, x) /\ b = BlockAt(c, v, x)
  OBVIOUS
<1>3. ASSUME b \in Kept(c, s, w)
      PROVE  \E v \in Sets(config), x \in Ways(config) :
               Elsewhere(c, s, w, v, x) /\ b = BlockAt(c, v, x)
  <2>1. PICK v \in Sets(config), x \in Ways(config) :
          VALID \in c.status[v][x] /\ b = BlockAt(c, v, x)
    BY <1>1, <1>3, ResidentMeans DEF Kept
  <2>2. ~(v = s /\ x = w)
    BY <1>2, <1>3, <2>1 DEF Kept
  <2> QED BY <2>1, <2>2 DEF Elsewhere
<1>4. ASSUME NEW v \in Sets(config), NEW x \in Ways(config),
             Elsewhere(c, s, w, v, x), b = BlockAt(c, v, x)
      PROVE  b \in Kept(c, s, w)
  <2>1. b \in ResidentBlocks(c)
    BY <1>1, <1>4, ResidentMeans DEF Elsewhere
  <2>2. VALID \in c.status[s][w] => b # BlockAt(c, s, w)
    BY <1>4, BlockAtOne DEF Elsewhere
  <2> QED BY <1>2, <2>1, <2>2 DEF Kept
<1> QED BY <1>3, <1>4

LEMMA KeptPairs ==
    ASSUME NEW config \in Configs, NEW c, Sound(config, c),
           NEW s \in Sets(config), NEW w \in Ways(config), NEW K,
           \A b : b \in K <=> \E v \in Sets(config), x \in Ways(config) :
                                Elsewhere(c, s, w, v, x) /\ b = BlockAt(c, v, x)
    PROVE  \A p : p \in {q \in NewerPairs(c) : q[1] \in K /\ q[2] \in K} <=>
             /\ c.policy # "Random"
             /\ \E v \in Sets(config), x \in Ways(config), y \in Ways(config) :
                  /\ Elsewhere(c, s, w, v, x) /\ Elsewhere(c, s, w, v, y)
                  /\ c.way[v][x] < c.way[v][y]
                  /\ p = <<BlockAt(c, v, x), BlockAt(c, v, y)>>
<1>1. c \in CacheType(config)
  BY DEF Sound
<1>2. ASSUME NEW v \in Sets(config), NEW x \in Ways(config),
             VALID \in c.status[v][x]
      PROVE  BlockAt(c, v, x) \in K <=> Elsewhere(c, s, w, v, x)
  <2>1. ASSUME BlockAt(c, v, x) \in K PROVE Elsewhere(c, s, w, v, x)
    <3>1. PICK u \in Sets(config), y \in Ways(config) :
            Elsewhere(c, s, w, u, y) /\ BlockAt(c, v, x) = BlockAt(c, u, y)
      BY <2>1
    <3>2. u = v /\ y = x
      BY <1>2, <3>1, BlockAtOne DEF Elsewhere
    <3> QED BY <3>1, <3>2
  <2> QED BY <2>1
<1> SUFFICES ASSUME NEW p
             PROVE  p \in {q \in NewerPairs(c) : q[1] \in K /\ q[2] \in K} <=>
               /\ c.policy # "Random"
               /\ \E v \in Sets(config), x \in Ways(config), y \in Ways(config) :
                    /\ Elsewhere(c, s, w, v, x) /\ Elsewhere(c, s, w, v, y)
                    /\ c.way[v][x] < c.way[v][y]
                    /\ p = <<BlockAt(c, v, x), BlockAt(c, v, y)>>
  OBVIOUS
<1>3. ASSUME p \in NewerPairs(c), p[1] \in K, p[2] \in K
      PROVE  /\ c.policy # "Random"
             /\ \E v \in Sets(config), x \in Ways(config), y \in Ways(config) :
                  /\ Elsewhere(c, s, w, v, x) /\ Elsewhere(c, s, w, v, y)
                  /\ c.way[v][x] < c.way[v][y]
                  /\ p = <<BlockAt(c, v, x), BlockAt(c, v, y)>>
  <2>1. c.policy # "Random"
    BY <1>1, <1>3, NewerMeans
  <2>2. PICK v \in Sets(config), x \in Ways(config), y \in Ways(config) :
          /\ VALID \in c.status[v][x] /\ VALID \in c.status[v][y]
          /\ c.way[v][x] < c.way[v][y]
          /\ p = <<BlockAt(c, v, x), BlockAt(c, v, y)>>
    BY <1>1, <1>3, NewerMeans
  <2>3. p[1] = BlockAt(c, v, x) /\ p[2] = BlockAt(c, v, y)
    BY <2>2
  <2> QED BY <1>2, <1>3, <2>1, <2>2, <2>3
<1>4. ASSUME c.policy # "Random",
             NEW v \in Sets(config), NEW x \in Ways(config), NEW y \in Ways(config),
             Elsewhere(c, s, w, v, x), Elsewhere(c, s, w, v, y),
             c.way[v][x] < c.way[v][y],
             p = <<BlockAt(c, v, x), BlockAt(c, v, y)>>
      PROVE  p \in NewerPairs(c) /\ p[1] \in K /\ p[2] \in K
  <2>1. VALID \in c.status[v][x] /\ VALID \in c.status[v][y]
    BY <1>4 DEF Elsewhere
  <2>2. p \in NewerPairs(c)
    BY <1>1, <1>4, <2>1, NewerMeans
  <2>3. p[1] = BlockAt(c, v, x) /\ p[2] = BlockAt(c, v, y)
    BY <1>4
  <2> QED BY <1>2, <1>4, <2>1, <2>2, <2>3
<1> QED BY <1>3, <1>4

-----------------------------------------------------------------------------
(* What a change of one way does to the mapping.                            *)
LEMMA ChangedWays ==
    ASSUME NEW config \in Configs, NEW c \in CacheType(config), NEW d,
           NEW s \in Sets(config), NEW w \in Ways(config), NEW tag \in Nat,
           NEW status, NEW way, NEW hash, NEW last_tagset, NEW last_blk,
           Changed(config, c, d, s, w, tag, status, way, hash, last_tagset, last_blk)
    PROVE  /\ d \in CacheType(config) /\ d.policy = c.policy
           /\ \A v \in Sets(config), x \in Ways(config) :
                /\ d.status[v][x] = IF v = s /\ x = w THEN status ELSE c.status[v][x]
                /\ d.way[v][x] = IF v = s THEN way[x] ELSE c.way[v][x]
                /\ BlockAt(d, v, x) = IF v = s /\ x = w
                                        THEN CACHE_MK_BADDR(c, tag, s)
                                        ELSE BlockAt(c, v, x)
<1>1. /\ c.status \in [Sets(config) -> [Ways(config) -> StatusType]]
      /\ c.tag \in [Sets(config) -> [Ways(config) -> Nat]]
      /\ c.way \in [Sets(config) -> [Ways(config) -> Ways(config)]]
  BY CacheFields
<1>2. d \in CacheType(config) /\ d.policy = c.policy
  BY DEF Changed
<1>3. \A v \in Sets(config), x \in Ways(config) :
        /\ d.tag[v][x] = IF v = s /\ x = w THEN tag ELSE c.tag[v][x]
        /\ d.status[v][x] = IF v = s /\ x = w THEN status ELSE c.status[v][x]
        /\ d.way[v][x] = IF v = s THEN way[x] ELSE c.way[v][x]
  BY <1>1 DEF Changed
<1>4. \A t, v : CACHE_MK_BADDR(d, t, v) = CACHE_MK_BADDR(c, t, v)
  BY DEF Changed, CACHE_MK_BADDR
<1> QED BY <1>2, <1>3, <1>4 DEF BlockAt

LEMMA ChangedResident ==
    ASSUME NEW config \in Configs, NEW c, Sound(config, c), NEW d,
           NEW s \in Sets(config), NEW w \in Ways(config), NEW tag \in Nat,
           NEW status, NEW way, NEW hash, NEW last_tagset, NEW last_blk,
           Changed(config, c, d, s, w, tag, status, way, hash, last_tagset, last_blk)
    PROVE  ResidentBlocks(d) =
             Kept(c, s, w)
               \cup Present(c, s, tag, status)
<1> DEFINE K == Kept(c, s, w)
<1>1. c \in CacheType(config)
  BY DEF Sound
<1>2. /\ d \in CacheType(config)
      /\ \A v \in Sets(config), x \in Ways(config) :
           /\ d.status[v][x] = IF v = s /\ x = w THEN status ELSE c.status[v][x]
           /\ BlockAt(d, v, x) = IF v = s /\ x = w
                                   THEN CACHE_MK_BADDR(c, tag, s)
                                   ELSE BlockAt(c, v, x)
  BY <1>1, ChangedWays
<1>3. \A b : b \in K <=> \E v \in Sets(config), x \in Ways(config) :
                           Elsewhere(c, s, w, v, x) /\ b = BlockAt(c, v, x)
  BY KeptMeans
<1> HIDE DEF K
<1>4. ASSUME NEW b, b \in ResidentBlocks(d)
      PROVE  b \in K \cup Present(c, s, tag, status)
  <2>1. PICK v \in Sets(config), x \in Ways(config) :
          VALID \in d.status[v][x] /\ b = BlockAt(d, v, x)
    BY <1>2, <1>4, ResidentMeans
  <2>2. CASE v = s /\ x = w
    BY <1>2, <2>1, <2>2 DEF Present
  <2>3. CASE ~(v = s /\ x = w)
    BY <1>2, <1>3, <2>1, <2>3 DEF Elsewhere
  <2> QED BY <2>2, <2>3
<1>5. ASSUME NEW b, b \in Present(c, s, tag, status)
      PROVE  b \in ResidentBlocks(d)
  <2>1. VALID \in d.status[s][w] /\ b = BlockAt(d, s, w)
    BY <1>2, <1>5 DEF Present
  <2> QED BY <1>2, <2>1, ResidentMeans
<1>6. ASSUME NEW b, b \in K
      PROVE  b \in ResidentBlocks(d)
  <2>1. PICK v \in Sets(config), x \in Ways(config) :
          Elsewhere(c, s, w, v, x) /\ b = BlockAt(c, v, x)
    BY <1>3, <1>6
  <2>2. VALID \in d.status[v][x] /\ b = BlockAt(d, v, x)
    BY <1>2, <2>1 DEF Elsewhere
  <2> QED BY <1>2, <2>2, ResidentMeans
<1> QED BY <1>4, <1>5, <1>6 DEF K

(* The order of the blocks that stay, and the changed block put first.      *)
KeptOrder(c, K) == {p \in NewerPairs(c) : p[1] \in K /\ p[2] \in K}
First(c, K, block) == {<<block, x>> : x \in {x \in K : SetIn(c, x) = SetIn(c, block)}}

(* The ways that do not change keep their order.                            *)
SameOrder(config, c, s, w, way) ==
    \A x, y \in Ways(config) \ {w} : way[x] < way[y] <=> c.way[s][x] < c.way[s][y]

PairElsewhere(config, d, s, w, p) ==
    /\ d.policy # "Random"
    /\ \E v \in Sets(config), x \in Ways(config), y \in Ways(config) :
         /\ ~(v = s /\ x = w) /\ ~(v = s /\ y = w)
         /\ VALID \in d.status[v][x] /\ VALID \in d.status[v][y]
         /\ d.way[v][x] < d.way[v][y]
         /\ p = <<BlockAt(d, v, x), BlockAt(d, v, y)>>

LEMMA ChangedPairs ==
    ASSUME NEW config \in Configs, NEW c, Sound(config, c), NEW d,
           NEW s \in Sets(config), NEW w \in Ways(config), NEW tag \in Nat,
           NEW status, NEW way, NEW hash, NEW last_tagset, NEW last_blk,
           Changed(config, c, d, s, w, tag, status, way, hash, last_tagset, last_blk),
           SameOrder(config, c, s, w, way)
    PROVE  \A p : p \in KeptOrder(c, Kept(c, s, w))
                   <=> PairElsewhere(config, d, s, w, p)
<1> DEFINE K == Kept(c, s, w)
<1>1. c \in CacheType(config)
  BY DEF Sound
<1>2. /\ d.policy = c.policy
      /\ \A v \in Sets(config), x \in Ways(config) :
           /\ d.status[v][x] = IF v = s /\ x = w THEN status ELSE c.status[v][x]
           /\ d.way[v][x] = IF v = s THEN way[x] ELSE c.way[v][x]
           /\ BlockAt(d, v, x) = IF v = s /\ x = w
                                   THEN CACHE_MK_BADDR(c, tag, s)
                                   ELSE BlockAt(c, v, x)
  BY <1>1, ChangedWays
<1>3. \A b : b \in K <=> \E v \in Sets(config), x \in Ways(config) :
                           Elsewhere(c, s, w, v, x) /\ b = BlockAt(c, v, x)
  BY KeptMeans
<1> HIDE DEF K
<1>4. \A p : p \in KeptOrder(c, K) <=>
             /\ c.policy # "Random"
             /\ \E v \in Sets(config), x \in Ways(config), y \in Ways(config) :
                  /\ Elsewhere(c, s, w, v, x) /\ Elsewhere(c, s, w, v, y)
                  /\ c.way[v][x] < c.way[v][y]
                  /\ p = <<BlockAt(c, v, x), BlockAt(c, v, y)>>
  BY <1>3, KeptPairs DEF KeptOrder
<1>5. ASSUME NEW v \in Sets(config), NEW x \in Ways(config), NEW y \in Ways(config)
      PROVE  /\ Elsewhere(c, s, w, v, x) /\ Elsewhere(c, s, w, v, y)
             /\ c.way[v][x] < c.way[v][y]
             <=> /\ ~(v = s /\ x = w) /\ ~(v = s /\ y = w)
                 /\ VALID \in d.status[v][x] /\ VALID \in d.status[v][y]
                 /\ d.way[v][x] < d.way[v][y]
  BY <1>2 DEF Elsewhere, SameOrder
<1>6. ASSUME NEW v \in Sets(config), NEW x \in Ways(config), ~(v = s /\ x = w)
      PROVE  BlockAt(d, v, x) = BlockAt(c, v, x)
  BY <1>2, <1>6
<1>7. ASSUME NEW p
      PROVE  p \in KeptOrder(c, K) <=>
               /\ d.policy # "Random"
               /\ \E v \in Sets(config), x \in Ways(config), y \in Ways(config) :
                    /\ ~(v = s /\ x = w) /\ ~(v = s /\ y = w)
                    /\ VALID \in d.status[v][x] /\ VALID \in d.status[v][y]
                    /\ d.way[v][x] < d.way[v][y]
                    /\ p = <<BlockAt(d, v, x), BlockAt(d, v, y)>>
  BY <1>2, <1>4, <1>5, <1>6
<1> QED BY <1>7 DEF K, PairElsewhere

LEMMA DroppedOrder ==
    ASSUME NEW config \in Configs, NEW c, Sound(config, c), NEW d,
           NEW s \in Sets(config), NEW w \in Ways(config), NEW tag \in Nat,
           NEW status, NEW way, NEW hash, NEW last_tagset, NEW last_blk,
           Changed(config, c, d, s, w, tag, status, way, hash, last_tagset, last_blk),
           SameOrder(config, c, s, w, way), VALID \notin status
    PROVE  NewerPairs(d) =
             KeptOrder(c, Kept(c, s, w))
<1> DEFINE K == Kept(c, s, w)
<1>1. c \in CacheType(config)
  BY DEF Sound
<1>2. d \in CacheType(config) /\ d.status[s][w] = status
  BY <1>1, ChangedWays
<1>3. \A p : p \in KeptOrder(c, K) <=>
        /\ d.policy # "Random"
        /\ \E v \in Sets(config), x \in Ways(config), y \in Ways(config) :
             /\ ~(v = s /\ x = w) /\ ~(v = s /\ y = w)
             /\ VALID \in d.status[v][x] /\ VALID \in d.status[v][y]
             /\ d.way[v][x] < d.way[v][y]
             /\ p = <<BlockAt(d, v, x), BlockAt(d, v, y)>>
  <2>1. \A p : p \in KeptOrder(c, K) <=> PairElsewhere(config, d, s, w, p)
    BY ChangedPairs
  <2> QED BY <2>1 DEF PairElsewhere
<1>4. \A p : p \in NewerPairs(d) <=>
        /\ d.policy # "Random"
        /\ \E v \in Sets(config), x \in Ways(config), y \in Ways(config) :
             /\ VALID \in d.status[v][x] /\ VALID \in d.status[v][y]
             /\ d.way[v][x] < d.way[v][y]
             /\ p = <<BlockAt(d, v, x), BlockAt(d, v, y)>>
  BY <1>2, NewerMeans
<1>5. \A v \in Sets(config), x \in Ways(config) :
        VALID \in d.status[v][x] => ~(v = s /\ x = w)
  BY <1>2
<1> HIDE DEF K
<1>6. \A p : p \in NewerPairs(d) <=> p \in KeptOrder(c, K)
  BY <1>3, <1>4, <1>5
<1> QED BY <1>6 DEF K

LEMMA PutFirstOrder ==
    ASSUME NEW config \in Configs, NEW c, Sound(config, c), NEW d, Sound(config, d),
           NEW s \in Sets(config), NEW w \in Ways(config), NEW tag \in Nat,
           NEW status, NEW way, NEW hash, NEW last_tagset, NEW last_blk,
           Changed(config, c, d, s, w, tag, status, way, hash, last_tagset, last_blk),
           SameOrder(config, c, s, w, way), VALID \in status,
           \A x \in Ways(config) \ {w} : way[w] < way[x],
           c.policy # "Random"
    PROVE  LET K == Kept(c, s, w)
               block == CACHE_MK_BADDR(c, tag, s)
           IN /\ block \notin K
              /\ NewerPairs(d) = KeptOrder(c, K) \cup First(c, K, block)
<1> DEFINE K == Kept(c, s, w)
           block == CACHE_MK_BADDR(c, tag, s)
<1>1. c \in CacheType(config)
  BY DEF Sound
<1>2. /\ d \in CacheType(config) /\ d.policy = c.policy
      /\ \A v \in Sets(config), x \in Ways(config) :
           /\ d.status[v][x] = IF v = s /\ x = w THEN status ELSE c.status[v][x]
           /\ d.way[v][x] = IF v = s THEN way[x] ELSE c.way[v][x]
           /\ BlockAt(d, v, x) = IF v = s /\ x = w THEN block ELSE BlockAt(c, v, x)
  BY <1>1, ChangedWays
<1>3. \A b : b \in K <=> \E v \in Sets(config), x \in Ways(config) :
                           Elsewhere(c, s, w, v, x) /\ b = BlockAt(c, v, x)
  BY KeptMeans
<1>4. \A p : p \in KeptOrder(c, K) <=>
        /\ d.policy # "Random"
        /\ \E v \in Sets(config), x \in Ways(config), y \in Ways(config) :
             /\ ~(v = s /\ x = w) /\ ~(v = s /\ y = w)
             /\ VALID \in d.status[v][x] /\ VALID \in d.status[v][y]
             /\ d.way[v][x] < d.way[v][y]
             /\ p = <<BlockAt(d, v, x), BlockAt(d, v, y)>>
  <2>1. \A p : p \in KeptOrder(c, K) <=> PairElsewhere(config, d, s, w, p)
    BY ChangedPairs
  <2> QED BY <2>1 DEF PairElsewhere
<1>5. \A p : p \in NewerPairs(d) <=>
        /\ d.policy # "Random"
        /\ \E v \in Sets(config), x \in Ways(config), y \in Ways(config) :
             /\ VALID \in d.status[v][x] /\ VALID \in d.status[v][y]
             /\ d.way[v][x] < d.way[v][y]
             /\ p = <<BlockAt(d, v, x), BlockAt(d, v, y)>>
  BY <1>2, NewerMeans
<1>6. SetIn(c, block) = s
  BY <1>1, SetOfBlock
<1>7. \A v \in Sets(config), x \in Ways(config) : SetIn(c, BlockAt(c, v, x)) = v
  BY <1>1, CacheFields, SetOfBlock DEF BlockAt
<1> HIDE DEF K, block
<1>8. block \notin K
  <2> SUFFICES ASSUME NEW v \in Sets(config), NEW x \in Ways(config),
                      Elsewhere(c, s, w, v, x), block = BlockAt(c, v, x)
               PROVE  FALSE
    BY <1>3
  <2>1. /\ VALID \in d.status[v][x] /\ BlockAt(d, v, x) = block
        /\ VALID \in d.status[s][w] /\ BlockAt(d, s, w) = block
    BY <1>2 DEF Elsewhere
  <2>2. v = s /\ x = w
    BY <2>1, BlockAtOne
  <2> QED BY <2>2 DEF Elsewhere
<1>9. \A p : p \in First(c, K, block) <=>
        \E y \in Ways(config) \ {w} :
          VALID \in d.status[s][y] /\ p = <<block, BlockAt(d, s, y)>>
  <2>1. ASSUME NEW p, p \in First(c, K, block)
        PROVE  \E y \in Ways(config) \ {w} :
                 VALID \in d.status[s][y] /\ p = <<block, BlockAt(d, s, y)>>
    <3>1. PICK b \in K : SetIn(c, b) = s /\ p = <<block, b>>
      BY <1>6, <2>1 DEF First
    <3>2. PICK v \in Sets(config), y \in Ways(config) :
            Elsewhere(c, s, w, v, y) /\ b = BlockAt(c, v, y)
      BY <1>3, <3>1
    <3>3. v = s
      BY <1>7, <3>1, <3>2
    <3>4. y # w /\ VALID \in d.status[s][y] /\ b = BlockAt(d, s, y)
      BY <1>2, <3>2, <3>3 DEF Elsewhere
    <3> QED BY <3>1, <3>4
  <2>2. ASSUME NEW p, NEW y \in Ways(config) \ {w},
               VALID \in d.status[s][y], p = <<block, BlockAt(d, s, y)>>
        PROVE  p \in First(c, K, block)
    <3>1. Elsewhere(c, s, w, s, y) /\ BlockAt(d, s, y) = BlockAt(c, s, y)
      BY <1>2, <2>2 DEF Elsewhere
    <3>2. BlockAt(c, s, y) \in K /\ SetIn(c, BlockAt(c, s, y)) = s
      BY <1>3, <1>7, <3>1
    <3> QED BY <1>6, <2>2, <3>1, <3>2 DEF First
  <2> QED BY <2>1, <2>2
<1>10. \A x \in Ways(config) : x # w => d.way[s][w] < d.way[s][x]
  BY <1>2
<1>11. /\ \A x \in Ways(config) : ~(d.way[s][x] < d.way[s][w])
       /\ VALID \in d.status[s][w] /\ BlockAt(d, s, w) = block
  <2>1. \A x \in Ways(config) : d.way[s][x] \in Int
    <3>1. d.way \in [Sets(config) -> [Ways(config) -> Ways(config)]]
      BY <1>2, CacheFields
    <3>2. \A x \in Ways(config) : d.way[s][x] \in Ways(config)
      BY <3>1
    <3>3. Ways(config) \subseteq Int
      BY DEF Ways
    <3> QED BY <3>2, <3>3
  <2>2. d.way[s][w] \in Int
    BY <2>1
  <2> QED BY <1>2, <1>10, <2>1, <2>2
<1>12. ASSUME NEW p
       PROVE  p \in NewerPairs(d) <=> p \in KeptOrder(c, K) \/ p \in First(c, K, block)
  <2>1. ASSUME p \in NewerPairs(d)
        PROVE  p \in KeptOrder(c, K) \/ p \in First(c, K, block)
    <3>1. PICK v \in Sets(config), x \in Ways(config), y \in Ways(config) :
            /\ VALID \in d.status[v][x] /\ VALID \in d.status[v][y]
            /\ d.way[v][x] < d.way[v][y]
            /\ p = <<BlockAt(d, v, x), BlockAt(d, v, y)>>
      BY <1>5, <2>1
    <3>2. ~(v = s /\ y = w)
      BY <1>11, <3>1
    <3>3. CASE v = s /\ x = w
      BY <1>9, <1>11, <3>1, <3>2, <3>3
    <3>4. CASE ~(v = s /\ x = w)
      BY <1>2, <1>4, <3>1, <3>2, <3>4
    <3> QED BY <3>3, <3>4
  <2>2. ASSUME p \in KeptOrder(c, K) PROVE p \in NewerPairs(d)
    BY <1>4, <1>5, <2>2
  <2>3. ASSUME p \in First(c, K, block) PROVE p \in NewerPairs(d)
    BY <1>2, <1>5, <1>9, <1>10, <1>11, <2>3
  <2> QED BY <2>1, <2>2, <2>3
<1> QED BY <1>8, <1>12 DEF K, block

-----------------------------------------------------------------------------
(* A set is full when all its ways are valid.                               *)
LEMMA FullMeans ==
    ASSUME NEW config \in Configs, NEW c, Sound(config, c), NEW s \in Sets(config)
    PROVE  Cardinality({x \in ResidentBlocks(c) : SetIn(c, x) = s}) = c.assoc
             <=> \A w \in Ways(config) : VALID \in c.status[s][w]
<1> DEFINE V == {w \in Ways(config) : VALID \in c.status[s][w]}
           S == {x \in ResidentBlocks(c) : SetIn(c, x) = s}
           f == [w \in V |-> BlockAt(c, s, w)]
<1>1. c \in CacheType(config)
  BY DEF Sound
<1>2. c.assoc \in Nat \ {0} /\ Ways(config) = 0 .. c.assoc - 1
  BY <1>1, CacheFields DEF Ways
<1>3. IsFiniteSet(Ways(config)) /\ Cardinality(Ways(config)) = c.assoc
  BY <1>2, FS_Interval
<1>4. /\ IsFiniteSet(V)
      /\ Cardinality(Ways(config)) = Cardinality(V) => Ways(config) = V
  BY <1>3, FS_Subset
<1>5. \A v \in Sets(config), x \in Ways(config) : SetIn(c, BlockAt(c, v, x)) = v
  BY <1>1, CacheFields, SetOfBlock DEF BlockAt
<1>6. f \in Bijection(V, S)
  <2>1. f \in [V -> S]
    BY <1>1, <1>5, ResidentMeans
  <2>2. \A v, w \in V : f[v] = f[w] => v = w
    BY BlockAtOne
  <2>3. ASSUME NEW x \in S PROVE \E w \in V : f[w] = x
    <3>1. PICK v \in Sets(config), w \in Ways(config) :
            VALID \in c.status[v][w] /\ x = BlockAt(c, v, w)
      BY <1>1, ResidentMeans
    <3>2. v = s
      BY <1>5, <3>1
    <3> QED BY <3>1, <3>2
  <2> QED BY <2>1, <2>2, <2>3 DEF Bijection, Injection, IsInjective, Surjection
<1>7. Cardinality(S) = Cardinality(V)
  BY <1>4, <1>6, FS_Bijection DEF ExistsBijection
<1> HIDE DEF V, S
<1>8. Cardinality(S) = c.assoc <=> V = Ways(config)
  BY <1>3, <1>4, <1>7
<1> QED BY <1>8 DEF V, S

(* A way that is given up passes on its block if it is dirty, and only then *)
(* is that block among the dirty ones.                                      *)
LEMMA DirtyGone ==
    ASSUME NEW config \in Configs, NEW c, Sound(config, c),
           NEW s \in Sets(config), NEW w \in Ways(config)
    PROVE  DirtyBlocks(c) \ Held(c, s, c.tag[s][w], c.status[s][w])
             = DirtyBlocks(c) \ Present(c, s, c.tag[s][w], c.status[s][w])
<1>1. c \in CacheType(config)
  BY DEF Sound
<1>2. ASSUME VALID \in c.status[s][w], DIRTY \notin c.status[s][w],
             BlockAt(c, s, w) \in DirtyBlocks(c)
      PROVE  FALSE
  <2>1. PICK v \in Sets(config), x \in Ways(config) :
          BlockAt(c, s, w) \in Held(c, v, c.tag[v][x], c.status[v][x])
    BY <1>1, <1>2, DirtyBlocksMeans
  <2>2. {VALID, DIRTY} \subseteq c.status[v][x] /\ BlockAt(c, s, w) = BlockAt(c, v, x)
    BY <2>1 DEF Held, BlockAt
  <2>3. v = s /\ x = w
    BY <1>2, <2>2, BlockAtOne
  <2> QED BY <1>2, <2>2, <2>3
<1> QED BY <1>2 DEF Held, Present, BlockAt

-----------------------------------------------------------------------------
(* What AbstractCache says of the mapped state.                             *)
LEMMA AbstractMeans ==
    /\ \A x : Abstract!SetOf(x) = SetIn(cp, x)
    /\ \A a : Abstract!BlockOf(a) = CACHE_BADDR(cp, a)
    /\ \A K : Abstract!OrderOf(K) = KeptOrder(cp, K)
    /\ \A K, b : Abstract!PutFirst(K, b)
                   = KeptOrder(cp, K \ {b}) \cup First(cp, K \ {b}, b)
    /\ \A cmd, b : Abstract!DirtyAfter(cmd, b) = Writes(cmd, b)
    /\ GeometryOf(cp).policy = cp.policy /\ GeometryOf(cp).assoc = cp.assoc
<1>1. /\ GeometryOf(cp).bsize = cp.bsize /\ GeometryOf(cp).nsets = cp.nsets
      /\ GeometryOf(cp).policy = cp.policy /\ GeometryOf(cp).assoc = cp.assoc
  BY DEF GeometryOf
<1>2. \A x : Abstract!SetOf(x) = SetIn(cp, x)
  BY <1>1 DEF Abstract!SetOf, SetIn
<1>3. \A a : Abstract!BlockOf(a) = CACHE_BADDR(cp, a)
  BY <1>1 DEF Abstract!BlockOf, CACHE_BADDR
<1>4. \A K : Abstract!OrderOf(K) = KeptOrder(cp, K)
  BY DEF Abstract!OrderOf, KeptOrder
<1>5. ASSUME NEW K, NEW b
      PROVE  Abstract!PutFirst(K, b)
               = KeptOrder(cp, K \ {b}) \cup First(cp, K \ {b}, b)
  <2>1. Abstract!PutFirst(K, b) = KeptOrder(cp, K \ {b})
          \cup {<<b, x>> : x \in {x \in K \ {b} : Abstract!SetOf(x) = Abstract!SetOf(b)}}
    BY <1>4 DEF Abstract!PutFirst
  <2>2. {x \in K \ {b} : Abstract!SetOf(x) = Abstract!SetOf(b)}
          = {x \in K \ {b} : SetIn(cp, x) = SetIn(cp, b)}
    BY <1>2
  <2> QED BY <2>1, <2>2 DEF First
<1>6. \A cmd, b : Abstract!DirtyAfter(cmd, b) = Writes(cmd, b)
  BY DEF Abstract!DirtyAfter, Writes
<1> QED BY <1>1, <1>2, <1>3, <1>4, <1>5, <1>6

LEMMA ChangedGeometry ==
    ASSUME NEW config, NEW c, NEW d, NEW s, NEW w, NEW tag, NEW status, NEW way,
           NEW hash, NEW last_tagset, NEW last_blk,
           Changed(config, c, d, s, w, tag, status, way, hash, last_tagset, last_blk)
    PROVE  GeometryOf(d) = GeometryOf(c)
BY DEF Changed, GeometryOf

(* A hit, by way of the remembered block or of a search.                    *)
LEMMA HitRefines ==
    ASSUME NEW config \in Configs, NEW c, Sound(config, c), NEW d, Sound(config, d),
           NEW s \in Sets(config), NEW w \in Ways(config),
           NEW status, NEW way, NEW hash, NEW last_tagset, NEW last_blk,
           Changed(config, c, d, s, w, c.tag[s][w], status, way, hash,
                   last_tagset, last_blk),
           VALID \in c.status[s][w], VALID \in status,
           SameOrder(config, c, s, w, way),
           c.policy = "LRU" => \A x \in Ways(config) \ {w} : way[w] < way[x],
           c.policy # "LRU" => way = c.way[s]
    PROVE  LET block == BlockAt(c, s, w)
               K     == ResidentBlocks(c) \ {block}
           IN /\ block \in ResidentBlocks(c)
              /\ ResidentBlocks(d) = ResidentBlocks(c)
              /\ NewerPairs(d) = IF c.policy = "LRU"
                                   THEN KeptOrder(c, K) \cup First(c, K, block)
                                   ELSE NewerPairs(c)
<1> DEFINE block == BlockAt(c, s, w)
<1>1. c \in CacheType(config) /\ d \in CacheType(config)
  BY DEF Sound
<1>2. c.tag[s][w] \in Nat
  BY <1>1, CacheFields
<1>3. block \in ResidentBlocks(c)
  BY <1>1, ResidentMeans
<1>4. Kept(c, s, w) = ResidentBlocks(c) \ {block}
  BY DEF Kept, Present, BlockAt
<1>5. Present(c, s, c.tag[s][w], status) = {block}
  BY DEF Present, BlockAt
<1>6. ResidentBlocks(d) = ResidentBlocks(c)
  <2>1. ResidentBlocks(d) = Kept(c, s, w) \cup Present(c, s, c.tag[s][w], status)
    BY <1>2, ChangedResident
  <2> QED BY <1>3, <1>4, <1>5, <2>1
<1>7. CASE c.policy = "LRU"
  <2>1. NewerPairs(d) = KeptOrder(c, Kept(c, s, w))
                          \cup First(c, Kept(c, s, w), CACHE_MK_BADDR(c, c.tag[s][w], s))
    BY <1>2, <1>7, PutFirstOrder
  <2> QED BY <1>3, <1>4, <1>6, <1>7, <2>1 DEF BlockAt
<1>8. CASE c.policy # "LRU"
  <2>1. /\ d.policy = c.policy
        /\ \A v \in Sets(config), x \in Ways(config) :
             /\ VALID \in d.status[v][x] <=> VALID \in c.status[v][x]
             /\ d.way[v][x] = c.way[v][x]
             /\ BlockAt(d, v, x) = BlockAt(c, v, x)
    BY <1>1, <1>2, <1>8, ChangedWays DEF BlockAt
  <2>2. \A p : p \in NewerPairs(d) <=>
          /\ d.policy # "Random"
          /\ \E v \in Sets(config), x \in Ways(config), y \in Ways(config) :
               /\ VALID \in d.status[v][x] /\ VALID \in d.status[v][y]
               /\ d.way[v][x] < d.way[v][y]
               /\ p = <<BlockAt(d, v, x), BlockAt(d, v, y)>>
    BY <1>1, NewerMeans
  <2>3. \A p : p \in NewerPairs(c) <=>
          /\ c.policy # "Random"
          /\ \E v \in Sets(config), x \in Ways(config), y \in Ways(config) :
               /\ VALID \in c.status[v][x] /\ VALID \in c.status[v][y]
               /\ c.way[v][x] < c.way[v][y]
               /\ p = <<BlockAt(c, v, x), BlockAt(c, v, y)>>
    BY <1>1, NewerMeans
  <2>4. \A p : p \in NewerPairs(d) <=> p \in NewerPairs(c)
    BY <2>1, <2>2, <2>3
  <2> QED BY <1>3, <1>6, <1>8, <2>4
<1> QED BY <1>7, <1>8

(* A miss: the block of the replaced way goes, if there is one.             *)
LEMMA FillRefines ==
    ASSUME NEW config \in Configs, NEW c, Sound(config, c), NEW d, Sound(config, d),
           NEW s \in Sets(config), NEW w \in Ways(config), NEW tag \in Nat,
           NEW status, NEW way, NEW hash, NEW last_tagset, NEW last_blk,
           Changed(config, c, d, s, w, tag, status, way, hash, last_tagset, last_blk),
           VALID \in status,
           c.policy # "Random" =>
             /\ SameOrder(config, c, s, w, way)
             /\ \A x \in Ways(config) \ {w} : way[w] < way[x]
    PROVE  LET block == CACHE_MK_BADDR(c, tag, s)
           IN /\ ResidentBlocks(d) = Kept(c, s, w) \cup {block}
              /\ NewerPairs(d) = IF c.policy = "Random" THEN {}
                                 ELSE KeptOrder(c, Kept(c, s, w))
                                        \cup First(c, Kept(c, s, w), block)
<1> DEFINE block == CACHE_MK_BADDR(c, tag, s)
<1>1. ResidentBlocks(d) = Kept(c, s, w) \cup {block}
  <2>1. ResidentBlocks(d) = Kept(c, s, w) \cup Present(c, s, tag, status)
    BY ChangedResident
  <2> QED BY <2>1 DEF Present
<1>2. CASE c.policy = "Random"
  <2>1. d.policy = "Random"
    BY <1>2 DEF Changed
  <2> QED BY <1>1, <1>2, <2>1 DEF NewerPairs
<1>3. CASE c.policy # "Random"
  <2>1. NewerPairs(d) = KeptOrder(c, Kept(c, s, w))
                          \cup First(c, Kept(c, s, w), block)
    BY <1>3, PutFirstOrder
  <2> QED BY <1>1, <1>3, <2>1
<1> QED BY <1>2, <1>3

(* The replaced way is one that the policy may give up.                     *)
LEMMA VictimAllowed ==
    ASSUME NEW config \in Configs, Sound(config, cp), NEW addr \in Nat,
           NEW rand \in Ways(config)
    PROVE  LET s == CACHE_SET(cp, addr)
               w == Replaced(cp, addr, rand)
           IN Present(cp, s, cp.tag[s][w], cp.status[s][w])
                \in Abstract!Victims(CACHE_BADDR(cp, addr))
<1> DEFINE s == CACHE_SET(cp, addr)
           w == Replaced(cp, addr, rand)
           b == CACHE_BADDR(cp, addr)
           S == {x \in ResidentBlocks(cp) : SetIn(cp, x) = s}
           gone == Present(cp, s, cp.tag[s][w], cp.status[s][w])
<1>1. cp \in CacheType(config)
  BY DEF Sound
<1>2. s \in Sets(config) /\ w \in Ways(config)
  BY <1>1, Located, ReplacedBlock
<1>3. SetIn(cp, b) = s
  BY <1>1, Located, SetOfBlock
<1>4. Abstract!SameSet(b) = S
  BY <1>3, AbstractMeans DEF Abstract!SameSet
<1>5. Abstract!IsFull(b) <=> \A x \in Ways(config) : VALID \in cp.status[s][x]
  <2>1. Abstract!Cardinality(S) = Cardinality(S)
    BY DEF Abstract!Cardinality, Cardinality
  <2>2. Abstract!IsFull(b) <=> Cardinality(S) = cp.assoc
    BY <1>4, <2>1, AbstractMeans DEF Abstract!IsFull
  <2> QED BY <1>2, <2>2, FullMeans
<1>6. gone = IF VALID \in cp.status[s][w] THEN {BlockAt(cp, s, w)} ELSE {}
  BY DEF Present, BlockAt
<1>7. VALID \in cp.status[s][w] => BlockAt(cp, s, w) \in S
  <2>1. SetIn(cp, BlockAt(cp, s, w)) = s
    BY <1>1, <1>2, CacheFields, SetOfBlock DEF BlockAt
  <2> QED BY <1>1, <1>2, <2>1, ResidentMeans
<1>8. CASE cp.policy = "Random"
  <2>1. Abstract!Victims(b) = {{v} : v \in S}
                                \cup (IF Abstract!IsFull(b) THEN {} ELSE {{}})
    BY <1>4, <1>8, AbstractMeans DEF Abstract!Victims
  <2>2. CASE VALID \in cp.status[s][w]
    BY <1>6, <1>7, <2>1, <2>2
  <2>3. CASE VALID \notin cp.status[s][w]
    BY <1>2, <1>5, <1>6, <2>1, <2>3
  <2> QED BY <2>2, <2>3
<1>9. CASE cp.policy # "Random"
  <2>1. Abstract!Victims(b) = IF Abstract!IsFull(b)
                               THEN {{v} : v \in Abstract!Oldest(b)} ELSE {{}}
    BY <1>9, AbstractMeans DEF Abstract!Victims
  <2>2. cp.way[s][w] = cp.assoc - 1
    <3>1. /\ s \in SetIdx(cp) /\ Way(cp) = Ways(config)
          /\ cp.assoc \in Nat \ {0}
      BY <1>1, <1>2, CacheFields
    <3>2. cp.assoc - 1 \in Way(cp)
      BY <3>1 DEF Way
    <3>3. \E x \in Way(cp) : cp.way[s][x] = cp.assoc - 1
      BY <3>1, <3>2 DEF Sound, WholeLists
    <3> QED BY <1>9, <3>3 DEF Replaced
  <2>3. \A x \in Ways(config) \ {w} : cp.way[s][x] < cp.way[s][w]
    <3> SUFFICES ASSUME NEW x \in Ways(config) \ {w}
                 PROVE  cp.way[s][x] < cp.way[s][w]
      OBVIOUS
    <3>1. /\ SetIdx(cp) = Sets(config) /\ Way(cp) = Ways(config)
          /\ cp.assoc \in Nat \ {0} /\ Ways(config) = 0 .. cp.assoc - 1
          /\ cp.way[s][x] \in Ways(config)
      BY <1>1, <1>2, CacheFields DEF Ways
    <3>2. cp.way[s][x] # cp.way[s][w]
      <4>1. \A v, y \in Way(cp) : cp.way[s][v] = cp.way[s][y] => v = y
        BY <1>2, <3>1 DEF Sound, WholeLists
      <4>2. x \in Way(cp) /\ w \in Way(cp) /\ x # w
        BY <1>2, <3>1
      <4> QED BY <4>1, <4>2
    <3> QED BY <2>2, <3>1, <3>2
  <2>4. CASE VALID \in cp.status[s][w]
    <3>1. ASSUME NEW x \in Ways(config), VALID \notin cp.status[s][x]
          PROVE  FALSE
      <4>1. SetIdx(cp) = Sets(config) /\ Way(cp) = Ways(config)
        BY <1>1, CacheFields
      <4>2. x # w /\ cp.way[s][w] < cp.way[s][x]
        BY <1>2, <1>9, <2>4, <3>1, <4>1 DEF Sound, InvalidAtEnd
      <4>3. cp.way[s][x] \in Int /\ cp.way[s][w] \in Int
        BY <1>1, <1>2, CacheFields DEF Ways
      <4> QED BY <2>3, <3>1, <4>2, <4>3
    <3>2. Abstract!IsFull(b)
      BY <1>5, <3>1
    <3>3. ASSUME NEW y \in S \ {BlockAt(cp, s, w)}
          PROVE  <<y, BlockAt(cp, s, w)>> \in NewerPairs(cp)
      <4>1. PICK v \in Sets(config), x \in Ways(config) :
              VALID \in cp.status[v][x] /\ y = BlockAt(cp, v, x)
        BY <1>1, ResidentMeans
      <4>2. SetIn(cp, BlockAt(cp, v, x)) = v
        BY <1>1, CacheFields, SetOfBlock DEF BlockAt
      <4>3. v = s /\ x # w
        BY <3>3, <4>1, <4>2
      <4> DEFINE q == <<y, BlockAt(cp, s, w)>>
      <4>4. /\ VALID \in cp.status[s][x] /\ VALID \in cp.status[s][w]
            /\ cp.way[s][x] < cp.way[s][w]
            /\ q = <<BlockAt(cp, s, x), BlockAt(cp, s, w)>>
        BY <2>3, <2>4, <4>1, <4>3
      <4> HIDE DEF q
      <4>5. q \in NewerPairs(cp)
        BY <1>1, <1>2, <1>9, <4>1, <4>3, <4>4, NewerMeans
      <4> QED BY <4>5 DEF q
    <3>4. BlockAt(cp, s, w) \in Abstract!Oldest(b)
      BY <1>4, <1>7, <2>4, <3>3 DEF Abstract!Oldest
    <3> QED BY <1>6, <2>1, <2>4, <3>2, <3>4
  <2>5. CASE VALID \notin cp.status[s][w]
    BY <1>2, <1>5, <1>6, <2>1, <2>5
  <2> QED BY <2>4, <2>5
<1> QED BY <1>8, <1>9

-----------------------------------------------------------------------------
(* Every operation is one of AbstractCache, or changes none of its state.   *)
LEMMA FastHitRefines ==
    ASSUME NEW config \in Configs, Sound(config, cp), NEW addr \in Nat,
           NEW cmd, FastHit(cp, addr), cp.last_blk # NULL,
           cp' = FastHitAccess(cp, cmd, addr)
    PROVE  Abstract!Hit(cmd, CACHE_BADDR(cp, addr))
<1>1. cp \in CacheType(config)
  BY DEF Sound
<1>2. PICK s \in Sets(config), w \in Ways(config) : cp.last_blk = <<s, w>>
  BY <1>1, CacheFields
<1>3. Changed(config, cp, cp', s, w, cp.tag[s][w], Marked(cp.status[s][w], cmd),
             cp.way[s], cp.hash[s], cp.last_tagset, cp.last_blk)
  BY <1>2, FastHitFields
<1>4. Sound(config, cp') /\ DirtyBlocks(cp')
        = DirtyBlocks(cp) \cup Writes(cmd, CACHE_BADDR(cp, addr))
  BY FastHitSound
<1>5. /\ VALID \in cp.status[s][w]
      /\ cp.last_tagset = BlockAt(cp, s, w)
      /\ cp.policy = "LRU" => cp.way[s][w] = 0
  BY <1>2 DEF Sound, LastIsThere, BlockAt
<1>6. CACHE_BADDR(cp, addr) = BlockAt(cp, s, w)
  BY <1>1, <1>5, Located DEF FastHit
<1>7. VALID \in Marked(cp.status[s][w], cmd)
  BY <1>5 DEF Marked
<1>8. SameOrder(config, cp, s, w, cp.way[s])
  BY DEF SameOrder
<1>9. cp.policy = "LRU" => \A x \in Ways(config) \ {w} : cp.way[s][w] < cp.way[s][x]
  <2> SUFFICES ASSUME cp.policy = "LRU", NEW x \in Ways(config) \ {w}
               PROVE  cp.way[s][w] < cp.way[s][x]
    OBVIOUS
  <2>1. /\ SetIdx(cp) = Sets(config) /\ Way(cp) = Ways(config)
        /\ cp.way[s][x] \in Ways(config)
    BY <1>1, <1>2, CacheFields
  <2>2. \A v, y \in Way(cp) : cp.way[s][v] = cp.way[s][y] => v = y
    BY <1>2, <2>1 DEF Sound, WholeLists
  <2>3. cp.way[s][x] # cp.way[s][w]
    BY <1>2, <2>1, <2>2
  <2>4. cp.way[s][x] \in Nat
    BY <2>1, Geometry DEF Ways
  <2> QED BY <1>5, <2>3, <2>4
<1> DEFINE block == BlockAt(cp, s, w)
           K     == ResidentBlocks(cp) \ {block}
           l     == cp.way[s]
           a     == cp.last_tagset
           b     == cp.last_blk
           h     == cp.hash[s]
<1>12. Changed(config, cp, cp', s, w, cp.tag[s][w], Marked(cp.status[s][w], cmd), l,
              h, a, b)
  BY <1>3
<1>13. /\ SameOrder(config, cp, s, w, l)
       /\ cp.policy = "LRU" => \A x \in Ways(config) \ {w} : l[w] < l[x]
       /\ cp.policy # "LRU" => l = cp.way[s]
  BY <1>8, <1>9
<1> HIDE DEF l, h, a, b
<1>10. /\ block \in ResidentBlocks(cp)
       /\ ResidentBlocks(cp') = ResidentBlocks(cp)
       /\ NewerPairs(cp') = IF cp.policy = "LRU"
                              THEN KeptOrder(cp, K) \cup First(cp, K, block)
                              ELSE NewerPairs(cp)
  BY <1>2, <1>12, <1>4, <1>5, <1>7, <1>13, HitRefines
<1>11. GeometryOf(cp') = GeometryOf(cp)
  BY <1>12, ChangedGeometry
<1> QED BY <1>4, <1>6, <1>10, <1>11, AbstractMeans DEF Abstract!Hit

LEMMA SlowHitRefines ==
    ASSUME NEW config \in Configs, Sound(config, cp), NEW addr \in Nat,
           NEW cmd, Found(cp, addr) # {}, cp' = SlowHitAccess(cp, cmd, addr)
    PROVE  Abstract!Hit(cmd, CACHE_BADDR(cp, addr))
<1> DEFINE s == CACHE_SET(cp, addr)
           w == CHOOSE w \in Found(cp, addr) : TRUE
           l == IF cp.policy = "LRU" THEN MoveToHead(cp.way[s], w) ELSE cp.way[s]
<1>1. cp \in CacheType(config)
  BY DEF Sound
<1>2. /\ s \in Sets(config) /\ w \in Ways(config)
      /\ cp.tag[s][w] = CACHE_TAG(cp, addr) /\ VALID \in cp.status[s][w]
  BY <1>1, HitBlock, Located
<1>3. Changed(config, cp, cp', s, w, cp.tag[s][w], Marked(cp.status[s][w], cmd), l,
             cp.hash[s], CACHE_TAGSET(cp, addr), <<s, w>>)
  BY SlowHitFields
<1>4. Sound(config, cp') /\ DirtyBlocks(cp')
        = DirtyBlocks(cp) \cup Writes(cmd, CACHE_BADDR(cp, addr))
  BY SlowHitSound
<1>6. CACHE_BADDR(cp, addr) = BlockAt(cp, s, w)
  BY <1>1, <1>2, Located DEF BlockAt
<1> HIDE DEF s, w, l
<1>7. VALID \in Marked(cp.status[s][w], cmd)
  BY <1>2 DEF Marked
<1>5. WholeList(cp.way[s], Ways(config))
  BY <1>1, <1>2, WholeListsMeans DEF Sound
<1>8. SameOrder(config, cp, s, w, l)
  BY <1>2, <1>5, ListOrder DEF SameOrder, l
<1>9. /\ cp.policy = "LRU" => \A x \in Ways(config) \ {w} : l[w] < l[x]
      /\ cp.policy # "LRU" => l = cp.way[s]
  BY <1>2, <1>5, ListOrder DEF l
<1> DEFINE block == BlockAt(cp, s, w)
           K     == ResidentBlocks(cp) \ {block}
           a     == CACHE_TAGSET(cp, addr)
           b     == <<s, w>>
<1>12. Changed(config, cp, cp', s, w, cp.tag[s][w], Marked(cp.status[s][w], cmd), l,
              cp.hash[s], a, b)
  BY <1>3
<1> HIDE DEF a, b
<1>10. /\ block \in ResidentBlocks(cp)
       /\ ResidentBlocks(cp') = ResidentBlocks(cp)
       /\ NewerPairs(cp') = IF cp.policy = "LRU"
                              THEN KeptOrder(cp, K) \cup First(cp, K, block)
                              ELSE NewerPairs(cp)
  BY <1>2, <1>12, <1>4, <1>7, <1>8, <1>9, HitRefines
<1>11. GeometryOf(cp') = GeometryOf(cp)
  BY <1>12, ChangedGeometry
<1> QED BY <1>4, <1>6, <1>10, <1>11, AbstractMeans DEF Abstract!Hit

LEMMA MissRefines ==
    ASSUME NEW config \in Configs, Sound(config, cp), NEW addr \in Nat,
           NEW cmd, NEW rand \in Ways(config), Miss(cp, addr),
           cp' = MissAccess(cp, cmd, addr, rand)
    PROVE  Abstract!Fill(cmd, CACHE_BADDR(cp, addr))
<1> DEFINE s == CACHE_SET(cp, addr)
           w == Replaced(cp, addr, rand)
           t == CACHE_TAG(cp, addr)
           m == Marked({VALID}, cmd)
           l == IF cp.policy = "Random" THEN cp.way[s] ELSE MoveToHead(cp.way[s], w)
           h == (cp.hash[s] \ Entry(cp, cp.tag[s][w], w)) \cup Entry(cp, t, w)
           b == CACHE_BADDR(cp, addr)
           gone == Present(cp, s, cp.tag[s][w], cp.status[s][w])
           held == Held(cp, s, cp.tag[s][w], cp.status[s][w])
           K == (ResidentBlocks(cp) \ gone) \ {b}
<1>1. cp \in CacheType(config)
  BY DEF Sound
<1>2. s \in Sets(config) /\ w \in Ways(config) /\ t \in Nat
  BY <1>1, ReplacedBlock, Located
<1>3. Changed(config, cp, cp', s, w, t, m, l, h, 0, NULL)
  BY MissFields
<1>4. /\ Sound(config, cp')
      /\ DirtyBlocks(cp') = (DirtyBlocks(cp) \ WrittenBack(cp, addr, rand))
                               \cup Writes(cmd, b)
  BY MissSound
<1>5. b = CACHE_MK_BADDR(cp, t, s)
  BY <1>1, Located
<1>6. WrittenBack(cp, addr, rand) = held
  BY DEF WrittenBack, Held
<1>7. \A x \in Ways(config) : VALID \in cp.status[s][x] => cp.tag[s][x] # t
  BY FoundMeans DEF Miss
<1>8. gone \in Abstract!Victims(b)
  BY VictimAllowed
<1> HIDE DEF s, w, t, m, l, h, b
<1>9. b \notin ResidentBlocks(cp)
  <2> SUFFICES ASSUME b \in ResidentBlocks(cp) PROVE FALSE
    OBVIOUS
  <2>1. PICK v \in Sets(config), x \in Ways(config) :
          VALID \in cp.status[v][x] /\ b = BlockAt(cp, v, x)
    BY <1>1, ResidentMeans
  <2>2. cp.tag[v][x] \in Nat
    BY <1>1, CacheFields
  <2>4. CACHE_MK_BADDR(cp, t, s) = CACHE_MK_BADDR(cp, cp.tag[v][x], v)
    BY <1>5, <2>1 DEF BlockAt
  <2>3. v = s /\ cp.tag[v][x] = t
    BY <1>1, <1>2, <2>2, <2>4, BlockAddress
  <2> QED BY <1>7, <2>1, <2>3
<1>10. WholeList(cp.way[s], Ways(config))
  BY <1>1, <1>2, WholeListsMeans DEF Sound
<1>11. cp.policy # "Random" =>
         /\ SameOrder(config, cp, s, w, l)
         /\ \A x \in Ways(config) \ {w} : l[w] < l[x]
  BY <1>2, <1>10, ListOrder DEF SameOrder, l
<1>12. VALID \in m
  BY DEF m, Marked
<1>13. /\ ResidentBlocks(cp') = (ResidentBlocks(cp) \ gone) \cup {b}
       /\ NewerPairs(cp') = IF cp.policy = "Random" THEN {}
                            ELSE KeptOrder(cp, K) \cup First(cp, K, b)
  <2> DEFINE z == 0
             n == NULL
  <2>1. Changed(config, cp, cp', s, w, t, m, l, h, z, n)
    BY <1>3
  <2> HIDE DEF z, n
  <2>2. /\ ResidentBlocks(cp') = Kept(cp, s, w) \cup {CACHE_MK_BADDR(cp, t, s)}
        /\ NewerPairs(cp') = IF cp.policy = "Random" THEN {}
                             ELSE KeptOrder(cp, Kept(cp, s, w))
                                    \cup First(cp, Kept(cp, s, w),
                                               CACHE_MK_BADDR(cp, t, s))
    BY <1>2, <1>4, <1>11, <1>12, <2>1, FillRefines
  <2>3. Kept(cp, s, w) = ResidentBlocks(cp) \ gone /\ Kept(cp, s, w) = K
    BY <1>9 DEF Kept
  <2> QED BY <1>5, <2>2, <2>3
<1>14. DirtyBlocks(cp') = (DirtyBlocks(cp) \ gone) \cup Writes(cmd, b)
  BY <1>2, <1>4, <1>6, DirtyGone
<1>15. GeometryOf(cp') = GeometryOf(cp)
  BY <1>3, ChangedGeometry
<1> HIDE DEF gone, held, K
<1>16. Abstract!Fill(cmd, b)
  <2>1. Abstract!DirtyAfter(cmd, b) = Writes(cmd, b)
    BY AbstractMeans
  <2>2. Abstract!PutFirst(ResidentBlocks(cp) \ gone, b)
          = KeptOrder(cp, K) \cup First(cp, K, b)
    BY AbstractMeans DEF K
  <2>3. GeometryOf(cp).policy = cp.policy
    BY AbstractMeans
  <2> QED BY <1>8, <1>9, <1>13, <1>14, <1>15, <2>1, <2>2, <2>3 DEF Abstract!Fill
<1> QED BY <1>16 DEF b

LEMMA FlushAddrRefines ==
    ASSUME NEW config \in Configs, Sound(config, cp), NEW addr \in Nat,
           Found(cp, addr) # {}, cp' = cache_flush_addr(cp, addr)
    PROVE  Abstract!Drop(CACHE_BADDR(cp, addr))
<1> DEFINE s == CACHE_SET(cp, addr)
           w == CHOOSE w \in Found(cp, addr) : TRUE
           m == cp.status[s][w] \ {VALID}
           l == MoveToTail(cp.way[s], w)
           b == CACHE_BADDR(cp, addr)
           held == Held(cp, s, cp.tag[s][w], cp.status[s][w])
<1>1. cp \in CacheType(config)
  BY DEF Sound
<1>2. /\ s \in Sets(config) /\ w \in Ways(config)
      /\ cp.tag[s][w] = CACHE_TAG(cp, addr) /\ VALID \in cp.status[s][w]
  BY <1>1, HitBlock, Located
<1>3. /\ Changed(config, cp, cp', s, w, cp.tag[s][w], m, l, cp.hash[s], 0, NULL)
      /\ FlushedAddr(cp, addr) = held
  BY FlushAddrFields
<1>4. DirtyBlocks(cp') = DirtyBlocks(cp) \ held
  BY <1>3, FlushAddrSound
<1>5. b = BlockAt(cp, s, w)
  BY <1>1, <1>2, Located DEF BlockAt
<1> HIDE DEF s, w, b
<1>6. WholeList(cp.way[s], Ways(config))
  BY <1>1, <1>2, WholeListsMeans DEF Sound
<1>7. SameOrder(config, cp, s, w, l) /\ VALID \notin m
  BY <1>2, <1>6, ListOrder DEF SameOrder
<1>8. cp.tag[s][w] \in Nat
  BY <1>1, <1>2, CacheFields
<1> HIDE DEF m, l, held
<1>9. /\ Present(cp, s, cp.tag[s][w], cp.status[s][w]) = {b}
      /\ Present(cp, s, cp.tag[s][w], m) = {}
  BY <1>2, <1>5, <1>7 DEF Present, BlockAt
<1>10. Kept(cp, s, w) = ResidentBlocks(cp) \ {b}
  BY <1>9 DEF Kept
<1>11. ResidentBlocks(cp') = ResidentBlocks(cp) \ {b}
  <2>1. ResidentBlocks(cp') = Kept(cp, s, w) \cup Present(cp, s, cp.tag[s][w], m)
    BY <1>2, <1>3, <1>8, ChangedResident
  <2> QED BY <1>9, <1>10, <2>1
<1>12. NewerPairs(cp') = KeptOrder(cp, ResidentBlocks(cp) \ {b})
  <2>1. NewerPairs(cp') = KeptOrder(cp, Kept(cp, s, w))
    BY <1>2, <1>3, <1>7, <1>8, DroppedOrder
  <2> QED BY <1>10, <2>1
<1>13. DirtyBlocks(cp') = DirtyBlocks(cp) \ {b}
  BY <1>2, <1>4, <1>9, DirtyGone DEF held
<1>14. GeometryOf(cp') = GeometryOf(cp)
  BY <1>3, ChangedGeometry
<1>15. Abstract!Drop(b)
  BY <1>11, <1>12, <1>13, <1>14, AbstractMeans DEF Abstract!Drop
<1> QED BY <1>15 DEF b

LEMMA FlushRefines ==
    ASSUME NEW config \in Configs, Sound(config, cp), cp' = cache_flush(cp)
    PROVE  Abstract!DropAll
<1>1. Sound(config, cp') /\ DirtyBlocks(cp') = {}
  BY FlushSound
<1>2. cp \in CacheType(config) /\ cp' \in CacheType(config)
  BY <1>1 DEF Sound
<1>3. SetIdx(cp) = Sets(config) /\ Way(cp) = Ways(config)
  BY <1>2, CacheFields
<1>4. /\ \A s \in Sets(config), w \in Ways(config) : VALID \notin cp'.status[s][w]
      /\ cp'.nsets = cp.nsets /\ cp'.bsize = cp.bsize /\ cp'.assoc = cp.assoc
      /\ cp'.policy = cp.policy
  BY <1>2, <1>3 DEF cache_flush, CacheType
<1>5. ResidentBlocks(cp') = {}
  BY <1>2, <1>4, ResidentMeans
<1>6. NewerPairs(cp') = {}
  BY <1>2, <1>4, NewerMeans
<1>7. GeometryOf(cp') = GeometryOf(cp)
  BY <1>4 DEF GeometryOf
<1> QED BY <1>1, <1>5, <1>6, <1>7 DEF Abstract!DropAll

AbstractState == <<GeometryOf(cp), ResidentBlocks(cp), DirtyBlocks(cp), NewerPairs(cp)>>

(* The mapping does not look at the other fields of a cache.                *)
LEMMA SameMapping ==
    ASSUME NEW config \in Configs, NEW c \in CacheType(config),
           NEW d \in CacheType(config),
           d.way = c.way, d.tag = c.tag, d.status = c.status
    PROVE  /\ GeometryOf(d) = GeometryOf(c) /\ ResidentBlocks(d) = ResidentBlocks(c)
           /\ DirtyBlocks(d) = DirtyBlocks(c) /\ NewerPairs(d) = NewerPairs(c)
<1>1. /\ d.nsets = c.nsets /\ d.bsize = c.bsize /\ d.assoc = c.assoc
      /\ d.policy = c.policy
  BY CacheFields
<1>2. GeometryOf(d) = GeometryOf(c)
  BY <1>1 DEF GeometryOf
<1>3. \A s, w : BlockAt(d, s, w) = BlockAt(c, s, w)
  BY <1>1 DEF BlockAt, CACHE_MK_BADDR
<1>4. ResidentBlocks(d) = ResidentBlocks(c)
  <2>1. \A b : b \in ResidentBlocks(d) <=> b \in ResidentBlocks(c)
    BY <1>3, ResidentMeans
  <2> QED BY <2>1
<1>5. NewerPairs(d) = NewerPairs(c)
  <2>1. \A p : p \in NewerPairs(d) <=> p \in NewerPairs(c)
    BY <1>1, <1>3, NewerMeans
  <2> QED BY <2>1 DEF NewerPairs
<1>6. DirtyBlocks(d) = DirtyBlocks(c)
  <2>1. \A t, s, m : Held(d, s, t, m) = Held(c, s, t, m)
    BY <1>1 DEF Held, CACHE_MK_BADDR
  <2>2. \A b : b \in DirtyBlocks(d) <=> b \in DirtyBlocks(c)
    BY <2>1, DirtyBlocksMeans
  <2> QED BY <2>2 DEF DirtyBlocks
<1> QED BY <1>2, <1>4, <1>5, <1>6

LEMMA CrashRefines ==
    ASSUME NEW config \in Configs, Sound(config, cp), cp' = [cp EXCEPT !.crashed = TRUE]
    PROVE  UNCHANGED AbstractState
<1>1. cp'.way = cp.way /\ cp'.tag = cp.tag /\ cp'.status = cp.status
  BY DEF Sound, CacheType
<1>2. cp \in CacheType(config) /\ cp' \in CacheType(config)
  BY DEF Sound, CacheType
<1> QED BY <1>1, <1>2, SameMapping DEF AbstractState

LEMMA StepRefines ==
    ASSUME IInv, [Next]_vars
    PROVE  [Abstract!Next]_AbstractState
<1>1. PICK config \in Configs : Sound(config, cp)
  BY InvMeans
<1>2. Way(cp) = Ways(config)
  BY <1>1, CacheFields DEF Sound
<1>3. \A addr \in Addrs : addr \in Nat /\ Abstract!BlockOf(addr) = CACHE_BADDR(cp, addr)
  BY AddrAssumption, AbstractMeans
<1>4. ASSUME NEW cmd \in {"Read", "Write"}, NEW addr \in Addrs, CacheAccess(cmd, addr)
      PROVE  Abstract!Next \/ UNCHANGED AbstractState
  <2> DEFINE b == CACHE_BADDR(cp, addr)
  <2>1. PICK rand \in Ways(config) : cp' = AccessBlock(cp, cmd, addr, rand)
    BY <1>2, <1>4 DEF CacheAccess
  <2>2. CASE FastHit(cp, addr) /\ cp.last_blk = NULL
    BY <1>1, <2>1, <2>2, CrashRefines DEF AccessBlock, FastHitAccess
  <2>3. CASE FastHit(cp, addr) /\ cp.last_blk # NULL
    <3>1. cp' = FastHitAccess(cp, cmd, addr)
      BY <2>1, <2>3 DEF AccessBlock
    <3>2. Abstract!Hit(cmd, b)
      BY <1>1, <1>3, <2>3, <3>1, FastHitRefines
    <3> QED BY <1>3, <3>2 DEF Abstract!Next
  <2>4. CASE ~FastHit(cp, addr) /\ Found(cp, addr) # {}
    <3>1. cp' = SlowHitAccess(cp, cmd, addr)
      BY <2>1, <2>4 DEF AccessBlock
    <3>2. Abstract!Hit(cmd, b)
      BY <1>1, <1>3, <2>4, <3>1, SlowHitRefines
    <3> QED BY <1>3, <3>2 DEF Abstract!Next
  <2>5. CASE Miss(cp, addr)
    <3>1. cp' = MissAccess(cp, cmd, addr, rand)
      BY <2>1, <2>5 DEF AccessBlock, Miss
    <3>2. Abstract!Fill(cmd, b)
      BY <1>1, <1>3, <2>5, <3>1, MissRefines
    <3> QED BY <1>3, <3>2 DEF Abstract!Next
  <2> QED BY <2>2, <2>3, <2>4, <2>5 DEF Miss
<1>5. ASSUME CacheFlush PROVE Abstract!Next
  BY <1>1, <1>5, FlushRefines DEF CacheFlush, Abstract!Next
<1>6. ASSUME NEW addr \in Addrs, CacheFlushAddr(addr)
      PROVE  Abstract!Next \/ UNCHANGED AbstractState
  <2>1. cp' = cache_flush_addr(cp, addr)
    BY <1>6 DEF CacheFlushAddr
  <2>2. CASE Found(cp, addr) = {}
    <3>1. cp' = cp
      BY <2>1, <2>2 DEF cache_flush_addr
    <3> QED BY <3>1 DEF AbstractState
  <2>3. CASE Found(cp, addr) # {}
    <3>1. Abstract!Drop(CACHE_BADDR(cp, addr))
      BY <1>1, <1>3, <2>1, <2>3, FlushAddrRefines
    <3> QED BY <1>3, <3>1 DEF Abstract!Next
  <2> QED BY <2>2, <2>3
<1>7. ASSUME UNCHANGED vars PROVE UNCHANGED AbstractState
  BY <1>7 DEF vars, AbstractState
<1> QED BY <1>4, <1>5, <1>6, <1>7 DEF Next

LEMMA InitRefines ==
    ASSUME Init
    PROVE  Abstract!Init
<1>1. PICK config \in Configs : cp = cache_create(config)
  BY DEF Init
<1>2. Sound(config, cp) /\ DirtyBlocks(cp) = {}
  BY <1>1, CreatedSound
<1>3. cp \in CacheType(config)
  BY <1>2 DEF Sound
<1>4. \A s \in Sets(config), w \in Ways(config) : cp.status[s][w] = {}
  BY <1>1 DEF cache_create, Sets, Ways
<1>5. ResidentBlocks(cp) = {} /\ NewerPairs(cp) = {}
  BY <1>3, <1>4, ResidentMeans, NewerMeans
<1>6. config = [nsets |-> config.nsets, bsize |-> config.bsize,
                assoc |-> config.assoc, policy |-> config.policy]
  BY ConfigAssumption DEF ConfigType
<1>7. GeometryOf(cp) = config
  BY <1>3, <1>6, CacheFields DEF GeometryOf
<1> QED BY <1>2, <1>5, <1>7 DEF Abstract!Init

(***************************************************************************)
(* For every geometry, policy and set of addresses, cache.c is a cache of   *)
(* whole blocks: the fast hit, the hash chains, the way list and the bits   *)
(* of invalid blocks never show, a full set gives up its oldest block, and  *)
(* a set that is not full gives up none under LRU and FIFO.                 *)
(***************************************************************************)
THEOREM CacheImplementsAbstract == Spec => ImplementsAbstractCache
<1>1. Init => Abstract!Init
  BY InitRefines
<1>2. IInv /\ [Next]_vars => [Abstract!Next]_(Abstract!vars)
  BY StepRefines DEF AbstractState, Abstract!vars
<1> QED
  BY <1>1, <1>2, CacheCorrect, PTL DEF Spec, ImplementsAbstractCache, Abstract!Spec

-----------------------------------------------------------------------------
(* What Prefetchers needs of the cache.                                     *)

(* A cache of which only crashed differs.                                   *)
LEMMA CrashedSound ==
    ASSUME NEW config \in Configs, NEW c, Sound(config, c)
    PROVE  LET d == [c EXCEPT !.crashed = TRUE]
           IN /\ Sound(config, d) /\ d.crashed
              /\ DirtyBlocks(d) = DirtyBlocks(c) /\ ValidWays(d) = ValidWays(c)
              /\ d.tag = c.tag /\ d.status = c.status
<1> DEFINE d == [c EXCEPT !.crashed = TRUE]
<1>1. c \in CacheType(config)
  BY DEF Sound
<1>2. /\ d \in CacheType(config) /\ d.crashed
      /\ d.nsets = c.nsets /\ d.bsize = c.bsize /\ d.assoc = c.assoc
      /\ d.hsize = c.hsize /\ d.policy = c.policy
      /\ d.way = c.way /\ d.tag = c.tag /\ d.status = c.status
      /\ d.hash = c.hash /\ d.last_tagset = c.last_tagset
      /\ d.last_blk = c.last_blk
  BY <1>1 DEF CacheType
<1> HIDE DEF d
<1>3. WholeLists(d) /\ ChainedByTag(d) /\ Single(d)
  BY <1>2 DEF Sound, WholeLists, ChainedByTag, Single, SetIdx, Way, CACHE_HASH
<1>4. LastIsThere(d) /\ InvalidAtEnd(d)
  BY <1>2 DEF Sound, LastIsThere, InvalidAtEnd, SetIdx, Way, CACHE_MK_BADDR
<1>5. DirtyBlocks(d) = DirtyBlocks(c) /\ ValidWays(d) = ValidWays(c)
  BY <1>2 DEF DirtyBlocks, ValidWays, SetIdx, Way, CACHE_MK_BADDR
<1> QED BY <1>2, <1>3, <1>4, <1>5 DEF Sound, d

LEMMA ValidWaysMeans ==
    ASSUME NEW config \in Configs, NEW c \in CacheType(config)
    PROVE  /\ ValidWays(c) = {sw \in Sets(config) \X Ways(config) :
                                VALID \in c.status[sw[1]][sw[2]]}
           /\ IsFiniteSet(ValidWays(c)) /\ Cardinality(ValidWays(c)) \in Nat
<1>1. SetIdx(c) = Sets(config) /\ Way(c) = Ways(config)
  BY CacheFields
<1>2. ValidWays(c) = {sw \in Sets(config) \X Ways(config) :
                        VALID \in c.status[sw[1]][sw[2]]}
  BY <1>1 DEF ValidWays
<1>3. IsFiniteSet(Sets(config)) /\ IsFiniteSet(Ways(config))
  <2>1. config.nsets - 1 \in Int /\ config.assoc - 1 \in Int
    BY Geometry
  <2> QED BY <2>1, FS_Interval DEF Sets, Ways
<1>4. IsFiniteSet(Sets(config) \X Ways(config))
  BY <1>3, FS_Product
<1>5. ValidWays(c) \in SUBSET (Sets(config) \X Ways(config))
  BY <1>2
<1>6. IsFiniteSet(ValidWays(c))
  BY <1>4, <1>5, FS_Subset
<1> QED BY <1>2, <1>6, FS_CardinalityType

(* Block w of set s holds the block of memory of an address.                *)
In(c, addr, s, w) ==
    /\ s = CACHE_SET(c, addr) /\ s \in SetIdx(c) /\ w \in Way(c)
    /\ c.tag[s][w] = CACHE_TAG(c, addr) /\ VALID \in c.status[s][w]
AtHead(c, addr, s, w) == In(c, addr, s, w) /\ (c.policy = "LRU" => c.way[s][w] = 0)

(* The geometry of two caches is the same.                                  *)
Alike(c, d) == /\ d.nsets = c.nsets /\ d.bsize = c.bsize
               /\ d.assoc = c.assoc /\ d.policy = c.policy

(* What the change of one block changes.                                    *)
LEMMA ChangedAt ==
    ASSUME NEW config \in Configs, NEW c, Sound(config, c), NEW d,
           NEW s \in Sets(config), NEW w \in Ways(config), NEW tag, NEW status,
           NEW way, NEW hash, NEW last_tagset, NEW last_blk,
           Changed(config, c, d, s, w, tag, status, way, hash, last_tagset, last_blk)
    PROVE  /\ Alike(c, d)
           /\ d.tag[s][w] = tag /\ d.status[s][w] = status /\ d.way[s] = way
           /\ \A v \in Sets(config), x \in Ways(config) :
                <<v, x>> # <<s, w>> => /\ d.tag[v][x] = c.tag[v][x]
                                       /\ d.status[v][x] = c.status[v][x]
           /\ ValidWays(d) = IF VALID \in status
                               THEN ValidWays(c) \cup {<<s, w>>}
                               ELSE ValidWays(c) \ {<<s, w>>}
<1>1. c \in CacheType(config) /\ d \in CacheType(config)
  BY DEF Sound, Changed
<1>2. /\ c.tag \in [Sets(config) -> [Ways(config) -> Nat]]
      /\ c.status \in [Sets(config) -> [Ways(config) -> StatusType]]
      /\ c.way \in [Sets(config) -> [Ways(config) -> Ways(config)]]
  BY <1>1, CacheFields
<1>3. Alike(c, d)
  BY DEF Changed, Alike
<1>4. d.tag[s][w] = tag /\ d.status[s][w] = status /\ d.way[s] = way
  BY <1>2 DEF Changed
<1>5. \A v \in Sets(config), x \in Ways(config) :
        ~(v = s /\ x = w) => /\ d.tag[v][x] = c.tag[v][x]
                             /\ d.status[v][x] = c.status[v][x]
  BY <1>2 DEF Changed
<1>6. ASSUME NEW sw \in Sets(config) \X Ways(config)
      PROVE  sw \in ValidWays(d) <=>
               IF sw = <<s, w>> THEN VALID \in status ELSE sw \in ValidWays(c)
  <2>1. sw \in ValidWays(d) <=> VALID \in d.status[sw[1]][sw[2]]
    BY <1>1, ValidWaysMeans
  <2>2. sw \in ValidWays(c) <=> VALID \in c.status[sw[1]][sw[2]]
    BY <1>1, ValidWaysMeans
  <2>3. CASE sw = <<s, w>>
    BY <1>4, <2>1, <2>3
  <2>4. CASE sw # <<s, w>>
    <3>1. sw[1] \in Sets(config) /\ sw[2] \in Ways(config)
          /\ ~(sw[1] = s /\ sw[2] = w)
      BY <2>4
    <3> QED BY <1>5, <2>1, <2>2, <2>4, <3>1
  <2> QED BY <2>3, <2>4
<1>7. /\ ValidWays(c) \subseteq Sets(config) \X Ways(config)
      /\ ValidWays(d) \subseteq Sets(config) \X Ways(config)
      /\ <<s, w>> \in Sets(config) \X Ways(config)
  BY <1>1, ValidWaysMeans
<1>8. ValidWays(d) = IF VALID \in status THEN ValidWays(c) \cup {<<s, w>>}
                                         ELSE ValidWays(c) \ {<<s, w>>}
  BY <1>6, <1>7
<1> QED BY <1>3, <1>4, <1>5, <1>8

(* A hit finds the block it is for, and changes nothing but its dirty bit   *)
(* and its place, which is the head under LRU.                              *)
HitAs(config, c, d, cmd, addr, blk) ==
    /\ Sound(config, d) /\ Alike(c, d) /\ d.tag = c.tag
    /\ ValidWays(d) = ValidWays(c)
    /\ DirtyBlocks(d) = DirtyBlocks(c) \cup (IF cmd = "Write" /\ ~d.crashed
                                               THEN {CACHE_BADDR(c, addr)} ELSE {})
    /\ ~d.crashed => AtHead(d, addr, blk[1], blk[2])

LEMMA FastHitKeeps ==
    ASSUME NEW config \in Configs, NEW c, Sound(config, c), ~c.crashed,
           NEW addr \in Nat, NEW cmd, FastHit(c, addr), c.last_blk # NULL
    PROVE  HitAs(config, c, FastHitAccess(c, cmd, addr), cmd, addr, c.last_blk)
<1> DEFINE d == FastHitAccess(c, cmd, addr)
<1>1. c \in CacheType(config)
  BY DEF Sound
<1>2. c.last_blk \in Sets(config) \X Ways(config)
  BY <1>1, CacheFields
<1>3. PICK s \in Sets(config), w \in Ways(config) : c.last_blk = <<s, w>>
  BY <1>2
<1>4. Changed(config, c, d, s, w, c.tag[s][w], Marked(c.status[s][w], cmd),
             c.way[s], c.hash[s], c.last_tagset, c.last_blk)
  BY <1>3, FastHitFields
<1>5. /\ Sound(config, d) /\ d.crashed = c.crashed
      /\ DirtyBlocks(d) = DirtyBlocks(c) \cup Writes(cmd, CACHE_BADDR(c, addr))
  BY FastHitSound
<1> HIDE DEF d
<1>6. /\ SetIdx(c) = Sets(config) /\ Way(c) = Ways(config)
      /\ c.tag \in [Sets(config) -> [Ways(config) -> Nat]]
      /\ c.status[s][w] \in StatusType
  BY <1>1, CacheFields
<1>7. /\ VALID \in c.status[s][w]
      /\ c.last_tagset = CACHE_MK_BADDR(c, c.tag[s][w], s)
      /\ c.policy = "LRU" => c.way[s][w] = 0
  BY <1>3 DEF Sound, LastIsThere
<1>8. c.tag[s][w] = CACHE_TAG(c, addr) /\ s = CACHE_SET(c, addr)
  <2>1. CACHE_MK_BADDR(c, c.tag[s][w], s)
          = CACHE_MK_BADDR(c, CACHE_TAG(c, addr), CACHE_SET(c, addr))
    BY <1>1, <1>7, Located DEF FastHit
  <2>2. CACHE_TAG(c, addr) \in Nat /\ CACHE_SET(c, addr) \in Sets(config)
        /\ c.tag[s][w] \in Nat
    BY <1>1, <1>6, Located
  <2> QED BY <1>1, <2>1, <2>2, BlockAddress
<1>9. VALID \in Marked(c.status[s][w], cmd)
  BY <1>6, <1>7, MarkedType
<1>10. /\ Alike(c, d) /\ d.status[s][w] = Marked(c.status[s][w], cmd)
       /\ d.way[s] = c.way[s]
       /\ ValidWays(d) = ValidWays(c) \cup {<<s, w>>}
  BY <1>4, <1>9, ChangedAt
<1>11. ValidWays(d) = ValidWays(c)
  <2>1. <<s, w>>[1] = s /\ <<s, w>>[2] = w /\ <<s, w>> \in Sets(config) \X Ways(config)
    OBVIOUS
  <2>2. <<s, w>> \in ValidWays(c)
    BY <1>1, <1>7, <2>1, ValidWaysMeans
  <2> QED BY <1>10, <2>2
<1>12. d.tag = c.tag
  BY <1>4, <1>6 DEF Changed
<1>13. AtHead(d, addr, s, w)
  <2>1. /\ CACHE_SET(d, addr) = CACHE_SET(c, addr)
        /\ CACHE_TAG(d, addr) = CACHE_TAG(c, addr)
        /\ SetIdx(d) = SetIdx(c) /\ Way(d) = Way(c) /\ d.policy = c.policy
    BY <1>10 DEF Alike, CACHE_SET, CACHE_TAG, SetIdx, Way
  <2>2. s = CACHE_SET(d, addr) /\ s \in SetIdx(d) /\ w \in Way(d)
    BY <1>6, <1>8, <2>1
  <2>3. d.tag[s][w] = CACHE_TAG(d, addr) /\ VALID \in d.status[s][w]
    BY <1>8, <1>9, <1>10, <1>12, <2>1
  <2> QED BY <1>7, <1>10, <2>1, <2>2, <2>3 DEF AtHead, In
<1> QED BY <1>3, <1>5, <1>10, <1>11, <1>12, <1>13 DEF HitAs, Writes, d

LEMMA SlowHitKeeps ==
    ASSUME NEW config \in Configs, NEW c, Sound(config, c), ~c.crashed,
           NEW addr \in Nat, NEW cmd, Found(c, addr) # {}
    PROVE  HitAs(config, c, SlowHitAccess(c, cmd, addr), cmd, addr,
                 <<CACHE_SET(c, addr), CHOOSE w \in Found(c, addr) : TRUE>>)
<1> DEFINE d == SlowHitAccess(c, cmd, addr)
           s == CACHE_SET(c, addr)
           w == CHOOSE w \in Found(c, addr) : TRUE
           l == IF c.policy = "LRU" THEN MoveToHead(c.way[s], w) ELSE c.way[s]
           t == c.tag[s][w]
           m == Marked(c.status[s][w], cmd)
           a == CACHE_TAGSET(c, addr)
           b == <<s, w>>
<1>1. c \in CacheType(config)
  BY DEF Sound
<1>2. /\ s \in Sets(config) /\ w \in Ways(config)
      /\ t = CACHE_TAG(c, addr) /\ VALID \in c.status[s][w]
  BY <1>1, HitBlock, Located
<1>3. Changed(config, c, d, s, w, t, m, l, c.hash[s], a, b)
  BY SlowHitFields
<1>4. /\ Sound(config, d) /\ d.crashed = c.crashed
      /\ DirtyBlocks(d) = DirtyBlocks(c) \cup Writes(cmd, CACHE_BADDR(c, addr))
  BY SlowHitSound
<1> HIDE DEF d, w
<1>5. /\ SetIdx(c) = Sets(config) /\ Way(c) = Ways(config)
      /\ c.tag \in [Sets(config) -> [Ways(config) -> Nat]]
      /\ c.status[s][w] \in StatusType
  BY <1>1, <1>2, CacheFields
<1>6. c.policy = "LRU" => l[w] = 0
  BY <1>1, <1>2, WholeListsMeans, ListMoved DEF Sound
<1>7. VALID \in m
  BY <1>2, <1>5, MarkedType
<1> HIDE DEF m, l, a
<1>8. Changed(config, c, d, s, w, c.tag[s][w], m, l, c.hash[s], a, b)
  BY <1>3
<1> HIDE DEF s, t
<1>9. /\ Alike(c, d) /\ d.status[s][w] = m /\ d.way[s] = l
      /\ ValidWays(d) = ValidWays(c) \cup {b}
  <2> HIDE DEF b
  <2>1. /\ Alike(c, d) /\ d.status[s][w] = m /\ d.way[s] = l
        /\ ValidWays(d) = IF VALID \in m THEN ValidWays(c) \cup {<<s, w>>}
                                         ELSE ValidWays(c) \ {<<s, w>>}
    BY <1>2, <1>3, ChangedAt
  <2> QED BY <1>7, <2>1 DEF b
<1>10. ValidWays(d) = ValidWays(c)
  <2>1. b[1] = s /\ b[2] = w /\ b \in Sets(config) \X Ways(config)
    BY <1>2
  <2>2. b \in ValidWays(c)
    BY <1>1, <1>2, <2>1, ValidWaysMeans
  <2> QED BY <1>9, <2>2
<1>11. d.tag = c.tag
  BY <1>2, <1>5, <1>8 DEF Changed
<1>12. AtHead(d, addr, s, w)
  <2>1. /\ CACHE_SET(d, addr) = s
        /\ CACHE_TAG(d, addr) = CACHE_TAG(c, addr)
        /\ SetIdx(d) = SetIdx(c) /\ Way(d) = Way(c) /\ d.policy = c.policy
    BY <1>9 DEF Alike, CACHE_SET, CACHE_TAG, SetIdx, Way, s
  <2>2. s \in SetIdx(d) /\ w \in Way(d)
    BY <1>2, <1>5, <2>1
  <2>3. d.tag[s][w] = CACHE_TAG(d, addr) /\ VALID \in d.status[s][w]
    BY <1>2, <1>7, <1>9, <1>11, <2>1 DEF t
  <2> QED BY <1>6, <1>9, <2>1, <2>2, <2>3 DEF AtHead, In
<1>13. b[1] = s /\ b[2] = w
  OBVIOUS
<1> HIDE DEF b
<1>14. HitAs(config, c, d, cmd, addr, b)
  BY <1>4, <1>9, <1>10, <1>11, <1>12, <1>13 DEF HitAs, Writes
<1> QED BY <1>14 DEF d, s, w, b

LEMMA HitKeeps ==
    ASSUME NEW config \in Configs, NEW c, Sound(config, c), ~c.crashed,
           NEW addr \in Nat, NEW cmd, NEW rand, ~Miss(c, addr)
    PROVE  HitAs(config, c, AccessBlock(c, cmd, addr, rand), cmd, addr,
                 HitBlk(c, addr))
<1>1. CASE FastHit(c, addr) /\ c.last_blk = NULL
  <2>1. AccessBlock(c, cmd, addr, rand) = [c EXCEPT !.crashed = TRUE]
    BY <1>1 DEF AccessBlock, FastHitAccess
  <2> DEFINE d == [c EXCEPT !.crashed = TRUE]
  <2>2. /\ Sound(config, d) /\ d.crashed
        /\ DirtyBlocks(d) = DirtyBlocks(c) /\ ValidWays(d) = ValidWays(c)
        /\ d.tag = c.tag
    BY CrashedSound
  <2>3. Alike(c, d)
    BY DEF Sound, CacheType, Alike
  <2> HIDE DEF d
  <2>4. HitAs(config, c, d, cmd, addr, HitBlk(c, addr))
    BY <2>2, <2>3 DEF HitAs
  <2> QED BY <2>1, <2>4 DEF d
<1>2. CASE FastHit(c, addr) /\ c.last_blk # NULL
  <2>1. /\ AccessBlock(c, cmd, addr, rand) = FastHitAccess(c, cmd, addr)
        /\ HitBlk(c, addr) = c.last_blk
    BY <1>2 DEF AccessBlock, HitBlk
  <2> QED BY <1>2, <2>1, FastHitKeeps
<1>3. CASE ~FastHit(c, addr)
  <2>1. Found(c, addr) # {}
    BY <1>3 DEF Miss
  <2>2. /\ AccessBlock(c, cmd, addr, rand) = SlowHitAccess(c, cmd, addr)
        /\ HitBlk(c, addr) = <<CACHE_SET(c, addr),
                               CHOOSE w \in Found(c, addr) : TRUE>>
    BY <1>3, <2>1 DEF AccessBlock, HitBlk
  <2> QED BY <2>1, <2>2, SlowHitKeeps
<1> QED BY <1>1, <1>2, <1>3

(* A miss puts its block in the place of one, at the end of the list except *)
(* under random replacement, and leaves every other alone.                  *)
MissAs(config, c, d, cmd, addr, back, s, w) ==
    /\ Sound(config, d) /\ Alike(c, d) /\ d.crashed = c.crashed
    /\ ValidWays(d) = ValidWays(c) \cup {<<s, w>>}
    /\ DirtyBlocks(d) = (DirtyBlocks(c) \ back)
                          \cup Writes(cmd, CACHE_BADDR(c, addr))
    /\ back = Held(c, s, c.tag[s][w], c.status[s][w])
    /\ AtHead(d, addr, s, w)
    /\ c.policy = "LRU" => c.way[s][w] = c.assoc - 1
    /\ \A v \in Sets(config), x \in Ways(config) :
         <<v, x>> # <<s, w>> => /\ d.tag[v][x] = c.tag[v][x]
                                /\ d.status[v][x] = c.status[v][x]

LEMMA MissFills ==
    ASSUME NEW config \in Configs, NEW c, Sound(config, c), NEW addr \in Nat,
           NEW cmd, NEW rand \in Ways(config), Miss(c, addr)
    PROVE  MissAs(config, c, AccessBlock(c, cmd, addr, rand), cmd, addr,
                  WrittenBack(c, addr, rand), CACHE_SET(c, addr),
                  Replaced(c, addr, rand))
<1> DEFINE d == MissAccess(c, cmd, addr, rand)
           s == CACHE_SET(c, addr)
           w == Replaced(c, addr, rand)
           t == CACHE_TAG(c, addr)
           m == Marked({VALID}, cmd)
           l == IF c.policy = "Random" THEN c.way[s] ELSE MoveToHead(c.way[s], w)
           h == (c.hash[s] \ Entry(c, c.tag[s][w], w)) \cup Entry(c, t, w)
           back == WrittenBack(c, addr, rand)
<1>1. c \in CacheType(config)
  BY DEF Sound
<1>2. AccessBlock(c, cmd, addr, rand) = d
  BY DEF AccessBlock, Miss
<1>3. s \in Sets(config) /\ w \in Ways(config)
  BY <1>1, ReplacedBlock, Located
<1>4. Changed(config, c, d, s, w, t, m, l, h, 0, NULL)
  BY MissFields
<1>5. /\ Sound(config, d) /\ d.crashed = c.crashed
      /\ DirtyBlocks(d) = (DirtyBlocks(c) \ back) \cup Writes(cmd, CACHE_BADDR(c, addr))
  BY MissSound
<1>6. back = Held(c, s, c.tag[s][w], c.status[s][w])
  BY DEF WrittenBack, Held
<1>7. c.policy # "Random" => c.way[s][w] = c.assoc - 1
  <2>1. /\ SetIdx(c) = Sets(config) /\ Way(c) = Ways(config)
        /\ c.assoc \in Nat \ {0}
    BY <1>1, CacheFields
  <2>2. c.assoc - 1 \in Way(c)
    BY <2>1 DEF Way
  <2>3. \E x \in Way(c) : c.way[s][x] = c.assoc - 1
    BY <1>3, <2>1, <2>2 DEF Sound, WholeLists
  <2> QED BY <2>3 DEF Replaced
<1>8. VALID \in m
  BY MarkedType DEF StatusType
<1> HIDE DEF d, s, w, t, m, h, back
<1>9. c.policy = "LRU" => l[w] = 0
  BY <1>1, <1>3, WholeListsMeans, ListMoved DEF Sound
<1> HIDE DEF l
<1>10. /\ Alike(c, d) /\ d.tag[s][w] = t /\ d.status[s][w] = m /\ d.way[s] = l
       /\ \A v \in Sets(config), x \in Ways(config) :
            <<v, x>> # <<s, w>> => /\ d.tag[v][x] = c.tag[v][x]
                                   /\ d.status[v][x] = c.status[v][x]
       /\ ValidWays(d) = IF VALID \in m THEN ValidWays(c) \cup {<<s, w>>}
                                        ELSE ValidWays(c) \ {<<s, w>>}
  <2> DEFINE zero == 0
             null == NULL
  <2>1. Changed(config, c, d, s, w, t, m, l, h, zero, null)
    BY <1>4
  <2> HIDE DEF zero, null
  <2> QED BY <1>3, <2>1, ChangedAt
<1>11. AtHead(d, addr, s, w)
  <2>1. /\ CACHE_SET(d, addr) = s
        /\ CACHE_TAG(d, addr) = t
        /\ SetIdx(d) = SetIdx(c) /\ Way(d) = Way(c) /\ d.policy = c.policy
    BY <1>10 DEF Alike, CACHE_SET, CACHE_TAG, SetIdx, Way, s, t
  <2>2. s \in SetIdx(d) /\ w \in Way(d)
    BY <1>1, <1>3, <2>1, CacheFields
  <2> QED BY <1>8, <1>9, <1>10, <2>1, <2>2 DEF AtHead, In
<1>12. MissAs(config, c, d, cmd, addr, back, s, w)
  BY <1>5, <1>6, <1>7, <1>8, <1>10, <1>11 DEF MissAs
<1> QED BY <1>2, <1>12 DEF s, w, back

-----------------------------------------------------------------------------
(* One access of the machine.                                               *)

Fit(w, m) ==
    /\ m \in MachineType(w) /\ Sound(w.config, m.cp)
    /\ m.unwritten = DirtyBlocks(m.cp) /\ BlocksCounted(m.cp, m.stats)

Fetches(m) == m.stats.prefetch_hits + m.stats.prefetch_misses

(* From m to d, n prefetches were made and no table has changed.            *)
Leads(w, m, d, n) ==
    /\ Fit(w, d) /\ Fetches(d) = Fetches(m) + n
    /\ d.RPT = m.RPT /\ d.DCPT = m.DCPT /\ d.overrun = m.overrun

LEMMA WorkloadFields ==
    ASSUME NEW w \in Workloads
    PROVE  /\ w.config \in Configs /\ w.prefetch_type \in Nat
           /\ DOMAIN w.addrs \subseteq Nat /\ w.PCs \subseteq Nat
           /\ \A k \in DOMAIN w.addrs : w.addrs[k] \subseteq Address
           /\ RptRows(w) \in Nat /\ DcptRows(w) \in Nat
BY WorkloadAssumption, AddrSpaceAssumption, RowsAssumption DEF Address, RptRows, DcptRows

LEMMA MachineFields ==
    ASSUME NEW w \in Workloads, NEW m \in MachineType(w)
    PROVE  /\ m.cp \in CacheType(w.config)
           /\ m.ready \in [Sets(w.config) -> [Ways(w.config) -> Int]]
           /\ m.bus_free \in Int /\ m.stats \in StatsType
           /\ m.unwritten \in SUBSET Nat
           /\ m.RPT \in [1 .. RptRows(w) -> EntryType]
           /\ m.DCPT \in [1 .. DcptRows(w) -> RowType]
           /\ m.overrun \in BOOLEAN /\ m.lat \in Int /\ m.first_lat \in Int
BY DEF MachineType

LEMMA StatsFields ==
    ASSUME NEW st \in StatsType
    PROVE  /\ st.hits \in Nat /\ st.misses \in Nat
           /\ st.read_hits \in Nat /\ st.read_misses \in Nat
           /\ st.prefetch_hits \in Nat /\ st.prefetch_misses \in Nat
           /\ st.replacements \in Nat /\ st.writebacks \in Nat
           /\ st.invalidations \in Nat
BY DEF StatsType

(* Counted counts one access, and as a prefetch or as a demand.             *)
CountsOne(st, d, prefetch, missed) ==
    /\ d \in StatsType
    /\ d.replacements = st.replacements
    /\ d.writebacks = st.writebacks
    /\ d.invalidations = st.invalidations
    /\ d.prefetch_hits + d.prefetch_misses
         = st.prefetch_hits + st.prefetch_misses + prefetch
    /\ d.misses + d.prefetch_misses = st.misses + st.prefetch_misses + missed

LEMMA CountedStats ==
    ASSUME NEW st \in StatsType, NEW cmd, NEW kind \in {"hit", "miss"},
           NEW prefetch \in {0, 1}
    PROVE  CountsOne(st, Counted(st, cmd, kind, prefetch), prefetch,
                     IF kind = "hit" THEN 0 ELSE 1)
<1> DEFINE d == Counted(st, cmd, kind, prefetch)
           h == IF kind = "hit" THEN 1 ELSE 0
           r == IF cmd = "Read" THEN 1 ELSE 0
           x == h * r
           y == (1 - h) * r
<1>1. h \in {0, 1} /\ 1 - h = (IF kind = "hit" THEN 0 ELSE 1)
      /\ x \in {0, 1} /\ y \in {0, 1}
  OBVIOUS
<1>2. CASE prefetch = 1
  <2>1. d = [st EXCEPT !.prefetch_hits = st.prefetch_hits + h,
                       !.prefetch_misses = st.prefetch_misses + (1 - h)]
    BY <1>2 DEF Counted
  <2> HIDE DEF d, h
  <2>3. d \in StatsType
    <3>1. st.prefetch_hits + h \in Nat /\ st.prefetch_misses + (1 - h) \in Nat
      BY <1>1, StatsFields
    <3> QED BY <2>1, <3>1 DEF StatsType
  <2>4. /\ d.replacements = st.replacements
        /\ d.writebacks = st.writebacks
        /\ d.invalidations = st.invalidations
        /\ d.misses = st.misses
        /\ d.prefetch_hits = st.prefetch_hits + h
        /\ d.prefetch_misses = st.prefetch_misses + (1 - h)
    BY <2>1 DEF StatsType
  <2>2. CountsOne(st, d, prefetch, 1 - h)
    BY <1>1, <1>2, <2>3, <2>4, StatsFields DEF CountsOne
  <2> QED BY <1>1, <2>2 DEF d
<1>3. CASE prefetch = 0
  <2>1. d = [st EXCEPT !.hits = st.hits + h, !.misses = st.misses + (1 - h),
                       !.read_hits = st.read_hits + x,
                       !.read_misses = st.read_misses + y]
    BY <1>3 DEF Counted
  <2> HIDE DEF d, h, x, y
  <2>3. d \in StatsType
    <3>1. /\ st.hits + h \in Nat /\ st.misses + (1 - h) \in Nat
          /\ st.read_hits + x \in Nat /\ st.read_misses + y \in Nat
      BY <1>1, StatsFields
    <3> QED BY <2>1, <3>1 DEF StatsType
  <2>4. /\ d.replacements = st.replacements
        /\ d.writebacks = st.writebacks
        /\ d.invalidations = st.invalidations
        /\ d.misses = st.misses + (1 - h)
        /\ d.prefetch_hits = st.prefetch_hits
        /\ d.prefetch_misses = st.prefetch_misses
    BY <2>1 DEF StatsType
  <2>2. CountsOne(st, d, prefetch, 1 - h)
    BY <1>1, <1>3, <2>3, <2>4, StatsFields DEF CountsOne
  <2> QED BY <1>1, <2>2 DEF d
<1> QED BY <1>2, <1>3

LEMMA HeldCount ==
    ASSUME NEW c, NEW s, NEW tag, NEW status
    PROVE  Cardinality(Held(c, s, tag, status))
             = IF {VALID, DIRTY} \subseteq status THEN 1 ELSE 0
<1>1. Cardinality({CACHE_MK_BADDR(c, tag, s)}) = 1 /\ Cardinality({}) = 0
  BY FS_Singleton, FS_EmptySet
<1> QED BY <1>1 DEF Held

LEMMA HitTimedFit ==
    ASSUME NEW w \in Workloads, NEW m, Fit(w, m), ~m.cp.crashed,
           NEW cmd, NEW addr \in Nat, NEW now \in Int, NEW prefetch \in {0, 1},
           ~Miss(m.cp, addr)
    PROVE  LET d == HitTimed(m, cmd, addr, now, prefetch)
               blk == HitBlk(m.cp, addr)
           IN /\ Leads(w, m, d, prefetch)
              /\ HitAs(w.config, m.cp, d.cp, cmd, addr, blk)
              /\ d.ready = m.ready
              /\ ~d.cp.crashed =>
                   d.lat = Bigger(HIT_LATENCY, m.ready[blk[1]][blk[2]] - now)
<1> DEFINE d == HitTimed(m, cmd, addr, now, prefetch)
           blk == HitBlk(m.cp, addr)
           c == AccessBlock(m.cp, cmd, addr, 0)
           st == Counted(m.stats, cmd, "hit", prefetch)
           un == IF cmd = "Write" /\ ~c.crashed
                   THEN m.unwritten \cup {CACHE_BADDR(c, addr)} ELSE m.unwritten
           lat == IF c.crashed THEN 0
                  ELSE Bigger(HIT_LATENCY, m.ready[blk[1]][blk[2]] - now)
<1>1. m \in MachineType(w) /\ w.config \in Configs /\ Sound(w.config, m.cp)
  BY WorkloadFields DEF Fit
<1>2. HitAs(w.config, m.cp, c, cmd, addr, blk)
  <2> DEFINE zero == 0
  <2> HIDE DEF zero
  <2>1. HitAs(w.config, m.cp, AccessBlock(m.cp, cmd, addr, zero), cmd, addr, blk)
    BY <1>1, HitKeeps
  <2> QED BY <2>1 DEF zero
<1>3. d = [m EXCEPT !.cp = c, !.stats = st, !.unwritten = un, !.lat = lat]
  BY DEF HitTimed
<1> HIDE DEF d, c, st, blk
<1>4. CountsOne(m.stats, st, prefetch, 0) /\ m.stats \in StatsType
  <2> DEFINE hit == "hit"
  <2>1. hit \in {"hit", "miss"} /\ hit = "hit" /\ m.stats \in StatsType
        /\ st = Counted(m.stats, cmd, hit, prefetch)
    BY <1>1, MachineFields DEF st
  <2> HIDE DEF hit
  <2>2. CountsOne(m.stats, st, prefetch, IF hit = "hit" THEN 0 ELSE 1)
    BY <2>1, CountedStats
  <2> QED BY <2>1, <2>2
<1>5. Sound(w.config, c) /\ c \in CacheType(w.config)
  BY <1>2 DEF HitAs, Sound
<1>6. un = DirtyBlocks(c)
  BY <1>2 DEF HitAs, Alike, CACHE_BADDR, Fit
<1>7. un \in SUBSET Nat
  BY <1>1, <1>5, <1>6, DirtyBlocksMeans
<1>8. lat \in Int
  <2>1. CASE c.crashed
    BY <2>1
  <2>2. CASE ~c.crashed
    <3>1. blk[1] \in Sets(w.config) /\ blk[2] \in Ways(w.config)
      BY <1>1, <1>2, <1>5, <2>2, CacheFields DEF HitAs, AtHead, In
    <3>2. m.ready[blk[1]][blk[2]] \in Int
      BY <1>1, <3>1, MachineFields
    <3> QED BY <2>2, <3>2 DEF Bigger, HIT_LATENCY
  <2> QED BY <2>1, <2>2
<1> HIDE DEF un, lat
<1>9. d \in MachineType(w)
  BY <1>1, <1>3, <1>4, <1>5, <1>7, <1>8 DEF MachineType, CountsOne
<1>10. /\ d.cp = c /\ d.stats = st /\ d.unwritten = un /\ d.lat = lat
       /\ d.ready = m.ready /\ d.RPT = m.RPT /\ d.DCPT = m.DCPT
       /\ d.overrun = m.overrun
  BY <1>1, <1>3 DEF MachineType
<1>11. BlocksCounted(c, st)
  <2>1. ValidWays(c) = ValidWays(m.cp) /\ Cardinality(ValidWays(c)) \in Nat
    BY <1>2, <1>5, WorkloadFields, ValidWaysMeans DEF HitAs
  <2>2. BlocksCounted(m.cp, m.stats)
    BY DEF Fit
  <2>3. st \in StatsType
    BY <1>4 DEF CountsOne
  <2> QED BY <1>4, <2>1, <2>2, <2>3, StatsFields DEF BlocksCounted, CountsOne
<1>12. Leads(w, m, d, prefetch)
  BY <1>4, <1>5, <1>6, <1>9, <1>10, <1>11 DEF Leads, Fit, Fetches, CountsOne
<1> QED BY <1>2, <1>10, <1>12 DEF d, lat, blk

MissTimedAs(w, m, d, cmd, addr, prefetch, rand) ==
    /\ Leads(w, m, d, prefetch)
    /\ MissAs(w.config, m.cp, d.cp, cmd, addr, WrittenBack(m.cp, addr, rand),
              CACHE_SET(m.cp, addr), Replaced(m.cp, addr, rand))
    /\ \A v \in Sets(w.config), x \in Ways(w.config) :
         <<v, x>> # <<CACHE_SET(m.cp, addr), Replaced(m.cp, addr, rand)>>
           => d.ready[v][x] = m.ready[v][x]

LEMMA MissTimedFit ==
    ASSUME NEW w \in Workloads, NEW m, Fit(w, m), ~m.cp.crashed,
           NEW cmd, NEW addr \in Nat, NEW now \in Int, NEW prefetch \in {0, 1},
           NEW rand \in Ways(w.config), Miss(m.cp, addr)
    PROVE  MissTimedAs(w, m, MissTimed(m, cmd, addr, now, prefetch, rand),
                       cmd, addr, prefetch, rand)
<1> DEFINE d == MissTimed(m, cmd, addr, now, prefetch, rand)
           s == CACHE_SET(m.cp, addr)
           repl == Replaced(m.cp, addr, rand)
           c == AccessBlock(m.cp, cmd, addr, rand)
           back == WrittenBack(m.cp, addr, rand)
           valid == VALID \in m.cp.status[s][repl]
           settled == BOUND_POS(m.ready[s][repl] - now)
           onBus == settled + BOUND_POS(m.bus_free - (now + settled))
           lat == (IF valid THEN onBus ELSE 0)
                  + (IF back # {} THEN NEXT_LATENCY ELSE 0) + NEXT_LATENCY
           un == (m.unwritten \ back) \cup (IF cmd = "Write"
                                              THEN {CACHE_BADDR(m.cp, addr)} ELSE {})
           bus == IF valid THEN Bigger(m.bus_free, now + onBus) + 1 ELSE m.bus_free
           rdy == [m.ready EXCEPT ![s][repl] = now + lat]
           cst == Counted(m.stats, cmd, "miss", prefetch)
           st == [cst EXCEPT !.replacements = @ + (IF valid THEN 1 ELSE 0),
                             !.writebacks = @ + Cardinality(back)]
<1>1. m \in MachineType(w) /\ w.config \in Configs /\ Sound(w.config, m.cp)
  BY WorkloadFields DEF Fit
<1>2. m.cp \in CacheType(w.config)
  BY <1>1 DEF Sound
<1>3. s \in Sets(w.config) /\ repl \in Ways(w.config)
  BY <1>1, <1>2, Located, ReplacedBlock
<1>4. MissAs(w.config, m.cp, c, cmd, addr, back, s, repl)
  BY <1>1, MissFills
<1>5. d = [m EXCEPT !.cp = c, !.stats = st, !.unwritten = un, !.bus_free = bus,
                    !.ready = rdy, !.lat = lat]
  BY DEF MissTimed
<1> HIDE DEF d, s, repl, c, back, st
<1>6. /\ m.ready[s][repl] \in Int /\ m.bus_free \in Int
      /\ m.stats \in StatsType /\ m.unwritten \in SUBSET Nat
  BY <1>1, <1>3, MachineFields
<1>7. settled \in Int
  BY <1>6 DEF BOUND_POS
<1> HIDE DEF settled
<1>8. onBus \in Int
  BY <1>6, <1>7 DEF BOUND_POS
<1> HIDE DEF onBus
<1>9. lat \in Int
  BY <1>8 DEF NEXT_LATENCY
<1>10. bus \in Int
  BY <1>6, <1>8 DEF Bigger
<1> HIDE DEF lat, bus
<1>11. /\ rdy \in [Sets(w.config) -> [Ways(w.config) -> Int]]
       /\ \A v \in Sets(w.config), x \in Ways(w.config) :
            <<v, x>> # <<s, repl>> => rdy[v][x] = m.ready[v][x]
  <2>1. m.ready \in [Sets(w.config) -> [Ways(w.config) -> Int]]
    BY <1>1, MachineFields
  <2>2. now + lat \in Int
    BY <1>9
  <2> QED BY <1>3, <2>1, <2>2
<1> HIDE DEF rdy
<1>12. CountsOne(m.stats, cst, prefetch, 1)
  <2> DEFINE miss == "miss"
  <2>1. miss \in {"hit", "miss"} /\ miss # "hit"
        /\ cst = Counted(m.stats, cmd, miss, prefetch)
    OBVIOUS
  <2> HIDE DEF miss, cst
  <2>2. CountsOne(m.stats, cst, prefetch, IF miss = "hit" THEN 0 ELSE 1)
    BY <1>6, <2>1, CountedStats
  <2> QED BY <2>1, <2>2
<1> HIDE DEF cst
<1>13. Cardinality(back) = IF {VALID, DIRTY} \subseteq m.cp.status[s][repl]
                             THEN 1 ELSE 0
  BY <1>4, HeldCount DEF MissAs
<1>14. Cardinality(back) \in Nat /\ Cardinality(back) <= (IF valid THEN 1 ELSE 0)
  BY <1>13
<1>15. /\ st \in StatsType
       /\ st.misses = cst.misses /\ st.prefetch_misses = cst.prefetch_misses
       /\ st.prefetch_hits = cst.prefetch_hits
       /\ st.invalidations = cst.invalidations
       /\ st.replacements = cst.replacements + (IF valid THEN 1 ELSE 0)
       /\ st.writebacks = cst.writebacks + Cardinality(back)
  <2>1. cst \in StatsType
    BY <1>12 DEF CountsOne
  <2> DEFINE r == cst.replacements + (IF valid THEN 1 ELSE 0)
             k == cst.writebacks + Cardinality(back)
  <2>2. r \in Nat /\ k \in Nat
    BY <1>14, <2>1, StatsFields
  <2>3. st = [cst EXCEPT !.replacements = r, !.writebacks = k]
    BY DEF st
  <2>4. st \in StatsType
    <3> HIDE DEF r, k
    <3> QED BY <2>1, <2>2, <2>3 DEF StatsType
  <2>5. /\ st.misses = cst.misses /\ st.prefetch_misses = cst.prefetch_misses
        /\ st.prefetch_hits = cst.prefetch_hits
        /\ st.invalidations = cst.invalidations
        /\ st.replacements = r /\ st.writebacks = k
    <3> HIDE DEF r, k
    <3> QED BY <2>1, <2>3 DEF StatsType
  <2> QED BY <2>4, <2>5
<1> HIDE DEF st
<1>16. Sound(w.config, c) /\ c \in CacheType(w.config)
  BY <1>4 DEF MissAs, Sound
<1>17. un = DirtyBlocks(c)
  BY <1>4 DEF MissAs, Fit, Writes
<1>18. un \in SUBSET Nat
  BY <1>1, <1>16, <1>17, DirtyBlocksMeans
<1> HIDE DEF un
<1>19. d \in MachineType(w)
  BY <1>1, <1>5, <1>9, <1>10, <1>11, <1>15, <1>16, <1>18 DEF MachineType
<1>20. /\ d.cp = c /\ d.stats = st /\ d.unwritten = un /\ d.ready = rdy
       /\ d.RPT = m.RPT /\ d.DCPT = m.DCPT /\ d.overrun = m.overrun
  BY <1>1, <1>5 DEF MachineType
<1>21. BlocksCounted(c, st)
  <2> DEFINE sw == <<s, repl>>
  <2>1. sw[1] = s /\ sw[2] = repl /\ sw \in Sets(w.config) \X Ways(w.config)
    BY <1>3
  <2>2. valid <=> sw \in ValidWays(m.cp)
    BY <1>1, <1>2, <2>1, ValidWaysMeans
  <2>3. ValidWays(c) = ValidWays(m.cp) \cup {sw}
    BY <1>4 DEF MissAs
  <2> HIDE DEF sw
  <2>4. /\ IsFiniteSet(ValidWays(m.cp)) /\ Cardinality(ValidWays(m.cp)) \in Nat
    BY <1>1, <1>2, ValidWaysMeans
  <2>5. Cardinality(ValidWays(c)) = IF valid THEN Cardinality(ValidWays(m.cp))
                                    ELSE Cardinality(ValidWays(m.cp)) + 1
    BY <2>2, <2>3, <2>4, FS_AddElement
  <2>6. BlocksCounted(m.cp, m.stats) /\ cst \in StatsType
    BY <1>12 DEF Fit, CountsOne
  <2> HIDE DEF valid
  <2> QED BY <1>6, <1>12, <1>14, <1>15, <2>4, <2>5, <2>6, StatsFields
      DEF BlocksCounted, CountsOne
<1>22. Leads(w, m, d, prefetch)
  BY <1>12, <1>15, <1>16, <1>17, <1>19, <1>20, <1>21 DEF Leads, Fit, Fetches, CountsOne
<1> QED BY <1>4, <1>11, <1>20, <1>22 DEF MissTimedAs, d, s, repl, back

(* The accesses that a demand or a prefetch makes.                          *)
LEMMA AccessTimedFit ==
    ASSUME NEW w \in Workloads, NEW m, Fit(w, m), ~m.cp.crashed,
           NEW cmd, NEW addr \in Nat, NEW now \in Int, NEW prefetch \in {0, 1},
           NEW rand \in Ways(w.config)
    PROVE  Leads(w, m, AccessTimed(m, cmd, addr, now, prefetch, rand), prefetch)
<1>1. CASE Miss(m.cp, addr)
  BY <1>1, MissTimedFit DEF AccessTimed, MissTimedAs
<1>2. CASE ~Miss(m.cp, addr)
  BY <1>2, HitTimedFit DEF AccessTimed
<1> QED BY <1>1, <1>2

LEMMA LeadsNowhere ==
    ASSUME NEW w \in Workloads, NEW m, Fit(w, m)
    PROVE  Leads(w, m, m, 0)
<1>1. m.stats \in StatsType
  BY MachineFields DEF Fit
<1> QED BY <1>1, StatsFields DEF Leads, Fetches

(* A call of cache_access for a prefetch makes at most one.                 *)
LEMMA PrefetchFit ==
    ASSUME NEW w \in Workloads, NEW m, Fit(w, m), NEW addr \in Nat,
           NEW rand \in Ways(w.config)
    PROVE  \/ Leads(w, m, Prefetch(m, addr, rand), 0)
           \/ Leads(w, m, Prefetch(m, addr, rand), 1)
<1>1. CASE m.cp.crashed
  BY <1>1, LeadsNowhere DEF Prefetch
<1>2. CASE ~m.cp.crashed
  <2> DEFINE b == CACHE_BADDR(m.cp, addr)
             one == 1
             zero == 0
  <2>1. m.cp \in CacheType(w.config) /\ w.config \in Configs
    BY WorkloadFields, MachineFields DEF Fit
  <2>2. b \in Nat /\ one \in {0, 1} /\ zero \in Int
    BY <2>1, Located
  <2>3. Prefetch(m, addr, rand) = AccessTimed(m, "Read", b, zero, one, rand)
    BY <1>2 DEF Prefetch
  <2> HIDE DEF b, one, zero
  <2>4. Leads(w, m, AccessTimed(m, "Read", b, zero, one, rand), one)
    BY <1>2, <2>2, AccessTimedFit
  <2> QED BY <2>3, <2>4 DEF one
<1> QED BY <1>1, <1>2

LEMMA PrefetchUnlessCachedFit ==
    ASSUME NEW w \in Workloads, NEW m, Fit(w, m), NEW addr \in Nat,
           NEW rand \in Ways(w.config)
    PROVE  \/ Leads(w, m, PrefetchUnlessCached(m, addr, rand), 0)
           \/ Leads(w, m, PrefetchUnlessCached(m, addr, rand), 1)
<1>1. CASE cache_probe(m.cp, CACHE_BADDR(m.cp, addr))
  BY <1>1, LeadsNowhere DEF PrefetchUnlessCached
<1>2. CASE ~cache_probe(m.cp, CACHE_BADDR(m.cp, addr))
  BY <1>2, PrefetchFit DEF PrefetchUnlessCached
<1> QED BY <1>1, <1>2

-----------------------------------------------------------------------------
(* The stride prefetcher.                                                   *)

(* A change of a table, and of what is said of the arrays.                  *)
WithTables(m, rpt, dcpt, over) ==
    [m EXCEPT !.RPT = rpt, !.DCPT = dcpt, !.overrun = over]

LEMMA TablesFit ==
    ASSUME NEW w \in Workloads, NEW m, Fit(w, m),
           NEW rpt \in [1 .. RptRows(w) -> EntryType],
           NEW dcpt \in [1 .. DcptRows(w) -> RowType], NEW over \in BOOLEAN
    PROVE  LET d == WithTables(m, rpt, dcpt, over)
           IN /\ Fit(w, d) /\ Fetches(d) = Fetches(m) /\ d.cp = m.cp
              /\ d.ready = m.ready
              /\ d.RPT = rpt /\ d.DCPT = dcpt /\ d.overrun = over
<1> DEFINE d == WithTables(m, rpt, dcpt, over)
<1>1. m \in MachineType(w)
  BY DEF Fit
<1>2. d \in MachineType(w)
  BY <1>1 DEF MachineType, WithTables
<1>3. /\ d.cp = m.cp /\ d.stats = m.stats /\ d.unwritten = m.unwritten
      /\ d.ready = m.ready
      /\ d.RPT = rpt /\ d.DCPT = dcpt /\ d.overrun = over
  BY <1>1 DEF MachineType, WithTables
<1> HIDE DEF d
<1>4. Fit(w, d) /\ Fetches(d) = Fetches(m)
  BY <1>2, <1>3 DEF Fit, Fetches
<1> QED BY <1>3, <1>4 DEF d

LEMMA TableLength ==
    ASSUME NEW n \in Nat, NEW S, NEW f \in [1 .. n -> S]
    PROVE  Len(f) = n
OBVIOUS

LEMMA StrideRange ==
    ASSUME NEW entry, entry.prev \in Nat, NEW addr \in Nat
    PROVE  Stride(entry, addr) \in Address
<1>1. addr - entry.prev \in Int /\ AddrSpace \in Nat \ {0}
  BY AddrSpaceAssumption
<1> QED BY <1>1 DEF Stride, Address

LEMMA IndexRange ==
    ASSUME NEW PC \in Nat, NEW n \in Nat \ {0}
    PROVE  ((PC \div 4) % n) + 1 \in 1 .. n /\ PC \div 4 \in Nat
OBVIOUS

LEMMA EntryFields ==
    ASSUME NEW entry \in EntryType
    PROVE  /\ entry.PC \in Nat /\ entry.prev \in Nat
           /\ entry.stride \in Address /\ entry.stride \in Nat
           /\ entry.state \in {INITIAL, TRANSIENT, STEADY, NOPRED}
BY AddrSpaceAssumption DEF EntryType, Address

(* What the entry of an instruction becomes.                                *)
LEMMA StrideTrainedFields ==
    ASSUME NEW entry \in EntryType, NEW PC \in Nat, NEW addr \in Nat
    PROVE  LET d == StrideTrained(entry, PC, addr)
               s == Stride(entry, addr)
           IN /\ d \in EntryType
              /\ entry.PC # PC => d.state = entry.state
              /\ entry.PC = PC =>
                   /\ d.state = NextState(entry.state, s = entry.stride)
                   /\ d.stride = IF entry.state = STEADY THEN entry.stride ELSE s
<1> DEFINE d == StrideTrained(entry, PC, addr)
           s == Stride(entry, addr)
           st == NextState(entry.state, s = entry.stride)
           sd == IF entry.state = STEADY THEN entry.stride ELSE s
<1>1. s \in Address
  BY EntryFields, StrideRange
<1>2. st \in {INITIAL, TRANSIENT, STEADY, NOPRED}
  BY EntryFields DEF NextState, INITIAL, TRANSIENT, STEADY, NOPRED
<1>3. CASE entry.PC # PC
  <2>1. d = [entry EXCEPT !.PC = PC, !.prev = addr, !.stride = 0]
    BY <1>3 DEF StrideTrained, NewOwner
  <2>2. 0 \in Address
    BY AddrSpaceAssumption DEF Address
  <2> HIDE DEF d
  <2>3. d \in EntryType /\ d.state = entry.state
    BY <2>1, <2>2 DEF EntryType
  <2> QED BY <1>3, <2>3 DEF d
<1>4. CASE entry.PC = PC
  <2>1. d = [entry EXCEPT !.prev = addr, !.state = st, !.stride = sd]
    BY <1>4 DEF StrideTrained, SameOwner
  <2>2. sd \in Address
    BY <1>1, EntryFields
  <2> HIDE DEF d, st, sd
  <2>3. d \in EntryType /\ d.state = st /\ d.stride = sd
    BY <1>2, <2>1, <2>2 DEF EntryType
  <2> QED BY <1>4, <2>3 DEF d, st, sd
<1> QED BY <1>3, <1>4

(* An entry learns the stride that its owner repeats, from every state.     *)
LEMMA LearnedOn ==
    ASSUME NEW entry \in EntryType, NEW run \in RunType, Learned(entry, run),
           NEW PC \in Nat, NEW addr \in Nat
    PROVE  /\ RunAfter(run, entry, PC, addr) \in RunType
           /\ Learned(StrideTrained(entry, PC, addr),
                      RunAfter(run, entry, PC, addr))
<1> DEFINE d == StrideTrained(entry, PC, addr)
           s == Stride(entry, addr)
           r == RunAfter(run, entry, PC, addr)
<1>1. s \in Address /\ 0 \in Address
  BY EntryFields, StrideRange, AddrSpaceAssumption DEF Address
<1>2. run.n \in 0 .. 3 /\ run.stride \in Address
  BY DEF RunType
<1>3. /\ d \in EntryType
      /\ entry.PC = PC =>
           /\ d.state = NextState(entry.state, s = entry.stride)
           /\ d.stride = IF entry.state = STEADY THEN entry.stride ELSE s
  BY StrideTrainedFields
<1>4. CASE entry.PC # PC
  BY <1>1, <1>4 DEF RunAfter, RunType, Learned
<1>5. CASE entry.PC = PC
  <2>1. /\ r.stride = s /\ r \in RunType
        /\ r.n = IF run.n = 0 \/ run.stride # s THEN 1
                 ELSE IF run.n < 3 THEN run.n + 1 ELSE 3
    BY <1>1, <1>2, <1>5 DEF RunAfter, RunType
  <2> HIDE DEF d, s, r
  <2>2. Learned(d, r)
    BY <1>2, <1>3, <1>5, <2>1, EntryFields
       DEF Learned, NextState, INITIAL, TRANSIENT, STEADY, NOPRED
  <2> QED BY <2>1, <2>2 DEF d, r
<1> QED BY <1>4, <1>5

(* Up to n prefetches, which change neither table.                          *)
Fetching(w, m, d, n) ==
    /\ Fit(w, d) /\ Fetches(d) <= Fetches(m) + n
    /\ d.RPT = m.RPT /\ d.DCPT = m.DCPT /\ d.overrun = m.overrun

LEMMA LeadsFetching ==
    ASSUME NEW w \in Workloads, NEW m, Fit(w, m), NEW d,
           Leads(w, m, d, 0) \/ Leads(w, m, d, 1)
    PROVE  Fetching(w, m, d, 1)
<1>1. m.stats \in StatsType
  BY MachineFields DEF Fit
<1>2. Fetches(m) \in Nat
  BY <1>1, StatsFields DEF Fetches
<1> QED BY <1>2 DEF Leads, Fetching

LEMMA NextLineFit ==
    ASSUME NEW w \in Workloads, NEW m, Fit(w, m), NEW addr \in Nat,
           NEW rand \in Ways(w.config)
    PROVE  Fetching(w, m, next_line_prefetcher(m, addr, rand), 1)
<1> DEFINE a == (addr + m.cp.bsize) % AddrSpace
<1>1. m.cp.bsize \in Nat
  BY WorkloadFields, MachineFields, CacheFields DEF Fit
<1>2. a \in Nat
  BY <1>1, AddrSpaceAssumption
<1>3. next_line_prefetcher(m, addr, rand) = PrefetchUnlessCached(m, a, rand)
  BY DEF next_line_prefetcher
<1> HIDE DEF a
<1> QED BY <1>2, <1>3, PrefetchUnlessCachedFit, LeadsFetching

(* The entry of the instruction is trained before the prefetch.             *)
StrideAfter(m, addr, PC) ==
    LET i == RptIndex(m, PC)
    IN [m EXCEPT !.RPT[i] = StrideTrained(m.RPT[i], PC \div 4, addr)]

StrideAs(w, m, addr, PC, rand, d) ==
    LET i == RptIndex(m, PC)
        after == StrideAfter(m, addr, PC)
    IN /\ i \in 1 .. RptRows(w)
       /\ Fit(w, after) /\ after.cp = m.cp /\ after.ready = m.ready
       /\ after.RPT = [m.RPT EXCEPT ![i] =
                         StrideTrained(m.RPT[i], PC \div 4, addr)]
       /\ after.overrun = m.overrun
       /\ Fetches(after) = Fetches(m)
       /\ \/ d = after
          \/ \E a \in Nat : d = PrefetchUnlessCached(after, a, rand)

LEMMA StrideFit ==
    ASSUME NEW w \in Workloads, NEW m, Fit(w, m), NEW addr \in Nat,
           NEW PC \in Nat, NEW rand \in Ways(w.config), w.prefetch_type > 2
    PROVE  StrideAs(w, m, addr, PC, rand, stride_prefetcher(m, addr, PC, rand))
<1> DEFINE i == RptIndex(m, PC)
           entry == StrideTrained(m.RPT[i], PC \div 4, addr)
           rpt == [m.RPT EXCEPT ![i] = entry]
           after == [m EXCEPT !.RPT[i] = entry]
<1>1. m \in MachineType(w) /\ RptRows(w) \in Nat \ {0}
  BY WorkloadFields DEF Fit, RptRows
<1>2. m.RPT \in [1 .. RptRows(w) -> EntryType]
      /\ m.DCPT \in [1 .. DcptRows(w) -> RowType] /\ m.overrun \in BOOLEAN
  BY <1>1, MachineFields
<1>3. Len(m.RPT) = RptRows(w)
  BY <1>1, <1>2, TableLength
<1>4. i \in 1 .. RptRows(w) /\ PC \div 4 \in Nat
  BY <1>1, <1>3, IndexRange DEF RptIndex
<1>5. entry \in EntryType
  BY <1>2, <1>4, StrideTrainedFields
<1>6. after = [m EXCEPT !.RPT = rpt]
  OBVIOUS
<1> HIDE DEF i, entry
<1>7. rpt \in [1 .. RptRows(w) -> EntryType]
  BY <1>2, <1>4, <1>5
<1> HIDE DEF rpt, after
<1> DEFINE dcpt == m.DCPT
           over == m.overrun
<1>8. /\ dcpt \in [1 .. DcptRows(w) -> RowType] /\ over \in BOOLEAN
      /\ after = WithTables(m, rpt, dcpt, over)
  BY <1>1, <1>2, <1>6 DEF MachineType, WithTables
<1> HIDE DEF dcpt
<1>9. /\ Fit(w, after) /\ Fetches(after) = Fetches(m) /\ after.cp = m.cp
      /\ after.ready = m.ready /\ after.RPT = rpt /\ after.overrun = m.overrun
  <2> HIDE DEF over
  <2>1. /\ Fit(w, after) /\ Fetches(after) = Fetches(m) /\ after.cp = m.cp
        /\ after.ready = m.ready /\ after.RPT = rpt /\ after.overrun = over
    BY <1>7, <1>8, TablesFit
  <2> QED BY <2>1 DEF over
<1>10. \/ stride_prefetcher(m, addr, PC, rand) = after
       \/ \E a \in Nat : stride_prefetcher(m, addr, PC, rand)
                           = PrefetchUnlessCached(after, a, rand)
  <2>1. (addr + entry.stride) % AddrSpace \in Nat
    BY <1>5, EntryFields, AddrSpaceAssumption
  <2> QED BY <2>1 DEF stride_prefetcher, after, entry, i
<1> QED BY <1>4, <1>9, <1>10 DEF StrideAs, StrideAfter, after, rpt, entry, i

-----------------------------------------------------------------------------
(* The open-ended prefetcher.                                               *)

LEMMA RowTrainedType ==
    ASSUME NEW row \in RowType, NEW PC \in Nat, NEW addr \in Nat
    PROVE  RowTrained(row, PC, addr) \in RowType
<1> DEFINE new == [d \in 1 .. DELTAS |-> NODELTA]
           delta == [d \in 1 .. DELTAS |-> IF d = 1 THEN Stride(row, addr)
                                           ELSE row.delta[d - 1]]
<1>1. row.prev \in Nat /\ row.delta \in [1 .. DELTAS -> Address]
  BY DEF RowType
<1>2. Stride(row, addr) \in Address /\ NODELTA \in Address
  BY <1>1, StrideRange, AddrSpaceAssumption DEF NODELTA, Address
<1>3. new \in [1 .. DELTAS -> Address]
  BY <1>2
<1>4. delta \in [1 .. DELTAS -> Address]
  <2>1. \A d \in 1 .. DELTAS : d # 1 => d - 1 \in 1 .. DELTAS
    BY DEF DELTAS
  <2> QED BY <1>1, <1>2, <2>1
<1>5. [PC |-> PC, prev |-> addr, pref |-> 0, delta |-> new] \in RowType
  BY <1>3 DEF RowType
<1>6. [row EXCEPT !.prev = addr, !.delta = delta] \in RowType
  BY <1>4 DEF RowType
<1> QED BY <1>5, <1>6 DEF RowTrained

(* The addresses among which all candidates are: those at d = 5 are also    *)
(* candidates at d = 6.                                                     *)
Ahead(row, addr, d) == (addr + row.delta[d]) % AddrSpace
Aheads(row, addr) == {Ahead(row, addr, 2), Ahead(row, addr, 3), Ahead(row, addr, 4)}

LEMMA AheadsRange ==
    ASSUME NEW row \in RowType, NEW addr \in Nat
    PROVE  /\ Aheads(row, addr) \subseteq Address
           /\ IsFiniteSet(Aheads(row, addr)) /\ Cardinality(Aheads(row, addr)) <= 3
<1>1. \A d \in 1 .. DELTAS : Ahead(row, addr, d) \in Address
  <2> SUFFICES ASSUME NEW d \in 1 .. DELTAS PROVE Ahead(row, addr, d) \in Address
    OBVIOUS
  <2>3. row.delta \in [1 .. DELTAS -> Address]
    BY DEF RowType
  <2>4. row.delta[d] \in Address
    BY <2>3
  <2>1. row.delta[d] \in Nat
    BY <2>4, AddrSpaceAssumption DEF Address
  <2>2. addr + row.delta[d] \in Int /\ AddrSpace \in Nat \ {0}
    BY <2>1, AddrSpaceAssumption
  <2> QED BY <2>2 DEF Ahead, Address
<1>2. Ahead(row, addr, 2) \in Address /\ Ahead(row, addr, 3) \in Address
      /\ Ahead(row, addr, 4) \in Address
  BY <1>1 DEF DELTAS
<1> DEFINE x == Ahead(row, addr, 2)
           y == Ahead(row, addr, 3)
           z == Ahead(row, addr, 4)
<1>3. Aheads(row, addr) = ({x} \cup {y}) \cup {z}
  BY DEF Aheads
<1> HIDE DEF x, y, z
<1>4. IsFiniteSet({x}) /\ Cardinality({x}) = 1
  BY FS_Singleton
<1>5. IsFiniteSet({x} \cup {y}) /\ Cardinality({x} \cup {y}) \in {1, 2}
  BY <1>4, FS_AddElement
<1>6. IsFiniteSet(({x} \cup {y}) \cup {z})
      /\ Cardinality(({x} \cup {y}) \cup {z}) \in {1, 2, 3}
  BY <1>5, FS_AddElement
<1> QED BY <1>2, <1>3, <1>6 DEF Aheads

LEMMA CandidatesRange ==
    ASSUME NEW row \in RowType, NEW addr \in Nat
    PROVE  Candidates(row, addr) \in Seq(Aheads(row, addr))
<1> DEFINE A == Aheads(row, addr)
           f == [n \in 1 .. 3 |-> (addr + row.delta[6 - 1 - n]) % AddrSpace]
           g == [n \in 1 .. 2 |-> (addr + row.delta[5 - 1 - n]) % AddrSpace]
<1>1. \A n \in 1 .. 3 : (addr + row.delta[6 - 1 - n]) % AddrSpace \in A
  <2> SUFFICES ASSUME NEW n \in 1 .. 3
               PROVE  (addr + row.delta[6 - 1 - n]) % AddrSpace \in A
    OBVIOUS
  <2>1. 6 - 1 - n \in {2, 3, 4}
    OBVIOUS
  <2> QED BY <2>1 DEF Aheads, Ahead
<1>2. \A n \in 1 .. 2 : (addr + row.delta[5 - 1 - n]) % AddrSpace \in A
  <2> SUFFICES ASSUME NEW n \in 1 .. 2
               PROVE  (addr + row.delta[5 - 1 - n]) % AddrSpace \in A
    OBVIOUS
  <2>1. 5 - 1 - n \in {2, 3}
    OBVIOUS
  <2> QED BY <2>1 DEF Aheads, Ahead
<1> HIDE DEF A
<1>3. f \in Seq(A) /\ g \in Seq(A) /\ <<>> \in Seq(A)
  BY <1>1, <1>2
<1>4. /\ CandidatesAt(row, addr, DELTAS) \in {f, <<>>}
      /\ CandidatesAt(row, addr, DELTAS - 1) \in {g, <<>>}
  <2>1. DELTAS = 6 /\ DELTAS - 1 = 5 /\ 6 - 3 = 3 /\ 5 - 3 = 2
    BY DEF DELTAS
  <2>2. CandidatesAt(row, addr, 6) \in {f, <<>>}
    BY <2>1 DEF CandidatesAt
  <2>3. CandidatesAt(row, addr, 5) \in {g, <<>>}
    BY <2>1 DEF CandidatesAt
  <2> QED BY <2>1, <2>2, <2>3
<1> HIDE DEF f, g
<1>5. /\ CandidatesAt(row, addr, DELTAS) \in Seq(A)
      /\ CandidatesAt(row, addr, DELTAS - 1) \in Seq(A)
  BY <1>3, <1>4
<1> QED BY <1>5 DEF Candidates, A

(* A selection that leaves room for the candidates not in flight yet.       *)
Selection(A, sel) ==
    /\ sel.prefetch \in Seq(Address) /\ sel.pref \in Nat /\ sel.overrun \in BOOLEAN
    /\ Len(sel.prefetch) + Cardinality(A \ sel.inFlight) <= 3

LEMMA SelectCandidateKeeps ==
    ASSUME NEW A \in SUBSET Address, IsFiniteSet(A), NEW c, NEW last_prefetch,
           NEW sel, Selection(A, sel), NEW cand \in A
    PROVE  Selection(A, SelectCandidate(c, last_prefetch, sel, cand))
<1> DEFINE fresh == cand \notin sel.inFlight
                      /\ ~cache_probe(c, CACHE_BADDR(c, cand))
           chosen == IF fresh THEN Append(sel.prefetch, cand) ELSE sel.prefetch
           flight == IF fresh THEN sel.inFlight \cup {cand} ELSE sel.inFlight
           d == SelectCandidate(c, last_prefetch, sel, cand)
<1>1. /\ sel.prefetch \in Seq(Address) /\ sel.pref \in Nat
      /\ Len(sel.prefetch) + Cardinality(A \ sel.inFlight) <= 3
      /\ Len(sel.prefetch) \in Nat /\ cand \in Nat /\ cand \in Address
  BY AddrSpaceAssumption DEF Selection, Address
<1>2. IsFiniteSet(A \ sel.inFlight) /\ Cardinality(A \ sel.inFlight) \in Nat
  BY FS_Difference, FS_CardinalityType
<1>3. /\ chosen \in Seq(Address)
      /\ fresh => Len(chosen) = Len(sel.prefetch) + 1
      /\ ~fresh => chosen = sel.prefetch
  <2>1. /\ Append(sel.prefetch, cand) \in Seq(Address)
        /\ Len(Append(sel.prefetch, cand)) = Len(sel.prefetch) + 1
    BY <1>1
  <2>2. \/ ~fresh /\ chosen = sel.prefetch
        \/ fresh /\ chosen = Append(sel.prefetch, cand)
    OBVIOUS
  <2> HIDE DEF fresh, chosen
  <2> QED BY <1>1, <2>1, <2>2
<1>10. Len(chosen) \in Nat
  BY <1>3
<1>4. /\ Cardinality(A \ flight) \in Nat
      /\ Len(chosen) + Cardinality(A \ flight) <= 3
  <2>1. CASE ~fresh
    BY <1>1, <1>2, <1>3, <2>1
  <2>2. CASE fresh
    <3>1. A \ flight = (A \ sel.inFlight) \ {cand} /\ cand \in A \ sel.inFlight
      BY <2>2
    <3>2. Cardinality(A \ flight) = Cardinality(A \ sel.inFlight) - 1
          /\ IsFiniteSet(A \ flight)
      BY <1>2, <3>1, FS_RemoveElement
    <3>3. Cardinality(A \ flight) \in Nat
      BY <3>2, FS_CardinalityType
    <3> QED BY <1>1, <1>2, <1>3, <2>2, <3>2, <3>3
  <2> QED BY <2>1, <2>2
<1>5. /\ d.prefetch = IF cand = last_prefetch THEN <<>> ELSE chosen
      /\ d.pref = IF fresh THEN cand ELSE sel.pref
      /\ d.inFlight = flight
      /\ d.overrun = (sel.overrun \/ Len(chosen) > PREFETCH_SIZE)
  BY DEF SelectCandidate
<1>6. d.overrun \in BOOLEAN
  BY <1>5
<1> HIDE DEF d, fresh, chosen, flight
<1>7. d.prefetch \in Seq(Address) /\ d.pref \in Nat
  BY <1>1, <1>3, <1>5
<1>8. Len(d.prefetch) + Cardinality(A \ d.inFlight) <= 3
  <2>1. Len(<<>>) = 0
    OBVIOUS
  <2>2. 0 + Cardinality(A \ flight) <= 3
    BY <1>4, <1>10
  <2> QED BY <1>4, <1>5, <2>1, <2>2
<1>9. Selection(A, d)
  BY <1>6, <1>7, <1>8 DEF Selection
<1> QED BY <1>9 DEF d

(* The selections after each of n candidates.                               *)
Selects(f, c, last_prefetch, start, cands, n) ==
    f = [k \in 0 .. n |-> IF k = 0 THEN start
                          ELSE SelectCandidate(c, last_prefetch, f[k - 1], cands[k])]

LEMMA SelectionsExist ==
    ASSUME NEW c, NEW last_prefetch, NEW start, NEW cands, NEW n \in Nat
    PROVE  \E f : Selects(f, c, last_prefetch, start, cands, n)
<1> DEFINE Has(k) == \E f : Selects(f, c, last_prefetch, start, cands, k)
           H == {k \in Nat : Has(k)}
<1>1. Has(0)
  <2> DEFINE f == [k \in 0 .. 0 |-> start]
  <2>1. f = [k \in 0 .. 0 |->
               IF k = 0 THEN start
               ELSE SelectCandidate(c, last_prefetch, f[k - 1], cands[k])]
    OBVIOUS
  <2> QED BY <2>1 DEF Selects
<1>2. ASSUME NEW k \in H PROVE k + 1 \in H
  <2>1. k \in Nat /\ Has(k)
    OBVIOUS
  <2>2. PICK f : Selects(f, c, last_prefetch, start, cands, k)
    BY <2>1
  <2> DEFINE g == [j \in 0 .. k + 1 |->
                     IF j = k + 1
                       THEN SelectCandidate(c, last_prefetch, f[k], cands[k + 1])
                       ELSE f[j]]
  <2>3. ASSUME NEW j \in 0 .. k + 1
        PROVE  g[j] = IF j = 0 THEN start
                      ELSE SelectCandidate(c, last_prefetch, g[j - 1], cands[j])
    <3>1. CASE j = 0
      BY <2>1, <2>2, <3>1 DEF Selects
    <3>2. CASE j \in 1 .. k
      <4>1. g[j] = f[j] /\ g[j - 1] = f[j - 1] /\ j \in 0 .. k /\ j # 0
        BY <2>1, <3>2
      <4>2. f[j] = SelectCandidate(c, last_prefetch, f[j - 1], cands[j])
        BY <2>2, <4>1 DEF Selects
      <4> QED BY <4>1, <4>2
    <3>3. CASE j = k + 1
      <4>1. j # 0 /\ j - 1 = k /\ g[j - 1] = f[k]
        BY <2>1, <3>3
      <4> QED BY <3>3, <4>1
    <3> QED BY <2>1, <3>1, <3>2, <3>3
  <2>4. Selects(g, c, last_prefetch, start, cands, k + 1)
    BY <2>3 DEF Selects
  <2> QED BY <2>1, <2>4
<1>3. H = Nat
  <2> HIDE DEF Has
  <2>1. 0 \in H
    BY <1>1
  <2> QED BY <2>1, <1>2, Induction
<1> QED BY <1>3

LEMMA SelectedRange ==
    ASSUME NEW c, NEW row \in RowType, NEW addr \in Nat
    PROVE  LET sel == Selected(c, row, addr)
           IN /\ sel.prefetch \in Seq(Address) /\ Len(sel.prefetch) <= 3
              /\ sel.pref \in Nat /\ sel.overrun \in BOOLEAN
<1> DEFINE A == Aheads(row, addr)
           cands == Candidates(row, addr)
           n == Len(cands)
           start == [prefetch |-> <<>>, pref |-> row.pref, inFlight |-> {NODELTA},
                     overrun |-> Len(cands) > CAND_SIZE]
           f == CHOOSE f : Selects(f, c, row.pref, start, cands, n)
           H == {k \in Nat : k <= n => Selection(A, f[k])}
<1>1. Selected(c, row, addr) = f[n]
  BY DEF Selected, Selects
<1>2. A \in SUBSET Address /\ IsFiniteSet(A) /\ Cardinality(A) <= 3
  BY AheadsRange
<1>3. cands \in Seq(A)
  BY CandidatesRange
<1>4. n \in Nat /\ \A k \in 1 .. n : cands[k] \in A
  <2> HIDE DEF A, cands
  <2> QED BY <1>3
<1>5. Selects(f, c, row.pref, start, cands, n)
  <2> HIDE DEF cands, n, start
  <2>1. \E g : Selects(g, c, row.pref, start, cands, n)
    BY <1>4, SelectionsExist
  <2> QED BY <2>1
<1>6. Selection(A, start)
  <2>1. row.pref \in Nat
    BY DEF RowType
  <2>2. IsFiniteSet(A \ {NODELTA}) /\ Cardinality(A \ {NODELTA}) <= 3
        /\ Cardinality(A \ {NODELTA}) \in Nat
    <3>1. IsFiniteSet(A \ {NODELTA}) /\ Cardinality(A \ {NODELTA}) <= Cardinality(A)
      BY <1>2, FS_Subset
    <3>2. Cardinality(A \ {NODELTA}) \in Nat /\ Cardinality(A) \in Nat
      BY <1>2, <3>1, FS_CardinalityType
    <3> QED BY <1>2, <3>1, <3>2
  <2> HIDE DEF A, cands
  <2>3. /\ start.prefetch = <<>> /\ start.pref = row.pref
        /\ start.inFlight = {NODELTA} /\ start.overrun \in BOOLEAN
    OBVIOUS
  <2> HIDE DEF start
  <2>4. <<>> \in Seq(Address) /\ Len(<<>>) = 0
    OBVIOUS
  <2> QED BY <2>1, <2>2, <2>3, <2>4 DEF Selection
<1> HIDE DEF A, cands, n, start, f
<1>7. 0 \in H
  <2>1. f[0] = start
    BY <1>4, <1>5 DEF Selects
  <2> QED BY <1>6, <2>1
<1>8. ASSUME NEW k \in H PROVE k + 1 \in H
  <2>1. SUFFICES ASSUME k + 1 <= n PROVE Selection(A, f[k + 1])
    OBVIOUS
  <2>2. k \in Nat /\ Selection(A, f[k]) /\ cands[k + 1] \in A
    BY <1>4, <2>1
  <2>3. f[k + 1] = SelectCandidate(c, row.pref, f[k], cands[k + 1])
    <3>1. k + 1 \in 0 .. n /\ k + 1 # 0 /\ (k + 1) - 1 = k
      BY <1>4, <2>1, <2>2
    <3>2. f[k + 1] = SelectCandidate(c, row.pref, f[(k + 1) - 1], cands[k + 1])
      BY <1>5, <3>1 DEF Selects
    <3> QED BY <3>1, <3>2
  <2> DEFINE x == f[k]
             y == cands[k + 1]
             p == row.pref
  <2>4. Selection(A, x) /\ y \in A /\ f[k + 1] = SelectCandidate(c, p, x, y)
    BY <2>2, <2>3
  <2> HIDE DEF x, y, p
  <2> QED BY <1>2, <2>4, SelectCandidateKeeps
<1>9. H = Nat
  <2> HIDE DEF H
  <2>1. H \in SUBSET Nat
    BY DEF H
  <2> QED BY <1>7, <1>8, <2>1, Induction
<1>10. Selection(A, f[n])
  BY <1>4, <1>9
<1>11. Len(f[n].prefetch) <= 3
  <2>1. /\ IsFiniteSet(A \ f[n].inFlight)
    BY <1>2, FS_Difference
  <2>2. Cardinality(A \ f[n].inFlight) \in Nat
    BY <2>1, FS_CardinalityType
  <2>3. Len(f[n].prefetch) + Cardinality(A \ f[n].inFlight) <= 3
        /\ f[n].prefetch \in Seq(Address)
    BY <1>10 DEF Selection
  <2>4. Len(f[n].prefetch) \in Nat
    BY <2>3
  <2> QED BY <2>2, <2>3, <2>4
<1> QED BY <1>1, <1>10, <1>11 DEF Selection

(* The machines after each of n prefetches.                                 *)
Prefetched(f, m, addrs, n, rands) ==
    f = [j \in 0 .. n |-> IF j = 0 THEN m
                          ELSE Prefetch(f[j - 1], addrs[j], rands[j])]

LEMMA FetchesExist ==
    ASSUME NEW m, NEW addrs, NEW rands, NEW n \in Nat
    PROVE  \E f : Prefetched(f, m, addrs, n, rands)
<1> DEFINE Has(k) == \E f : Prefetched(f, m, addrs, k, rands)
           H == {k \in Nat : Has(k)}
<1>1. Has(0)
  <2> DEFINE f == [k \in 0 .. 0 |-> m]
  <2>1. f = [k \in 0 .. 0 |-> IF k = 0 THEN m
                              ELSE Prefetch(f[k - 1], addrs[k], rands[k])]
    OBVIOUS
  <2> QED BY <2>1 DEF Prefetched
<1>2. ASSUME NEW k \in H PROVE k + 1 \in H
  <2>1. k \in Nat /\ Has(k)
    OBVIOUS
  <2>2. PICK f : Prefetched(f, m, addrs, k, rands)
    BY <2>1
  <2> DEFINE g == [j \in 0 .. k + 1 |->
                     IF j = k + 1 THEN Prefetch(f[k], addrs[k + 1], rands[k + 1])
                     ELSE f[j]]
  <2>3. ASSUME NEW j \in 0 .. k + 1
        PROVE  g[j] = IF j = 0 THEN m ELSE Prefetch(g[j - 1], addrs[j], rands[j])
    <3>1. CASE j = 0
      BY <2>1, <2>2, <3>1 DEF Prefetched
    <3>2. CASE j \in 1 .. k
      <4>1. g[j] = f[j] /\ g[j - 1] = f[j - 1] /\ j \in 0 .. k /\ j # 0
        BY <2>1, <3>2
      <4>2. f[j] = Prefetch(f[j - 1], addrs[j], rands[j])
        BY <2>2, <4>1 DEF Prefetched
      <4> QED BY <4>1, <4>2
    <3>3. CASE j = k + 1
      <4>1. j # 0 /\ j - 1 = k /\ g[j - 1] = f[k]
        BY <2>1, <3>3
      <4> QED BY <3>3, <4>1
    <3> QED BY <2>1, <3>1, <3>2, <3>3
  <2>4. Prefetched(g, m, addrs, k + 1, rands)
    BY <2>3 DEF Prefetched
  <2> QED BY <2>1, <2>4
<1>3. H = Nat
  <2> HIDE DEF Has
  <2>1. 0 \in H
    BY <1>1
  <2> QED BY <2>1, <1>2, Induction
<1> QED BY <1>3

LEMMA FetchedFit ==
    ASSUME NEW w \in Workloads, NEW m, Fit(w, m), NEW addrs, NEW rands,
           NEW n \in Nat,
           \A k \in 1 .. n : addrs[k] \in Nat /\ rands[k] \in Ways(w.config)
    PROVE  Fetching(w, m, Fetched(m, addrs, n, rands), n)
<1> DEFINE f == CHOOSE f : Prefetched(f, m, addrs, n, rands)
           H == {k \in Nat : k <= n => Fetching(w, m, f[k], k)}
<1>1. Fetched(m, addrs, n, rands) = f[n]
  BY DEF Fetched, Prefetched
<1>2. Prefetched(f, m, addrs, n, rands)
  BY FetchesExist
<1> HIDE DEF f
<1>3. Fetches(m) \in Nat
  <2>1. m.stats \in StatsType
    BY MachineFields DEF Fit
  <2> QED BY <2>1, StatsFields DEF Fetches
<1>4. 0 \in H
  <2>1. f[0] = m
    BY <1>2 DEF Prefetched
  <2> QED BY <1>3, <2>1 DEF Fetching
<1>5. ASSUME NEW k \in H PROVE k + 1 \in H
  <2>1. SUFFICES ASSUME k + 1 <= n PROVE Fetching(w, m, f[k + 1], k + 1)
    OBVIOUS
  <2>2. /\ k \in Nat /\ Fetching(w, m, f[k], k)
        /\ addrs[k + 1] \in Nat /\ rands[k + 1] \in Ways(w.config)
    BY <2>1
  <2> DEFINE x == f[k]
             d == f[k + 1]
             a == addrs[k + 1]
             r == rands[k + 1]
  <2>3. d = Prefetch(x, a, r)
    <3>1. k + 1 \in 0 .. n /\ k + 1 # 0 /\ (k + 1) - 1 = k
      BY <2>1, <2>2
    <3>2. f[k + 1] = Prefetch(f[(k + 1) - 1], a, r)
      BY <1>2, <3>1 DEF Prefetched
    <3> QED BY <3>1, <3>2
  <2>4. Fetching(w, m, x, k) /\ a \in Nat /\ r \in Ways(w.config)
    BY <2>2
  <2> HIDE DEF x, d, a, r
  <2>5. Fit(w, x)
    BY <2>4 DEF Fetching
  <2>6. Leads(w, x, d, 0) \/ Leads(w, x, d, 1)
    BY <2>3, <2>4, <2>5, PrefetchFit
  <2>7. Fetching(w, x, d, 1)
    BY <2>5, <2>6, LeadsFetching
  <2>8. Fetches(x) \in Nat /\ Fetches(d) \in Nat
    <3>1. x.stats \in StatsType /\ d.stats \in StatsType
      BY <2>5, <2>7, MachineFields DEF Fit, Fetching
    <3> QED BY <3>1, StatsFields DEF Fetches
  <2>9. Fetching(w, m, d, k + 1)
    BY <1>3, <2>2, <2>4, <2>7, <2>8 DEF Fetching
  <2> QED BY <2>9 DEF d
<1>6. H = Nat
  <2> HIDE DEF H
  <2>1. H \in SUBSET Nat
    BY DEF H
  <2> QED BY <1>4, <1>5, <2>1, Induction
<1> QED BY <1>1, <1>6

LEMMA OpenEndedFit ==
    ASSUME NEW w \in Workloads, NEW m, Fit(w, m), NEW addr \in Nat,
           NEW PC \in Nat, NEW rands, w.prefetch_type = 2,
           \A k \in 0 .. 5 : rands[k] \in Ways(w.config)
    PROVE  LET d == open_ended_prefetcher(m, addr, PC, rands)
           IN Fit(w, d) /\ Fetches(d) <= Fetches(m) + 3
<1> DEFINE d == open_ended_prefetcher(m, addr, PC, rands)
           i == ((PC \div 4) % Len(m.DCPT)) + 1
           row == RowTrained(m.DCPT[i], PC \div 4, addr)
           sel == Selected(m.cp, row, addr)
           trained == [row EXCEPT !.pref = sel.pref]
           n == IF Len(sel.prefetch) < 5 THEN Len(sel.prefetch) ELSE 5
           rpt == m.RPT
           keep == m.overrun
           over == m.overrun \/ sel.overrun
           dcpt == [m.DCPT EXCEPT ![i] = row]
           dcpt2 == [m.DCPT EXCEPT ![i] = trained]
           addrs == sel.prefetch
<1>1. /\ m \in MachineType(w) /\ DcptRows(w) \in Nat \ {0}
      /\ rpt \in [1 .. RptRows(w) -> EntryType] /\ keep \in BOOLEAN
      /\ m.DCPT \in [1 .. DcptRows(w) -> RowType]
  BY MachineFields, AddrSpaceAssumption, RowsAssumption DEF Fit, DcptRows
<1>2. i \in 1 .. DcptRows(w) /\ PC \div 4 \in Nat
  <2>1. Len(m.DCPT) = DcptRows(w)
    BY <1>1, TableLength
  <2> QED BY <1>1, <2>1, IndexRange
<1>3. row \in RowType
  BY <1>1, <1>2, RowTrainedType
<1>4. /\ addrs \in Seq(Address) /\ Len(addrs) <= 3
      /\ sel.pref \in Nat /\ sel.overrun \in BOOLEAN
  <2> HIDE DEF row
  <2> QED BY <1>3, SelectedRange
<1>5. trained \in RowType
  <2> HIDE DEF row, sel
  <2> QED BY <1>3, <1>4 DEF RowType
<1>6. \/ d = WithTables(m, rpt, dcpt, keep)
      \/ d = Fetched(WithTables(m, rpt, dcpt2, over), addrs, n, rands)
  <2> HIDE DEF i, row, sel
  <2>1. /\ [m EXCEPT !.DCPT[i] = row] = WithTables(m, rpt, dcpt, keep)
        /\ [m EXCEPT !.DCPT[i] = trained, !.overrun = @ \/ sel.overrun]
             = WithTables(m, rpt, dcpt2, over)
    <3> HIDE DEF trained
    <3>1. m = [m EXCEPT !.RPT = m.RPT] /\ m = [m EXCEPT !.overrun = m.overrun]
      BY <1>1 DEF MachineType
    <3> QED BY <1>1 DEF WithTables, MachineType
  <2>2. \/ d = [m EXCEPT !.DCPT[i] = row]
        \/ d = Fetched([m EXCEPT !.DCPT[i] = trained, !.overrun = @ \/ sel.overrun],
                       addrs, n, rands)
    BY DEF open_ended_prefetcher, i, row, sel
  <2> QED BY <2>1, <2>2
<1>7. over \in BOOLEAN
  BY <1>1, <1>4
<1>8. n \in 0 .. 3 /\ \A k \in 1 .. n : addrs[k] \in Nat /\ rands[k] \in Ways(w.config)
  <2> HIDE DEF addrs
  <2>1. Len(addrs) \in Nat /\ \A k \in 1 .. Len(addrs) : addrs[k] \in Address
    BY <1>4
  <2>2. n = Len(addrs)
    BY <1>4, <2>1 DEF addrs
  <2> HIDE DEF n
  <2>3. n \in 0 .. 3
    BY <1>4, <2>1, <2>2
  <2>4. \A k \in 1 .. n : k \in 1 .. Len(addrs) /\ k \in 0 .. 5
    BY <2>1, <2>2, <2>3
  <2>5. Address \subseteq Nat
    BY AddrSpaceAssumption DEF Address
  <2> QED BY <2>1, <2>3, <2>4, <2>5
<1> HIDE DEF d, i, row, sel, trained, n, addrs
<1>9. /\ dcpt \in [1 .. DcptRows(w) -> RowType]
      /\ dcpt2 \in [1 .. DcptRows(w) -> RowType]
  BY <1>1, <1>2, <1>3, <1>5
<1>10. Fetches(m) \in Nat
  BY <1>1, MachineFields, StatsFields DEF Fetches
<1> HIDE DEF rpt, keep, over, dcpt, dcpt2
<1>11. CASE d = WithTables(m, rpt, dcpt, keep)
  BY <1>1, <1>9, <1>10, <1>11, TablesFit DEF d
<1>12. CASE d = Fetched(WithTables(m, rpt, dcpt2, over), addrs, n, rands)
  <2> DEFINE x == WithTables(m, rpt, dcpt2, over)
  <2>1. Fit(w, x) /\ Fetches(x) = Fetches(m)
    BY <1>1, <1>7, <1>9, TablesFit
  <2> HIDE DEF x
  <2>2. n \in Nat
    BY <1>8
  <2>3. Fetching(w, x, Fetched(x, addrs, n, rands), n)
    BY <1>8, <2>1, <2>2, FetchedFit
  <2>4. d = Fetched(x, addrs, n, rands)
    BY <1>12 DEF x
  <2>5. Fit(w, d) /\ Fetches(d) <= Fetches(m) + n
    BY <2>1, <2>3, <2>4 DEF Fetching
  <2>6. Fetches(d) \in Nat
    BY <2>5, MachineFields, StatsFields DEF Fetches, Fit
  <2>7. Fetches(d) <= Fetches(m) + 3
    BY <1>8, <1>10, <2>5, <2>6
  <2> QED BY <2>5, <2>7 DEF d
<1> QED BY <1>6, <1>11, <1>12

-----------------------------------------------------------------------------
(* A demand access.                                                         *)

Limit(type) == CASE type = 0 -> 0
                 [] type = 2 -> PREFETCH_SIZE + 1
                 [] OTHER -> 1

(* What a prefetcher makes of a machine.                                    *)
Generates(w, m, d, addr, PC) ==
    /\ Fit(w, d) /\ Fetches(d) <= Fetches(m) + Limit(w.prefetch_type)
    /\ w.prefetch_type > 2 =>
         LET i == RptIndex(m, PC)
         IN d.RPT = [m.RPT EXCEPT ![i] = StrideTrained(m.RPT[i], PC \div 4, addr)]
    /\ w.prefetch_type # 2 => d.overrun = m.overrun

LEMMA GenerateFit ==
    ASSUME NEW w \in Workloads, NEW m, Fit(w, m), NEW addr \in Nat,
           NEW PC \in Nat, NEW rands,
           \A k \in 0 .. 5 : rands[k] \in Ways(w.config)
    PROVE  Generates(w, m, generate_prefetch(m, w.prefetch_type, addr, PC, rands),
                     addr, PC)
<1> DEFINE d == generate_prefetch(m, w.prefetch_type, addr, PC, rands)
           r == rands[1]
<1>1. r \in Ways(w.config) /\ w.prefetch_type \in Nat
  BY WorkloadFields
<1>2. Fetches(m) \in Nat
  BY MachineFields, StatsFields DEF Fetches, Fit
<1>3. CASE w.prefetch_type = 0
  <2>1. d = m
    BY <1>3 DEF generate_prefetch
  <2>2. Generates(w, m, m, addr, PC)
    BY <1>2, <1>3 DEF Generates, Limit
  <2> QED BY <2>1, <2>2
<1>4. CASE w.prefetch_type = 1
  <2>1. d = next_line_prefetcher(m, addr, r)
    BY <1>4 DEF generate_prefetch
  <2> HIDE DEF d, r
  <2>2. Fetching(w, m, d, 1)
    BY <1>1, <2>1, NextLineFit
  <2>3. Generates(w, m, d, addr, PC)
    BY <1>4, <2>2 DEF Fetching, Generates, Limit
  <2> QED BY <2>3 DEF d
<1>5. CASE w.prefetch_type = 2
  <2>1. d = open_ended_prefetcher(m, addr, PC, rands)
    BY <1>5 DEF generate_prefetch
  <2>2. Fit(w, d) /\ Fetches(d) <= Fetches(m) + 3
    BY <1>5, <2>1, OpenEndedFit
  <2> HIDE DEF d
  <2>3. Limit(w.prefetch_type) = 3
    BY <1>5 DEF Limit, PREFETCH_SIZE, DELTAS
  <2>4. Generates(w, m, d, addr, PC)
    BY <1>5, <2>2, <2>3 DEF Generates
  <2> QED BY <2>4 DEF d
<1>6. CASE w.prefetch_type > 2
  <2> DEFINE i == RptIndex(m, PC)
             after == StrideAfter(m, addr, PC)
  <2>1. d = stride_prefetcher(m, addr, PC, r)
    BY <1>1, <1>6 DEF generate_prefetch
  <2>2. /\ Fit(w, after) /\ Fetches(after) = Fetches(m)
        /\ after.RPT = [m.RPT EXCEPT ![i] = StrideTrained(m.RPT[i], PC \div 4, addr)]
        /\ after.overrun = m.overrun
        /\ \/ stride_prefetcher(m, addr, PC, r) = after
           \/ \E a \in Nat : stride_prefetcher(m, addr, PC, r)
                               = PrefetchUnlessCached(after, a, r)
    <3> HIDE DEF r
    <3>1. StrideAs(w, m, addr, PC, r, stride_prefetcher(m, addr, PC, r))
      BY <1>1, <1>6, StrideFit
    <3> QED BY <3>1 DEF StrideAs
  <2> HIDE DEF d, r, after
  <2>3. Fetching(w, after, d, 1)
    <3>1. CASE d = after
      BY <2>2, <3>1, LeadsNowhere, LeadsFetching
    <3>2. ASSUME NEW a \in Nat, d = PrefetchUnlessCached(after, a, r)
          PROVE  Fetching(w, after, d, 1)
      BY <1>1, <2>2, <3>2, PrefetchUnlessCachedFit, LeadsFetching
    <3> QED BY <2>1, <2>2, <3>1, <3>2
  <2>4. Limit(w.prefetch_type) = 1
    BY <1>1, <1>6 DEF Limit
  <2>5. Generates(w, m, d, addr, PC)
    BY <1>6, <2>2, <2>3, <2>4 DEF Fetching, Generates
  <2> QED BY <2>5 DEF d
<1> QED BY <1>1, <1>3, <1>4, <1>5, <1>6

(* The block at the head of a list is spared by a prefetch, where it is not *)
(* also the end of its list.                                                *)
Spares(m, d, s, v) ==
    /\ VALID \in d.cp.status[s][v]
    /\ d.cp.tag[s][v] = m.cp.tag[s][v]
    /\ d.ready[s][v] = m.ready[s][v]

Spared(w, m, s, v) ==
    /\ s \in Sets(w.config) /\ v \in Ways(w.config)
    /\ VALID \in m.cp.status[s][v]
    /\ w.config.policy = "LRU" /\ w.config.assoc > 1 /\ m.cp.way[s][v] = 0

LEMMA AccessSpares ==
    ASSUME NEW w \in Workloads, NEW m, Fit(w, m), ~m.cp.crashed,
           NEW cmd, NEW addr \in Nat, NEW now \in Int, NEW prefetch \in {0, 1},
           NEW rand \in Ways(w.config), NEW s, NEW v, Spared(w, m, s, v)
    PROVE  Spares(m, AccessTimed(m, cmd, addr, now, prefetch, rand), s, v)
<1> DEFINE d == AccessTimed(m, cmd, addr, now, prefetch, rand)
<1>1. /\ s \in Sets(w.config) /\ v \in Ways(w.config)
      /\ w.config \in Configs /\ m.cp \in CacheType(w.config)
      /\ VALID \in m.cp.status[s][v]
  BY WorkloadFields, MachineFields DEF Fit, Spared
<1>2. /\ m.cp.policy = "LRU" /\ m.cp.assoc = w.config.assoc
      /\ m.cp.assoc \in Nat /\ m.cp.assoc > 1
  BY <1>1, CacheFields DEF Spared
<1>3. CASE Miss(m.cp, addr)
  <2> DEFINE t == CACHE_SET(m.cp, addr)
             repl == Replaced(m.cp, addr, rand)
             back == WrittenBack(m.cp, addr, rand)
  <2>1. d = MissTimed(m, cmd, addr, now, prefetch, rand)
    BY <1>3 DEF AccessTimed
  <2>0. MissTimedAs(w, m, d, cmd, addr, prefetch, rand)
    BY <1>3, <2>1, MissTimedFit
  <2>2. /\ MissAs(w.config, m.cp, d.cp, cmd, addr, back, t, repl)
        /\ \A y \in Sets(w.config), x \in Ways(w.config) :
             <<y, x>> # <<t, repl>> => d.ready[y][x] = m.ready[y][x]
    BY <2>0 DEF MissTimedAs
  <2> HIDE DEF d, t, repl, back
  <2>3. m.cp.way[t][repl] = m.cp.assoc - 1
    BY <1>2, <2>2 DEF MissAs
  <2>4. <<s, v>> # <<t, repl>>
    BY <1>2, <2>3 DEF Spared
  <2>5. Spares(m, d, s, v)
    BY <1>1, <2>2, <2>4 DEF MissAs, Spares
  <2> QED BY <2>5 DEF d
<1>4. CASE ~Miss(m.cp, addr)
  <2>1. d = HitTimed(m, cmd, addr, now, prefetch)
    BY <1>4 DEF AccessTimed
  <2>2. /\ HitAs(w.config, m.cp, d.cp, cmd, addr, HitBlk(m.cp, addr))
        /\ d.ready = m.ready
    BY <1>4, <2>1, HitTimedFit
  <2> HIDE DEF d
  <2> DEFINE sv == <<s, v>>
  <2>3. sv[1] = s /\ sv[2] = v /\ sv \in Sets(w.config) \X Ways(w.config)
    BY <1>1
  <2> HIDE DEF sv
  <2>4. sv \in ValidWays(m.cp)
    BY <1>1, <2>3, ValidWaysMeans
  <2>5. d.cp \in CacheType(w.config) /\ ValidWays(d.cp) = ValidWays(m.cp)
        /\ d.cp.tag = m.cp.tag
    BY <2>2 DEF HitAs, Sound
  <2>6. VALID \in d.cp.status[s][v]
    BY <1>1, <2>3, <2>4, <2>5, ValidWaysMeans
  <2>7. Spares(m, d, s, v)
    BY <2>2, <2>5, <2>6 DEF Spares
  <2> QED BY <2>7 DEF d
<1> QED BY <1>3, <1>4

LEMMA PrefetchSpares ==
    ASSUME NEW w \in Workloads, NEW m, Fit(w, m), NEW addr \in Nat,
           NEW rand \in Ways(w.config), NEW s, NEW v, Spared(w, m, s, v)
    PROVE  Spares(m, PrefetchUnlessCached(m, addr, rand), s, v)
<1>1. Spares(m, m, s, v)
  BY DEF Spares, Spared
<1>2. CASE m.cp.crashed \/ cache_probe(m.cp, CACHE_BADDR(m.cp, addr))
  <2>1. PrefetchUnlessCached(m, addr, rand) = m
    BY <1>2 DEF PrefetchUnlessCached, Prefetch
  <2> QED BY <1>1, <2>1
<1>3. CASE ~(m.cp.crashed \/ cache_probe(m.cp, CACHE_BADDR(m.cp, addr)))
  <2> DEFINE b == CACHE_BADDR(m.cp, addr)
             one == 1
             zero == 0
  <2>0. m.cp \in CacheType(w.config) /\ w.config \in Configs
    BY WorkloadFields, MachineFields DEF Fit
  <2>1. b \in Nat /\ one \in {0, 1} /\ zero \in Int
    BY <2>0, Located
  <2>2. PrefetchUnlessCached(m, addr, rand)
          = AccessTimed(m, "Read", b, zero, one, rand)
    BY <1>3 DEF PrefetchUnlessCached, Prefetch
  <2> HIDE DEF b, one, zero
  <2>3. Spares(m, AccessTimed(m, "Read", b, zero, one, rand), s, v)
    BY <1>3, <2>1, AccessSpares
  <2> QED BY <2>2, <2>3
<1> QED BY <1>2, <1>3

LEMMA GenerateSpares ==
    ASSUME NEW w \in Workloads, NEW m, Fit(w, m), NEW addr \in Nat,
           NEW PC \in Nat, NEW rands,
           \A k \in 0 .. 5 : rands[k] \in Ways(w.config),
           NEW s, NEW v, Spared(w, m, s, v), w.prefetch_type # 2
    PROVE  Spares(m, generate_prefetch(m, w.prefetch_type, addr, PC, rands), s, v)
<1> DEFINE d == generate_prefetch(m, w.prefetch_type, addr, PC, rands)
           r == rands[1]
<1>1. r \in Ways(w.config) /\ w.prefetch_type \in Nat
  BY WorkloadFields
<1>2. CASE w.prefetch_type = 0
  <2>1. d = m
    BY <1>2 DEF generate_prefetch
  <2> QED BY <2>1 DEF Spares, Spared
<1>3. CASE w.prefetch_type = 1
  <2> DEFINE a == (addr + m.cp.bsize) % AddrSpace
  <2>1. d = PrefetchUnlessCached(m, a, r)
    BY <1>3 DEF generate_prefetch, next_line_prefetcher
  <2>2. m.cp.bsize \in Nat
    BY WorkloadFields, MachineFields, CacheFields DEF Fit
  <2>3. a \in Nat
    BY <2>2, AddrSpaceAssumption
  <2> HIDE DEF a, r
  <2> QED BY <1>1, <2>1, <2>3, PrefetchSpares
<1>4. CASE w.prefetch_type > 2
  <2> DEFINE after == StrideAfter(m, addr, PC)
  <2>1. d = stride_prefetcher(m, addr, PC, r)
    BY <1>1, <1>4 DEF generate_prefetch
  <2> HIDE DEF r, d
  <2>2. StrideAs(w, m, addr, PC, r, stride_prefetcher(m, addr, PC, r))
    BY <1>1, <1>4, StrideFit
  <2>3. /\ Fit(w, after) /\ after.cp = m.cp /\ after.ready = m.ready
        /\ \/ d = after
           \/ \E a \in Nat : d = PrefetchUnlessCached(after, a, r)
    BY <2>1, <2>2 DEF StrideAs
  <2> HIDE DEF after
  <2>4. Spared(w, after, s, v)
    BY <2>3 DEF Spared
  <2>5. Spares(after, d, s, v)
    <3>1. CASE d = after
      BY <2>4, <3>1 DEF Spares, Spared
    <3>2. ASSUME NEW a \in Nat, d = PrefetchUnlessCached(after, a, r)
          PROVE  Spares(after, d, s, v)
      BY <1>1, <2>3, <2>4, <3>2, PrefetchSpares
    <3> QED BY <2>3, <3>1, <3>2
  <2>6. Spares(m, d, s, v)
    BY <2>3, <2>5 DEF Spares
  <2> QED BY <2>6 DEF d
<1> QED BY <1>1, <1>2, <1>3, <1>4

(* What a demand access makes of a machine.                                 *)
Demanded(w, m, d, addr, PC) ==
    /\ Fit(w, d) /\ Fetches(d) <= Fetches(m) + Limit(w.prefetch_type)
    /\ w.prefetch_type > 2 /\ ~d.cp.crashed =>
         LET i == RptIndex(m, PC)
         IN d.RPT = [m.RPT EXCEPT ![i] = StrideTrained(m.RPT[i], PC \div 4, addr)]
    /\ /\ w.prefetch_type # 2 /\ w.config.policy = "LRU" /\ w.config.assoc > 1
       /\ ~d.cp.crashed
       => cache_probe(d.cp, addr) /\ d.lat = d.first_lat

(* The block of a demand access, once it is there.                          *)
LEMMA DemandBlock ==
    ASSUME NEW w \in Workloads, NEW m, Fit(w, m), ~m.cp.crashed,
           NEW cmd, NEW addr \in Nat, NEW now \in Int,
           NEW rand \in Ways(w.config), NEW d,
           d = AccessTimed(m, cmd, addr, now, 0, rand), ~d.cp.crashed
    PROVE  /\ Leads(w, m, d, 0)
           /\ \E s, v : /\ AtHead(d.cp, addr, s, v)
                        /\ ~Miss(m.cp, addr) =>
                             /\ HitBlk(m.cp, addr)[1] = s /\ HitBlk(m.cp, addr)[2] = v
                             /\ d.lat = Bigger(HIT_LATENCY, d.ready[s][v] - now)
<1> DEFINE zero == 0
           blk == HitBlk(m.cp, addr)
<1>1. d = AccessTimed(m, cmd, addr, now, zero, rand) /\ zero \in {0, 1}
  OBVIOUS
<1>2. Leads(w, m, d, 0)
  <2> HIDE DEF zero
  <2>1. Leads(w, m, d, zero)
    BY <1>1, AccessTimedFit
  <2> QED BY <2>1 DEF zero
<1> HIDE DEF zero
<1>3. CASE Miss(m.cp, addr)
  <2>1. d = MissTimed(m, cmd, addr, now, zero, rand)
    BY <1>1, <1>3 DEF AccessTimed
  <2>2. MissTimedAs(w, m, d, cmd, addr, zero, rand)
    BY <1>1, <1>3, <2>1, MissTimedFit
  <2>3. AtHead(d.cp, addr, CACHE_SET(m.cp, addr), Replaced(m.cp, addr, rand))
    BY <2>2 DEF MissTimedAs, MissAs
  <2> QED BY <1>2, <1>3, <2>3
<1>4. CASE ~Miss(m.cp, addr)
  <2>1. d = HitTimed(m, cmd, addr, now, zero)
    BY <1>1, <1>4 DEF AccessTimed
  <2>2. /\ HitAs(w.config, m.cp, d.cp, cmd, addr, blk)
        /\ d.ready = m.ready
        /\ d.lat = Bigger(HIT_LATENCY, m.ready[blk[1]][blk[2]] - now)
    BY <1>1, <1>4, <2>1, HitTimedFit
  <2>3. AtHead(d.cp, addr, blk[1], blk[2])
    BY <2>2 DEF HitAs
  <2> QED BY <1>2, <2>2, <2>3
<1> QED BY <1>3, <1>4

(* The latencies that a demand access returns.                              *)
Stamped(m, first_lat, lat) == [m EXCEPT !.first_lat = first_lat, !.lat = lat]

LEMMA StampedFit ==
    ASSUME NEW w \in Workloads, NEW m, Fit(w, m),
           NEW first_lat \in Int, NEW lat \in Int
    PROVE  LET d == Stamped(m, first_lat, lat)
           IN /\ Fit(w, d) /\ Fetches(d) = Fetches(m)
              /\ d.cp = m.cp /\ d.RPT = m.RPT
              /\ d.lat = lat /\ d.first_lat = first_lat
<1> DEFINE d == Stamped(m, first_lat, lat)
<1>1. m \in MachineType(w)
  BY DEF Fit
<1>2. /\ d.cp = m.cp /\ d.stats = m.stats /\ d.unwritten = m.unwritten
      /\ d.RPT = m.RPT /\ d.lat = lat /\ d.first_lat = first_lat
      /\ d \in MachineType(w)
  BY <1>1 DEF MachineType, Stamped
<1> HIDE DEF d
<1>3. Fit(w, d) /\ Fetches(d) = Fetches(m)
  BY <1>2 DEF Fit, Fetches
<1> QED BY <1>2, <1>3 DEF d

LEMMA LimitRange == ASSUME NEW type PROVE Limit(type) \in Nat
BY DEF Limit, PREFETCH_SIZE, DELTAS

LEMMA DemandFit ==
    ASSUME NEW w \in Workloads, NEW m, Fit(w, m), ~m.cp.crashed,
           NEW cmd, NEW addr \in Nat, NEW PC \in Nat, NEW now \in Int, NEW rands,
           \A k \in 0 .. 5 : rands[k] \in Ways(w.config)
    PROVE  Demanded(w, m, DemandAccess(m, w.prefetch_type, cmd, addr, PC, now, rands),
                    addr, PC)
<1> DEFINE r == rands[0]
           x == AccessTimed(m, cmd, addr, now, 0, r)
           g == generate_prefetch(x, w.prefetch_type, addr, PC, rands)
           blk == HitBlk(m.cp, addr)
           lat == IF Miss(m.cp, addr) THEN x.lat
                  ELSE Bigger(HIT_LATENCY, g.ready[blk[1]][blk[2]] - now)
           d == DemandAccess(m, w.prefetch_type, cmd, addr, PC, now, rands)
<1>1. r \in Ways(w.config)
  OBVIOUS
<1>2. Fetches(m) \in Nat /\ w.config \in Configs
  BY WorkloadFields, MachineFields, StatsFields DEF Fetches, Fit
<1>3. d = IF x.cp.crashed THEN x ELSE Stamped(g, x.lat, lat)
  BY DEF DemandAccess, Stamped
<1>4. CASE x.cp.crashed
  <2> DEFINE zero == 0
  <2>1. zero \in {0, 1} /\ x = AccessTimed(m, cmd, addr, now, zero, r)
    OBVIOUS
  <2> HIDE DEF zero, x, r, d
  <2>2. Leads(w, m, x, zero)
    BY <1>1, <2>1, AccessTimedFit
  <2>3. Fit(w, x) /\ Fetches(x) = Fetches(m)
    BY <1>2, <2>2 DEF Leads, zero
  <2>4. Demanded(w, m, x, addr, PC)
    BY <1>2, <1>4, <2>3, LimitRange DEF Demanded
  <2> QED BY <1>3, <1>4, <2>4 DEF d
<1>5. CASE ~x.cp.crashed
  <2>1. /\ Leads(w, m, x, 0)
        /\ \E s, v : /\ AtHead(x.cp, addr, s, v)
                     /\ ~Miss(m.cp, addr) =>
                          /\ blk[1] = s /\ blk[2] = v
                          /\ x.lat = Bigger(HIT_LATENCY, x.ready[s][v] - now)
    <3> DEFINE y == x
    <3>1. y = AccessTimed(m, cmd, addr, now, 0, r) /\ ~y.cp.crashed
      BY <1>5
    <3> HIDE DEF y, r, blk
    <3>2. /\ Leads(w, m, y, 0)
          /\ \E s, v : /\ AtHead(y.cp, addr, s, v)
                       /\ ~Miss(m.cp, addr) =>
                            /\ HitBlk(m.cp, addr)[1] = s /\ HitBlk(m.cp, addr)[2] = v
                            /\ y.lat = Bigger(HIT_LATENCY, y.ready[s][v] - now)
      BY <1>1, <3>1, DemandBlock
    <3> QED BY <3>2 DEF y, blk
  <2>2. PICK s, v :
          /\ AtHead(x.cp, addr, s, v)
          /\ ~Miss(m.cp, addr) =>
               /\ blk[1] = s /\ blk[2] = v
               /\ x.lat = Bigger(HIT_LATENCY, x.ready[s][v] - now)
    BY <2>1
  <2> HIDE DEF x, blk
  <2>3. /\ Fit(w, x) /\ Fetches(x) = Fetches(m)
        /\ x.RPT = m.RPT
    BY <1>2, <2>1 DEF Leads
  <2>4. Generates(w, x, g, addr, PC)
    BY <2>3, GenerateFit
  <2>5. Fit(w, g) /\ Fetches(g) <= Fetches(m) + Limit(w.prefetch_type)
    BY <2>3, <2>4 DEF Generates
  <2>6. s \in Sets(w.config) /\ v \in Ways(w.config)
    BY <1>2, <2>2, <2>3, MachineFields, CacheFields DEF AtHead, In, Fit
  <2>7. g.ready[s][v] \in Int /\ x.lat \in Int
    <3>1. g \in MachineType(w) /\ x \in MachineType(w)
      BY <2>3, <2>5 DEF Fit
    <3> HIDE DEF g
    <3>2. g.ready \in [Sets(w.config) -> [Ways(w.config) -> Int]] /\ x.lat \in Int
      BY <3>1, MachineFields
    <3> QED BY <2>6, <3>2
  <2>8. lat \in Int
    BY <2>2, <2>7 DEF Bigger, HIT_LATENCY
  <2> HIDE DEF lat, g
  <2>9. d = Stamped(g, x.lat, lat)
    BY <1>3, <1>5
  <2> HIDE DEF d
  <2>10. /\ Fit(w, d) /\ Fetches(d) = Fetches(g)
         /\ d.cp = g.cp /\ d.RPT = g.RPT
         /\ d.lat = lat /\ d.first_lat = x.lat
    <3> DEFINE xl == x.lat
    <3>1. xl \in Int /\ d = Stamped(g, xl, lat)
      BY <2>7, <2>9
    <3> HIDE DEF xl
    <3>2. /\ Fit(w, d) /\ Fetches(d) = Fetches(g)
          /\ d.cp = g.cp /\ d.RPT = g.RPT
          /\ d.lat = lat /\ d.first_lat = xl
      BY <2>5, <2>8, <3>1, StampedFit
    <3> QED BY <3>2 DEF xl
  <2>11. w.prefetch_type > 2 =>
           LET i == RptIndex(m, PC)
           IN d.RPT = [m.RPT EXCEPT ![i] = StrideTrained(m.RPT[i], PC \div 4, addr)]
    BY <2>3, <2>4, <2>10 DEF Generates, RptIndex
  <2>12. ASSUME w.prefetch_type # 2, w.config.policy = "LRU", w.config.assoc > 1
         PROVE  cache_probe(d.cp, addr) /\ d.lat = d.first_lat
    <3>1. /\ x.cp \in CacheType(w.config) /\ g.cp \in CacheType(w.config)
          /\ Sound(w.config, g.cp)
      BY <2>3, <2>5, MachineFields DEF Fit
    <3>2. /\ x.cp.policy = "LRU"
          /\ g.cp.nsets = x.cp.nsets /\ g.cp.bsize = x.cp.bsize
      BY <1>2, <2>12, <3>1, CacheFields
    <3>3. Spared(w, x, s, v)
      BY <2>2, <2>6, <2>12, <3>2 DEF Spared, AtHead, In
    <3>4. Spares(x, g, s, v)
      BY <2>3, <2>12, <3>3, GenerateSpares DEF g
    <3>5. CACHE_SET(g.cp, addr) = s /\ CACHE_TAG(g.cp, addr) = x.cp.tag[s][v]
      BY <2>2, <3>2 DEF AtHead, In, CACHE_SET, CACHE_TAG
    <3>6. v \in Found(g.cp, addr)
      BY <1>2, <2>6, <3>1, <3>4, <3>5, FoundMeans DEF Spares
    <3>7. lat = x.lat
      BY <2>2, <3>4 DEF lat, Spares
    <3> QED BY <2>10, <3>6, <3>7 DEF cache_probe
  <2>13. Demanded(w, m, d, addr, PC)
    BY <2>5, <2>10, <2>11, <2>12 DEF Demanded
  <2> QED BY <2>13 DEF d
<1> QED BY <1>4, <1>5

-----------------------------------------------------------------------------
(* The flushes.                                                             *)
LEMMA DirtyCount ==
    ASSUME NEW config \in Configs, NEW c \in CacheType(config)
    PROVE  /\ Cardinality(DirtyBlocks(c)) \in Nat
           /\ Cardinality(DirtyBlocks(c)) <= Cardinality(ValidWays(c))
<1> DEFINE D == {sw \in SetIdx(c) \X Way(c) :
                   {VALID, DIRTY} \subseteq c.status[sw[1]][sw[2]]}
           f == [sw \in D |-> CACHE_MK_BADDR(c, c.tag[sw[1]][sw[2]], sw[1])]
<1>1. IsFiniteSet(ValidWays(c)) /\ Cardinality(ValidWays(c)) \in Nat
  BY ValidWaysMeans
<1>2. D \in SUBSET ValidWays(c)
  BY DEF ValidWays
<1>3. f \in Surjection(D, DirtyBlocks(c))
  BY DEF DirtyBlocks, Surjection
<1> HIDE DEF D, f
<1>4. IsFiniteSet(D) /\ Cardinality(D) <= Cardinality(ValidWays(c))
  BY <1>1, <1>2, FS_Subset
<1>5. Cardinality(D) \in Nat
  BY <1>4, FS_CardinalityType
<1>6. /\ IsFiniteSet(DirtyBlocks(c))
      /\ Cardinality(DirtyBlocks(c)) <= Cardinality(D)
  BY <1>3, <1>4, FS_Surjection
<1>7. Cardinality(DirtyBlocks(c)) \in Nat
  BY <1>6, FS_CardinalityType
<1> QED BY <1>1, <1>4, <1>5, <1>6, <1>7

(* A flush takes n blocks out of the cache and passes on those of back.     *)
TakesOut(config, c, d, n, back) ==
    /\ Sound(config, d) /\ d.crashed = c.crashed
    /\ DirtyBlocks(d) = DirtyBlocks(c) \ back
    /\ n \in Nat /\ Cardinality(ValidWays(d)) = Cardinality(ValidWays(c)) - n
    /\ Cardinality(back) \in Nat /\ Cardinality(back) <= n

LEMMA FlushTakesOut ==
    ASSUME NEW config \in Configs, NEW c, Sound(config, c)
    PROVE  TakesOut(config, c, cache_flush(c), Cardinality(ValidWays(c)),
                    DirtyBlocks(c))
<1> DEFINE d == cache_flush(c)
<1>1. Sound(config, d) /\ DirtyBlocks(d) = {}
  BY FlushSound
<1>2. c \in CacheType(config) /\ d \in CacheType(config)
  BY <1>1 DEF Sound
<1>3. /\ d.crashed = c.crashed
      /\ d.status = [s \in SetIdx(c) |-> [w \in Way(c) |-> c.status[s][w] \ {VALID}]]
  BY <1>2 DEF cache_flush, CacheType
<1>4. \A s \in Sets(config), w \in Ways(config) : VALID \notin d.status[s][w]
  BY <1>2, <1>3, CacheFields
<1> HIDE DEF d
<1>5. ValidWays(d) = {}
  BY <1>2, <1>4, ValidWaysMeans
<1>6. Cardinality(ValidWays(c)) \in Nat
  BY <1>2, ValidWaysMeans
<1>7. Cardinality({}) = 0
  BY FS_EmptySet
<1>8. TakesOut(config, c, d, Cardinality(ValidWays(c)), DirtyBlocks(c))
  BY <1>1, <1>2, <1>3, <1>5, <1>6, <1>7, DirtyCount DEF TakesOut
<1> QED BY <1>8 DEF d

LEMMA FlushAddrTakesOut ==
    ASSUME NEW config \in Configs, NEW c, Sound(config, c), NEW addr \in Nat
    PROVE  TakesOut(config, c, cache_flush_addr(c, addr),
                    IF Found(c, addr) = {} THEN 0 ELSE 1, FlushedAddr(c, addr))
<1> DEFINE d == cache_flush_addr(c, addr)
           back == FlushedAddr(c, addr)
<1>1. Sound(config, d) /\ DirtyBlocks(d) = DirtyBlocks(c) \ back
  BY FlushAddrSound
<1>2. c \in CacheType(config) /\ d \in CacheType(config)
  BY <1>1 DEF Sound
<1>3. /\ IsFiniteSet(ValidWays(c)) /\ Cardinality(ValidWays(c)) \in Nat
  BY <1>2, ValidWaysMeans
<1>4. d.crashed = c.crashed
  BY <1>2 DEF cache_flush_addr, CacheType
<1>5. CASE Found(c, addr) = {}
  <2>1. d = c /\ back = {}
    BY <1>5 DEF cache_flush_addr, FlushedAddr
  <2>2. Cardinality({}) = 0
    BY FS_EmptySet
  <2> QED BY <1>1, <1>3, <1>5, <2>1, <2>2 DEF TakesOut
<1>6. CASE Found(c, addr) # {}
  <2> DEFINE s == CACHE_SET(c, addr)
             w == CHOOSE w \in Found(c, addr) : TRUE
             tag == c.tag[s][w]
             status == c.status[s][w] \ {VALID}
             way == MoveToTail(c.way[s], w)
             hash == c.hash[s]
             sw == <<s, w>>
             zero == 0
             null == NULL
  <2>1. /\ Changed(config, c, d, s, w, tag, status, way, hash, zero, null)
        /\ back = Held(c, s, c.tag[s][w], c.status[s][w])
    BY <1>6, FlushAddrFields
  <2>2. /\ s \in Sets(config) /\ w \in Ways(config)
        /\ VALID \in c.status[s][w]
    BY <1>2, <1>6, HitBlock, Located
  <2>3. VALID \notin status
    OBVIOUS
  <2> HIDE DEF d, back, s, w, tag, status, way, hash, zero, null
  <2>4. sw[1] = s /\ sw[2] = w /\ sw \in Sets(config) \X Ways(config)
    BY <2>2
  <2>5. ValidWays(d) = ValidWays(c) \ {<<s, w>>}
    <3>1. /\ d.status[s][w] = status /\ d.way[s] = way
          /\ ValidWays(d) = IF VALID \in status THEN ValidWays(c) \cup {<<s, w>>}
                                               ELSE ValidWays(c) \ {<<s, w>>}
      <4> HIDE DEF sw
      <4>1. Changed(config, c, d, s, w, tag, status, way, hash, zero, null)
        BY <2>1
      <4> QED BY <2>2, <4>1, ChangedAt
    <3> QED BY <2>3, <3>1
  <2>6. sw \in ValidWays(c)
    <3> HIDE DEF sw
    <3> QED BY <1>2, <2>2, <2>4, ValidWaysMeans
  <2>7. Cardinality(ValidWays(d)) = Cardinality(ValidWays(c)) - 1
    <3>1. ValidWays(d) = ValidWays(c) \ {sw}
      BY <2>5
    <3> HIDE DEF sw
    <3> QED BY <1>3, <2>6, <3>1, FS_RemoveElement
  <2>8. Cardinality(back) \in Nat /\ Cardinality(back) <= 1
    BY <2>1, HeldCount
  <2>9. TakesOut(config, c, d, 1, back)
    BY <1>1, <1>4, <2>7, <2>8 DEF TakesOut, d, back
  <2> QED BY <1>6, <2>9 DEF d, back
<1> QED BY <1>5, <1>6

Uncounted(st, n, back) ==
    [st EXCEPT !.invalidations = @ + n, !.writebacks = @ + Cardinality(back)]
Empties(m, c, n, back, d) ==
    d = [cp |-> c, ready |-> m.ready, bus_free |-> m.bus_free,
         stats |-> Uncounted(m.stats, n, back), unwritten |-> m.unwritten \ back,
         RPT |-> m.RPT, DCPT |-> m.DCPT,
         overrun |-> FALSE, lat |-> 0, first_lat |-> 0]

LEMMA EmptiedFit ==
    ASSUME NEW w \in Workloads, NEW m, Fit(w, m), NEW c, NEW n, NEW back,
           TakesOut(w.config, m.cp, c, n, back), NEW d, Empties(m, c, n, back, d)
    PROVE  Fit(w, d) /\ Fetches(d) = Fetches(m)
<1> DEFINE un == m.unwritten \ back
           st == Uncounted(m.stats, n, back)
           i == m.stats.invalidations + n
           k == m.stats.writebacks + Cardinality(back)
<1>1. /\ m \in MachineType(w) /\ m.stats \in StatsType /\ m.unwritten \in SUBSET Nat
      /\ w.config \in Configs
  BY WorkloadFields, MachineFields DEF Fit
<1>2. c \in CacheType(w.config) /\ Sound(w.config, c)
  BY DEF TakesOut, Sound
<1>3. st = [m.stats EXCEPT !.invalidations = i, !.writebacks = k]
  BY DEF Uncounted
<1>4. i \in Nat /\ k \in Nat
  BY <1>1, StatsFields DEF TakesOut
<1> HIDE DEF i, k
<1>5. /\ st \in StatsType
      /\ st.invalidations = i /\ st.writebacks = k
      /\ st.misses = m.stats.misses /\ st.replacements = m.stats.replacements
      /\ st.prefetch_misses = m.stats.prefetch_misses
      /\ st.prefetch_hits = m.stats.prefetch_hits
  BY <1>1, <1>3, <1>4 DEF StatsType
<1>6. un \in SUBSET Nat /\ un = DirtyBlocks(c)
  BY <1>1 DEF Fit, TakesOut
<1> HIDE DEF un, st
<1>7. /\ d \in MachineType(w)
      /\ d.cp = c /\ d.stats = st /\ d.unwritten = un
  BY <1>1, <1>2, <1>5, <1>6, MachineFields DEF MachineType, Empties, un, st
<1>8. BlocksCounted(c, st)
  <2>1. BlocksCounted(m.cp, m.stats)
    BY DEF Fit
  <2>2. /\ Cardinality(ValidWays(c)) = Cardinality(ValidWays(m.cp)) - n
        /\ n \in Nat /\ Cardinality(back) \in Nat /\ Cardinality(back) <= n
    BY DEF TakesOut
  <2>3. Cardinality(ValidWays(m.cp)) \in Nat
    BY <1>1, MachineFields, ValidWaysMeans
  <2> QED BY <1>1, <1>5, <2>1, <2>2, <2>3, StatsFields DEF BlocksCounted, i, k
<1>9. Fit(w, d) /\ Fetches(d) = Fetches(m)
  BY <1>2, <1>5, <1>6, <1>7, <1>8 DEF Fit, Fetches
<1> QED BY <1>9

-----------------------------------------------------------------------------
(* The actions.                                                             *)

(* The machine that a call leaves to the next, whose cache is c.            *)
Rest(m, c) ==
    [cp |-> c, ready |-> m.ready, bus_free |-> m.bus_free, stats |-> m.stats,
     unwritten |-> m.unwritten, RPT |-> m.RPT, DCPT |-> m.DCPT,
     overrun |-> FALSE, lat |-> 0, first_lat |-> 0]

LEMMA RestFit ==
    ASSUME NEW w \in Workloads, NEW m, Fit(w, m), NEW c,
           \/ c = m.cp
           \/ c = [m.cp EXCEPT !.crashed = TRUE]
    PROVE  /\ Fit(w, Rest(m, c)) /\ Fetches(Rest(m, c)) = Fetches(m)
           /\ ~c.crashed => c = m.cp
<1> DEFINE d == Rest(m, c)
<1>1. /\ m \in MachineType(w) /\ w.config \in Configs /\ Sound(w.config, m.cp)
  BY WorkloadFields DEF Fit
<1>2. /\ Sound(w.config, c) /\ DirtyBlocks(c) = DirtyBlocks(m.cp)
      /\ ValidWays(c) = ValidWays(m.cp)
      /\ ~c.crashed => c = m.cp
  <2>1. CASE c = m.cp
    BY <1>1, <2>1
  <2>2. CASE c = [m.cp EXCEPT !.crashed = TRUE]
    <3> DEFINE x == m.cp
    <3>1. Sound(w.config, x) /\ c = [x EXCEPT !.crashed = TRUE]
      BY <1>1, <2>2
    <3> HIDE DEF x
    <3>2. /\ Sound(w.config, c) /\ c.crashed
          /\ DirtyBlocks(c) = DirtyBlocks(x) /\ ValidWays(c) = ValidWays(x)
      BY <1>1, <3>1, CrashedSound
    <3> QED BY <3>2 DEF x
  <2> QED BY <2>1, <2>2
<1>3. c \in CacheType(w.config)
  BY <1>2 DEF Sound
<1>4. d \in MachineType(w)
  BY <1>1, <1>3, MachineFields DEF MachineType, Rest
<1>5. d.cp = c /\ d.stats = m.stats /\ d.unwritten = m.unwritten
  BY DEF Rest
<1> HIDE DEF d
<1>6. Fit(w, d) /\ Fetches(d) = Fetches(m)
  BY <1>2, <1>4, <1>5 DEF Fit, Fetches, BlocksCounted
<1> QED BY <1>2, <1>6 DEF d

LastType == [addr : Address \cup {NULL}, lat : Int, first_lat : Int]

LEMMA MachineNow ==
    /\ Machine.cp = cp /\ Machine.ready = ready /\ Machine.bus_free = bus_free
    /\ Machine.stats = stats /\ Machine.unwritten = unwritten
    /\ Machine.RPT = RPT /\ Machine.DCPT = DCPT
BY DEF Machine

(* The invariant is about the machine that the next call will find.         *)
LEMMA FitNow ==
    ASSUME PFInv
    PROVE  /\ workload \in Workloads /\ Fit(workload, Machine)
           /\ overrun \in BOOLEAN /\ runs \in [1 .. RptRows(workload) -> RunType]
<1>1. /\ workload \in Workloads /\ Machine \in MachineType(workload)
      /\ overrun \in BOOLEAN /\ runs \in [1 .. RptRows(workload) -> RunType]
  BY DEF PFInv, PFTypeOK
<1>2. PICK config \in Configs : Sound(config, cp)
  BY InvMeans DEF PFInv
<1>3. unwritten = DirtyBlocks(cp) /\ BlocksCounted(cp, stats)
  BY InvMeans DEF PFInv
<1>4. Machine.cp \in CacheType(workload.config)
  BY <1>1, MachineFields
<1>5. Sound(workload.config, cp)
  BY <1>2, <1>4, MachineNow DEF Sound
<1> QED BY <1>1, <1>3, <1>5, MachineNow DEF Fit

LEMMA FitNext ==
    ASSUME workload' \in Workloads, Fit(workload', Machine'),
           overrun' \in BOOLEAN, last' \in LastType,
           runs' \in [1 .. RptRows(workload') -> RunType],
           StridesLearned', DemandBlockStays'
    PROVE  PFInv'
<1>1. /\ (Machine').cp = cp' /\ (Machine').stats = stats'
      /\ (Machine').unwritten = unwritten'
  BY DEF Machine
<1>2. /\ Machine' \in MachineType(workload') /\ Sound((workload').config, cp')
      /\ unwritten' = DirtyBlocks(cp') /\ BlocksCounted(cp, stats)'
  BY <1>1 DEF Fit, BlocksCounted, ValidWays, SetIdx, Way
<1>3. (workload').config \in Configs
  BY WorkloadFields
<1>4. IInv'
  BY <1>2, <1>3, InvMeans
<1>5. PFTypeOK'
  BY <1>2 DEF PFTypeOK, LastType
<1> QED BY <1>2, <1>4, <1>5 DEF PFInv

LEMMA PFInitInv == PFInit => PFInv
<1> SUFFICES ASSUME PFInit PROVE PFInv
  OBVIOUS
<1>1. workload \in Workloads /\ workload.config \in Configs
  BY WorkloadFields DEF PFInit
<1>2. /\ cp = cache_create(workload.config) /\ unwritten = {}
      /\ Sound(workload.config, cp) /\ DirtyBlocks(cp) = {}
  BY <1>1, CreatedSound DEF PFInit
<1>3. IInv
  BY <1>1, <1>2, InvMeans
<1>4. cp \in CacheType(workload.config)
  BY <1>2 DEF Sound
<1>5. SetIdx(cp) = Sets(workload.config) /\ Way(cp) = Ways(workload.config)
  BY <1>1, <1>4, CacheFields
<1>6. ready \in [Sets(workload.config) -> [Ways(workload.config) -> Int]]
  BY <1>5 DEF PFInit
<1>7. EmptyEntry \in EntryType /\ EmptyRow \in RowType /\ NoStats \in StatsType
  BY AddrSpaceAssumption, RowsAssumption DEF EmptyEntry, EntryType, EmptyRow, RowType, NoStats,
     StatsType, Address, INITIAL, NODELTA, DELTAS
<1>8. /\ RPT \in [1 .. RptRows(workload) -> EntryType]
      /\ DCPT \in [1 .. DcptRows(workload) -> RowType]
      /\ stats \in StatsType /\ bus_free = 0 /\ overrun = FALSE
      /\ DOMAIN RPT = 1 .. RptRows(workload)
  BY <1>7 DEF PFInit
<1>9. Machine \in MachineType(workload)
  BY <1>2, <1>4, <1>6, <1>8 DEF Machine, MachineType
<1>10. /\ runs \in [1 .. RptRows(workload) -> RunType]
       /\ \A i \in DOMAIN RPT : runs[i] = [n |-> 0, stride |-> 0]
  <2>1. [n |-> 0, stride |-> 0] \in RunType
    BY AddrSpaceAssumption DEF RunType, Address
  <2> QED BY <1>8, <2>1 DEF PFInit
<1>11. last \in LastType /\ last.addr = NULL
  BY DEF PFInit, NoAccess, LastType
<1>12. BlocksCounted(cp, stats)
  <2>1. \A s \in Sets(workload.config), w \in Ways(workload.config) :
          cp.status[s][w] = {}
    BY <1>2, <1>5 DEF cache_create, SetIdx, Way
  <2>2. ValidWays(cp) = {}
    BY <1>1, <1>4, <2>1, ValidWaysMeans
  <2>3. Cardinality({}) = 0
    BY FS_EmptySet
  <2> QED BY <2>2, <2>3 DEF BlocksCounted, PFInit, NoStats
<1>13. StridesLearned
  BY <1>10 DEF StridesLearned, Learned
<1>14. DemandBlockStays
  BY <1>11 DEF DemandBlockStays
<1> QED BY <1>1, <1>3, <1>8, <1>9, <1>10, <1>11, <1>12, <1>13, <1>14
    DEF PFInv, PFTypeOK, LastType

(* The entry of one instruction is trained; every other is left alone.      *)
Trains(rpt, rs, i, PC, addr, rpt2, rs2) ==
    /\ rpt2 = [rpt EXCEPT ![i] = StrideTrained(rpt[i], PC, addr)]
    /\ rs2 = [rs EXCEPT ![i] = RunAfter(rs[i], rpt[i], PC, addr)]
AllLearned(n, rpt, rs) == \A j \in 1 .. n : Learned(rpt[j], rs[j])

LEMMA TableLearned ==
    ASSUME NEW n \in Nat, NEW rpt \in [1 .. n -> EntryType],
           NEW rs \in [1 .. n -> RunType], NEW i \in 1 .. n,
           AllLearned(n, rpt, rs), NEW PC \in Nat, NEW addr \in Nat,
           NEW rpt2, NEW rs2, Trains(rpt, rs, i, PC, addr, rpt2, rs2)
    PROVE  rs2 \in [1 .. n -> RunType] /\ AllLearned(n, rpt2, rs2)
<1> DEFINE e == StrideTrained(rpt[i], PC, addr)
           r == RunAfter(rs[i], rpt[i], PC, addr)
<1>1. r \in RunType /\ Learned(e, r)
  <2> DEFINE x == rpt[i]
             y == rs[i]
  <2>1. x \in EntryType /\ y \in RunType /\ Learned(x, y)
    BY DEF AllLearned
  <2> HIDE DEF x, y
  <2>2. /\ RunAfter(y, x, PC, addr) \in RunType
        /\ Learned(StrideTrained(x, PC, addr), RunAfter(y, x, PC, addr))
    BY <2>1, LearnedOn
  <2> QED BY <2>2 DEF x, y
<1>2. rpt2 = [rpt EXCEPT ![i] = e] /\ rs2 = [rs EXCEPT ![i] = r]
  BY DEF Trains
<1> HIDE DEF e, r
<1>3. rs2 \in [1 .. n -> RunType]
  BY <1>1, <1>2
<1>4. ASSUME NEW j \in 1 .. n PROVE Learned(rpt2[j], rs2[j])
  BY <1>1, <1>2 DEF AllLearned
<1> QED BY <1>3, <1>4 DEF AllLearned

(* What an access makes of the machine, for one choice of the victims.      *)
Outcome(m, addr) ==
    /\ \/ cp' = m.cp
       \/ m.overrun /\ cp' = [m.cp EXCEPT !.crashed = TRUE]
    /\ unwritten' = m.unwritten /\ ready' = m.ready
    /\ bus_free' = m.bus_free /\ stats' = m.stats
    /\ RPT' = m.RPT /\ DCPT' = m.DCPT
    /\ overrun' = (overrun \/ m.overrun)
    /\ last' = [addr |-> addr, lat |-> m.lat, first_lat |-> m.first_lat]

LEMMA AccessKeeps ==
    ASSUME PFInv, NEW cmd, NEW addr \in Address, NEW PC \in Nat,
           Access(cmd, addr, PC)
    PROVE  /\ PFInv'
           /\ Prefetches' <= Prefetches + Limit(prefetch_type)
<1>1. /\ workload \in Workloads /\ Fit(workload, Machine)
      /\ workload.config \in Configs
      /\ overrun \in BOOLEAN /\ runs \in [1 .. RptRows(workload) -> RunType]
  BY FitNow, WorkloadFields
<1>2. ~cp.crashed /\ workload' = workload
  BY DEF Access
<1>3. addr \in Nat
  BY AddrSpaceAssumption DEF Address
<1>4. Way(cp) = Ways(workload.config) /\ 0 \in Ways(workload.config)
  BY <1>1, MachineFields, MachineNow, CacheFields, Geometry DEF Fit, Ways
<1>5. PICK rands \in Rands :
        Outcome(DemandAccess(Machine, prefetch_type, cmd, addr, PC, 0, rands), addr)
  BY DEF Access, Outcome
<1>6. \A k \in 0 .. 5 : rands[k] \in Ways(workload.config)
  BY <1>4, <1>5 DEF Rands
<1> DEFINE m == DemandAccess(Machine, prefetch_type, cmd, addr, PC, 0, rands)
<1>7. Demanded(workload, Machine, m, addr, PC)
  <2> DEFINE zero == 0
  <2>1. /\ zero \in Int /\ ~(Machine.cp).crashed
        /\ m = DemandAccess(Machine, workload.prefetch_type, cmd, addr, PC, zero, rands)
    BY <1>2, MachineNow DEF prefetch_type
  <2> HIDE DEF zero, m
  <2> QED BY <1>1, <1>3, <1>6, <2>1, DemandFit
<1>8. Outcome(m, addr)
  BY <1>5
<1> HIDE DEF m
<1>9. Fit(workload, m)
  BY <1>7 DEF Demanded
<1>10. Machine' = Rest(m, cp')
  BY <1>8 DEF Outcome, Machine, Rest
<1>11. /\ Fit(workload, Rest(m, cp')) /\ Fetches(Rest(m, cp')) = Fetches(m)
       /\ ~(cp').crashed => cp' = m.cp
  <2> DEFINE d == cp'
  <2>1. d = m.cp \/ d = [m.cp EXCEPT !.crashed = TRUE]
    BY <1>8 DEF Outcome
  <2> HIDE DEF d
  <2>2. /\ Fit(workload, Rest(m, d)) /\ Fetches(Rest(m, d)) = Fetches(m)
        /\ ~d.crashed => d = m.cp
    BY <1>1, <1>9, <2>1, RestFit
  <2> QED BY <2>2 DEF d
<1>12. /\ RPT' = m.RPT /\ stats' = m.stats
       /\ overrun' = (overrun \/ m.overrun)
       /\ last' = [addr |-> addr, lat |-> m.lat, first_lat |-> m.first_lat]
  BY <1>8 DEF Outcome
<1>13. m \in MachineType(workload)
  BY <1>9 DEF Fit
<1>14. overrun' \in BOOLEAN /\ last' \in LastType
  BY <1>1, <1>12, <1>13, MachineFields DEF LastType
<1>15. Prefetches' <= Prefetches + Limit(prefetch_type)
  BY <1>7, <1>12, MachineNow DEF Demanded, Fetches, Prefetches, prefetch_type
<1>16. RPT \in [1 .. RptRows(workload) -> EntryType]
  BY <1>1, MachineFields, MachineNow DEF Fit
<1>17. runs' \in [1 .. RptRows(workload) -> RunType] /\ StridesLearned'
  <2>1. CASE workload.prefetch_type > 2
    <3> DEFINE i == RptIndex(Machine, PC)
               n == RptRows(workload)
               q == PC \div 4
               rpt2 == [RPT EXCEPT ![i] = StrideTrained(RPT[i], q, addr)]
    <3>1. n \in Nat \ {0} /\ workload.prefetch_type \in Nat
      BY <1>1, <2>1, WorkloadFields DEF RptRows
    <3>2. Len(RPT) = n
      BY <1>16, <3>1, TableLength
    <3>3. i \in 1 .. n /\ q \in Nat
      BY <3>1, <3>2, MachineNow, IndexRange DEF RptIndex
    <3>4. runs' = [runs EXCEPT ![i] = RunAfter(runs[i], RPT[i], q, addr)]
      BY <2>1 DEF Access, prefetch_type
    <3>5. \A j \in 1 .. n : Learned(RPT[j], runs[j])
      BY <1>2, <1>16 DEF PFInv, StridesLearned
    <3>6. ~(cp').crashed => RPT' = rpt2
      BY <1>7, <1>11, <1>12, <2>1, MachineNow DEF Demanded
    <3> HIDE DEF i, n, q
    <3>7. /\ runs' \in [1 .. n -> RunType]
          /\ \A j \in 1 .. n : Learned(rpt2[j], (runs')[j])
      <4> DEFINE rs2 == runs'
                 rp2 == rpt2
      <4>1. /\ Trains(RPT, runs, i, q, addr, rp2, rs2) /\ AllLearned(n, RPT, runs)
            /\ RPT \in [1 .. n -> EntryType] /\ runs \in [1 .. n -> RunType]
        BY <1>1, <1>16, <3>4, <3>5 DEF n, Trains, AllLearned
      <4> HIDE DEF rs2, rp2
      <4>2. rs2 \in [1 .. n -> RunType] /\ AllLearned(n, rp2, rs2)
        BY <1>3, <3>1, <3>3, <4>1, TableLearned
      <4> QED BY <4>2 DEF rs2, rp2, AllLearned
    <3>8. DOMAIN rpt2 = 1 .. n
      BY <1>16 DEF n
    <3> HIDE DEF rpt2
    <3>9. StridesLearned'
      BY <3>6, <3>7, <3>8 DEF StridesLearned
    <3> QED BY <3>7, <3>9 DEF n
  <2>2. CASE ~(workload.prefetch_type > 2)
    <3>1. RptRows(workload) = 0
      BY <2>2 DEF RptRows
    <3>2. runs' = runs
      BY <2>2 DEF Access, prefetch_type
    <3>3. DOMAIN RPT' = {}
      <4>1. m.RPT \in [1 .. RptRows(workload) -> EntryType]
        BY <1>1, <1>13, MachineFields
      <4> QED BY <1>12, <3>1, <4>1
    <3> QED BY <1>1, <3>2, <3>3 DEF StridesLearned
  <2> QED BY <2>1, <2>2
<1>18. DemandBlockStays'
  <2> SUFFICES ASSUME ~(cp').crashed, (cp').policy = "LRU", (cp').assoc > 1,
                      workload.prefetch_type # 2
               PROVE  cache_probe(cp', addr) /\ m.lat = m.first_lat
    BY <1>2, <1>12 DEF DemandBlockStays, prefetch_type
  <2>1. cp' = m.cp
    BY <1>11
  <2>2. m.cp.policy = workload.config.policy /\ m.cp.assoc = workload.config.assoc
    BY <1>1, <1>13, MachineFields, CacheFields
  <2> QED BY <1>7, <2>1, <2>2 DEF Demanded
<1>19. PFInv'
  BY <1>1, <1>2, <1>10, <1>11, <1>14, <1>17, <1>18, FitNext
<1> QED BY <1>15, <1>19

(* Flush and FlushAddr.                                                     *)
LEMMA FlushedKeeps ==
    ASSUME PFInv, NEW n, NEW back,
           TakesOut(workload.config, cp, cp', n, back), Flushed(n, back)
    PROVE  PFInv' /\ Prefetches' = Prefetches
<1>1. /\ workload \in Workloads /\ Fit(workload, Machine)
      /\ overrun \in BOOLEAN /\ runs \in [1 .. RptRows(workload) -> RunType]
  BY FitNow
<1>2. /\ workload' = workload /\ RPT' = RPT /\ runs' = runs /\ overrun' = overrun
      /\ last' = NoAccess
      /\ stats' = [stats EXCEPT !.invalidations = @ + n,
                                !.writebacks = @ + Cardinality(back)]
      /\ unwritten' = unwritten \ back
  BY DEF Flushed
<1>3. Empties(Machine, cp', n, back, Machine')
  <2>1. /\ ready' = ready /\ bus_free' = bus_free /\ RPT' = RPT /\ DCPT' = DCPT
        /\ unwritten' = unwritten \ back /\ stats' = Uncounted(stats, n, back)
    BY <1>2 DEF Flushed, Uncounted
  <2> QED BY <2>1 DEF Machine, Empties
<1>4. Fit(workload, Machine')
  <2> DEFINE m == Machine
             c == cp'
             d == Machine'
  <2>1. /\ Fit(workload, m) /\ TakesOut(workload.config, m.cp, c, n, back)
        /\ Empties(m, c, n, back, d)
    BY <1>1, <1>3, MachineNow
  <2> HIDE DEF m, c, d
  <2>2. Fit(workload, d)
    BY <1>1, <2>1, EmptiedFit
  <2> QED BY <2>2 DEF d
<1>5. last' \in LastType /\ (last').addr = NULL
  BY <1>2 DEF NoAccess, LastType
<1>6. DemandBlockStays'
  BY <1>5 DEF DemandBlockStays
<1>7. (cp').crashed = cp.crashed
  BY DEF TakesOut
<1>8. StridesLearned'
  BY <1>2, <1>7 DEF PFInv, StridesLearned
<1>9. PFInv'
  BY <1>1, <1>2, <1>3, <1>4, <1>5, <1>6, <1>8, FitNext
<1>10. stats \in StatsType
  BY <1>1, MachineFields, MachineNow DEF Fit
<1>11. Prefetches' = Prefetches
  BY <1>2, <1>10 DEF Prefetches, StatsType
<1> QED BY <1>9, <1>11

LEMMA PFStep ==
    PFInv /\ [PFNext]_pvars
      => /\ PFInv'
         /\ prefetch_type' = prefetch_type
         /\ Prefetches' - Prefetches <= Limit(prefetch_type)
<1> SUFFICES ASSUME PFInv, [PFNext]_pvars
             PROVE  /\ PFInv'
                    /\ prefetch_type' = prefetch_type
                    /\ Prefetches' - Prefetches <= Limit(prefetch_type)
  OBVIOUS
<1>1. /\ workload \in Workloads /\ Fit(workload, Machine)
      /\ workload.config \in Configs /\ Sound(workload.config, cp)
      /\ Limit(prefetch_type) \in Nat
  BY FitNow, WorkloadFields, MachineNow, LimitRange DEF Fit
<1>2. Prefetches \in Nat
  BY <1>1, MachineFields, MachineNow, StatsFields DEF Fit, Prefetches
<1>3. ASSUME PFInv', Prefetches' <= Prefetches + Limit(prefetch_type)
      PROVE  Prefetches' - Prefetches <= Limit(prefetch_type)
  <2>1. workload' \in Workloads /\ stats' \in StatsType
    BY <1>3, MachineFields DEF PFInv, PFTypeOK, Machine
  <2>2. Prefetches' \in Nat
    BY <2>1, StatsFields DEF Prefetches
  <2> QED BY <1>1, <1>2, <1>3, <2>2
<1>4. ASSUME NEW cmd \in workload.cmds, NEW PC \in workload.PCs,
             NEW addr \in workload.addrs[Accesses],
             Accesses \in DOMAIN workload.addrs, Access(cmd, addr, PC)
      PROVE  /\ PFInv'
             /\ prefetch_type' = prefetch_type
             /\ Prefetches' - Prefetches <= Limit(prefetch_type)
  <2>1. addr \in Address /\ PC \in Nat
    BY <1>1, <1>4, WorkloadFields
  <2>2. PFInv' /\ Prefetches' <= Prefetches + Limit(prefetch_type)
    BY <1>4, <2>1, AccessKeeps
  <2> QED BY <1>3, <1>4, <2>2 DEF Access, prefetch_type
<1>5. ASSUME NEW n, NEW back, Flushed(n, back),
             TakesOut(workload.config, cp, cp', n, back)
      PROVE  /\ PFInv'
             /\ prefetch_type' = prefetch_type
             /\ Prefetches' - Prefetches <= Limit(prefetch_type)
  <2>1. PFInv' /\ Prefetches' = Prefetches
    BY <1>5, FlushedKeeps
  <2> QED BY <1>1, <1>2, <1>5, <2>1 DEF Flushed, prefetch_type
<1>6. CASE Flush
  BY <1>1, <1>5, <1>6, FlushTakesOut DEF Flush
<1>7. ASSUME NEW k \in DOMAIN workload.addrs, NEW addr \in workload.addrs[k],
             FlushAddr(addr)
      PROVE  /\ PFInv'
             /\ prefetch_type' = prefetch_type
             /\ Prefetches' - Prefetches <= Limit(prefetch_type)
  <2>1. addr \in Nat
    BY <1>1, WorkloadFields, AddrSpaceAssumption DEF Address
  <2> QED BY <1>1, <1>5, <1>7, <2>1, FlushAddrTakesOut DEF FlushAddr
<1>8. CASE UNCHANGED pvars
  <2>1. /\ workload' = workload /\ Machine' = Machine /\ overrun' = overrun
        /\ last' = last /\ runs' = runs /\ RPT' = RPT /\ cp' = cp /\ stats' = stats
    BY <1>8 DEF pvars, Machine
  <2>2. StridesLearned' /\ DemandBlockStays'
    BY <2>1 DEF PFInv, StridesLearned, DemandBlockStays, prefetch_type
  <2>3. PFInv'
    BY <1>1, <2>1, <2>2, FitNow, FitNext DEF PFInv, PFTypeOK, LastType
  <2> QED BY <1>1, <1>2, <2>1, <2>3 DEF Prefetches, prefetch_type
<1> QED BY <1>4, <1>6, <1>7, <1>8 DEF PFNext

-----------------------------------------------------------------------------
(* The invariant holds of every cache, workload and prefetcher.             *)
THEOREM PrefetchersCorrect == PFSpec => []PFInv
BY PFInitInv, PFStep, PTL DEF PFSpec

(* The types of the cache, the tables, the counters and the latencies.      *)
THEOREM PrefetchersTyped == PFSpec => []PFTypeOK
<1>1. PFInv => PFTypeOK
  BY DEF PFInv
<1> QED BY <1>1, PrefetchersCorrect, PTL

(* What Cache promises of a cache that is accessed and flushed holds, too,  *)
(* when a prefetcher calls cache_access from within cache_access.           *)
THEOREM CacheKeptByPrefetchers == PFSpec => []IInv
<1>1. PFInv => IInv
  BY DEF PFInv
<1> QED BY <1>1, PrefetchersCorrect, PTL

(* The counters account for the blocks in the cache, after any sequence of  *)
(* demands, prefetches and flushes.                                         *)
THEOREM CountersAddUp == PFSpec => []CountsAddUp
<1>1. PFInv => CountsAddUp
  BY DEF PFInv, BlocksCounted, CountsAddUp
<1> QED BY <1>1, PrefetchersCorrect, PTL

(* Under LRU with two ways or more no prefetch evicts or delays the block   *)
(* that was just demanded, unless it is an open-ended one.                  *)
THEOREM DemandSpared == PFSpec => []DemandBlockStays
<1>1. PFInv => DemandBlockStays
  BY DEF PFInv
<1> QED BY <1>1, PrefetchersCorrect, PTL

(* Three equal strides in a row make an entry STEADY, whatever its state    *)
(* was when its owner took it over.                                         *)
THEOREM StrideLocksOn == PFSpec => []LocksOn
<1>1. PFInv => LocksOn
  BY DEF PFInv, StridesLearned, Learned, LocksOn
<1> QED BY <1>1, PrefetchersCorrect, PTL

(* A demand makes one prefetch at most, with the open-ended prefetcher      *)
(* three.                                                                   *)
THEOREM PrefetchesLimited == PFSpec => PrefetchesBounded
<1>1. PFInv /\ [PFNext]_pvars
        => [Prefetches' - Prefetches <= (CASE prefetch_type = 0 -> 0
                                           [] prefetch_type = 2 -> PREFETCH_SIZE + 1
                                           [] OTHER -> 1)]_pvars
  BY PFStep DEF Limit
<1> QED BY <1>1, PrefetchersCorrect, PTL DEF PFSpec, PrefetchesBounded
=============================================================================
