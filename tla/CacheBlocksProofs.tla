------------------------- MODULE CacheBlocksProofs -------------------------
(***************************************************************************)
(* Lemmas about the operators of CacheBlocks, for every geometry and       *)
(* replacement policy: what each way through an access and each flush      *)
(* makes of the lists, chains, dirty blocks and the block of the last hit  *)
(* of a cache that is Sound.                                               *)
(***************************************************************************)
EXTENDS CacheBlocks, FiniteSetTheorems, TLAPS

(* A set that has 0, and the successor of each of its elements, is Nat: if  *)
(* n were missing, x |-> x + 1 would map its elements below n one-to-one to *)
(* all of them but 0.                                                       *)
LEMMA Induction ==
    ASSUME NEW S \in SUBSET Nat, 0 \in S, \A n \in S : n + 1 \in S
    PROVE  S = Nat
<1>1. SUFFICES ASSUME NEW n \in Nat, n \notin S PROVE FALSE
  OBVIOUS
<1> DEFINE B == S \cap (0 .. n)
           R == B \ {0}
           f == [x \in B |-> x + 1]
<1>2. IsFiniteSet(B) /\ Cardinality(B) \in Nat
  <2>1. IsFiniteSet(0 .. n)
    BY FS_Interval
  <2>2. IsFiniteSet(B)
    BY <2>1, FS_Subset
  <2> QED BY <2>2, FS_CardinalityType
<1>3. 0 \in B
  OBVIOUS
<1>4. IsFiniteSet(R) /\ Cardinality(R) = Cardinality(B) - 1
  BY <1>2, <1>3, FS_RemoveElement
<1>5. f \in Injection(B, R)
  <2>1. \A x \in B : x + 1 \in R
    BY <1>1
  <2>2. f \in [B -> R]
    BY <2>1
  <2>3. IsInjective(f)
    BY DEF IsInjective
  <2> QED BY <2>2, <2>3 DEF Injection
<1> HIDE DEF B, R, f
<1>6. Cardinality(B) <= Cardinality(R)
  BY <1>2, <1>4, <1>5, FS_Injection
<1> QED BY <1>2, <1>4, <1>6

-----------------------------------------------------------------------------
(* Addresses: quotients and remainders.                                     *)
LEMMA DivMod ==
    ASSUME NEW a \in Nat, NEW d \in Nat \ {0}
    PROVE  /\ a \div d \in Nat /\ a % d \in 0 .. d - 1
           /\ a = d * (a \div d) + (a % d)
OBVIOUS

LEMMA Cancel ==
    ASSUME NEW a \in Int, NEW b \in Int, NEW d \in Nat \ {0}, d * a = d * b
    PROVE  a = b
OBVIOUS

LEMMA DivUnique ==
    ASSUME NEW d \in Nat \ {0}, NEW q \in Nat, NEW r \in 0 .. d - 1,
           NEW p \in Nat, NEW t \in 0 .. d - 1, d * q + r = d * p + t
    PROVE  q = p /\ r = t
<1>1. ~(q < p)
  <2>1. SUFFICES ASSUME q < p PROVE FALSE
    OBVIOUS
  <2>2. d * (q + 1) <= d * p
    BY <2>1
  <2>3. d * (q + 1) = d * q + d
    OBVIOUS
  <2> QED BY <2>2, <2>3
<1>2. ~(p < q)
  <2>1. SUFFICES ASSUME p < q PROVE FALSE
    OBVIOUS
  <2>2. d * (p + 1) <= d * q
    BY <2>1
  <2>3. d * (p + 1) = d * p + d
    OBVIOUS
  <2> QED BY <2>2, <2>3
<1> QED BY <1>1, <1>2

LEMMA Decode ==
    ASSUME NEW addr \in Nat, NEW b \in Nat \ {0}, NEW n \in Nat \ {0}
    PROVE  addr - (addr % b)
             = (addr \div (b * n)) * (b * n) + ((addr \div b) % n) * b
<1> DEFINE q == addr \div b
           r == addr % b
           t == q \div n
           s == q % n
           T == addr \div (b * n)
           R == addr % (b * n)
<1>1. q \in Nat /\ r \in 0 .. b - 1 /\ addr = b * q + r
  BY DivMod
<1>2. t \in Nat /\ s \in 0 .. n - 1 /\ q = n * t + s
  BY <1>1, DivMod
<1>3. b * n \in Nat \ {0}
  OBVIOUS
<1>4. T \in Nat /\ R \in 0 .. (b * n) - 1 /\ addr = (b * n) * T + R
  BY <1>3, DivMod
<1> HIDE DEF q, r, t, s, T, R
<1>5. b * q = (b * n) * t + b * s
  BY <1>1, <1>2
<1>6. b * s + r \in 0 .. (b * n) - 1
  <2>1. b * s <= b * (n - 1)
    BY <1>2
  <2>2. b * (n - 1) = b * n - b
    OBVIOUS
  <2>3. b * s \in Nat
    BY <1>2
  <2> QED BY <1>1, <2>1, <2>2, <2>3
<1>7. T = t
  <2>1. (b * n) * T + R = (b * n) * t + (b * s + r)
    BY <1>1, <1>2, <1>4, <1>5
  <2> QED BY <1>2, <1>3, <1>4, <1>6, <2>1, DivUnique
<1>8. addr - r = T * (b * n) + s * b
  BY <1>1, <1>2, <1>5, <1>7
<1> QED BY <1>8 DEF q, r, t, s, T, R

LEMMA Encode ==
    ASSUME NEW b \in Nat \ {0}, NEW n \in Nat \ {0}, NEW t \in Nat, NEW u \in Nat,
           NEW s \in 0 .. n - 1, NEW v \in 0 .. n - 1,
           t * (b * n) + s * b = u * (b * n) + v * b
    PROVE  t = u /\ s = v
<1>1. b * (n * t + s) = b * (n * u + v)
  OBVIOUS
<1>2. n * t + s = n * u + v
  BY <1>1, Cancel
<1> QED BY <1>2, DivUnique

-----------------------------------------------------------------------------
(* A cache of an accepted geometry, and where it keeps an address.          *)
LEMMA Geometry ==
    ASSUME NEW config \in Configs
    PROVE  /\ config.nsets \in Nat \ {0} /\ config.bsize \in Nat \ {0}
           /\ config.assoc \in Nat \ {0}
           /\ config.policy \in {"LRU", "FIFO", "Random"}
BY ConfigAssumption DEF ConfigType, PowersOfTwo

LEMMA CacheFields ==
    ASSUME NEW config \in Configs, NEW c \in CacheType(config)
    PROVE  /\ SetIdx(c) = Sets(config) /\ Way(c) = Ways(config)
           /\ c.nsets = config.nsets /\ c.bsize = config.bsize
           /\ c.assoc = config.assoc /\ c.policy = config.policy
           /\ c.nsets \in Nat \ {0} /\ c.bsize \in Nat \ {0}
           /\ c.assoc \in Nat \ {0} /\ c.hsize \in Nat
           /\ c.hsize = (IF config.assoc > 4 THEN config.assoc \div 4 ELSE 0)
           /\ c.way \in [Sets(config) -> [Ways(config) -> Ways(config)]]
           /\ c.tag \in [Sets(config) -> [Ways(config) -> Nat]]
           /\ c.status \in [Sets(config) -> [Ways(config) -> StatusType]]
           /\ c.hash \in [Sets(config) ->
                             SUBSET ((SUBSET (0 .. 29)) \X Ways(config))]
           /\ c.last_tagset \in Nat /\ c.crashed \in BOOLEAN
           /\ c.last_blk \in (Sets(config) \X Ways(config)) \cup {NULL}
<1>1. config.assoc \div 4 \in Nat
  BY Geometry
<1>2. /\ c.nsets = config.nsets /\ c.bsize = config.bsize
      /\ c.assoc = config.assoc /\ c.policy = config.policy
      /\ c.hsize = IF config.assoc > 4 THEN config.assoc \div 4 ELSE 0
      /\ c.way \in [Sets(config) -> [Ways(config) -> Ways(config)]]
      /\ c.tag \in [Sets(config) -> [Ways(config) -> Nat]]
      /\ c.status \in [Sets(config) -> [Ways(config) -> StatusType]]
      /\ c.hash \in [Sets(config) ->
                        SUBSET ((SUBSET (0 .. 29)) \X Ways(config))]
      /\ c.last_tagset \in Nat /\ c.crashed \in BOOLEAN
      /\ c.last_blk \in (Sets(config) \X Ways(config)) \cup {NULL}
  BY DEF CacheType
<1>3. SetIdx(c) = Sets(config) /\ Way(c) = Ways(config)
  BY <1>2 DEF SetIdx, Way, Sets, Ways
<1>4. /\ c.nsets \in Nat \ {0} /\ c.bsize \in Nat \ {0}
      /\ c.assoc \in Nat \ {0}
  BY <1>2, Geometry
<1>5. c.hsize \in Nat
  BY <1>1, <1>2
<1> QED BY <1>2, <1>3, <1>4, <1>5

LEMMA Located ==
    ASSUME NEW config \in Configs, NEW c \in CacheType(config), NEW addr \in Nat
    PROVE  /\ CACHE_SET(c, addr) \in Sets(config) /\ CACHE_TAG(c, addr) \in Nat
           /\ CACHE_BADDR(c, addr) \in Nat
           /\ CACHE_TAGSET(c, addr) = CACHE_BADDR(c, addr)
           /\ CACHE_BADDR(c, addr)
                = CACHE_MK_BADDR(c, CACHE_TAG(c, addr), CACHE_SET(c, addr))
<1>1. c.nsets \in Nat \ {0} /\ c.bsize \in Nat \ {0} /\ c.nsets = config.nsets
  BY CacheFields
<1>2. c.bsize * c.nsets \in Nat \ {0}
  BY <1>1
<1>3. addr \div c.bsize \in Nat /\ addr % c.bsize \in 0 .. c.bsize - 1
      /\ addr = c.bsize * (addr \div c.bsize) + (addr % c.bsize)
  BY <1>1, DivMod
<1>4. CACHE_SET(c, addr) \in Sets(config)
  BY <1>1, <1>3, DivMod DEF CACHE_SET, Sets
<1>5. CACHE_TAG(c, addr) \in Nat
  BY <1>2, DivMod DEF CACHE_TAG
<1>6. c.bsize * (addr \div c.bsize) \in Nat
  BY <1>1, <1>3
<1>7. CACHE_BADDR(c, addr) \in Nat
  BY <1>3, <1>6 DEF CACHE_BADDR
<1>8. CACHE_BADDR(c, addr)
        = CACHE_MK_BADDR(c, CACHE_TAG(c, addr), CACHE_SET(c, addr))
  BY <1>1, Decode DEF CACHE_BADDR, CACHE_MK_BADDR, CACHE_TAG, CACHE_SET
<1> QED BY <1>4, <1>5, <1>7, <1>8 DEF CACHE_BADDR, CACHE_TAGSET

(* A block of memory has one tag and one set.                               *)
LEMMA BlockAddress ==
    ASSUME NEW config \in Configs, NEW c \in CacheType(config),
           NEW t \in Nat, NEW u \in Nat,
           NEW s \in Sets(config), NEW v \in Sets(config)
    PROVE  /\ CACHE_MK_BADDR(c, t, s) \in Nat
           /\ CACHE_MK_BADDR(c, t, s) = CACHE_MK_BADDR(c, u, v)
                => t = u /\ s = v
<1>1. PICK b \in Nat \ {0}, n \in Nat \ {0} :
        /\ c.bsize = b /\ c.nsets = n
        /\ s \in 0 .. n - 1 /\ v \in 0 .. n - 1
  BY CacheFields DEF Sets
<1>2. /\ CACHE_MK_BADDR(c, t, s) = t * (b * n) + s * b
      /\ CACHE_MK_BADDR(c, u, v) = u * (b * n) + v * b
  BY <1>1 DEF CACHE_MK_BADDR
<1>3. t * (b * n) + s * b \in Nat
  BY <1>1
<1>4. t * (b * n) + s * b = u * (b * n) + v * b => t = u /\ s = v
  BY <1>1, Encode
<1> QED BY <1>2, <1>3, <1>4

(* What the operations keep.                                                *)
Sound(config, c) ==
    /\ c \in CacheType(config)
    /\ WholeLists(c) /\ ChainedByTag(c) /\ Single(c) /\ LastIsThere(c)
    /\ InvalidAtEnd(c)

LEMMA FoundMeans ==
    ASSUME NEW config \in Configs, NEW c, Sound(config, c), NEW addr \in Nat
    PROVE  Found(c, addr) =
             {w \in Ways(config) :
                /\ c.tag[CACHE_SET(c, addr)][w] = CACHE_TAG(c, addr)
                /\ VALID \in c.status[CACHE_SET(c, addr)][w]}
<1> DEFINE s == CACHE_SET(c, addr)
           t == CACHE_TAG(c, addr)
<1>1. c \in CacheType(config)
  BY DEF Sound
<1>2. s \in SetIdx(c) /\ Way(c) = Ways(config) /\ c.hsize \in Nat
  BY <1>1, Located, CacheFields
<1>3. \A w \in Way(c) : c.tag[s][w] = t => w \in Searched(c, s, t)
  BY <1>2 DEF Searched, Sound, ChainedByTag
<1>4. Searched(c, s, t) \subseteq Way(c)
  BY DEF Searched
<1> QED BY <1>2, <1>3, <1>4 DEF Found

LEMMA FoundOne ==
    ASSUME NEW config \in Configs, NEW c, Sound(config, c), NEW addr \in Nat,
           NEW v \in Found(c, addr), NEW w \in Found(c, addr)
    PROVE  v = w
<1>1. CACHE_SET(c, addr) \in SetIdx(c) /\ Way(c) = Ways(config)
  BY Located, CacheFields DEF Sound
<1> QED BY <1>1, FoundMeans DEF Sound, Single

-----------------------------------------------------------------------------
(* update_way_list permutes the way list.                                   *)
WholeList(way, ways) ==
    /\ way \in [ways -> ways]
    /\ \A v, w \in ways : way[v] = way[w] => v = w
    /\ \A i \in ways : \E w \in ways : way[w] = i

LEMMA WholeListMeans ==
    ASSUME NEW n \in Nat \ {0}, NEW way, WholeList(way, 0 .. n - 1)
    PROVE  /\ way \in [0 .. n - 1 -> 0 .. n - 1] /\ DOMAIN way = 0 .. n - 1
           /\ \A w \in 0 .. n - 1 :
                way[w] \in Int /\ 0 <= way[w] /\ way[w] < n
<1>1. way \in [0 .. n - 1 -> 0 .. n - 1]
  BY DEF WholeList
<1> QED BY <1>1

LEMMA MoveToHeadWhole ==
    ASSUME NEW n \in Nat \ {0}, NEW way, WholeList(way, 0 .. n - 1),
           NEW blk \in 0 .. n - 1
    PROVE  /\ WholeList(MoveToHead(way, blk), 0 .. n - 1)
           /\ MoveToHead(way, blk)[blk] = 0
<1> DEFINE W == 0 .. n - 1
           moved == MoveToHead(way, blk)
<1>1. /\ way \in [W -> W] /\ DOMAIN way = W
      /\ \A w \in W : way[w] \in Int /\ 0 <= way[w] /\ way[w] < n
  BY WholeListMeans
<1>2. \A v, w \in W : way[v] = way[w] => v = w
  BY DEF WholeList
<1>3. moved = [w \in W |-> IF w = blk THEN 0
                            ELSE IF way[w] < way[blk] THEN way[w] + 1 ELSE way[w]]
  BY <1>1 DEF MoveToHead
<1>4. moved \in [W -> W]
  <2>1. ASSUME NEW w \in W
        PROVE (IF w = blk THEN 0
               ELSE IF way[w] < way[blk] THEN way[w] + 1 ELSE way[w]) \in W
    <3>1. way[w] \in Int /\ 0 <= way[w] /\ way[w] < n
      BY <1>1
    <3>2. way[blk] \in Int /\ way[blk] < n
      BY <1>1
    <3> QED BY <3>1, <3>2
  <2> QED BY <1>3, <2>1
<1> HIDE DEF moved
<1>5. \A v, w \in W : moved[v] = moved[w] => v = w
  <2> SUFFICES ASSUME NEW v \in W, NEW w \in W, moved[v] = moved[w]
               PROVE  v = w
    OBVIOUS
  <2>1. way[v] \in W /\ way[w] \in W /\ way[blk] \in W
    BY <1>1
  <2>2. way[v] = way[w] => v = w
    BY <1>2
  <2>3. (v # blk => way[v] # way[blk]) /\ (w # blk => way[w] # way[blk])
    BY <1>2
  <2> QED BY <1>3, <2>1, <2>2, <2>3
<1>6. ASSUME NEW i \in W PROVE \E w \in W : moved[w] = i
  <2>1. CASE i = 0
    BY <1>3, <2>1
  <2>2. CASE i > 0 /\ i <= way[blk]
    <3>1. way[blk] \in Int /\ way[blk] < n
      BY <1>1
    <3>2. i - 1 \in W
      BY <2>2, <3>1
    <3>3. PICK w \in W : way[w] = i - 1
      BY <3>2 DEF WholeList
    <3>4. way[blk] \in Int /\ i \in Int
      BY <1>1
    <3>5. w # blk /\ way[w] < way[blk]
      BY <2>2, <3>3, <3>4
    <3>6. moved[w] = i
      BY <1>3, <3>3, <3>4, <3>5
    <3> QED BY <3>6
  <2>3. CASE i > way[blk]
    <3>1. PICK w \in W : way[w] = i
      BY DEF WholeList
    <3>2. way[blk] \in Int /\ i \in Int
      BY <1>1
    <3>3. w # blk /\ ~(way[w] < way[blk])
      BY <2>3, <3>1, <3>2
    <3>4. moved[w] = i
      BY <1>3, <3>1, <3>3
    <3> QED BY <3>4
  <2> QED BY <1>1, <2>1, <2>2, <2>3
<1>7. moved[blk] = 0
  BY <1>3
<1> QED BY <1>4, <1>5, <1>6, <1>7 DEF WholeList, moved

LEMMA MoveToTailWhole ==
    ASSUME NEW n \in Nat \ {0}, NEW way, WholeList(way, 0 .. n - 1),
           NEW blk \in 0 .. n - 1
    PROVE  WholeList(MoveToTail(way, blk), 0 .. n - 1)
<1> DEFINE W == 0 .. n - 1
           moved == MoveToTail(way, blk)
<1>1. /\ way \in [W -> W] /\ DOMAIN way = W
      /\ \A w \in W : way[w] \in Int /\ 0 <= way[w] /\ way[w] < n
  BY WholeListMeans
<1>2. Cardinality(DOMAIN way) = n
  BY <1>1, FS_Interval
<1>3. moved = [w \in W |-> IF w = blk THEN n - 1
                           ELSE IF way[w] > way[blk] THEN way[w] - 1 ELSE way[w]]
  BY <1>1, <1>2 DEF MoveToTail
<1>4. moved \in [W -> W]
  <2>1. ASSUME NEW w \in W
        PROVE (IF w = blk THEN n - 1
               ELSE IF way[w] > way[blk] THEN way[w] - 1 ELSE way[w]) \in W
    <3>1. way[w] \in Int /\ 0 <= way[w] /\ way[w] < n
      BY <1>1
    <3>2. way[blk] \in Int /\ 0 <= way[blk]
      BY <1>1
    <3> QED BY <3>1, <3>2
  <2> QED BY <1>3, <2>1
<1> HIDE DEF moved
<1>5. \A v, w \in W : moved[v] = moved[w] => v = w
  <2> SUFFICES ASSUME NEW v \in W, NEW w \in W, moved[v] = moved[w]
               PROVE  v = w
    OBVIOUS
  <2>1. way[v] \in W /\ way[w] \in W /\ way[blk] \in W
    BY <1>1
  <2>2. way[v] = way[w] => v = w
    BY DEF WholeList
  <2>3. (v # blk => way[v] # way[blk]) /\ (w # blk => way[w] # way[blk])
    BY DEF WholeList
  <2> QED BY <1>3, <2>1, <2>2, <2>3
<1>6. ASSUME NEW i \in W PROVE \E w \in W : moved[w] = i
  <2>1. way[blk] \in W
    BY <1>1
  <2>2. CASE i = n - 1
    BY <1>3, <2>2
  <2>3. CASE i < n - 1 /\ i >= way[blk]
    <3>1. way[blk] \in Int /\ i + 1 \in W
      BY <1>1, <2>3
    <3>2. PICK w \in W : way[w] = i + 1
      BY <3>1 DEF WholeList
    <3>3. w # blk /\ way[w] > way[blk]
      BY <2>3, <3>1, <3>2
    <3>4. moved[w] = i
      BY <1>1, <1>3, <3>2, <3>3
    <3> QED BY <3>4
  <2>4. CASE i < n - 1 /\ i < way[blk]
    <3>1. PICK w \in W : way[w] = i
      BY DEF WholeList
    <3>2. w # blk /\ ~(way[w] > way[blk])
      BY <2>4, <2>1, <3>1
    <3>3. moved[w] = i
      BY <1>1, <1>3, <3>1, <3>2
    <3> QED BY <3>3
  <2> QED BY <2>2, <2>3, <2>4, <2>1
<1> QED BY <1>4, <1>5, <1>6 DEF WholeList, moved

(* The blocks that are not moved keep their order.                          *)
LEMMA MoveOrder ==
    ASSUME NEW n \in Nat \ {0}, NEW way, WholeList(way, 0 .. n - 1),
           NEW blk \in 0 .. n - 1
    PROVE  /\ \A v, w \in (0 .. n - 1) \ {blk} :
                /\ MoveToHead(way, blk)[v] < MoveToHead(way, blk)[w]
                     <=> way[v] < way[w]
                /\ MoveToTail(way, blk)[v] < MoveToTail(way, blk)[w]
                     <=> way[v] < way[w]
           /\ \A w \in (0 .. n - 1) \ {blk} :
                /\ MoveToHead(way, blk)[blk] < MoveToHead(way, blk)[w]
                /\ MoveToTail(way, blk)[w] < MoveToTail(way, blk)[blk]
<1> DEFINE W == 0 .. n - 1
<1>1. /\ way \in [W -> W] /\ DOMAIN way = W
      /\ \A w \in W : way[w] \in Int /\ 0 <= way[w] /\ way[w] < n
  BY WholeListMeans
<1>2. Cardinality(DOMAIN way) = n
  BY <1>1, FS_Interval
<1>3. \A w \in W : MoveToHead(way, blk)[w] =
                     IF w = blk THEN 0
                     ELSE IF way[w] < way[blk] THEN way[w] + 1 ELSE way[w]
  BY <1>1 DEF MoveToHead
<1>4. \A w \in W : MoveToTail(way, blk)[w] =
                     IF w = blk THEN n - 1
                     ELSE IF way[w] > way[blk] THEN way[w] - 1 ELSE way[w]
  BY <1>1, <1>2 DEF MoveToTail
<1>5. \A v, w \in W : way[v] = way[w] => v = w
  BY DEF WholeList
<1>6. ASSUME NEW v \in W \ {blk}, NEW w \in W \ {blk}
      PROVE  /\ MoveToHead(way, blk)[v] < MoveToHead(way, blk)[w]
                  <=> way[v] < way[w]
             /\ MoveToTail(way, blk)[v] < MoveToTail(way, blk)[w]
                  <=> way[v] < way[w]
  <2>1. way[v] \in Int /\ way[w] \in Int /\ way[blk] \in Int
    BY <1>1
  <2>2. way[v] # way[blk] /\ way[w] # way[blk]
    BY <1>5
  <2>3. /\ MoveToHead(way, blk)[v] = IF way[v] < way[blk] THEN way[v] + 1 ELSE way[v]
        /\ MoveToHead(way, blk)[w] = IF way[w] < way[blk] THEN way[w] + 1 ELSE way[w]
    BY <1>3
  <2>4. /\ MoveToTail(way, blk)[v] = IF way[v] > way[blk] THEN way[v] - 1 ELSE way[v]
        /\ MoveToTail(way, blk)[w] = IF way[w] > way[blk] THEN way[w] - 1 ELSE way[w]
    BY <1>4
  <2>5. MoveToHead(way, blk)[v] < MoveToHead(way, blk)[w] <=> way[v] < way[w]
    BY <2>1, <2>2, <2>3
  <2>6. MoveToTail(way, blk)[v] < MoveToTail(way, blk)[w] <=> way[v] < way[w]
    BY <2>1, <2>2, <2>4
  <2> QED BY <2>5, <2>6
<1>7. ASSUME NEW w \in W \ {blk}
      PROVE  /\ MoveToHead(way, blk)[blk] < MoveToHead(way, blk)[w]
             /\ MoveToTail(way, blk)[w] < MoveToTail(way, blk)[blk]
  <2>1. /\ way[w] \in Int /\ 0 <= way[w] /\ way[w] < n
        /\ way[blk] \in Int /\ 0 <= way[blk] /\ way[blk] < n
    BY <1>1
  <2>2. way[w] # way[blk]
    BY <1>5
  <2> QED BY <1>3, <1>4, <2>1, <2>2
<1> QED BY <1>6, <1>7

LEMMA WholeListsMeans ==
    ASSUME NEW config \in Configs, NEW c \in CacheType(config)
    PROVE  WholeLists(c) <=> \A s \in Sets(config) : WholeList(c.way[s], Ways(config))
<1>1. /\ SetIdx(c) = Sets(config) /\ Way(c) = Ways(config)
      /\ \A s \in Sets(config) : c.way[s] \in [Ways(config) -> Ways(config)]
  BY CacheFields
<1> QED BY <1>1 DEF WholeLists, WholeList

LEMMA ListOrder ==
    ASSUME NEW config \in Configs, NEW way, WholeList(way, Ways(config)),
           NEW blk \in Ways(config)
    PROVE  /\ \A v, w \in Ways(config) \ {blk} :
                /\ MoveToHead(way, blk)[v] < MoveToHead(way, blk)[w]
                     <=> way[v] < way[w]
                /\ MoveToTail(way, blk)[v] < MoveToTail(way, blk)[w]
                     <=> way[v] < way[w]
           /\ \A w \in Ways(config) \ {blk} :
                /\ MoveToHead(way, blk)[blk] < MoveToHead(way, blk)[w]
                /\ MoveToTail(way, blk)[w] < MoveToTail(way, blk)[blk]
BY Geometry, MoveOrder DEF Ways

LEMMA ListMoved ==
    ASSUME NEW config \in Configs, NEW way, WholeList(way, Ways(config)),
           NEW blk \in Ways(config)
    PROVE  /\ WholeList(MoveToHead(way, blk), Ways(config))
           /\ MoveToHead(way, blk)[blk] = 0
           /\ WholeList(MoveToTail(way, blk), Ways(config))
BY Geometry, MoveToHeadWhole, MoveToTailWhole DEF Ways

-----------------------------------------------------------------------------
(* The block that a hit finds and the block that a miss replaces.           *)
LEMMA HitBlock ==
    ASSUME NEW config \in Configs, NEW c, Sound(config, c), NEW addr \in Nat,
           Found(c, addr) # {}
    PROVE  LET blk == CHOOSE w \in Found(c, addr) : TRUE
           IN /\ blk \in Ways(config)
              /\ c.tag[CACHE_SET(c, addr)][blk] = CACHE_TAG(c, addr)
              /\ VALID \in c.status[CACHE_SET(c, addr)][blk]
<1>1. (CHOOSE w \in Found(c, addr) : TRUE) \in Found(c, addr)
  OBVIOUS
<1> QED BY <1>1, FoundMeans

LEMMA ReplacedBlock ==
    ASSUME NEW config \in Configs, NEW c, Sound(config, c), NEW addr \in Nat,
           NEW rand \in Ways(config)
    PROVE  Replaced(c, addr, rand) \in Ways(config)
<1>1. c \in CacheType(config) /\ WholeLists(c)
  BY DEF Sound
<1>2. /\ CACHE_SET(c, addr) \in SetIdx(c) /\ Way(c) = Ways(config)
      /\ c.assoc = config.assoc /\ c.assoc \in Nat \ {0}
  BY <1>1, CacheFields, Located
<1>3. c.assoc - 1 \in Way(c)
  BY <1>2 DEF Way
<1>4. \E w \in Way(c) : c.way[CACHE_SET(c, addr)][w] = c.assoc - 1
  BY <1>1, <1>2, <1>3 DEF WholeLists
<1> QED BY <1>2, <1>4 DEF Replaced

LEMMA MarkedType ==
    ASSUME NEW status \in StatusType, NEW cmd
    PROVE  /\ Marked(status, cmd) \in StatusType
           /\ VALID \in status => VALID \in Marked(status, cmd)
           /\ DIRTY \in Marked(status, cmd)
                <=> DIRTY \in status \/ cmd = "Write"
BY DEF Marked, StatusType, VALID, DIRTY

-----------------------------------------------------------------------------
(* The operations keep a cache sound.                                       *)
(* A change of one block, its place in the list and the chains of its set.  *)
Changed(config, c, d, s, w, tag, status, way, hash, last_tagset, last_blk) ==
    /\ d \in CacheType(config)
    /\ d.nsets = c.nsets /\ d.bsize = c.bsize /\ d.assoc = c.assoc
    /\ d.hsize = c.hsize /\ d.policy = c.policy /\ d.crashed = c.crashed
    /\ d.tag = [c.tag EXCEPT ![s][w] = tag]
    /\ d.status = [c.status EXCEPT ![s][w] = status]
    /\ d.way = [c.way EXCEPT ![s] = way]
    /\ d.hash = [c.hash EXCEPT ![s] = hash]
    /\ d.last_tagset = last_tagset /\ d.last_blk = last_blk

LEMMA FastHitFields ==
    ASSUME NEW config \in Configs, NEW c, Sound(config, c), NEW addr \in Nat,
           NEW cmd, NEW s, NEW w, c.last_blk = <<s, w>>, c.last_blk # NULL
    PROVE  /\ s \in Sets(config) /\ w \in Ways(config)
           /\ Changed(config, c, FastHitAccess(c, cmd, addr), s, w, c.tag[s][w],
                      Marked(c.status[s][w], cmd), c.way[s], c.hash[s],
                      c.last_tagset, c.last_blk)
<1> DEFINE d == FastHitAccess(c, cmd, addr)
           st == [c.status EXCEPT ![s][w] = Marked(c.status[s][w], cmd)]
<1>1. c \in CacheType(config)
  BY DEF Sound
<1>2. c.last_blk \in Sets(config) \X Ways(config)
  BY <1>1, CacheFields
<1>3. s \in Sets(config) /\ w \in Ways(config)
  BY <1>2
<1>4. /\ c.status \in [Sets(config) -> [Ways(config) -> StatusType]]
      /\ c.tag = [c.tag EXCEPT ![s][w] = c.tag[s][w]]
      /\ c.way = [c.way EXCEPT ![s] = c.way[s]]
      /\ c.hash = [c.hash EXCEPT ![s] = c.hash[s]]
  BY <1>1, <1>3, CacheFields
<1>5. Marked(c.status[s][w], cmd) \in StatusType
  BY <1>3, <1>4, MarkedType
<1>6. st \in [Sets(config) -> [Ways(config) -> StatusType]]
  BY <1>3, <1>4, <1>5
<1>7. d = [c EXCEPT !.status = st]
  BY DEF FastHitAccess
<1> HIDE DEF d, st
<1>8. d \in CacheType(config)
  BY <1>1, <1>6, <1>7 DEF CacheType
<1>9. /\ d.nsets = c.nsets /\ d.bsize = c.bsize /\ d.assoc = c.assoc
      /\ d.hsize = c.hsize /\ d.policy = c.policy /\ d.crashed = c.crashed
      /\ d.tag = c.tag /\ d.way = c.way /\ d.hash = c.hash /\ d.status = st
      /\ d.last_tagset = c.last_tagset /\ d.last_blk = c.last_blk
  BY <1>1, <1>7 DEF CacheType
<1> QED BY <1>3, <1>4, <1>8, <1>9 DEF Changed, d, st

LEMMA SlowHitFields ==
    ASSUME NEW config \in Configs, NEW c, Sound(config, c), NEW addr \in Nat,
           NEW cmd, Found(c, addr) # {}
    PROVE  LET s == CACHE_SET(c, addr)
               w == CHOOSE w \in Found(c, addr) : TRUE
           IN Changed(config, c, SlowHitAccess(c, cmd, addr), s, w, c.tag[s][w],
                      Marked(c.status[s][w], cmd),
                      IF c.policy = "LRU" THEN MoveToHead(c.way[s], w)
                                          ELSE c.way[s],
                      c.hash[s], CACHE_TAGSET(c, addr), <<s, w>>)
<1> DEFINE d  == SlowHitAccess(c, cmd, addr)
           s  == CACHE_SET(c, addr)
           w  == CHOOSE w \in Found(c, addr) : TRUE
           st == [c.status EXCEPT ![s][w] = Marked(c.status[s][w], cmd)]
           l  == IF c.policy = "LRU" THEN MoveToHead(c.way[s], w) ELSE c.way[s]
           ws == [c.way EXCEPT ![s] = l]
           lt == CACHE_TAGSET(c, addr)
<1>1. c \in CacheType(config)
  BY DEF Sound
<1>2. s \in Sets(config) /\ w \in Ways(config)
  BY <1>1, HitBlock, Located
<1>3. d = [c EXCEPT !.status = st, !.way = ws, !.last_tagset = lt,
                    !.last_blk = <<s, w>>]
  BY DEF SlowHitAccess
<1>4. lt \in Nat
  BY <1>1, Located
<1> HIDE DEF d, s, w, lt
<1>5. /\ c.status \in [Sets(config) -> [Ways(config) -> StatusType]]
      /\ c.way \in [Sets(config) -> [Ways(config) -> Ways(config)]]
      /\ c.tag = [c.tag EXCEPT ![s][w] = c.tag[s][w]]
      /\ c.hash = [c.hash EXCEPT ![s] = c.hash[s]]
  BY <1>1, <1>2, CacheFields
<1>6. Marked(c.status[s][w], cmd) \in StatusType
  BY <1>2, <1>5, MarkedType
<1>7. st \in [Sets(config) -> [Ways(config) -> StatusType]]
  BY <1>2, <1>5, <1>6
<1>8. WholeList(c.way[s], Ways(config))
  BY <1>1, <1>2, WholeListsMeans DEF Sound
<1>9. MoveToHead(c.way[s], w) \in [Ways(config) -> Ways(config)]
  BY <1>2, <1>8, ListMoved DEF WholeList
<1>10. ws \in [Sets(config) -> [Ways(config) -> Ways(config)]]
  BY <1>2, <1>5, <1>9
<1> HIDE DEF st, l, ws
<1>11. d \in CacheType(config)
  BY <1>1, <1>2, <1>3, <1>4, <1>7, <1>10 DEF CacheType
<1>12. /\ d.nsets = c.nsets /\ d.bsize = c.bsize /\ d.assoc = c.assoc
       /\ d.hsize = c.hsize /\ d.policy = c.policy /\ d.crashed = c.crashed
       /\ d.tag = c.tag /\ d.way = ws /\ d.hash = c.hash /\ d.status = st
       /\ d.last_tagset = lt /\ d.last_blk = <<s, w>>
  BY <1>1, <1>3 DEF CacheType
<1> QED BY <1>5, <1>11, <1>12 DEF Changed, d, s, w, st, l, ws, lt

LEMMA MissFields ==
    ASSUME NEW config \in Configs, NEW c, Sound(config, c), NEW addr \in Nat,
           NEW cmd, NEW rand \in Ways(config)
    PROVE  LET s == CACHE_SET(c, addr)
               w == Replaced(c, addr, rand)
           IN Changed(config, c, MissAccess(c, cmd, addr, rand), s, w,
                      CACHE_TAG(c, addr), Marked({VALID}, cmd),
                      IF c.policy = "Random" THEN c.way[s]
                                             ELSE MoveToHead(c.way[s], w),
                      (c.hash[s] \ Entry(c, c.tag[s][w], w))
                        \cup Entry(c, CACHE_TAG(c, addr), w),
                      0, NULL)
<1> DEFINE d  == MissAccess(c, cmd, addr, rand)
           s  == CACHE_SET(c, addr)
           w  == Replaced(c, addr, rand)
           t  == CACHE_TAG(c, addr)
           m  == Marked({VALID}, cmd)
           st == [c.status EXCEPT ![s][w] = m]
           tg == [c.tag EXCEPT ![s][w] = t]
           l  == IF c.policy = "Random" THEN c.way[s] ELSE MoveToHead(c.way[s], w)
           ws == [c.way EXCEPT ![s] = l]
           h1 == [c.hash EXCEPT ![s] = c.hash[s] \ Entry(c, c.tag[s][w], w)]
           g  == Unlinked(c, s, w)
           e  == [g EXCEPT !.tag[s][w] = t, !.status[s][w] = m]
           h2 == [c.hash EXCEPT ![s] = (c.hash[s] \ Entry(c, c.tag[s][w], w))
                                         \cup Entry(c, t, w)]
<1>1. c \in CacheType(config)
  BY DEF Sound
<1>2. s \in Sets(config) /\ w \in Ways(config) /\ t \in Nat
  BY <1>1, ReplacedBlock, Located
<1>3. /\ c.status \in [Sets(config) -> [Ways(config) -> StatusType]]
      /\ c.tag \in [Sets(config) -> [Ways(config) -> Nat]]
      /\ c.way \in [Sets(config) -> [Ways(config) -> Ways(config)]]
      /\ c.hash \in [Sets(config) ->
                        SUBSET ((SUBSET (0 .. 29)) \X Ways(config))]
  BY <1>1, CacheFields
<1>4. m \in StatusType
  BY MarkedType DEF StatusType
<1>5. MoveToHead(c.way[s], w) \in [Ways(config) -> Ways(config)]
  BY <1>1, <1>2, WholeListsMeans, ListMoved DEF Sound, WholeList
<1>6. d = link_htab_ent(e, s, w)
  BY DEF MissAccess
<1> HIDE DEF d, s, w, t, m
<1>7. g = [c EXCEPT !.hash = h1, !.way = ws, !.last_tagset = 0, !.last_blk = NULL]
  BY <1>1 DEF Unlinked, unlink_htab_ent, CacheType
<1> HIDE DEF g
<1>8. e = [c EXCEPT !.hash = h1, !.way = ws, !.last_tagset = 0, !.last_blk = NULL,
                    !.tag = tg, !.status = st]
  BY <1>1, <1>7 DEF CacheType
<1> HIDE DEF e, st, tg, ws, l
<1>9. /\ e.hash = h1 /\ e.tag = tg /\ e.hsize = c.hsize
  BY <1>1, <1>8 DEF CacheType
<1>10. tg[s][w] = t /\ h1[s] = c.hash[s] \ Entry(c, c.tag[s][w], w)
  BY <1>2, <1>3 DEF tg
<1>11. Entry(e, t, w) = Entry(c, t, w)
  BY <1>9 DEF Entry, CACHE_HASH
<1>12. [h1 EXCEPT ![s] = h1[s] \cup Entry(c, t, w)] = h2
  BY <1>2, <1>3, <1>10
<1> HIDE DEF h1
<1>13. d = [e EXCEPT !.hash = [h1 EXCEPT ![s] = h1[s] \cup Entry(c, t, w)]]
  BY <1>6, <1>9, <1>10, <1>11 DEF link_htab_ent
<1>14. Entry(c, t, w) \subseteq (SUBSET (0 .. 29)) \X Ways(config)
  BY <1>2 DEF Entry, CACHE_HASH, HashedBits
<1>15. h2 \in [Sets(config) -> SUBSET ((SUBSET (0 .. 29)) \X Ways(config))]
  BY <1>2, <1>3, <1>14
<1> HIDE DEF h2
<1>16. /\ st \in [Sets(config) -> [Ways(config) -> StatusType]]
       /\ tg \in [Sets(config) -> [Ways(config) -> Nat]]
       /\ ws \in [Sets(config) -> [Ways(config) -> Ways(config)]]
  BY <1>2, <1>3, <1>4, <1>5 DEF st, tg, ws, l
<1>17. d = [c EXCEPT !.hash = h2, !.way = ws, !.last_tagset = 0, !.last_blk = NULL,
                    !.tag = tg, !.status = st]
  BY <1>1, <1>8, <1>12, <1>13 DEF CacheType
<1>18. d \in CacheType(config)
  BY <1>1, <1>15, <1>16, <1>17 DEF CacheType
<1>19. /\ d.nsets = c.nsets /\ d.bsize = c.bsize /\ d.assoc = c.assoc
       /\ d.hsize = c.hsize /\ d.policy = c.policy /\ d.crashed = c.crashed
       /\ d.tag = tg /\ d.way = ws /\ d.hash = h2 /\ d.status = st
       /\ d.last_tagset = 0 /\ d.last_blk = NULL
  BY <1>1, <1>17 DEF CacheType
<1> QED BY <1>18, <1>19 DEF Changed, d, s, w, t, m, st, tg, l, ws, h2

-----------------------------------------------------------------------------
(* What a change of one block must observe to keep a cache sound.           *)
FreeLast(config, c, s, w, status, way) ==
    c.policy # "Random" =>
      \A x, y \in Ways(config) :
        /\ VALID \in (IF x = w THEN status ELSE c.status[s][x])
        /\ VALID \notin (IF y = w THEN status ELSE c.status[s][y])
        => way[x] < way[y]

LEMMA ChangedSound ==
    ASSUME NEW config \in Configs, NEW c, Sound(config, c), NEW d,
           NEW s \in Sets(config), NEW w \in Ways(config), NEW tag \in Nat,
           NEW status \in StatusType, NEW way, NEW hash, NEW last_tagset, NEW last_blk,
           Changed(config, c, d, s, w, tag, status, way, hash, last_tagset, last_blk),
           WholeList(way, Ways(config)),
           hash = (c.hash[s] \ Entry(c, c.tag[s][w], w)) \cup Entry(c, tag, w),
           VALID \in status => \A x \in Ways(config) \ {w} :
                                VALID \in c.status[s][x] => c.tag[s][x] # tag,
           FreeLast(config, c, s, w, status, way),
           \/ last_blk = NULL /\ last_tagset = 0
           \/ /\ last_blk = <<s, w>> /\ VALID \in status
              /\ last_tagset = CACHE_MK_BADDR(c, tag, s)
              /\ c.policy = "LRU" => way[w] = 0
    PROVE  Sound(config, d)
<1>1. c \in CacheType(config) /\ d \in CacheType(config)
  BY DEF Sound, Changed
<1>2. /\ SetIdx(c) = Sets(config) /\ Way(c) = Ways(config)
      /\ SetIdx(d) = Sets(config) /\ Way(d) = Ways(config)
      /\ c.status \in [Sets(config) -> [Ways(config) -> StatusType]]
      /\ c.tag \in [Sets(config) -> [Ways(config) -> Nat]]
      /\ c.way \in [Sets(config) -> [Ways(config) -> Ways(config)]]
      /\ c.hash \in [Sets(config) ->
                        SUBSET ((SUBSET (0 .. 29)) \X Ways(config))]
  BY <1>1, CacheFields
<1>3. \A v \in Sets(config), x \in Ways(config) :
        /\ d.tag[v][x] = IF v = s /\ x = w THEN tag ELSE c.tag[v][x]
        /\ d.status[v][x] = IF v = s /\ x = w THEN status ELSE c.status[v][x]
  BY <1>2 DEF Changed
<1>4. \A v \in Sets(config) :
        /\ d.way[v] = IF v = s THEN way ELSE c.way[v]
        /\ d.hash[v] = IF v = s THEN hash ELSE c.hash[v]
  BY <1>2 DEF Changed
<1>5. d.hsize = c.hsize /\ d.policy = c.policy /\ d.bsize = c.bsize
      /\ d.nsets = c.nsets /\ d.last_tagset = last_tagset /\ d.last_blk = last_blk
  BY DEF Changed
<1>6. WholeLists(d)
  BY <1>1, <1>4, WholeListsMeans DEF Sound
<1>7. ChainedByTag(d)
  <2> SUFFICES ASSUME c.hsize > 0, NEW v \in Sets(config)
               PROVE  d.hash[v] = {<<CACHE_HASH(d, d.tag[v][x]), x>> :
                                     x \in Ways(config)}
    BY <1>2, <1>5 DEF ChainedByTag
  <2>1. c.hash[v] = {<<CACHE_HASH(c, c.tag[v][x]), x>> : x \in Ways(config)}
    BY <1>2 DEF Sound, ChainedByTag
  <2>2. \A k : CACHE_HASH(d, k) = CACHE_HASH(c, k)
    BY <1>5 DEF CACHE_HASH
  <2>3. CASE v = s
    <3>1. d.hash[v] = (c.hash[v] \ {<<CACHE_HASH(c, c.tag[v][w]), w>>})
                         \cup {<<CACHE_HASH(c, tag), w>>}
      BY <1>4, <2>3 DEF Entry
    <3>2. \A x \in Ways(config) :
            d.tag[v][x] = IF x = w THEN tag ELSE c.tag[v][x]
      BY <1>3, <2>3
    <3> QED BY <2>1, <2>2, <3>1, <3>2
  <2>4. CASE v # s
    <3>1. d.hash[v] = c.hash[v]
      BY <1>4, <2>4
    <3>2. \A x \in Ways(config) : d.tag[v][x] = c.tag[v][x]
      BY <1>3, <2>4
    <3> QED BY <2>1, <2>2, <3>1, <3>2
  <2> QED BY <2>3, <2>4
<1>8. Single(d)
  <2> SUFFICES ASSUME NEW v \in Sets(config), NEW x \in Ways(config),
                      NEW y \in Ways(config),
                      VALID \in d.status[v][x], VALID \in d.status[v][y],
                      d.tag[v][x] = d.tag[v][y]
               PROVE  x = y
    BY <1>2 DEF Single
  <2>1. /\ VALID \in c.status[v][x] /\ VALID \in c.status[v][y]
        /\ c.tag[v][x] = c.tag[v][y]
        => x = y
    BY <1>2 DEF Sound, Single
  <2>2. CASE v = s /\ x = w
    BY <1>3, <2>2
  <2>3. CASE v = s /\ y = w
    BY <1>3, <2>3
  <2>4. CASE ~(v = s /\ x = w) /\ ~(v = s /\ y = w)
    BY <1>3, <2>1, <2>4
  <2> QED BY <2>2, <2>3, <2>4
<1>9. LastIsThere(d)
  <2>1. CASE last_blk = NULL /\ last_tagset = 0
    BY <1>5, <2>1 DEF LastIsThere
  <2>2. CASE /\ last_blk = <<s, w>> /\ VALID \in status
             /\ last_tagset = CACHE_MK_BADDR(c, tag, s)
             /\ c.policy = "LRU" => way[w] = 0
    <3>1. d.last_blk # NULL /\ d.last_blk[1] = s /\ d.last_blk[2] = w
      BY <1>5, <2>2, NullAssumption DEF Sets, Ways
    <3>2. CACHE_MK_BADDR(d, d.tag[s][w], s) = CACHE_MK_BADDR(c, tag, s)
      BY <1>3, <1>5 DEF CACHE_MK_BADDR
    <3>3. d.way[s][w] = way[w] /\ d.status[s][w] = status
      BY <1>3, <1>4
    <3> QED BY <1>5, <2>2, <3>1, <3>2, <3>3 DEF LastIsThere
  <2> QED BY <2>1, <2>2
<1>10. InvalidAtEnd(d)
  <2> SUFFICES ASSUME c.policy # "Random", NEW v \in Sets(config),
                      NEW x \in Ways(config), NEW y \in Ways(config),
                      VALID \in d.status[v][x], VALID \notin d.status[v][y]
               PROVE  d.way[v][x] < d.way[v][y]
    BY <1>2, <1>5 DEF InvalidAtEnd
  <2>1. CASE v = s
    BY <1>3, <1>4, <2>1 DEF FreeLast
  <2>2. CASE v # s
    BY <1>2, <1>3, <1>4, <2>2 DEF Sound, InvalidAtEnd
  <2> QED BY <2>1, <2>2
<1> QED BY <1>1, <1>6, <1>7, <1>8, <1>9, <1>10 DEF Sound

(* The block of memory that a way passes on if it is written back.          *)
Held(c, s, tag, status) ==
    IF {VALID, DIRTY} \subseteq status THEN {CACHE_MK_BADDR(c, tag, s)} ELSE {}

LEMMA DirtyBlocksMeans ==
    ASSUME NEW config \in Configs, NEW c \in CacheType(config)
    PROVE  /\ DirtyBlocks(c) \subseteq Nat
           /\ \A a : a \in DirtyBlocks(c) <=>
                \E s \in Sets(config), w \in Ways(config) :
                  a \in Held(c, s, c.tag[s][w], c.status[s][w])
<1>1. /\ SetIdx(c) = Sets(config) /\ Way(c) = Ways(config)
      /\ c.tag \in [Sets(config) -> [Ways(config) -> Nat]]
  BY CacheFields
<1>2. \A a : a \in DirtyBlocks(c) <=>
        \E s \in Sets(config), w \in Ways(config) :
          a \in Held(c, s, c.tag[s][w], c.status[s][w])
  <2> SUFFICES ASSUME NEW a
               PROVE  a \in DirtyBlocks(c) <=>
                        \E s \in Sets(config), w \in Ways(config) :
                          a \in Held(c, s, c.tag[s][w], c.status[s][w])
    OBVIOUS
  <2>1. ASSUME a \in DirtyBlocks(c)
        PROVE  \E s \in Sets(config), w \in Ways(config) :
                 a \in Held(c, s, c.tag[s][w], c.status[s][w])
    <3>1. PICK sw \in SetIdx(c) \X Way(c) :
            /\ {VALID, DIRTY} \subseteq c.status[sw[1]][sw[2]]
            /\ a = CACHE_MK_BADDR(c, c.tag[sw[1]][sw[2]], sw[1])
      BY <2>1 DEF DirtyBlocks
    <3>2. sw[1] \in Sets(config) /\ sw[2] \in Ways(config)
      BY <1>1
    <3>3. a \in Held(c, sw[1], c.tag[sw[1]][sw[2]], c.status[sw[1]][sw[2]])
      BY <3>1 DEF Held
    <3> QED BY <3>2, <3>3
  <2>2. ASSUME NEW s \in Sets(config), NEW w \in Ways(config),
               a \in Held(c, s, c.tag[s][w], c.status[s][w])
        PROVE  a \in DirtyBlocks(c)
    <3>1. /\ {VALID, DIRTY} \subseteq c.status[s][w]
          /\ a = CACHE_MK_BADDR(c, c.tag[s][w], s)
      BY <2>2 DEF Held
    <3> DEFINE sw == <<s, w>>
    <3>2. sw \in SetIdx(c) \X Way(c) /\ sw[1] = s /\ sw[2] = w
      BY <1>1
    <3> HIDE DEF sw
    <3>3. /\ {VALID, DIRTY} \subseteq c.status[sw[1]][sw[2]]
          /\ a = CACHE_MK_BADDR(c, c.tag[sw[1]][sw[2]], sw[1])
      BY <3>1, <3>2
    <3> QED BY <3>2, <3>3 DEF DirtyBlocks
  <2> QED BY <2>1, <2>2
<1>3. ASSUME NEW s \in Sets(config), NEW w \in Ways(config)
      PROVE  CACHE_MK_BADDR(c, c.tag[s][w], s) \in Nat
  BY <1>1, BlockAddress
<1> QED BY <1>2, <1>3 DEF Held

LEMMA ChangedDirty ==
    ASSUME NEW config \in Configs, NEW c, Sound(config, c), NEW d,
           NEW s \in Sets(config), NEW w \in Ways(config), NEW tag \in Nat,
           NEW status, NEW way, NEW hash, NEW last_tagset, NEW last_blk,
           Changed(config, c, d, s, w, tag, status, way, hash, last_tagset, last_blk)
    PROVE  DirtyBlocks(d) =
             (DirtyBlocks(c) \ Held(c, s, c.tag[s][w], c.status[s][w]))
               \cup Held(c, s, tag, status)
<1>1. c \in CacheType(config) /\ d \in CacheType(config)
  BY DEF Sound, Changed
<1>2. /\ SetIdx(c) = Sets(config) /\ Way(c) = Ways(config)
      /\ c.status \in [Sets(config) -> [Ways(config) -> StatusType]]
      /\ c.tag \in [Sets(config) -> [Ways(config) -> Nat]]
  BY <1>1, CacheFields
<1> DEFINE Of(v, x) == Held(c, v, c.tag[v][x], c.status[v][x])
           New(v, x) == Held(d, v, d.tag[v][x], d.status[v][x])
<1>3. \A v \in Sets(config), x \in Ways(config) :
        New(v, x) = IF v = s /\ x = w THEN Held(c, s, tag, status) ELSE Of(v, x)
  <2>1. \A v \in Sets(config), x \in Ways(config) :
          /\ d.tag[v][x] = IF v = s /\ x = w THEN tag ELSE c.tag[v][x]
          /\ d.status[v][x] = IF v = s /\ x = w THEN status ELSE c.status[v][x]
    BY <1>2 DEF Changed
  <2>2. \A t, v : CACHE_MK_BADDR(d, t, v) = CACHE_MK_BADDR(c, t, v)
    BY DEF Changed, CACHE_MK_BADDR
  <2> QED BY <2>1, <2>2 DEF Held
<1>4. ASSUME NEW v \in Sets(config), NEW x \in Ways(config), ~(v = s /\ x = w)
      PROVE  Of(v, x) \cap Of(s, w) = {}
  <2> SUFFICES ASSUME {VALID, DIRTY} \subseteq c.status[v][x],
                      {VALID, DIRTY} \subseteq c.status[s][w],
                      CACHE_MK_BADDR(c, c.tag[v][x], v)
                        = CACHE_MK_BADDR(c, c.tag[s][w], s)
               PROVE  FALSE
    BY DEF Held
  <2>1. c.tag[v][x] \in Nat /\ c.tag[s][w] \in Nat
    BY <1>2
  <2>2. c.tag[v][x] = c.tag[s][w] /\ v = s
    BY <1>1, <2>1, BlockAddress
  <2>3. x = w
    BY <1>2, <2>2 DEF Sound, Single
  <2> QED BY <1>4, <2>2, <2>3
<1>5. \A a : a \in DirtyBlocks(c) <=>
        \E v \in Sets(config), x \in Ways(config) : a \in Of(v, x)
  BY <1>1, DirtyBlocksMeans
<1>6. \A a : a \in DirtyBlocks(d) <=>
        \E v \in Sets(config), x \in Ways(config) : a \in New(v, x)
  BY <1>1, DirtyBlocksMeans
<1> HIDE DEF Of, New
<1>7. ASSUME NEW a
      PROVE  a \in DirtyBlocks(d) <=>
               \/ a \in DirtyBlocks(c) /\ a \notin Of(s, w)
               \/ a \in Held(c, s, tag, status)
  <2>1. ASSUME a \in DirtyBlocks(d)
        PROVE  \/ a \in DirtyBlocks(c) /\ a \notin Of(s, w)
               \/ a \in Held(c, s, tag, status)
    BY <1>3, <1>4, <1>5, <1>6, <2>1
  <2>2. ASSUME a \in DirtyBlocks(c), a \notin Of(s, w)
        PROVE  a \in DirtyBlocks(d)
    BY <1>3, <1>5, <1>6, <2>2
  <2>3. ASSUME a \in Held(c, s, tag, status)
        PROVE  a \in DirtyBlocks(d)
    BY <1>3, <1>6, <2>3
  <2> QED BY <2>1, <2>2, <2>3
<1> QED BY <1>7 DEF Of

-----------------------------------------------------------------------------
(* Every access keeps a cache sound, and changes the dirty blocks by what   *)
(* it writes and what it writes back.                                       *)
Writes(cmd, block) == IF cmd = "Write" THEN {block} ELSE {}

LEMMA FastHitSound ==
    ASSUME NEW config \in Configs, NEW c, Sound(config, c), NEW addr \in Nat,
           NEW cmd, FastHit(c, addr), c.last_blk # NULL
    PROVE  /\ Sound(config, FastHitAccess(c, cmd, addr))
           /\ DirtyBlocks(FastHitAccess(c, cmd, addr))
                = DirtyBlocks(c) \cup Writes(cmd, CACHE_BADDR(c, addr))
           /\ FastHitAccess(c, cmd, addr).crashed = c.crashed
<1> DEFINE d == FastHitAccess(c, cmd, addr)
<1>1. c \in CacheType(config)
  BY DEF Sound
<1>2. c.last_blk \in Sets(config) \X Ways(config)
  BY <1>1, CacheFields
<1>3. PICK s \in Sets(config), w \in Ways(config) : c.last_blk = <<s, w>>
  BY <1>2
<1>4. Changed(config, c, d, s, w, c.tag[s][w], Marked(c.status[s][w], cmd),
             c.way[s], c.hash[s], c.last_tagset, c.last_blk)
  BY <1>3, FastHitFields
<1>5. /\ SetIdx(c) = Sets(config) /\ Way(c) = Ways(config)
      /\ c.tag[s][w] \in Nat /\ c.status[s][w] \in StatusType
  BY <1>1, CacheFields
<1>6. /\ Marked(c.status[s][w], cmd) \in StatusType
      /\ WholeList(c.way[s], Ways(config))
  BY <1>1, <1>5, MarkedType, WholeListsMeans DEF Sound
<1>7. c.hash[s] = (c.hash[s] \ Entry(c, c.tag[s][w], w)) \cup Entry(c, c.tag[s][w], w)
  BY <1>5 DEF Sound, ChainedByTag, Entry
<1>8. /\ VALID \in c.status[s][w]
      /\ c.last_tagset = CACHE_MK_BADDR(c, c.tag[s][w], s)
      /\ c.policy = "LRU" => c.way[s][w] = 0
  BY <1>3 DEF Sound, LastIsThere
<1>9. \A x \in Ways(config) \ {w} :
        VALID \in c.status[s][x] => c.tag[s][x] # c.tag[s][w]
  BY <1>5, <1>8 DEF Sound, Single
<1>10. VALID \in Marked(c.status[s][w], cmd)
  BY <1>5, <1>8, MarkedType
<1> HIDE DEF d
<1>18. FreeLast(config, c, s, w, Marked(c.status[s][w], cmd), c.way[s])
  BY <1>3, <1>5, <1>8, <1>10 DEF FreeLast, Sound, InvalidAtEnd
<1>11. Sound(config, d)
  BY <1>3, <1>4, <1>5, <1>6, <1>7, <1>8, <1>9, <1>10, <1>18, ChangedSound
<1>12. CACHE_BADDR(c, addr) = CACHE_MK_BADDR(c, c.tag[s][w], s)
  BY <1>1, <1>8, Located DEF FastHit
<1>13. DirtyBlocks(d) =
         (DirtyBlocks(c) \ Held(c, s, c.tag[s][w], c.status[s][w]))
           \cup Held(c, s, c.tag[s][w], Marked(c.status[s][w], cmd))
  BY <1>4, <1>5, ChangedDirty
<1>14. Held(c, s, c.tag[s][w], Marked(c.status[s][w], cmd))
         = Held(c, s, c.tag[s][w], c.status[s][w])
             \cup Writes(cmd, CACHE_BADDR(c, addr))
  BY <1>5, <1>8, <1>10, <1>12, MarkedType DEF Held, Writes
<1>15. Held(c, s, c.tag[s][w], c.status[s][w]) \subseteq DirtyBlocks(c)
  BY <1>1, DirtyBlocksMeans
<1>16. DirtyBlocks(d) = DirtyBlocks(c) \cup Writes(cmd, CACHE_BADDR(c, addr))
  BY <1>13, <1>14, <1>15
<1>17. d.crashed = c.crashed
  BY <1>4 DEF Changed
<1> QED BY <1>11, <1>16, <1>17 DEF d

LEMMA SlowHitSound ==
    ASSUME NEW config \in Configs, NEW c, Sound(config, c), NEW addr \in Nat,
           NEW cmd, Found(c, addr) # {}
    PROVE  /\ Sound(config, SlowHitAccess(c, cmd, addr))
           /\ DirtyBlocks(SlowHitAccess(c, cmd, addr))
                = DirtyBlocks(c) \cup Writes(cmd, CACHE_BADDR(c, addr))
           /\ SlowHitAccess(c, cmd, addr).crashed = c.crashed
<1> DEFINE d == SlowHitAccess(c, cmd, addr)
           s == CACHE_SET(c, addr)
           w == CHOOSE w \in Found(c, addr) : TRUE
           l == IF c.policy = "LRU" THEN MoveToHead(c.way[s], w) ELSE c.way[s]
<1>1. c \in CacheType(config)
  BY DEF Sound
<1>2. /\ s \in Sets(config) /\ w \in Ways(config)
      /\ c.tag[s][w] = CACHE_TAG(c, addr) /\ VALID \in c.status[s][w]
  BY <1>1, HitBlock, Located
<1>3. Changed(config, c, d, s, w, c.tag[s][w], Marked(c.status[s][w], cmd), l,
             c.hash[s], CACHE_TAGSET(c, addr), <<s, w>>)
  BY SlowHitFields
<1>4. CACHE_TAGSET(c, addr) = CACHE_MK_BADDR(c, c.tag[s][w], s)
      /\ CACHE_TAGSET(c, addr) = CACHE_BADDR(c, addr)
  BY <1>1, <1>2, Located
<1> HIDE DEF d, s, w, l
<1>5. /\ SetIdx(c) = Sets(config) /\ Way(c) = Ways(config)
      /\ c.tag[s][w] \in Nat /\ c.status[s][w] \in StatusType
  BY <1>1, <1>2, CacheFields
<1>6. /\ Marked(c.status[s][w], cmd) \in StatusType
      /\ VALID \in Marked(c.status[s][w], cmd)
  BY <1>2, <1>5, MarkedType
<1>7. WholeList(c.way[s], Ways(config))
  BY <1>1, <1>2, WholeListsMeans DEF Sound
<1>8. /\ WholeList(l, Ways(config))
      /\ c.policy = "LRU" => l[w] = 0
  BY <1>2, <1>7, ListMoved DEF l
<1>9. c.hash[s] = (c.hash[s] \ Entry(c, c.tag[s][w], w)) \cup Entry(c, c.tag[s][w], w)
  BY <1>2, <1>5 DEF Sound, ChainedByTag, Entry
<1>10. \A x \in Ways(config) \ {w} :
         VALID \in c.status[s][x] => c.tag[s][x] # c.tag[s][w]
  BY <1>2, <1>5 DEF Sound, Single
<1>22. FreeLast(config, c, s, w, Marked(c.status[s][w], cmd), l)
  <2>1. c.policy # "Random" =>
          \A x, y \in Ways(config) :
            VALID \in c.status[s][x] /\ VALID \notin c.status[s][y]
              => c.way[s][x] < c.way[s][y]
    BY <1>2, <1>5 DEF Sound, InvalidAtEnd
  <2>2. l # c.way[s] => /\ \A v, y \in Ways(config) \ {w} :
                              l[v] < l[y] <=> c.way[s][v] < c.way[s][y]
                        /\ \A y \in Ways(config) \ {w} : l[w] < l[y]
    BY <1>2, <1>7, ListOrder DEF l
  <2> QED BY <1>2, <1>6, <2>1, <2>2 DEF FreeLast
<1> DEFINE b == <<s, w>>
<1>11. b = <<s, w>>
  OBVIOUS
<1>12. Changed(config, c, d, s, w, c.tag[s][w], Marked(c.status[s][w], cmd), l,
              c.hash[s], CACHE_TAGSET(c, addr), b)
  BY <1>3
<1> DEFINE a == CACHE_TAGSET(c, addr)
<1>13. Changed(config, c, d, s, w, c.tag[s][w], Marked(c.status[s][w], cmd), l,
              c.hash[s], a, b)
  BY <1>12
<1> HIDE DEF b
<1>14. /\ b = <<s, w>> /\ VALID \in Marked(c.status[s][w], cmd)
       /\ a = CACHE_MK_BADDR(c, c.tag[s][w], s)
       /\ c.policy = "LRU" => l[w] = 0
  BY <1>4, <1>6, <1>8, <1>11
<1> HIDE DEF a
<1>15. /\ s \in Sets(config) /\ w \in Ways(config) /\ c.tag[s][w] \in Nat
       /\ Marked(c.status[s][w], cmd) \in StatusType
       /\ WholeList(l, Ways(config))
  BY <1>2, <1>5, <1>6, <1>8
<1>16. Sound(config, d)
  BY <1>9, <1>10, <1>13, <1>14, <1>15, <1>22, ChangedSound, SMTT(30)
<1>17. DirtyBlocks(d) =
         (DirtyBlocks(c) \ Held(c, s, c.tag[s][w], c.status[s][w]))
           \cup Held(c, s, c.tag[s][w], Marked(c.status[s][w], cmd))
  BY <1>2, <1>3, <1>5, ChangedDirty
<1>18. Held(c, s, c.tag[s][w], Marked(c.status[s][w], cmd))
         = Held(c, s, c.tag[s][w], c.status[s][w])
             \cup Writes(cmd, CACHE_BADDR(c, addr))
  BY <1>2, <1>4, <1>5, <1>6, MarkedType DEF Held, Writes
<1>19. Held(c, s, c.tag[s][w], c.status[s][w]) \subseteq DirtyBlocks(c)
  BY <1>1, <1>2, DirtyBlocksMeans
<1>20. DirtyBlocks(d) = DirtyBlocks(c) \cup Writes(cmd, CACHE_BADDR(c, addr))
  BY <1>17, <1>18, <1>19
<1>21. d.crashed = c.crashed
  BY <1>3 DEF Changed
<1> QED BY <1>16, <1>20, <1>21 DEF d

LEMMA MissSound ==
    ASSUME NEW config \in Configs, NEW c, Sound(config, c), NEW addr \in Nat,
           NEW cmd, NEW rand \in Ways(config), Miss(c, addr)
    PROVE  /\ Sound(config, MissAccess(c, cmd, addr, rand))
           /\ DirtyBlocks(MissAccess(c, cmd, addr, rand))
                = (DirtyBlocks(c) \ WrittenBack(c, addr, rand))
                    \cup Writes(cmd, CACHE_BADDR(c, addr))
           /\ MissAccess(c, cmd, addr, rand).crashed = c.crashed
<1> DEFINE d == MissAccess(c, cmd, addr, rand)
           s == CACHE_SET(c, addr)
           w == Replaced(c, addr, rand)
           t == CACHE_TAG(c, addr)
           m == Marked({VALID}, cmd)
           l == IF c.policy = "Random" THEN c.way[s] ELSE MoveToHead(c.way[s], w)
           h == (c.hash[s] \ Entry(c, c.tag[s][w], w)) \cup Entry(c, t, w)
<1>1. c \in CacheType(config)
  BY DEF Sound
<1>2. s \in Sets(config) /\ w \in Ways(config) /\ t \in Nat
  BY <1>1, ReplacedBlock, Located
<1>3. Changed(config, c, d, s, w, t, m, l, h, 0, NULL)
  BY MissFields
<1>4. \A x \in Ways(config) : VALID \in c.status[s][x] => c.tag[s][x] # t
  BY FoundMeans DEF Miss
<1>5. CACHE_BADDR(c, addr) = CACHE_MK_BADDR(c, t, s)
  BY <1>1, Located
<1>6. WrittenBack(c, addr, rand) = Held(c, s, c.tag[s][w], c.status[s][w])
  BY DEF WrittenBack, Held
<1> HIDE DEF d, s, w, t, m, l, h
<1>7. m \in StatusType /\ {VALID} \in StatusType
  BY MarkedType DEF m, StatusType
<1>8. WholeList(c.way[s], Ways(config))
  BY <1>1, <1>2, WholeListsMeans DEF Sound
<1>9. WholeList(l, Ways(config))
  BY <1>2, <1>8, ListMoved DEF l
<1>14. VALID \in m
  BY <1>7, MarkedType DEF m
<1>15. FreeLast(config, c, s, w, m, l)
  <2> SUFFICES ASSUME c.policy # "Random" PROVE FreeLast(config, c, s, w, m, l)
    BY DEF FreeLast
  <2>1. \A x, y \in Ways(config) :
          VALID \in c.status[s][x] /\ VALID \notin c.status[s][y]
            => c.way[s][x] < c.way[s][y]
    BY <1>1, <1>2, CacheFields DEF Sound, InvalidAtEnd
  <2>2. /\ \A v, y \in Ways(config) \ {w} :
             l[v] < l[y] <=> c.way[s][v] < c.way[s][y]
        /\ \A y \in Ways(config) \ {w} : l[w] < l[y]
    BY <1>2, <1>8, ListOrder DEF l
  <2> QED BY <1>2, <1>14, <2>1, <2>2 DEF FreeLast
<1>10. Sound(config, d)
  BY <1>2, <1>3, <1>4, <1>7, <1>9, <1>15, ChangedSound DEF h
<1>11. DirtyBlocks(d) =
         (DirtyBlocks(c) \ Held(c, s, c.tag[s][w], c.status[s][w]))
           \cup Held(c, s, t, m)
  BY <1>2, <1>3, ChangedDirty
<1>12. Held(c, s, t, m) = Writes(cmd, CACHE_BADDR(c, addr))
  BY <1>5 DEF Held, Writes, m, Marked, VALID, DIRTY
<1>13. d.crashed = c.crashed
  BY <1>3 DEF Changed
<1> QED BY <1>6, <1>10, <1>11, <1>12, <1>13 DEF d

LEMMA FlushAddrFields ==
    ASSUME NEW config \in Configs, NEW c, Sound(config, c), NEW addr \in Nat,
           Found(c, addr) # {}
    PROVE  LET s == CACHE_SET(c, addr)
               w == CHOOSE w \in Found(c, addr) : TRUE
           IN /\ Changed(config, c, cache_flush_addr(c, addr), s, w, c.tag[s][w],
                         c.status[s][w] \ {VALID}, MoveToTail(c.way[s], w),
                         c.hash[s], 0, NULL)
              /\ FlushedAddr(c, addr) = Held(c, s, c.tag[s][w], c.status[s][w])
<1> DEFINE d  == cache_flush_addr(c, addr)
           s  == CACHE_SET(c, addr)
           w  == CHOOSE w \in Found(c, addr) : TRUE
           m  == c.status[s][w] \ {VALID}
           l  == MoveToTail(c.way[s], w)
           st == [c.status EXCEPT ![s][w] = m]
           ws == [c.way EXCEPT ![s] = l]
<1>1. c \in CacheType(config)
  BY DEF Sound
<1>2. s \in Sets(config) /\ w \in Ways(config) /\ w \in Found(c, addr)
  BY <1>1, HitBlock, Located
<1>3. /\ c.status \in [Sets(config) -> [Ways(config) -> StatusType]]
      /\ c.way \in [Sets(config) -> [Ways(config) -> Ways(config)]]
      /\ c.tag \in [Sets(config) -> [Ways(config) -> Nat]]
      /\ c.tag = [c.tag EXCEPT ![s][w] = c.tag[s][w]]
      /\ c.hash = [c.hash EXCEPT ![s] = c.hash[s]]
  BY <1>1, <1>2, CacheFields
<1>4. l \in [Ways(config) -> Ways(config)]
  <2>1. WholeList(c.way[s], Ways(config))
    BY <1>1, <1>2, WholeListsMeans DEF Sound
  <2>2. WholeList(l, Ways(config))
    BY <1>2, <2>1, ListMoved
  <2> QED BY <2>2 DEF WholeList
<1>5. d = [c EXCEPT !.status = st, !.way = ws, !.last_tagset = 0, !.last_blk = NULL]
  BY DEF cache_flush_addr
<1>6. FlushedAddr(c, addr) = Held(c, s, c.tag[s][w], c.status[s][w])
  <2>1. \A x \in Found(c, addr) : x = w
    BY <1>2, FoundOne
  <2>2. VALID \in c.status[s][w]
    BY <1>2, FoundMeans
  <2> HIDE DEF w
  <2>3. FlushedAddr(c, addr) = {CACHE_MK_BADDR(c, c.tag[s][x], s) :
          x \in {x \in Found(c, addr) : DIRTY \in c.status[s][x]}}
    BY DEF FlushedAddr
  <2>4. Found(c, addr) = {w}
    BY <1>2, <2>1
  <2>5. CASE DIRTY \in c.status[s][w]
    BY <2>2, <2>3, <2>4, <2>5 DEF Held
  <2>6. CASE DIRTY \notin c.status[s][w]
    BY <2>2, <2>3, <2>4, <2>6 DEF Held
  <2> QED BY <2>5, <2>6
<1> HIDE DEF d, s, w
<1>7. m \in StatusType
  BY <1>2, <1>3 DEF StatusType
<1>8. /\ st \in [Sets(config) -> [Ways(config) -> StatusType]]
      /\ ws \in [Sets(config) -> [Ways(config) -> Ways(config)]]
  BY <1>2, <1>3, <1>4, <1>7
<1> HIDE DEF m, l, st, ws
<1>9. d \in CacheType(config)
  BY <1>1, <1>5, <1>8 DEF CacheType
<1>10. /\ d.nsets = c.nsets /\ d.bsize = c.bsize /\ d.assoc = c.assoc
       /\ d.hsize = c.hsize /\ d.policy = c.policy /\ d.crashed = c.crashed
       /\ d.tag = c.tag /\ d.way = ws /\ d.hash = c.hash /\ d.status = st
       /\ d.last_tagset = 0 /\ d.last_blk = NULL
  BY <1>1, <1>5 DEF CacheType
<1>11. Changed(config, c, d, s, w, c.tag[s][w], m, l, c.hash[s], 0, NULL)
  BY <1>3, <1>9, <1>10 DEF Changed, st, ws
<1> QED BY <1>6, <1>11 DEF d, s, w, m, l

LEMMA FlushAddrSound ==
    ASSUME NEW config \in Configs, NEW c, Sound(config, c), NEW addr \in Nat
    PROVE  /\ Sound(config, cache_flush_addr(c, addr))
           /\ DirtyBlocks(cache_flush_addr(c, addr))
                = DirtyBlocks(c) \ FlushedAddr(c, addr)
<1>1. CASE Found(c, addr) = {}
  BY <1>1 DEF cache_flush_addr, FlushedAddr
<1>2. CASE Found(c, addr) # {}
  <2> DEFINE d == cache_flush_addr(c, addr)
             s == CACHE_SET(c, addr)
             w == CHOOSE w \in Found(c, addr) : TRUE
             m == c.status[s][w] \ {VALID}
             l == MoveToTail(c.way[s], w)
  <2>1. c \in CacheType(config)
    BY DEF Sound
  <2>2. s \in Sets(config) /\ w \in Ways(config)
    BY <1>2, <2>1, HitBlock, Located
  <2>3. /\ Changed(config, c, d, s, w, c.tag[s][w], m, l, c.hash[s], 0, NULL)
        /\ FlushedAddr(c, addr) = Held(c, s, c.tag[s][w], c.status[s][w])
    BY <1>2, FlushAddrFields
  <2> HIDE DEF d, s, w
  <2>4. WholeList(c.way[s], Ways(config))
    BY <2>1, <2>2, WholeListsMeans DEF Sound
  <2>5. WholeList(l, Ways(config))
    BY <2>2, <2>4, ListMoved
  <2>6. /\ SetIdx(c) = Sets(config) /\ Way(c) = Ways(config)
        /\ c.tag[s][w] \in Nat /\ c.status[s][w] \in StatusType
    BY <2>1, <2>2, CacheFields
  <2>7. m \in StatusType /\ VALID \notin m
    BY <2>6 DEF StatusType
  <2>8. c.hash[s] = (c.hash[s] \ Entry(c, c.tag[s][w], w))
                       \cup Entry(c, c.tag[s][w], w)
    BY <2>2, <2>6 DEF Sound, ChainedByTag, Entry
  <2>9. FreeLast(config, c, s, w, m, l)
    <3>1. c.policy # "Random" =>
            \A x, y \in Ways(config) :
              VALID \in c.status[s][x] /\ VALID \notin c.status[s][y]
                => c.way[s][x] < c.way[s][y]
      BY <2>2, <2>6 DEF Sound, InvalidAtEnd
    <3>2. /\ \A v, y \in Ways(config) \ {w} :
               l[v] < l[y] <=> c.way[s][v] < c.way[s][y]
          /\ \A y \in Ways(config) \ {w} : l[y] < l[w]
      BY <2>2, <2>4, ListOrder
    <3> QED BY <2>2, <2>7, <3>1, <3>2 DEF FreeLast
  <2> HIDE DEF m, l
  <2>10. Sound(config, d)
    BY <2>2, <2>3, <2>5, <2>6, <2>7, <2>8, <2>9, ChangedSound
  <2>11. DirtyBlocks(d) =
           (DirtyBlocks(c) \ Held(c, s, c.tag[s][w], c.status[s][w]))
             \cup Held(c, s, c.tag[s][w], m)
    BY <2>2, <2>3, <2>6, ChangedDirty
  <2>12. Held(c, s, c.tag[s][w], m) = {}
    BY <2>7 DEF Held
  <2> QED BY <2>3, <2>10, <2>11, <2>12 DEF d
<1> QED BY <1>1, <1>2

LEMMA FlushSound ==
    ASSUME NEW config \in Configs, NEW c, Sound(config, c)
    PROVE  Sound(config, cache_flush(c)) /\ DirtyBlocks(cache_flush(c)) = {}
<1> DEFINE d  == cache_flush(c)
           st == [s \in SetIdx(c) |-> [w \in Way(c) |-> c.status[s][w] \ {VALID}]]
<1>1. c \in CacheType(config)
  BY DEF Sound
<1>2. /\ SetIdx(c) = Sets(config) /\ Way(c) = Ways(config)
      /\ c.status \in [Sets(config) -> [Ways(config) -> StatusType]]
  BY <1>1, CacheFields
<1>3. \A s \in Sets(config), w \in Ways(config) : VALID \notin st[s][w]
  BY <1>2
<1>4. st \in [Sets(config) -> [Ways(config) -> StatusType]]
  BY <1>2 DEF StatusType
<1>5. d = [c EXCEPT !.status = st, !.last_tagset = 0, !.last_blk = NULL]
  BY DEF cache_flush
<1> HIDE DEF st, d
<1>6. d \in CacheType(config)
  BY <1>1, <1>4, <1>5 DEF CacheType
<1>7. /\ d.nsets = c.nsets /\ d.bsize = c.bsize /\ d.assoc = c.assoc
      /\ d.hsize = c.hsize /\ d.policy = c.policy /\ d.crashed = c.crashed
      /\ d.tag = c.tag /\ d.way = c.way /\ d.hash = c.hash /\ d.status = st
      /\ d.last_tagset = 0 /\ d.last_blk = NULL
  BY <1>1, <1>5 DEF CacheType
<1>8. SetIdx(d) = Sets(config) /\ Way(d) = Ways(config)
  BY <1>6, CacheFields
<1>9. WholeLists(d)
  BY <1>1, <1>6, <1>7, WholeListsMeans DEF Sound
<1>10. ChainedByTag(d)
  BY <1>2, <1>7, <1>8 DEF Sound, ChainedByTag, CACHE_HASH
<1>11. Single(d) /\ LastIsThere(d) /\ InvalidAtEnd(d)
  BY <1>3, <1>7, <1>8 DEF Single, LastIsThere, InvalidAtEnd
<1>12. DirtyBlocks(d) = {}
  BY <1>3, <1>6, <1>7, DirtyBlocksMeans DEF Held
<1> QED BY <1>6, <1>9, <1>10, <1>11, <1>12 DEF Sound, d

LEMMA CreatedSound ==
    ASSUME NEW config \in Configs
    PROVE  /\ Sound(config, cache_create(config))
           /\ DirtyBlocks(cache_create(config)) = {}
<1> DEFINE c == cache_create(config)
           n == config.assoc
           h == IF n > 4 THEN n \div 4 ELSE 0
<1>1. n \in Nat \ {0} /\ h \in Nat
  BY Geometry
<1>2. /\ c.nsets = config.nsets /\ c.bsize = config.bsize /\ c.assoc = n
      /\ c.hsize = h /\ c.policy = config.policy
      /\ c.way = [s \in Sets(config) |-> [w \in Ways(config) |-> n - 1 - w]]
      /\ c.tag = [s \in Sets(config) |-> [w \in Ways(config) |-> 0]]
      /\ c.status = [s \in Sets(config) |-> [w \in Ways(config) |-> {}]]
      /\ c.hash = [s \in Sets(config) |->
                     IF h > 0 THEN {<<HashedBits(h, 0), w>> : w \in Ways(config)}
                     ELSE {}]
      /\ c.last_tagset = 0 /\ c.last_blk = NULL
  BY DEF cache_create, CACHE_HIGHLY_ASSOC, Sets, Ways
<1>3. \A w \in Ways(config) : n - 1 - w \in Ways(config)
  BY <1>1 DEF Ways
<1>4. \A w \in Ways(config) : <<HashedBits(h, 0), w>> \in (SUBSET (0 .. 29)) \X Ways(config)
  BY DEF HashedBits
<1>5. /\ c.way \in [Sets(config) -> [Ways(config) -> Ways(config)]]
      /\ c.tag \in [Sets(config) -> [Ways(config) -> Nat]]
      /\ c.status \in [Sets(config) -> [Ways(config) -> StatusType]]
      /\ c.hash \in [Sets(config) -> SUBSET ((SUBSET (0 .. 29)) \X Ways(config))]
  BY <1>2, <1>3, <1>4 DEF StatusType
<1>6. c \in CacheType(config)
  BY <1>5 DEF cache_create, CacheType, CACHE_HIGHLY_ASSOC
<1> HIDE DEF c, n, h
<1>7. SetIdx(c) = Sets(config) /\ Way(c) = Ways(config)
  BY <1>6, CacheFields
<1>8. ASSUME NEW s \in Sets(config) PROVE WholeList(c.way[s], Ways(config))
  <2>1. c.way[s] = [w \in Ways(config) |-> n - 1 - w]
    BY <1>2
  <2>2. \A v, w \in Ways(config) : n - 1 - v = n - 1 - w => v = w
    BY <1>1 DEF Ways, n
  <2>3. \A i \in Ways(config) : n - 1 - (n - 1 - i) = i
    BY <1>1 DEF Ways, n
  <2> QED BY <1>3, <2>1, <2>2, <2>3 DEF WholeList
<1>9. WholeLists(c)
  BY <1>6, <1>8, WholeListsMeans
<1>10. ChainedByTag(c)
  <2> SUFFICES ASSUME h > 0, NEW s \in Sets(config)
               PROVE  c.hash[s] = {<<CACHE_HASH(c, c.tag[s][w]), w>> :
                                     w \in Ways(config)}
    BY <1>2, <1>7 DEF ChainedByTag
  <2>1. c.hash[s] = {<<HashedBits(h, 0), w>> : w \in Ways(config)}
    BY <1>2
  <2>2. \A w \in Ways(config) : CACHE_HASH(c, c.tag[s][w]) = HashedBits(h, 0)
    BY <1>2 DEF CACHE_HASH
  <2> QED BY <2>1, <2>2
<1>11. \A s \in Sets(config), w \in Ways(config) : c.status[s][w] = {}
  BY <1>2
<1>12. Single(c) /\ LastIsThere(c) /\ InvalidAtEnd(c)
  BY <1>2, <1>7, <1>11 DEF Single, LastIsThere, InvalidAtEnd
<1>13. DirtyBlocks(c) = {}
  BY <1>6, <1>11, DirtyBlocksMeans DEF Held
<1> QED BY <1>6, <1>9, <1>10, <1>12, <1>13 DEF Sound, c
=============================================================================
