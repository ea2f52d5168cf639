--------------------------- MODULE SimCacheProofs ---------------------------
(***************************************************************************)
(* Proofs about SimCache, for every hierarchy that sim_check_options        *)
(* accepts, with caches of every geometry and every replacement policy.     *)
(***************************************************************************)
EXTENDS SimCache, CacheBlocksProofs

-----------------------------------------------------------------------------
(* What a machine is made of, and what holds of it between two accesses of  *)
(* the same miss: pending are the blocks that dl1 has passed down and dl2   *)
(* has not been asked to write yet; k demand accesses and p prefetches are  *)
(* counted above dl2 and have not reached it yet.                           *)
StatsType == [hits : Nat, misses : Nat, prefetches : Nat,
              prefetch_misses : Nat, writebacks : Nat]
AnyCache == UNION {CacheType(config) : config \in Configs}
MachineType ==
    [caches : [Own(options) -> AnyCache], stats : [Own(options) -> StatsType],
     RPT : Seq(EntryType), drawn : Nat,
     stopped : {"none", "fatal", "fault", "wild"},
     upper : SUBSET Nat, lower : SUBSET Nat]

AllSound(m) ==
    \A n \in Own(options) :
      Sound(options[n].config, m.caches[n]) /\ ~m.caches[n].crashed
UpperDirty(m) ==
    m.upper = IF "dl1" \in Own(options) THEN DirtyBlocks(m.caches["dl1"]) ELSE {}
LowerDirty(m, pending) ==
    IF "dl2" \in Own(options)
      THEN \A b \in m.lower \ pending :
             CACHE_BADDR(m.caches["dl2"], b) \in DirtyBlocks(m.caches["dl2"])
      ELSE m.lower = {}
Traffic(m, k, p) ==
    Counted(options) =>
      /\ m.stats["dl2"].hits + m.stats["dl2"].misses + k
           = Sent(m.stats, "dl1") + Sent(m.stats, "il1")
      /\ m.stats["dl2"].prefetches + p
           = Ahead(m.stats, "dl1") + Ahead(m.stats, "il1")
Kept(m, pending, k, p) ==
    Running(m) => /\ m \in MachineType /\ AllSound(m) /\ UpperDirty(m)
                  /\ LowerDirty(m, pending) /\ Traffic(m, k, p)

Accepted == options \in Hierarchies /\ OptionsAccepted(options)

-----------------------------------------------------------------------------
(* The options: which caches there are, and which is below which.           *)
LEMMA OptionsMean ==
    ASSUME Accepted
    PROVE  /\ NONE \notin Own(options) /\ Own(options) \subseteq Names
           /\ \A n \in Own(options) :
                /\ options[n].config \in Configs
                /\ options[n].prefetch_type \in Nat \ {2}
           /\ "dl2" \in Own(options) => "dl1" \in Own(options)
           /\ \A n \in Names \ {"il1", "il2"} : options[n].is \in {NONE, "own"}
           /\ options["il1"].is \in {NONE, "own", "dl1", "dl2"}
           /\ options["il2"].is \in {NONE, "own", "dl2"}
           /\ options["il1"].is \in {"dl1", "dl2"}
                => options["il1"].is \in Own(options)
<1>1. /\ \A n \in Names \ {"il1", "il2"} : options[n].is \in {NONE, "own"}
      /\ options["il1"].is \in {NONE, "own", "dl1", "dl2"}
      /\ options["il2"].is \in {NONE, "own", "dl2"}
  <2>1. \A n \in Names :
          options[n].is \in {NONE, "own"} \cup
               (CASE n = "il1" -> {"dl1", "dl2"} [] n = "il2" -> {"dl2"}
                  [] OTHER -> {})
    BY HierarchyAssumption DEF Accepted
  <2> QED BY <2>1 DEF Names
<1>2. \A n \in Own(options) : /\ options[n].config \in Configs
                              /\ options[n].prefetch_type \in Nat \ {2}
  BY HierarchyAssumption DEF Accepted, Own
<1>3. NONE \notin Own(options) /\ Own(options) \subseteq Names
  BY DEF Own, Names, NONE
<1>4. "dl2" \in Own(options) => "dl1" \in Own(options)
  BY <1>1 DEF Accepted, OptionsAccepted, Own, Names, NONE
<1>5. options["il1"].is \in {"dl1", "dl2"} => options["il1"].is \in Own(options)
  BY DEF Accepted, OptionsAccepted, Own, Names
<1> QED BY <1>1, <1>2, <1>3, <1>4, <1>5

(* Whether the misses of a cache go to dl2.                                 *)
Sends(n) == Below(n) = "dl2" /\ "dl2" \in Own(options)

LEMMA BelowMeans ==
    ASSUME Accepted, NEW n \in Own(options)
    PROVE  /\ Below(n) \in {"dl2", "il2", NONE}
           /\ Below(n) # n /\ n \in Names
           /\ n \notin {"dl1", "il1"} => Below(n) = NONE
           /\ n = "dl1" => Below(n) = "dl2"
           /\ Counted(options) => (Sends(n) <=> n \in FromAbove(options))
<1>1. /\ options["il2"].is \in {NONE, "own", "dl2"}
      /\ options["il1"].is \in {NONE, "own", "dl1", "dl2"}
  BY OptionsMean
<1>2. n \in Names
  BY DEF Own
<1>3. CASE n = "il1"
  BY <1>1, <1>2, <1>3 DEF Below, Alias, NONE, Sends, FromAbove, Counted
<1>4. CASE n = "dl1"
  BY <1>1, <1>2, <1>4 DEF Below, Alias, NONE, Sends, FromAbove, Counted
<1>5. CASE n \notin {"dl1", "il1"}
  BY <1>1, <1>2, <1>5 DEF Names, Below, Alias, NONE, Sends, FromAbove, Counted
<1> QED BY <1>3, <1>4, <1>5

-----------------------------------------------------------------------------
(* One access to one cache, whatever way it goes, unless it ends the        *)
(* simulator.                                                               *)
LEMMA BackMeans ==
    ASSUME NEW config \in Configs, NEW c, Sound(config, c), NEW addr \in Nat,
           NEW rand \in Ways(config)
    PROVE  /\ WrittenBack(c, addr, rand) \subseteq DirtyBlocks(c)
           /\ WrittenBack(c, addr, rand) \subseteq Nat
           /\ ~Miss(c, addr) => WrittenBack(c, addr, rand) = {}
           /\ \/ WrittenBack(c, addr, rand) = {}
              \/ \E b \in Nat : WrittenBack(c, addr, rand) = {b}
           /\ Cardinality(WrittenBack(c, addr, rand))
                = IF WrittenBack(c, addr, rand) = {} THEN 0 ELSE 1
<1> DEFINE back == WrittenBack(c, addr, rand)
           s == CACHE_SET(c, addr)
           w == Replaced(c, addr, rand)
<1>1. c \in CacheType(config)
  BY DEF Sound
<1>2. s \in Sets(config) /\ w \in Ways(config)
  BY <1>1, ReplacedBlock, Located
<1>3. back = {} \/ back = Held(c, s, c.tag[s][w], c.status[s][w])
  BY DEF WrittenBack, Held
<1>4. c.tag[s][w] \in Nat
  BY <1>1, <1>2, CacheFields
<1>5. back = {} \/ back = {CACHE_MK_BADDR(c, c.tag[s][w], s)}
  BY <1>3 DEF Held
<1>6. CACHE_MK_BADDR(c, c.tag[s][w], s) \in Nat
  BY <1>1, <1>2, <1>4, BlockAddress
<1>7. back \subseteq DirtyBlocks(c) /\ back \subseteq Nat
  BY <1>1, <1>2, <1>3, DirtyBlocksMeans
<1>8. ~Miss(c, addr) => back = {}
  BY DEF WrittenBack
<1> HIDE DEF back, s, w
<1>9. back = {} \/ \E b \in Nat : back = {b}
  BY <1>5, <1>6
<1>10. Cardinality(back) = IF back = {} THEN 0 ELSE 1
  BY <1>9, FS_EmptySet, FS_Singleton
<1> QED BY <1>7, <1>8, <1>9, <1>10 DEF back

LEMMA AccessSound ==
    ASSUME NEW config \in Configs, NEW c, Sound(config, c), NEW addr \in Nat,
           NEW cmd, NEW rand \in Ways(config),
           ~AccessBlock(c, cmd, addr, rand).crashed
    PROVE  /\ Sound(config, AccessBlock(c, cmd, addr, rand))
           /\ DirtyBlocks(AccessBlock(c, cmd, addr, rand))
                = (DirtyBlocks(c) \ WrittenBack(c, addr, rand))
                    \cup Writes(cmd, CACHE_BADDR(c, addr))
<1>1. CASE Miss(c, addr)
  <2>1. AccessBlock(c, cmd, addr, rand) = MissAccess(c, cmd, addr, rand)
    BY <1>1 DEF AccessBlock, Miss
  <2> QED BY <1>1, <2>1, MissSound
<1>2. CASE FastHit(c, addr)
  <2>1. AccessBlock(c, cmd, addr, rand) = FastHitAccess(c, cmd, addr)
    BY <1>2 DEF AccessBlock
  <2>2. c.last_blk # NULL
    <3>1. c \in CacheType(config)
      BY DEF Sound
    <3>2. c.last_blk = NULL => FastHitAccess(c, cmd, addr).crashed
      BY <3>1 DEF FastHitAccess, CacheType
    <3> QED BY <2>1, <3>2
  <2>3. WrittenBack(c, addr, rand) = {}
    BY <1>2 DEF WrittenBack, Miss
  <2> QED BY <1>2, <2>1, <2>2, <2>3, FastHitSound
<1>3. CASE ~FastHit(c, addr) /\ Found(c, addr) # {}
  <2>1. AccessBlock(c, cmd, addr, rand) = SlowHitAccess(c, cmd, addr)
    BY <1>3 DEF AccessBlock
  <2>2. WrittenBack(c, addr, rand) = {}
    BY <1>3 DEF WrittenBack, Miss
  <2> QED BY <1>3, <2>1, <2>2, SlowHitSound
<1> QED BY <1>1, <1>2, <1>3 DEF Miss

(* The number drawn for a replacement is that of a way.                     *)
LEMMA DrawnWay ==
    ASSUME NEW config \in Configs, NEW m, m.drawn \in Nat, NEW n,
           Sound(config, m.caches[n])
    PROVE  Drawn(m, n) \in Ways(config)
<1>1. Len(Randoms) \in Nat \ {0}
  BY RandomsAssumption
<1>2. (m.drawn % Len(Randoms)) + 1 \in 1 .. Len(Randoms)
  BY <1>1
<1>3. Randoms[(m.drawn % Len(Randoms)) + 1] \in Nat
  BY <1>2, RandomsAssumption
<1>4. m.caches[n].assoc = config.assoc /\ config.assoc \in Nat \ {0}
  BY CacheFields DEF Sound
<1>5. \A r \in Nat, a \in Nat \ {0} : r % a \in 0 .. a - 1
  OBVIOUS
<1> QED BY <1>3, <1>4, <1>5 DEF Drawn, Ways

(* What an access to one cache changes of the machine.                      *)
LEMMA CountType ==
    ASSUME NEW st \in StatsType, NEW c, NEW addr, NEW prefetch \in {0, 1},
           NEW back, Cardinality(back) \in Nat
    PROVE  Count(st, c, addr, prefetch, back) \in StatsType
<1>1. /\ st.hits \in Nat /\ st.misses \in Nat /\ st.prefetches \in Nat
      /\ st.prefetch_misses \in Nat /\ st.writebacks \in Nat
  BY DEF StatsType
<1> DEFINE x == st.hits + (IF Miss(c, addr) THEN 0 ELSE 1 - prefetch)
           y == st.misses + (IF Miss(c, addr) THEN 1 - prefetch ELSE 0)
           z == st.prefetches + prefetch
           u == st.prefetch_misses + (IF Miss(c, addr) THEN prefetch ELSE 0)
           v == st.writebacks + Cardinality(back)
<1>2. x \in Nat /\ y \in Nat /\ z \in Nat /\ u \in Nat /\ v \in Nat
  BY <1>1
<1>3. Count(st, c, addr, prefetch, back)
        = [st EXCEPT !.hits = x, !.misses = y, !.prefetches = z,
                     !.prefetch_misses = u, !.writebacks = v]
  BY DEF Count
<1> HIDE DEF x, y, z, u, v
<1> QED BY <1>2, <1>3 DEF StatsType

AfterAccess(m, r, n, c, cmd, addr, prefetch, after, back) ==
    /\ r \in MachineType /\ AllSound(r)
    /\ r.caches = [m.caches EXCEPT ![n] = after]
    /\ r.stats = [m.stats EXCEPT ![n] = Count(@, c, addr, prefetch, back)]
    /\ r.upper = IF n = "dl1"
                   THEN (m.upper \ back) \cup Writes(cmd, CACHE_BADDR(c, addr))
                   ELSE m.upper
    /\ r.lower = IF n = "dl1" /\ "dl2" \in Own(options) THEN m.lower \cup back
                 ELSE IF n = "dl2"
                   THEN {b \in m.lower : CACHE_BADDR(c, b) \notin back}
                 ELSE m.lower

LEMMA AccessedFields ==
    ASSUME Accepted, NEW m \in MachineType, AllSound(m), NEW n \in Own(options),
           NEW addr \in Nat, NEW cmd \in {"Read", "Write"}, NEW prefetch \in {0, 1},
           Running(m), Running(Accessed(m, n, cmd, addr, prefetch))
    PROVE  AfterAccess(m, Accessed(m, n, cmd, addr, prefetch), n, m.caches[n],
                       cmd, addr, prefetch,
                       AccessBlock(m.caches[n], cmd, addr, Drawn(m, n)),
                       WrittenBack(m.caches[n], addr, Drawn(m, n)))
<1> DEFINE c     == m.caches[n]
           after == AccessBlock(c, cmd, addr, Drawn(m, n))
           back  == WrittenBack(c, addr, Drawn(m, n))
           r     == Accessed(m, n, cmd, addr, prefetch)
           st    == Count(m.stats[n], c, addr, prefetch, back)
           d     == m.drawn + Draws(c, addr)
           stop  == IF after.crashed THEN "fault" ELSE m.stopped
           own   == [m EXCEPT !.caches[n] = after, !.stats[n] = st, !.drawn = d,
                              !.stopped = stop]
           config == options[n].config
<1>1. config \in Configs /\ Sound(config, c)
  BY OptionsMean DEF AllSound
<1>2. Drawn(m, n) \in Ways(config) /\ m.drawn \in Nat /\ m.stats[n] \in StatsType
  BY <1>1, DrawnWay DEF MachineType
<1>3. /\ back \subseteq Nat /\ Cardinality(back) \in Nat
  BY <1>1, <1>2, BackMeans
<1>4. st \in StatsType
  BY <1>2, <1>3, CountType
<1>5. d \in Nat
  BY <1>2 DEF Draws
<1>6. r = Wrote(PassedDown(own, n, back), n, cmd, addr)
  BY DEF Accessed
<1>7. CACHE_BADDR(c, addr) \in Nat
  BY <1>1, Located DEF Sound
<1> HIDE DEF after, back, r, st, d, stop
<1>8. /\ DOMAIN m.caches = Own(options) /\ DOMAIN m.stats = Own(options)
      /\ m.caches \in [Own(options) -> AnyCache]
      /\ m.stats \in [Own(options) -> StatsType]
  BY DEF MachineType
<1>9. stop \in {"none", "fault"}
  BY DEF stop, Running
<1> DEFINE Fields == {"caches", "stats", "RPT", "drawn", "stopped", "upper", "lower"}
<1>10. /\ own.caches = [m.caches EXCEPT ![n] = after]
       /\ own.stats = [m.stats EXCEPT ![n] = st]
       /\ own.RPT = m.RPT /\ own.drawn = d /\ own.stopped = stop
       /\ own.upper = m.upper /\ own.lower = m.lower
       /\ DOMAIN own = Fields
  BY DEF MachineType
<1> HIDE DEF own
<1> DEFINE passed == PassedDown(own, n, back)
<1>11. /\ passed.caches = own.caches /\ passed.stats = own.stats
       /\ passed.RPT = own.RPT /\ passed.drawn = own.drawn
       /\ passed.stopped = own.stopped
       /\ passed.upper = IF n = "dl1" THEN m.upper \ back ELSE m.upper
       /\ passed.lower = IF n = "dl1" /\ "dl2" \in Own(options)
                           THEN m.lower \cup back
                         ELSE IF n = "dl2"
                           THEN {b \in m.lower : CACHE_BADDR(after, b) \notin back}
                         ELSE m.lower
       /\ DOMAIN passed = Fields
  <2>1. CASE n = "dl1"
    BY <1>8, <1>10, <2>1 DEF PassedDown
  <2>2. CASE n = "dl2"
    BY <1>8, <1>10, <2>2 DEF PassedDown
  <2>3. CASE n \notin {"dl1", "dl2"}
    BY <1>8, <1>10, <2>3 DEF PassedDown
  <2> QED BY <2>1, <2>2, <2>3
<1> DEFINE up == passed.upper \cup {CACHE_BADDR(passed.caches[n], addr)}
<1>23. r = IF n = "dl1" /\ cmd = "Write" THEN [passed EXCEPT !.upper = up] ELSE passed
  BY <1>6, <1>11 DEF Wrote
<1>12. /\ r.caches = own.caches /\ r.stats = own.stats /\ r.RPT = own.RPT
       /\ r.drawn = own.drawn /\ r.stopped = own.stopped
       /\ r.upper = IF n = "dl1"
                      THEN (m.upper \ back) \cup Writes(cmd, CACHE_BADDR(after, addr))
                      ELSE m.upper
       /\ r.lower = passed.lower
  <2>2. passed.caches[n] = after
    BY <1>8, <1>10, <1>11
  <2> HIDE DEF passed
  <2> QED BY <1>11, <1>23, <2>2 DEF Writes
<1>13. ~after.crashed /\ stop = "none"
  BY <1>10, <1>12 DEF stop, Running, r
<1>14. Sound(config, after)
  BY <1>1, <1>2, <1>13, AccessSound DEF after
<1>15. after \in AnyCache /\ after.bsize = c.bsize
  BY <1>1, <1>14, CacheFields DEF Sound, AnyCache
<1>16. \A a : CACHE_BADDR(after, a) = CACHE_BADDR(c, a)
  BY <1>15 DEF CACHE_BADDR
<1>17. own \in MachineType
  BY <1>4, <1>5, <1>9, <1>15 DEF own, MachineType
<1>18. passed \in MachineType
  <2> DEFINE x == m.upper \ back
             y == m.lower \cup back
             z == {b \in m.lower : CACHE_BADDR(own.caches["dl2"], b) \notin back}
  <2>1. x \in SUBSET Nat /\ y \in SUBSET Nat /\ z \in SUBSET Nat
    BY <1>3 DEF MachineType
  <2>2. \/ passed = own
        \/ passed = [own EXCEPT !.upper = x, !.lower = y]
        \/ passed = [own EXCEPT !.upper = x, !.lower = m.lower]
        \/ passed = [own EXCEPT !.lower = z]
    BY <1>10 DEF PassedDown
  <2> HIDE DEF passed, x, y, z
  <2> QED BY <1>17, <2>1, <2>2 DEF MachineType
<1>19. r \in MachineType
  <2>1. up \in SUBSET Nat
    BY <1>7, <1>8, <1>10, <1>11, <1>16, <1>18 DEF MachineType
  <2> HIDE DEF passed, up
  <2> QED BY <1>18, <1>23, <2>1 DEF MachineType
<1>20. AllSound(r)
  BY <1>8, <1>10, <1>12, <1>13, <1>14 DEF AllSound
<1>21. r.stats = [m.stats EXCEPT ![n] = Count(@, c, addr, prefetch, back)]
  BY <1>10, <1>12 DEF st
<1> HIDE DEF passed
<1>22. /\ r.caches = [m.caches EXCEPT ![n] = after]
       /\ r.upper = IF n = "dl1"
                      THEN (m.upper \ back) \cup Writes(cmd, CACHE_BADDR(c, addr))
                      ELSE m.upper
       /\ r.lower = IF n = "dl1" /\ "dl2" \in Own(options)
                      THEN m.lower \cup back
                    ELSE IF n = "dl2"
                      THEN {b \in m.lower : CACHE_BADDR(c, b) \notin back}
                    ELSE m.lower
  <2>1. {b \in m.lower : CACHE_BADDR(after, b) \notin back}
          = {b \in m.lower : CACHE_BADDR(c, b) \notin back}
    BY <1>16
  <2>2. CACHE_BADDR(after, addr) = CACHE_BADDR(c, addr)
    BY <1>16
  <2> QED BY <1>10, <1>11, <1>12, <2>1, <2>2
<1>24. AfterAccess(m, r, n, c, cmd, addr, prefetch, after, back)
  BY <1>19, <1>20, <1>21, <1>22 DEF AfterAccess
<1> QED BY <1>24 DEF after, back, r

CountsOf(st, d, c, addr, prefetch, back) ==
    /\ d.hits + d.misses = st.hits + st.misses + (1 - prefetch)
    /\ d.misses + d.writebacks
         = st.misses + st.writebacks + Cardinality(back)
             + (IF Miss(c, addr) THEN 1 - prefetch ELSE 0)
    /\ d.prefetches = st.prefetches + prefetch
    /\ d.prefetch_misses = st.prefetch_misses + (IF Miss(c, addr) THEN prefetch ELSE 0)
LEMMA CountFields ==
    ASSUME NEW st \in StatsType, NEW c, NEW addr, NEW prefetch \in {0, 1},
           NEW back, Cardinality(back) \in Nat
    PROVE  CountsOf(st, Count(st, c, addr, prefetch, back), c, addr, prefetch, back)
<1>1. /\ st.hits \in Nat /\ st.misses \in Nat /\ st.prefetches \in Nat
      /\ st.prefetch_misses \in Nat /\ st.writebacks \in Nat
  BY DEF StatsType
<1> DEFINE d == Count(st, c, addr, prefetch, back)
<1>2. /\ d.hits = st.hits + (IF Miss(c, addr) THEN 0 ELSE 1 - prefetch)
      /\ d.misses = st.misses + (IF Miss(c, addr) THEN 1 - prefetch ELSE 0)
      /\ d.prefetches = st.prefetches + prefetch
      /\ d.prefetch_misses = st.prefetch_misses + (IF Miss(c, addr) THEN prefetch ELSE 0)
      /\ d.writebacks = st.writebacks + Cardinality(back)
  BY DEF Count, StatsType
<1> HIDE DEF d
<1>3. /\ d.hits + d.misses = st.hits + st.misses + (1 - prefetch)
      /\ d.misses + d.writebacks
           = st.misses + st.writebacks + Cardinality(back)
               + (IF Miss(c, addr) THEN 1 - prefetch ELSE 0)
      /\ d.prefetches = st.prefetches + prefetch
      /\ d.prefetch_misses = st.prefetch_misses + (IF Miss(c, addr) THEN prefetch ELSE 0)
  BY <1>1, <1>2
<1> QED BY <1>3 DEF d, CountsOf

(* An access to a cache above dl2, or beside it, adds to what is pending    *)
(* what its miss is about to send down.                                     *)
LEMMA AboveKept ==
    ASSUME Accepted, NEW n \in Own(options) \ {"dl2"}, NEW m, NEW pending,
           NEW k \in Int, NEW p \in Int, Kept(m, pending, k, p), Running(m),
           NEW addr \in Nat, NEW cmd \in {"Read", "Write"}, NEW prefetch \in {0, 1}
    PROVE  LET c    == m.caches[n]
               back == WrittenBack(c, addr, Drawn(m, n))
           IN Kept(Accessed(m, n, cmd, addr, prefetch),
                   pending \cup (IF n = "dl1" THEN back ELSE {}),
                   IF Sends(n)
                     THEN k + Cardinality(back)
                            + (IF Miss(c, addr) THEN 1 - prefetch ELSE 0)
                     ELSE k,
                   IF Sends(n) /\ Miss(c, addr) THEN p + prefetch ELSE p)
<1> DEFINE c    == m.caches[n]
           rand == Drawn(m, n)
           back == WrittenBack(c, addr, rand)
           after == AccessBlock(c, cmd, addr, rand)
           r    == Accessed(m, n, cmd, addr, prefetch)
           sent == pending \cup (IF n = "dl1" THEN back ELSE {})
           k2   == IF Sends(n)
                     THEN k + Cardinality(back)
                            + (IF Miss(c, addr) THEN 1 - prefetch ELSE 0)
                     ELSE k
           p2   == IF Sends(n) /\ Miss(c, addr) THEN p + prefetch ELSE p
           config == options[n].config
<1>1. SUFFICES ASSUME Running(r) PROVE Kept(r, sent, k2, p2)
  BY DEF Kept
<1>2. /\ m \in MachineType /\ AllSound(m) /\ UpperDirty(m)
      /\ LowerDirty(m, pending) /\ Traffic(m, k, p)
  BY DEF Kept
<1>3. /\ r \in MachineType /\ AllSound(r)
      /\ r.caches = [m.caches EXCEPT ![n] = after]
      /\ r.stats = [m.stats EXCEPT ![n] = Count(@, c, addr, prefetch, back)]
      /\ r.upper = IF n = "dl1"
                     THEN (m.upper \ back) \cup Writes(cmd, CACHE_BADDR(c, addr))
                     ELSE m.upper
      /\ r.lower = IF n = "dl1" /\ "dl2" \in Own(options) THEN m.lower \cup back
                   ELSE m.lower
  <2>1. n \in Own(options) /\ n # "dl2"
    OBVIOUS
  <2>2. AfterAccess(m, r, n, c, cmd, addr, prefetch, after, back)
    BY <1>1, <1>2, <2>1, AccessedFields
  <2> QED BY <2>1, <2>2 DEF AfterAccess
<1>4. /\ config \in Configs /\ Sound(config, c) /\ rand \in Ways(config)
      /\ m.stats[n] \in StatsType /\ DOMAIN m.caches = Own(options)
      /\ DOMAIN m.stats = Own(options)
  <2>1. config \in Configs /\ Sound(config, c)
    BY <1>2, OptionsMean DEF AllSound
  <2>2. rand \in Ways(config)
    BY <1>2, <2>1, DrawnWay DEF MachineType
  <2> QED BY <1>2, <2>1, <2>2 DEF MachineType
<1>5. ~after.crashed
  BY <1>3, <1>4 DEF AllSound
<1>6. DirtyBlocks(after) = (DirtyBlocks(c) \ back) \cup Writes(cmd, CACHE_BADDR(c, addr))
  BY <1>4, <1>5, AccessSound
<1>7. Cardinality(back) \in Nat
  BY <1>4, BackMeans
<1> HIDE DEF c, rand, back, after, r
<1>8. UpperDirty(r)
  BY <1>2, <1>3, <1>4, <1>6 DEF UpperDirty, c
<1>9. LowerDirty(r, sent)
  <2>1. CASE "dl2" \in Own(options)
    <3>1. r.caches["dl2"] = m.caches["dl2"]
      BY <1>3, <1>4, <2>1
    <3> QED BY <1>2, <1>3, <2>1, <3>1 DEF LowerDirty
  <2>2. CASE "dl2" \notin Own(options)
    BY <1>2, <1>3, <2>2 DEF LowerDirty
  <2> QED BY <2>1, <2>2
<1>10. Traffic(r, k2, p2)
  <2>1. SUFFICES ASSUME Counted(options) PROVE Traffic(r, k2, p2)
    BY DEF Traffic
  <2>2. "dl2" \in Own(options) /\ "dl1" \in Own(options)
    BY <2>1, OptionsMean DEF Counted
  <2> DEFINE st == Count(m.stats[n], c, addr, prefetch, back)
  <2>3. /\ st.misses + st.writebacks
             = m.stats[n].misses + m.stats[n].writebacks + Cardinality(back)
                 + (IF Miss(c, addr) THEN 1 - prefetch ELSE 0)
        /\ st.prefetch_misses
             = m.stats[n].prefetch_misses + (IF Miss(c, addr) THEN prefetch ELSE 0)
    <3>1. CountsOf(m.stats[n], st, c, addr, prefetch, back)
      BY <1>4, <1>7, CountFields
    <3> QED BY <3>1 DEF CountsOf
  <2>4. r.stats[n] = st /\ \A x \in Own(options) : x # n => r.stats[x] = m.stats[x]
    BY <1>3, <1>4
  <2>5. Sends(n) <=> n \in FromAbove(options)
    BY <2>1, BelowMeans
  <2>6. \A x \in Own(options) :
          /\ m.stats[x].hits \in Nat /\ m.stats[x].misses \in Nat
          /\ m.stats[x].writebacks \in Nat /\ m.stats[x].prefetch_misses \in Nat
          /\ m.stats[x].prefetches \in Nat
    BY <1>2 DEF MachineType, StatsType
  <2> HIDE DEF st
  <2>7. /\ m.stats["dl2"].hits + m.stats["dl2"].misses + k
             = Sent(m.stats, "dl1") + Sent(m.stats, "il1")
        /\ m.stats["dl2"].prefetches + p
             = Ahead(m.stats, "dl1") + Ahead(m.stats, "il1")
    BY <1>2, <2>1 DEF Traffic
  <2>8. r.stats["dl2"] = m.stats["dl2"]
    BY <2>2, <2>4
  <2>9. CASE n = "dl1"
    <3>1. "dl1" \in FromAbove(options)
      BY DEF FromAbove
    <3>2. Sent(r.stats, "il1") = Sent(m.stats, "il1")
          /\ Ahead(r.stats, "il1") = Ahead(m.stats, "il1")
      BY <2>4, <2>9 DEF Sent, Ahead
    <3>3. /\ Sent(m.stats, "dl1") = m.stats[n].misses + m.stats[n].writebacks
          /\ Ahead(m.stats, "dl1") = m.stats[n].prefetch_misses
          /\ Sent(r.stats, "dl1") = st.misses + st.writebacks
          /\ Ahead(r.stats, "dl1") = st.prefetch_misses
      BY <2>4, <2>9, <3>1 DEF Sent, Ahead
    <3>4. Sent(m.stats, "il1") \in Nat /\ Ahead(m.stats, "il1") \in Nat
      BY <2>6 DEF Sent, Ahead
    <3>5. Sends(n)
      BY <2>5, <2>9, <3>1
    <3>6. /\ k2 = k + Cardinality(back)
                    + (IF Miss(c, addr) THEN 1 - prefetch ELSE 0)
          /\ p2 = p + (IF Miss(c, addr) THEN prefetch ELSE 0)
      BY <3>5
    <3>7. /\ Sent(r.stats, "dl1")
               = Sent(m.stats, "dl1") + Cardinality(back)
                   + (IF Miss(c, addr) THEN 1 - prefetch ELSE 0)
          /\ Ahead(r.stats, "dl1")
               = Ahead(m.stats, "dl1") + (IF Miss(c, addr) THEN prefetch ELSE 0)
      BY <2>3, <3>3
    <3>8. Sent(m.stats, "dl1") \in Nat /\ Ahead(m.stats, "dl1") \in Nat
      BY <2>6 DEF Sent, Ahead
    <3> HIDE DEF k2, p2
    <3> QED BY <1>7, <2>2, <2>6, <2>7, <2>8, <3>2, <3>4, <3>6, <3>7, <3>8
            DEF Traffic
  <2>10. CASE n = "il1" /\ Sends(n)
    <3>2. Sent(r.stats, "dl1") = Sent(m.stats, "dl1")
          /\ Ahead(r.stats, "dl1") = Ahead(m.stats, "dl1")
      BY <2>2, <2>4, <2>10 DEF Sent, Ahead
    <3>3. /\ Sent(m.stats, "il1") = m.stats[n].misses + m.stats[n].writebacks
          /\ Ahead(m.stats, "il1") = m.stats[n].prefetch_misses
          /\ Sent(r.stats, "il1") = st.misses + st.writebacks
          /\ Ahead(r.stats, "il1") = st.prefetch_misses
      BY <2>4, <2>5, <2>10 DEF Sent, Ahead
    <3>4. Sent(m.stats, "dl1") \in Nat /\ Ahead(m.stats, "dl1") \in Nat
      BY <2>6 DEF Sent, Ahead
    <3>6. /\ k2 = k + Cardinality(back)
                    + (IF Miss(c, addr) THEN 1 - prefetch ELSE 0)
          /\ p2 = p + (IF Miss(c, addr) THEN prefetch ELSE 0)
      BY <2>10
    <3>7. /\ Sent(r.stats, "il1")
               = Sent(m.stats, "il1") + Cardinality(back)
                   + (IF Miss(c, addr) THEN 1 - prefetch ELSE 0)
          /\ Ahead(r.stats, "il1")
               = Ahead(m.stats, "il1") + (IF Miss(c, addr) THEN prefetch ELSE 0)
      BY <2>3, <3>3
    <3>8. Sent(m.stats, "il1") \in Nat /\ Ahead(m.stats, "il1") \in Nat
      BY <2>6 DEF Sent, Ahead
    <3> HIDE DEF k2, p2
    <3> QED BY <1>7, <2>2, <2>6, <2>7, <2>8, <3>2, <3>4, <3>6, <3>7, <3>8
            DEF Traffic
  <2>11. CASE n # "dl1" /\ ~Sends(n)
    <3>1. n \notin FromAbove(options)
      BY <2>5, <2>11
    <3>2. /\ Sent(r.stats, "dl1") = Sent(m.stats, "dl1")
          /\ Ahead(r.stats, "dl1") = Ahead(m.stats, "dl1")
          /\ Sent(r.stats, "il1") = Sent(m.stats, "il1")
          /\ Ahead(r.stats, "il1") = Ahead(m.stats, "il1")
      BY <2>4, <2>11, <3>1 DEF Sent, Ahead
    <3> QED BY <2>7, <2>8, <2>11, <3>2 DEF Traffic
  <2>12. Sends(n) => n \in {"dl1", "il1"}
    BY <2>5 DEF FromAbove
  <2> QED BY <2>9, <2>10, <2>11, <2>12
<1> QED BY <1>3, <1>8, <1>9, <1>10 DEF Kept, c, rand, back, after, r

(* An access to dl2 takes from what is pending what it was sent for.        *)
LEMMA DirtyThere ==
    ASSUME NEW config \in Configs, NEW c, Sound(config, c), NEW b \in Nat,
           NEW addr \in Nat, NEW cmd, NEW rand \in Ways(config),
           ~AccessBlock(c, cmd, addr, rand).crashed,
           CACHE_BADDR(c, b) \notin WrittenBack(c, addr, rand),
           CACHE_BADDR(c, b) \in DirtyBlocks(c) \/ b \in Writes(cmd, addr)
    PROVE  /\ AccessBlock(c, cmd, addr, rand).bsize = c.bsize
           /\ CACHE_BADDR(AccessBlock(c, cmd, addr, rand), b)
                \in DirtyBlocks(AccessBlock(c, cmd, addr, rand))
<1> DEFINE d == AccessBlock(c, cmd, addr, rand)
<1>1. /\ Sound(config, d)
      /\ DirtyBlocks(d) = (DirtyBlocks(c) \ WrittenBack(c, addr, rand))
                            \cup Writes(cmd, CACHE_BADDR(c, addr))
  BY AccessSound
<1>2. d.bsize = c.bsize
  BY <1>1, CacheFields DEF Sound
<1> HIDE DEF d
<1>3. CACHE_BADDR(d, b) = CACHE_BADDR(c, b)
  BY <1>2 DEF CACHE_BADDR
<1>4. CASE b \in Writes(cmd, addr)
  BY <1>1, <1>2, <1>3, <1>4 DEF Writes, d
<1>5. CASE CACHE_BADDR(c, b) \in DirtyBlocks(c)
  BY <1>1, <1>2, <1>3, <1>5 DEF d
<1> QED BY <1>4, <1>5

LEMMA Dl2Kept ==
    ASSUME Accepted, "dl2" \in Own(options), NEW m, NEW pending,
           NEW k \in Int, NEW p \in Int, Kept(m, pending, k, p), Running(m),
           NEW addr \in Nat, NEW cmd \in {"Read", "Write"}, NEW prefetch \in {0, 1}
    PROVE  Kept(Accessed(m, "dl2", cmd, addr, prefetch), pending \ Writes(cmd, addr),
                k - (1 - prefetch), p - prefetch)
<1> DEFINE c    == m.caches["dl2"]
           rand == Drawn(m, "dl2")
           back == WrittenBack(c, addr, rand)
           after == AccessBlock(c, cmd, addr, rand)
           r    == Accessed(m, "dl2", cmd, addr, prefetch)
           config == options["dl2"].config
<1>1. SUFFICES ASSUME Running(r)
               PROVE  Kept(r, pending \ Writes(cmd, addr), k - (1 - prefetch), p - prefetch)
  BY DEF Kept
<1>2. /\ m \in MachineType /\ AllSound(m) /\ UpperDirty(m)
      /\ LowerDirty(m, pending) /\ Traffic(m, k, p)
  BY DEF Kept
<1>3. /\ r \in MachineType /\ AllSound(r)
      /\ r.caches = [m.caches EXCEPT !["dl2"] = after]
      /\ r.stats = [m.stats EXCEPT !["dl2"] = Count(@, c, addr, prefetch, back)]
      /\ r.upper = m.upper
      /\ r.lower = {b \in m.lower : CACHE_BADDR(c, b) \notin back}
  <2>1. AfterAccess(m, r, "dl2", c, cmd, addr, prefetch, after, back)
    BY <1>1, <1>2, AccessedFields
  <2> QED BY <2>1 DEF AfterAccess
<1>4. /\ config \in Configs /\ Sound(config, c) /\ rand \in Ways(config)
      /\ m.stats["dl2"] \in StatsType /\ DOMAIN m.caches = Own(options)
      /\ DOMAIN m.stats = Own(options) /\ m.lower \subseteq Nat
  <2>1. config \in Configs /\ Sound(config, c)
    BY <1>2, OptionsMean DEF AllSound
  <2>2. rand \in Ways(config)
    BY <1>2, <2>1, DrawnWay DEF MachineType
  <2> QED BY <1>2, <2>1, <2>2 DEF MachineType
<1>5. ~after.crashed /\ r.caches["dl2"] = after
  BY <1>3, <1>4 DEF AllSound
<1>6. Cardinality(back) \in Nat
  BY <1>4, BackMeans
<1>7. LowerDirty(r, pending \ Writes(cmd, addr))
  <2>1. SUFFICES ASSUME NEW b \in r.lower, b \notin pending \ Writes(cmd, addr)
                 PROVE  CACHE_BADDR(after, b) \in DirtyBlocks(after)
    BY <1>5 DEF LowerDirty
  <2>2. b \in m.lower /\ CACHE_BADDR(c, b) \notin back
    BY <1>3, <2>1
  <2>3. CACHE_BADDR(c, b) \in DirtyBlocks(c) \/ b \in Writes(cmd, addr)
    BY <1>2, <2>1, <2>2 DEF LowerDirty
  <2> QED BY <1>4, <1>5, <2>2, <2>3, DirtyThere
<1> HIDE DEF c, rand, back, after, r
<1>8. UpperDirty(r)
  BY <1>2, <1>3, <1>4 DEF UpperDirty
<1>9. Traffic(r, k - (1 - prefetch), p - prefetch)
  <2>1. SUFFICES ASSUME Counted(options)
                 PROVE  Traffic(r, k - (1 - prefetch), p - prefetch)
    BY DEF Traffic
  <2>2. "dl2" \notin FromAbove(options)
    BY DEF FromAbove
  <2> DEFINE old == m.stats["dl2"]
             st  == Count(old, c, addr, prefetch, back)
  <2>7. old \in StatsType
    BY <1>4
  <2> HIDE DEF old
  <2>3. /\ st.hits + st.misses = old.hits + old.misses + (1 - prefetch)
        /\ st.prefetches = old.prefetches + prefetch
    <3>1. CountsOf(old, st, c, addr, prefetch, back)
      BY <1>6, <2>7, CountFields
    <3> QED BY <3>1 DEF CountsOf
  <2>4. /\ r.stats["dl2"] = st
        /\ \A x \in Own(options) : x # "dl2" => r.stats[x] = m.stats[x]
    BY <1>3, <1>4 DEF old
  <2>5. /\ old.hits \in Nat /\ old.misses \in Nat /\ old.prefetches \in Nat
        /\ st.hits \in Nat /\ st.misses \in Nat /\ st.prefetches \in Nat
    <3>1. st \in StatsType
      BY <1>6, <2>7, CountType
    <3> QED BY <2>7, <3>1 DEF StatsType
  <2>6. /\ Sent(r.stats, "dl1") = Sent(m.stats, "dl1")
        /\ Ahead(r.stats, "dl1") = Ahead(m.stats, "dl1")
        /\ Sent(r.stats, "il1") = Sent(m.stats, "il1")
        /\ Ahead(r.stats, "il1") = Ahead(m.stats, "il1")
    BY <2>2, <2>4 DEF Sent, Ahead
  <2>8. /\ old.hits + old.misses + k = Sent(m.stats, "dl1") + Sent(m.stats, "il1")
        /\ old.prefetches + p = Ahead(m.stats, "dl1") + Ahead(m.stats, "il1")
    BY <1>2, <2>1 DEF Traffic, old
  <2> HIDE DEF st
  <2>9. /\ st.hits + st.misses + (k - (1 - prefetch)) = old.hits + old.misses + k
        /\ st.prefetches + (p - prefetch) = old.prefetches + p
    <3>1. st.hits + st.misses + (k - (1 - prefetch)) = old.hits + old.misses + k
      BY <2>3, <2>5
    <3>2. st.prefetches + (p - prefetch) = old.prefetches + p
      BY <2>3, <2>5
    <3> QED BY <3>1, <3>2
  <2> QED BY <2>4, <2>6, <2>8, <2>9 DEF Traffic
<1> QED BY <1>3, <1>7, <1>8, <1>9 DEF Kept, r

-----------------------------------------------------------------------------
(* What a demand access does to the prediction table, and where it may      *)
(* prefetch from.                                                           *)
LEMMA EntryTrained ==
    ASSUME NEW entry \in EntryType, NEW PC \in Nat, NEW addr \in Nat
    PROVE  StrideTrained(entry, PC, addr) \in EntryType
<1> DEFINE d == StrideTrained(entry, PC, addr)
           s == Stride(entry, addr)
           st == NextState(entry.state, s = entry.stride)
           sd == IF entry.state = STEADY THEN entry.stride ELSE s
<1>1. /\ entry.prev \in Nat /\ entry.stride \in Address
      /\ entry.state \in {INITIAL, TRANSIENT, STEADY, NOPRED}
  BY DEF EntryType
<1>2. s \in Address /\ 0 \in Address
  <2>1. \A x \in Int, n \in Nat \ {0} : x % n \in 0 .. n - 1
    OBVIOUS
  <2>2. addr - entry.prev \in Int
    BY <1>1
  <2>3. s \in Address
    BY <2>1, <2>2, AddrSpaceAssumption DEF Stride, Address
  <2> QED BY <2>3, AddrSpaceAssumption DEF Address
<1>3. st \in {INITIAL, TRANSIENT, STEADY, NOPRED}
  BY <1>1 DEF NextState, INITIAL, TRANSIENT, STEADY, NOPRED
<1>4. \/ d = [entry EXCEPT !.PC = PC, !.prev = addr, !.stride = 0]
      \/ d = [entry EXCEPT !.prev = addr, !.state = st, !.stride = sd]
  BY DEF StrideTrained, NewOwner, SameOwner
<1>5. sd \in Address
  BY <1>1, <1>2
<1> HIDE DEF d, st, sd
<1>6. d \in EntryType
  BY <1>2, <1>3, <1>4, <1>5 DEF EntryType
<1> QED BY <1>6 DEF d

LEMMA RowThere ==
    ASSUME Accepted, NEW m \in MachineType, NEW n \in Own(options),
           options[n].prefetch_type > 2, NEW PC \in Nat,
           ~(Row(n, PC) > Len(m.RPT))
    PROVE  /\ Row(n, PC) \in 1 .. Len(m.RPT) /\ m.RPT[Row(n, PC)] \in EntryType
           /\ PC \div 4 \in Nat
<1>1. options[n].prefetch_type \in Nat \ {0}
  BY OptionsMean
<1>2. PC \div 4 \in Nat
  OBVIOUS
<1>3. (PC \div 4) % options[n].prefetch_type \in Nat
  BY <1>1, <1>2
<1>4. m.RPT \in Seq(EntryType) /\ Len(m.RPT) \in Nat
  BY DEF MachineType
<1>5. Row(n, PC) \in 1 .. Len(m.RPT)
  BY <1>3, <1>4 DEF Row
<1> QED BY <1>2, <1>4, <1>5

LEMMA TrainedKept ==
    ASSUME Accepted, NEW n \in Own(options), NEW m, NEW pending,
           NEW k, NEW p, Kept(m, pending, k, p), Running(m),
           NEW addr \in Nat, NEW PC \in Nat
    PROVE  /\ Kept(Trained(m, n, addr, PC), pending, k, p)
           /\ Running(Trained(m, n, addr, PC)) => Trained(m, n, addr, PC).upper = m.upper
<1> DEFINE t == Trained(m, n, addr, PC)
           i == Row(n, PC)
<1>1. m \in MachineType
  BY DEF Kept
<1>2. CASE options[n].prefetch_type <= 2
  <2>1. t = m
    BY <1>2 DEF Trained
  <2> QED BY <2>1
<1>3. CASE ~(options[n].prefetch_type <= 2) /\ i > Len(m.RPT)
  <2>1. t = [m EXCEPT !.stopped = "wild"]
    BY <1>3 DEF Trained
  <2>2. t.stopped = "wild"
    BY <1>1, <2>1 DEF MachineType
  <2> QED BY <2>2 DEF Kept, Running
<1>4. CASE ~(options[n].prefetch_type <= 2) /\ ~(i > Len(m.RPT))
  <2> DEFINE e == StrideTrained(m.RPT[i], PC \div 4, addr)
             rpt == [m.RPT EXCEPT ![i] = e]
  <2>1. t = [m EXCEPT !.RPT[i] = e]
    BY <1>4 DEF Trained
  <2>2. t = [m EXCEPT !.RPT = rpt]
    BY <2>1
  <2>3. options[n].prefetch_type > 2
    BY <1>4, OptionsMean
  <2>4. i \in 1 .. Len(m.RPT) /\ e \in EntryType
    BY <1>1, <1>4, <2>3, RowThere, EntryTrained
  <2>5. m.RPT \in Seq(EntryType)
    BY <1>1 DEF MachineType
  <2> HIDE DEF e, i
  <2>6. rpt \in Seq(EntryType)
    BY <2>4, <2>5
  <2> HIDE DEF rpt, t
  <2>7. /\ t \in MachineType /\ t.caches = m.caches /\ t.stats = m.stats
        /\ t.upper = m.upper /\ t.lower = m.lower
    BY <1>1, <2>2, <2>6 DEF MachineType
  <2>8. Kept(t, pending, k, p)
    BY <2>7 DEF Kept, AllSound, UpperDirty, LowerDirty, Traffic
  <2> QED BY <2>7, <2>8 DEF t
<1> QED BY <1>2, <1>3, <1>4

LEMMA ToPrefetchNat ==
    ASSUME Accepted, NEW n \in Own(options), NEW m \in MachineType, AllSound(m),
           NEW addr \in Nat, NEW PC \in Nat
    PROVE  ToPrefetch(m, n, addr, PC) \subseteq Nat
<1>1. options[n].config \in Configs /\ Sound(options[n].config, m.caches[n])
  BY OptionsMean DEF AllSound
<1>2. m.caches[n].bsize \in Nat /\ m.caches[n] \in CacheType(options[n].config)
  BY <1>1, CacheFields DEF Sound
<1>3. Predicted(m, n, addr, PC) \subseteq Nat
  <2> DEFINE old   == m.RPT[Row(n, PC)]
             entry == StrideTrained(old, PC \div 4, addr)
  <2>1. /\ options[n].prefetch_type = 1
             => Predicted(m, n, addr, PC) = {addr + m.caches[n].bsize}
        /\ options[n].prefetch_type # 1
             => \/ Predicted(m, n, addr, PC) = {}
                \/ /\ options[n].prefetch_type > 2 /\ Row(n, PC) <= Len(m.RPT)
                   /\ Predicted(m, n, addr, PC) = {addr + entry.stride}
    BY DEF Predicted
  <2>2. options[n].prefetch_type > 2 /\ Row(n, PC) <= Len(m.RPT)
          => entry.stride \in Nat
    <3>1. SUFFICES ASSUME options[n].prefetch_type > 2, Row(n, PC) <= Len(m.RPT)
                   PROVE  entry.stride \in Nat
      OBVIOUS
    <3>2. Row(n, PC) \in Nat /\ Len(m.RPT) \in Nat
      <4>1. options[n].prefetch_type \in Nat \ {0}
        BY <3>1, OptionsMean
      <4>2. (PC \div 4) % options[n].prefetch_type \in Nat
        BY <4>1
      <4> QED BY <4>2 DEF Row, MachineType
    <3>3. old \in EntryType /\ PC \div 4 \in Nat
      BY <3>1, <3>2, RowThere
    <3>4. entry \in EntryType
      BY <3>3, EntryTrained
    <3> QED BY <3>4, AddrSpaceAssumption DEF EntryType, Address
  <2> HIDE DEF old, entry
  <2> QED BY <1>2, <2>1, <2>2
<1>4. \A a \in Nat : CACHE_BADDR(m.caches[n], a % AddrSpace) \in Nat
  <2>1. \A a \in Nat : a % AddrSpace \in Nat
    BY AddrSpaceAssumption
  <2> QED BY <1>1, <1>2, <2>1, Located
<1> QED BY <1>3, <1>4 DEF ToPrefetch

-----------------------------------------------------------------------------
(* The caches below another one: what an access to x leaves pending.        *)
Unpended(x, pending, cmd, addr) ==
    IF x = "dl2" THEN pending \ Writes(cmd, addr) ELSE pending
Reached(x, k, n) == IF x = "dl2" THEN k - n ELSE k

Lower(x) == x \in {"dl2", "il2"} /\ x \in Own(options)

LEMMA KeptAny ==
    ASSUME NEW m, NEW pending, NEW more, NEW k, NEW p, NEW k2, NEW p2,
           Kept(m, pending, k, p), pending \subseteq more,
           Counted(options) => k2 = k /\ p2 = p
    PROVE  Kept(m, more, k2, p2)
BY DEF Kept, LowerDirty, Traffic

LEMMA LastOnceKept ==
    ASSUME Accepted, NEW x, Lower(x), NEW m, NEW pending,
           NEW k \in Int, NEW p \in Int, Kept(m, pending, k, p),
           NEW addr \in Nat, NEW cmd \in {"Read", "Write"}, NEW prefetch \in {0, 1},
           NEW PC \in Nat, Running(m)
    PROVE  /\ Kept(LastOnce(m, x, cmd, addr, PC, prefetch),
                   Unpended(x, pending, cmd, addr), Reached(x, k, 1 - prefetch),
                   Reached(x, p, prefetch))
           /\ Running(LastOnce(m, x, cmd, addr, PC, prefetch))
                => LastOnce(m, x, cmd, addr, PC, prefetch).upper = m.upper
<1> DEFINE r == Accessed(m, x, cmd, addr, prefetch)
<1>1. LastOnce(m, x, cmd, addr, PC, prefetch) = r
  BY DEF LastOnce
<1>2. Running(r) => r.upper = m.upper
  <2>1. m \in MachineType /\ AllSound(m)
    BY DEF Kept
  <2>2. SUFFICES ASSUME Running(r) PROVE r.upper = m.upper
    OBVIOUS
  <2>3. AfterAccess(m, r, x, m.caches[x], cmd, addr, prefetch,
                    AccessBlock(m.caches[x], cmd, addr, Drawn(m, x)),
                    WrittenBack(m.caches[x], addr, Drawn(m, x)))
    BY <2>1, <2>2, AccessedFields DEF Lower
  <2> QED BY <2>3 DEF AfterAccess, Lower
<1>3. CASE x = "dl2"
  <2>1. Kept(r, pending \ Writes(cmd, addr), k - (1 - prefetch), p - prefetch)
    BY <1>3, Dl2Kept DEF Lower
  <2> QED BY <1>1, <1>2, <1>3, <2>1 DEF Unpended, Reached
<1>4. CASE x = "il2"
  <2>1. x \in Own(options) \ {"dl2"} /\ ~Sends(x)
    BY <1>4, BelowMeans DEF Lower, Sends, NONE
  <2> DEFINE back == WrittenBack(m.caches[x], addr, Drawn(m, x))
             k2   == IF Sends(x)
                       THEN k + Cardinality(back)
                              + (IF Miss(m.caches[x], addr) THEN 1 - prefetch ELSE 0)
                       ELSE k
             p2   == IF Sends(x) /\ Miss(m.caches[x], addr) THEN p + prefetch ELSE p
  <2>2. Kept(r, pending \cup (IF x = "dl1" THEN back ELSE {}), k2, p2)
    BY <2>1, AboveKept
  <2>3. /\ pending \cup (IF x = "dl1" THEN back ELSE {}) = pending
        /\ k2 = k /\ p2 = p
    BY <1>4, <2>1
  <2>4. Kept(r, pending, k, p)
    BY <2>2, <2>3
  <2> QED BY <1>1, <1>2, <1>4, <2>4 DEF Unpended, Reached
<1> QED BY <1>3, <1>4 DEF Lower

LEMMA LastAccessKept ==
    ASSUME Accepted, NEW x, Lower(x), NEW m, NEW pending,
           NEW k \in Int, NEW p \in Int, Kept(m, pending, k, p),
           NEW addr \in Nat, NEW cmd \in {"Read", "Write"}, NEW prefetch \in {0, 1},
           NEW PC \in Nat, Running(m)
    PROVE  /\ Kept(LastAccess(m, x, cmd, addr, PC, prefetch),
                   Unpended(x, pending, cmd, addr), Reached(x, k, 1 - prefetch),
                   Reached(x, p, prefetch))
           /\ Running(LastAccess(m, x, cmd, addr, PC, prefetch))
                => LastAccess(m, x, cmd, addr, PC, prefetch).upper = m.upper
<1> DEFINE done    == LastOnce(m, x, cmd, addr, PC, prefetch)
           trained == Trained(done, x, addr, PC)
           blocks  == ToPrefetch(done, x, addr, PC)
           b       == CHOOSE b \in blocks : TRUE
           last    == LastOnce(trained, x, "Read", b, PC, 1)
           r       == LastAccess(m, x, cmd, addr, PC, prefetch)
           un      == Unpended(x, pending, cmd, addr)
           k2      == Reached(x, k, 1 - prefetch)
           p2      == Reached(x, p, prefetch)
<1>1. r = IF prefetch = 1 \/ ~Running(done) THEN done
          ELSE IF blocks = {} \/ ~Running(trained) THEN trained ELSE last
  BY DEF LastAccess, Prefetching
<1>2. Kept(done, un, k2, p2) /\ (Running(done) => done.upper = m.upper)
  BY LastOnceKept
<1>3. k2 \in Int /\ p2 \in Int /\ x \in Own(options)
  BY DEF Reached, Lower
<1> HIDE DEF done, un, k2, p2, r
<1>4. CASE prefetch = 1 \/ ~Running(done)
  BY <1>1, <1>2, <1>4 DEF r, un, k2, p2
<1>5. CASE Running(done) /\ prefetch = 0
  <2>1. /\ Kept(trained, un, k2, p2)
        /\ Running(trained) => trained.upper = done.upper
    BY <1>2, <1>3, <1>5, TrainedKept
  <2> HIDE DEF trained
  <2>2. CASE blocks = {} \/ ~Running(trained)
    <3>1. r = trained
      BY <1>1, <1>5, <2>2
    <3> QED BY <1>2, <1>5, <2>1, <3>1 DEF r, un, k2, p2
  <2>3. CASE blocks # {} /\ Running(trained)
    <3>1. r = last
      BY <1>1, <1>5, <2>3
    <3>2. done \in MachineType /\ AllSound(done)
      BY <1>2, <1>5 DEF Kept
    <3>3. b \in Nat
      BY <1>3, <2>3, <3>2, ToPrefetchNat
    <3> HIDE DEF b
    <3>4. /\ Kept(last, Unpended(x, un, "Read", b), Reached(x, k2, 1 - 1),
                  Reached(x, p2, 1))
          /\ Running(last) => last.upper = trained.upper
      BY <1>3, <2>1, <2>3, <3>3, LastOnceKept
    <3>5. Counted(options) => x # "dl2"
      <4>1. SUFFICES ASSUME Counted(options), x = "dl2" PROVE FALSE
        OBVIOUS
      <4>2. options[x].prefetch_type = 0
        BY <4>1 DEF Counted
      <4>3. blocks = {}
        BY <4>2 DEF ToPrefetch, Predicted
      <4> QED BY <2>3, <4>3
    <3>6. Unpended(x, un, "Read", b) \subseteq un
      BY DEF Unpended
    <3>7. Counted(options) => k2 = Reached(x, k2, 1 - 1) /\ p2 = Reached(x, p2, 1)
      BY <3>5 DEF Reached
    <3> HIDE DEF last
    <3>8. Kept(last, un, k2, p2)
      BY <3>4, <3>6, <3>7, KeptAny
    <3> QED BY <1>2, <1>5, <2>1, <2>3, <3>1, <3>4, <3>8 DEF r, un, k2, p2
  <2> QED BY <2>2, <2>3
<1> QED BY <1>4, <1>5

(* What a miss handler leaves pending; it does not write to dl1.            *)
SameUpper(m, r) == Running(r) => r.upper = m.upper
LEMMA access_fnKept ==
    ASSUME Accepted, NEW n \in Own(options), NEW m, NEW pending,
           NEW k \in Int, NEW p \in Int, Kept(m, pending, k, p),
           NEW baddr \in Nat, NEW cmd \in {"Read", "Write"}, NEW prefetch \in {0, 1},
           NEW PC \in Nat
    PROVE  /\ Kept(access_fn(m, n, cmd, baddr, PC, prefetch),
                   IF Sends(n) THEN pending \ Writes(cmd, baddr) ELSE pending,
                   IF Sends(n) THEN k - (1 - prefetch) ELSE k,
                   IF Sends(n) THEN p - prefetch ELSE p)
           /\ SameUpper(m, access_fn(m, n, cmd, baddr, PC, prefetch))
<1> DEFINE x  == Below(n)
           r  == access_fn(m, n, cmd, baddr, PC, prefetch)
           un == IF Sends(n) THEN pending \ Writes(cmd, baddr) ELSE pending
           k2 == IF Sends(n) THEN k - (1 - prefetch) ELSE k
           p2 == IF Sends(n) THEN p - prefetch ELSE p
<1>1. CASE ~Running(m)
  <2>1. r = m
    BY <1>1 DEF access_fn
  <2> QED BY <1>1, <2>1 DEF Kept, SameUpper
<1>2. CASE Running(m)
  <2>1. m \in MachineType /\ DOMAIN m.caches = Own(options)
    BY <1>2 DEF Kept, MachineType
  <2>2. x \in {"dl2", "il2", NONE} /\ NONE \notin Own(options)
    BY BelowMeans, OptionsMean
  <2>3. CASE x \notin Own(options)
    <3>1. r = m /\ ~Sends(n)
      BY <1>2, <2>1, <2>3 DEF access_fn, Sends
    <3> QED BY <3>1 DEF SameUpper
  <2>4. CASE x \in Own(options) /\ m.caches[n].bsize > m.caches[x].bsize
    <3>1. r = [m EXCEPT !.stopped = "fatal"]
      BY <1>2, <2>1, <2>4 DEF access_fn
    <3>2. r.stopped = "fatal"
      BY <2>1, <3>1 DEF MachineType
    <3> QED BY <3>2 DEF Kept, Running, SameUpper
  <2>5. CASE x \in Own(options) /\ ~(m.caches[n].bsize > m.caches[x].bsize)
    <3>1. r = LastAccess(m, x, cmd, baddr, PC, prefetch)
      BY <1>2, <2>1, <2>5 DEF access_fn
    <3>2. Lower(x)
      BY <2>2, <2>5 DEF Lower
    <3> HIDE DEF x, r
    <3>3. /\ Kept(r, Unpended(x, pending, cmd, baddr), Reached(x, k, 1 - prefetch),
                  Reached(x, p, prefetch))
          /\ Running(r) => r.upper = m.upper
      BY <1>2, <3>1, <3>2, LastAccessKept
    <3>4. Sends(n) <=> x = "dl2"
      BY <2>5 DEF Sends, x
    <3>5. /\ Unpended(x, pending, cmd, baddr) = un
          /\ Reached(x, k, 1 - prefetch) = k2 /\ Reached(x, p, prefetch) = p2
      BY <3>4 DEF Unpended, Reached
    <3> HIDE DEF un, k2, p2
    <3>6. Kept(r, un, k2, p2)
      BY <3>3, <3>5
    <3> QED BY <3>3, <3>6 DEF r, un, k2, p2, SameUpper
  <2> QED BY <2>3, <2>4, <2>5
<1> QED BY <1>1, <1>2

LEMMA NotSentKept ==
    ASSUME Accepted, NEW n \in Own(options), ~Sends(n), NEW m, NEW pending,
           NEW k \in Int, NEW p \in Int, Kept(m, pending, k, p),
           NEW baddr \in Nat, NEW cmd \in {"Read", "Write"}, NEW prefetch \in {0, 1},
           NEW PC \in Nat
    PROVE  Kept(access_fn(m, n, cmd, baddr, PC, prefetch), pending, k, p)
<1> DEFINE r  == access_fn(m, n, cmd, baddr, PC, prefetch)
           un == IF Sends(n) THEN pending \ Writes(cmd, baddr) ELSE pending
           k2 == IF Sends(n) THEN k - (1 - prefetch) ELSE k
           p2 == IF Sends(n) THEN p - prefetch ELSE p
<1>1. Kept(r, un, k2, p2)
  BY access_fnKept
<1>2. un = pending /\ k2 = k /\ p2 = p
  OBVIOUS
<1> HIDE DEF r, un, k2, p2
<1>3. Kept(r, pending, k, p)
  BY <1>1, <1>2
<1> QED BY <1>3 DEF r

-----------------------------------------------------------------------------
(* A whole access leaves nothing pending, whatever the caches are.          *)
LEMMA AccessOnceKept ==
    ASSUME Accepted, NEW n \in Own(options), n = "dl2" => ~Counted(options),
           NEW m, Kept(m, {}, 0, 0),
           NEW addr \in Nat, NEW cmd \in {"Read", "Write"}, NEW prefetch \in {0, 1},
           NEW PC \in Nat
    PROVE  Kept(AccessOnce(m, n, cmd, addr, PC, prefetch), {}, 0, 0)
<1> DEFINE c     == m.caches[n]
           back  == WrittenBack(c, addr, Drawn(m, n))
           own   == Accessed(m, n, cmd, addr, prefetch)
           b     == CHOOSE b \in back : TRUE
           saved == IF back = {} THEN own ELSE access_fn(own, n, "Write", b, PC, 0)
           r     == AccessOnce(m, n, cmd, addr, PC, prefetch)
           pend  == IF n = "dl1" THEN back ELSE {}
           j     == IF Miss(c, addr) THEN 1 - prefetch ELSE 0
           q     == IF Miss(c, addr) THEN prefetch ELSE 0
<1>1. CASE ~Running(m)
  BY <1>1 DEF AccessOnce
<1>2. CASE Running(m)
  <2>1. r = IF Miss(c, addr)
              THEN access_fn(saved, n, "Read", CACHE_BADDR(c, addr), PC, prefetch)
              ELSE own
    BY <1>2 DEF AccessOnce
  <2>2. /\ options[n].config \in Configs /\ Sound(options[n].config, c)
        /\ m.drawn \in Nat
    BY <1>2, OptionsMean DEF Kept, AllSound, MachineType
  <2>3. /\ ~Miss(c, addr) => back = {}
        /\ back = {} \/ \E z \in Nat : back = {z}
        /\ Cardinality(back) = IF back = {} THEN 0 ELSE 1
    <3>1. Drawn(m, n) \in Ways(options[n].config)
      BY <2>2, DrawnWay
    <3> QED BY <2>2, <3>1, BackMeans
  <2>4. CACHE_BADDR(c, addr) \in Nat
    BY <2>2, Located DEF Sound
  <2>5. CASE n = "dl2"
    <3>1. Kept(own, {} \ Writes(cmd, addr), 0 - (1 - prefetch), 0 - prefetch)
      BY <1>2, <2>5, Dl2Kept
    <3>2. Kept(own, {}, 0, 0)
      BY <2>5, <3>1, KeptAny
    <3>4. ~Sends(n)
      BY <2>5, BelowMeans DEF Sends, NONE
    <3> HIDE DEF own
    <3>5. Kept(saved, {}, 0, 0)
      <4>1. CASE back = {}
        BY <3>2, <4>1
      <4>2. CASE back # {}
        <5>1. b \in Nat
          BY <2>3, <4>2
        <5> HIDE DEF b
        <5> QED BY <3>2, <3>4, <4>2, <5>1, NotSentKept
      <4> QED BY <4>1, <4>2
    <3> HIDE DEF saved, r
    <3>6. CASE Miss(c, addr)
      <4> DEFINE base == CACHE_BADDR(c, addr)
      <4>1. r = access_fn(saved, n, "Read", base, PC, prefetch)
        BY <2>1, <3>6
      <4>3. base \in Nat /\ 0 \in Int /\ "Read" \in {"Read", "Write"}
        BY <2>4
      <4> HIDE DEF base, c, back, b
      <4>2. Kept(r, {}, 0, 0)
        BY <3>4, <3>5, <4>1, <4>3, NotSentKept
      <4> QED BY <4>2 DEF r
    <3>7. CASE ~Miss(c, addr)
      BY <2>1, <3>2, <3>7 DEF r
    <3> QED BY <3>6, <3>7
  <2>6. CASE n # "dl2"
    <3> DEFINE k1 == IF Sends(n) THEN 0 + Cardinality(back) + j ELSE 0
               p1 == IF Sends(n) /\ Miss(c, addr) THEN 0 + prefetch ELSE 0
               k2 == IF Sends(n) THEN j ELSE 0
               p2 == IF Sends(n) THEN q ELSE 0
    <3>1. Kept(own, {} \cup pend, k1, p1)
      <4>1. n \in Own(options) \ {"dl2"} /\ 0 \in Int
        BY <2>6
      <4> QED BY <1>2, <4>1, AboveKept
    <3>2. p1 = p2 /\ k2 \in Int /\ p2 \in Int /\ k1 \in Int
          /\ k1 = (IF Sends(n) /\ back # {} THEN k2 + 1 ELSE k2)
      BY <2>3
    <3>3. Kept(own, pend, k1, p2)
      BY <3>1, <3>2
    <3>4. back # {} => b \in Nat /\ back = {b}
      BY <2>3
    <3>5. n = "dl1" /\ "dl2" \in Own(options) => Sends(n)
      BY BelowMeans DEF Sends
    <3> HIDE DEF own, k1, p1, b
    <3>6. Kept(saved, {}, k2, p2)
      <4>1. CASE back = {}
        BY <3>2, <3>3, <4>1
      <4>2. CASE back # {}
        <5>1. saved = access_fn(own, n, "Write", b, PC, 0)
          BY <4>2
        <5>2. Kept(saved, IF Sends(n) THEN pend \ Writes("Write", b) ELSE pend,
                   IF Sends(n) THEN k1 - (1 - 0) ELSE k1,
                   IF Sends(n) THEN p2 - 0 ELSE p2)
          BY <3>2, <3>3, <3>4, <4>2, <5>1, access_fnKept
        <5> HIDE DEF saved
        <5>3. /\ (IF Sends(n) THEN k1 - (1 - 0) ELSE k1) = k2
              /\ (IF Sends(n) THEN p2 - 0 ELSE p2) = p2
          BY <3>2, <4>2
        <5>4. CASE Sends(n)
          <6>1. pend \ Writes("Write", b) = {}
            BY <3>4, <4>2 DEF Writes
          <6> QED BY <5>2, <5>3, <5>4, <6>1
        <5>5. CASE ~Sends(n)
          <6>1. n = "dl1" => "dl2" \notin Own(options)
            BY <3>5, <5>5
          <6>2. Kept(saved, pend, k2, p2)
            BY <5>2, <5>3, <5>5
          <6>3. CASE n = "dl1"
            BY <6>1, <6>2, <6>3 DEF Kept, LowerDirty
          <6>4. CASE n # "dl1"
            BY <6>2, <6>4
          <6> QED BY <6>3, <6>4
        <5> QED BY <5>4, <5>5
      <4> QED BY <4>1, <4>2
    <3>7. CASE Miss(c, addr)
      <4>1. r = access_fn(saved, n, "Read", CACHE_BADDR(c, addr), PC, prefetch)
        BY <2>1, <3>7
      <4> HIDE DEF saved, r
      <4>2. Kept(r, IF Sends(n) THEN {} \ Writes("Read", CACHE_BADDR(c, addr)) ELSE {},
                 IF Sends(n) THEN k2 - (1 - prefetch) ELSE k2,
                 IF Sends(n) THEN p2 - prefetch ELSE p2)
        BY <2>4, <3>2, <3>6, <4>1, access_fnKept
      <4>3. /\ (IF Sends(n) THEN {} \ Writes("Read", CACHE_BADDR(c, addr)) ELSE {}) = {}
            /\ (IF Sends(n) THEN k2 - (1 - prefetch) ELSE k2) = 0
            /\ (IF Sends(n) THEN p2 - prefetch ELSE p2) = 0
        BY <3>7
      <4>4. Kept(r, {}, 0, 0)
        BY <4>2, <4>3
      <4> QED BY <4>4 DEF r
    <3>8. CASE ~Miss(c, addr)
      <4>1. r = own /\ saved = own /\ k2 = 0 /\ p2 = 0
        BY <2>1, <2>3, <3>8
      <4> QED BY <3>6, <4>1
    <3> QED BY <3>7, <3>8
  <2> QED BY <2>5, <2>6
<1> QED BY <1>1, <1>2

LEMMA cache_accessKept ==
    ASSUME Accepted, NEW n \in Own(options), n = "dl2" => ~Counted(options),
           NEW m, Kept(m, {}, 0, 0),
           NEW addr \in Nat, NEW cmd \in {"Read", "Write"}, NEW PC \in Nat
    PROVE  Kept(cache_access(m, n, cmd, addr, PC, 0), {}, 0, 0)
<1> DEFINE done    == AccessOnce(m, n, cmd, addr, PC, 0)
           trained == Trained(done, n, addr, PC)
           blocks  == ToPrefetch(done, n, addr, PC)
           b       == CHOOSE b \in blocks : TRUE
           last    == AccessOnce(trained, n, "Read", b, PC, 1)
           r       == cache_access(m, n, cmd, addr, PC, 0)
<1>1. r = IF ~Running(done) THEN done
          ELSE IF blocks = {} \/ ~Running(trained) THEN trained ELSE last
  BY DEF cache_access, Prefetching
<1>2. Kept(done, {}, 0, 0)
  BY AccessOnceKept
<1> HIDE DEF done, r
<1>3. CASE ~Running(done)
  BY <1>1, <1>2, <1>3 DEF r
<1>4. CASE Running(done)
  <2>1. Kept(trained, {}, 0, 0)
    BY <1>2, <1>4, TrainedKept
  <2> HIDE DEF trained
  <2>2. CASE blocks = {} \/ ~Running(trained)
    BY <1>1, <1>4, <2>1, <2>2 DEF r
  <2>3. CASE blocks # {} /\ Running(trained)
    <3>1. done \in MachineType /\ AllSound(done)
      BY <1>2, <1>4 DEF Kept
    <3>2. b \in Nat
      BY <2>3, <3>1, ToPrefetchNat
    <3> HIDE DEF b
    <3>3. Kept(last, {}, 0, 0)
      BY <2>1, <3>2, AccessOnceKept
    <3> HIDE DEF last
    <3> QED BY <1>1, <1>4, <2>3, <3>3 DEF r
  <2> QED BY <2>2, <2>3
<1> QED BY <1>3, <1>4

LEMMA DemandKept ==
    ASSUME Accepted, NEW name \in {"dl1", "il1", "itlb", "dtlb"},
           NEW m, Kept(m, {}, 0, 0),
           NEW addr \in Nat, NEW cmd \in {"Read", "Write"}, NEW PC \in Nat
    PROVE  Kept(Demand(m, name, cmd, addr, PC), {}, 0, 0)
<1> DEFINE n == Alias(options, name)
<1>1. CASE n = NONE \/ ~Running(m)
  BY <1>1 DEF Demand
<1>2. CASE n # NONE /\ Running(m)
  <2>1. Demand(m, name, cmd, addr, PC) = cache_access(m, n, cmd, addr, PC, 0)
    BY <1>2 DEF Demand
  <2>2. n \in Own(options) /\ (n = "dl2" => ~Counted(options))
    BY <1>2, OptionsMean DEF Alias, NONE, Own, Names, Counted
  <2> QED BY <2>1, <2>2, cache_accessKept
<1> QED BY <1>1, <1>2

-----------------------------------------------------------------------------
(* The places of a cache in the order of a flush: each way of each set is   *)
(* at one of them, and no two dirty blocks have the same address.           *)
Places(c) == c.nsets * c.assoc

LEMMA PlaceOf ==
    ASSUME NEW config \in Configs, NEW c, Sound(config, c),
           NEW j \in 0 .. Places(c) - 1
    PROVE  /\ BlockAt(c, j)[1] = j \div c.assoc
           /\ BlockAt(c, j)[1] \in Sets(config) /\ BlockAt(c, j)[2] \in Ways(config)
           /\ c.way[BlockAt(c, j)[1]][BlockAt(c, j)[2]] = j % c.assoc
           /\ j = c.assoc * (j \div c.assoc) + (j % c.assoc)
           /\ Places(c) \in Nat
<1>1. /\ c.nsets \in Nat \ {0} /\ c.assoc \in Nat \ {0}
      /\ Sets(config) = 0 .. c.nsets - 1 /\ Ways(config) = 0 .. c.assoc - 1
      /\ SetIdx(c) = Sets(config) /\ Way(c) = Ways(config)
  BY CacheFields DEF Sound, Sets, Ways
<1> DEFINE a == c.assoc
           b == c.nsets
           s == j \div a
           i == j % a
<1>2. b * a \in Nat /\ j \in Nat /\ j < b * a /\ a \in Nat \ {0} /\ b \in Nat \ {0}
  <2>1. b * a \in Nat
    BY <1>1
  <2> QED BY <1>1, <2>1 DEF Places
<1>3. s \in Nat /\ i \in 0 .. a - 1 /\ j = a * s + i
  BY <1>2, DivMod
<1> HIDE DEF a, b, s, i
<1>4. s < b
  <2>1. SUFFICES ASSUME s >= b PROVE FALSE
    BY <1>2, <1>3
  <2>2. s = b + (s - b) /\ s - b \in Nat
    BY <1>2, <1>3, <2>1
  <2>3. a * s = a * b + a * (s - b) /\ a * (s - b) \in Nat
    BY <1>2, <2>2
  <2>4. a * b = b * a
    BY <1>2
  <2> QED BY <1>2, <1>3, <2>3, <2>4
<1>5. s \in Sets(config) /\ i \in Ways(config)
  BY <1>1, <1>2, <1>3, <1>4 DEF a, b
<1>6. \E w \in Way(c) : c.way[s][w] = i
  BY <1>1, <1>5 DEF Sound, WholeLists
<1>7. /\ BlockAt(c, j)[1] = s /\ BlockAt(c, j)[2] \in Way(c)
      /\ c.way[s][BlockAt(c, j)[2]] = i
  BY <1>6 DEF BlockAt, s, i, a
<1> QED BY <1>1, <1>2, <1>3, <1>5, <1>7 DEF a, b, s, i, Places

LEMMA PlaceFor ==
    ASSUME NEW config \in Configs, NEW c, Sound(config, c),
           NEW s \in Sets(config), NEW w \in Ways(config)
    PROVE  \E j \in 0 .. Places(c) - 1 :
             BlockAt(c, j)[1] = s /\ BlockAt(c, j)[2] = w
<1>1. /\ c.nsets \in Nat \ {0} /\ c.assoc \in Nat \ {0}
      /\ Sets(config) = 0 .. c.nsets - 1 /\ Ways(config) = 0 .. c.assoc - 1
      /\ SetIdx(c) = Sets(config) /\ Way(c) = Ways(config)
      /\ c.way \in [Sets(config) -> [Ways(config) -> Ways(config)]]
  BY CacheFields DEF Sound, Sets, Ways
<1> DEFINE a == c.assoc
           b == c.nsets
           i == c.way[s][w]
           j == a * s + i
<1>2. a \in Nat \ {0} /\ b \in Nat \ {0} /\ s \in 0 .. b - 1 /\ i \in 0 .. a - 1
  BY <1>1
<1> HIDE DEF a, b, i
<1>3. j \in 0 .. (b * a) - 1
  <2>1. s = (b - 1) - ((b - 1) - s) /\ (b - 1) - s \in Nat
    BY <1>2
  <2>2. a * s = a * (b - 1) - a * ((b - 1) - s) /\ a * ((b - 1) - s) \in Nat
    BY <1>2, <2>1
  <2>3. a * (b - 1) = b * a - a /\ b * a \in Nat /\ a * s \in Nat
    BY <1>2
  <2> QED BY <1>2, <2>2, <2>3
<1>4. j \in 0 .. Places(c) - 1 /\ j \in Nat
  <2>1. b * a \in Nat
    BY <1>2
  <2> QED BY <1>3, <2>1 DEF Places, a, b
<1> HIDE DEF j
<1>5. j \div a \in Nat /\ j % a \in 0 .. a - 1 /\ j = a * (j \div a) + (j % a)
  BY <1>2, <1>4, DivMod
<1>6. j \div a = s /\ j % a = i
  BY <1>2, <1>5, DivUnique DEF j
<1>7. /\ BlockAt(c, j)[1] = s /\ BlockAt(c, j)[2] \in Ways(config)
      /\ c.way[s][BlockAt(c, j)[2]] = i
  BY <1>4, <1>6, PlaceOf DEF a
<1>8. BlockAt(c, j)[2] = w
  <2> DEFINE x == BlockAt(c, j)[2]
  <2>1. x \in Way(c) /\ w \in Way(c) /\ s \in SetIdx(c) /\ c.way[s][x] = c.way[s][w]
    BY <1>1, <1>7 DEF i
  <2> HIDE DEF x
  <2>2. \A y, z \in Way(c) : c.way[s][y] = c.way[s][z] => y = z
    BY <2>1 DEF Sound, WholeLists
  <2>3. x = w
    BY <2>1, <2>2
  <2> QED BY <2>3 DEF x
<1> QED BY <1>4, <1>7, <1>8

LEMMA DirtyApart ==
    ASSUME NEW config \in Configs, NEW c, Sound(config, c),
           NEW j \in 0 .. Places(c) - 1, NEW k \in 0 .. Places(c) - 1,
           IsDirty(c, BlockAt(c, j)), IsDirty(c, BlockAt(c, k)),
           BlockAddr(c, BlockAt(c, j)) = BlockAddr(c, BlockAt(c, k))
    PROVE  j = k
<1> DEFINE s == BlockAt(c, j)[1]
           v == BlockAt(c, j)[2]
           t == BlockAt(c, k)[1]
           w == BlockAt(c, k)[2]
<1>1. /\ s = j \div c.assoc /\ s \in Sets(config) /\ v \in Ways(config)
      /\ c.way[s][v] = j % c.assoc
      /\ j = c.assoc * (j \div c.assoc) + (j % c.assoc)
  BY PlaceOf
<1>2. /\ t = k \div c.assoc /\ t \in Sets(config) /\ w \in Ways(config)
      /\ c.way[t][w] = k % c.assoc
      /\ k = c.assoc * (k \div c.assoc) + (k % c.assoc)
  BY PlaceOf
<1>3. /\ VALID \in c.status[s][v] /\ VALID \in c.status[t][w]
      /\ CACHE_MK_BADDR(c, c.tag[s][v], s) = CACHE_MK_BADDR(c, c.tag[t][w], t)
  BY DEF IsDirty, BlockAddr
<1> HIDE DEF s, t, v, w
<1>4. /\ c \in CacheType(config) /\ SetIdx(c) = Sets(config) /\ Way(c) = Ways(config)
      /\ c.tag[s][v] \in Nat /\ c.tag[t][w] \in Nat
  BY <1>1, <1>2, CacheFields DEF Sound
<1>5. c.tag[s][v] = c.tag[t][w] /\ s = t
  <2> DEFINE x == c.tag[s][v]
             y == c.tag[t][w]
  <2>1. /\ x \in Nat /\ y \in Nat /\ s \in Sets(config) /\ t \in Sets(config)
        /\ CACHE_MK_BADDR(c, x, s) = CACHE_MK_BADDR(c, y, t)
    BY <1>1, <1>2, <1>3, <1>4
  <2> HIDE DEF x, y
  <2>2. x = y /\ s = t
    BY <1>4, <2>1, BlockAddress
  <2> QED BY <2>2 DEF x, y
<1>6. v = w
  BY <1>1, <1>2, <1>3, <1>4, <1>5 DEF Sound, Single
<1> QED BY <1>1, <1>2, <1>5, <1>6

(* The dirty blocks from the k-th place on, in the order of a flush.        *)
DirtyFrom(c, k) ==
    {BlockAddr(c, BlockAt(c, j)) :
       j \in {i \in k .. Places(c) - 1 : IsDirty(c, BlockAt(c, i))}}

LEMMA DirtyFromMeans ==
    ASSUME NEW config \in Configs, NEW c, Sound(config, c)
    PROVE  /\ Places(c) \in Nat
           /\ DirtyFrom(c, 0) = DirtyBlocks(c) /\ DirtyFrom(c, Places(c)) = {}
           /\ IsFiniteSet(DirtyBlocks(c)) /\ DirtyBlocks(c) \subseteq Nat
<1>1. /\ c.nsets \in Nat \ {0} /\ c.assoc \in Nat \ {0}
      /\ SetIdx(c) = Sets(config) /\ Way(c) = Ways(config) /\ c \in CacheType(config)
  BY CacheFields DEF Sound
<1>2. Places(c) \in Nat
  BY <1>1 DEF Places
<1>3. DirtyFrom(c, Places(c)) = {}
  BY <1>2 DEF DirtyFrom
<1> DEFINE P == {i \in 0 .. Places(c) - 1 : IsDirty(c, BlockAt(c, i))}
<1>4. ASSUME NEW j \in P PROVE BlockAddr(c, BlockAt(c, j)) \in DirtyBlocks(c)
  <2> DEFINE s == BlockAt(c, j)[1]
             w == BlockAt(c, j)[2]
  <2>1. s \in Sets(config) /\ w \in Ways(config)
    BY PlaceOf
  <2>2. BlockAddr(c, BlockAt(c, j)) \in Held(c, s, c.tag[s][w], c.status[s][w])
    BY DEF BlockAddr, IsDirty, Held
  <2> HIDE DEF s, w
  <2> QED BY <1>1, <2>1, <2>2, DirtyBlocksMeans
<1>5. ASSUME NEW x \in DirtyBlocks(c)
      PROVE  \E j \in P : x = BlockAddr(c, BlockAt(c, j))
  <2>1. PICK s \in Sets(config), w \in Ways(config) :
          x \in Held(c, s, c.tag[s][w], c.status[s][w])
    BY <1>1, DirtyBlocksMeans
  <2>2. PICK j \in 0 .. Places(c) - 1 : BlockAt(c, j)[1] = s /\ BlockAt(c, j)[2] = w
    BY PlaceFor
  <2>3. IsDirty(c, BlockAt(c, j)) /\ x = BlockAddr(c, BlockAt(c, j))
    BY <2>1, <2>2 DEF BlockAddr, IsDirty, Held
  <2> QED BY <2>3
<1>6. DirtyFrom(c, 0) = DirtyBlocks(c)
  BY <1>4, <1>5 DEF DirtyFrom
<1>7. IsFiniteSet(DirtyBlocks(c))
  <2> DEFINE f == [j \in P |-> BlockAddr(c, BlockAt(c, j))]
  <2>1. IsFiniteSet(P)
    <3>1. IsFiniteSet(0 .. Places(c) - 1)
      BY <1>2, FS_Interval
    <3> QED BY <3>1, FS_Subset
  <2>2. f \in Surjection(P, DirtyBlocks(c))
    BY <1>4, <1>5 DEF Surjection
  <2> QED BY <2>1, <2>2, FS_Surjection
<1>8. DirtyBlocks(c) \subseteq Nat
  BY <1>1, DirtyBlocksMeans
<1> QED BY <1>2, <1>3, <1>6, <1>7, <1>8

(* The next dirty block is one of them, and the others come after it.       *)
LEMMA DirtyFromNext ==
    ASSUME NEW config \in Configs, NEW c, Sound(config, c),
           NEW k \in 0 .. Places(c) - 1
    PROVE  /\ IsFiniteSet(DirtyFrom(c, k)) /\ IsFiniteSet(DirtyFrom(c, k + 1))
           /\ DirtyFrom(c, k) \subseteq Nat
           /\ ~IsDirty(c, BlockAt(c, k)) => DirtyFrom(c, k + 1) = DirtyFrom(c, k)
           /\ IsDirty(c, BlockAt(c, k)) =>
                /\ BlockAddr(c, BlockAt(c, k)) \in DirtyFrom(c, k)
                /\ DirtyFrom(c, k + 1)
                     = DirtyFrom(c, k) \ {BlockAddr(c, BlockAt(c, k))}
<1>1. /\ Places(c) \in Nat /\ k \in Nat
      /\ DirtyFrom(c, 0) = DirtyBlocks(c)
      /\ IsFiniteSet(DirtyBlocks(c)) /\ DirtyBlocks(c) \subseteq Nat
  BY DirtyFromMeans
<1>2. DirtyFrom(c, k) \subseteq DirtyFrom(c, 0) /\ DirtyFrom(c, k + 1) \subseteq DirtyFrom(c, 0)
  BY <1>1 DEF DirtyFrom
<1>3. IsFiniteSet(DirtyFrom(c, k)) /\ IsFiniteSet(DirtyFrom(c, k + 1))
  BY <1>1, <1>2, FS_Subset
<1>4. \A j \in Int : j \in k .. Places(c) - 1 <=> j = k \/ j \in k + 1 .. Places(c) - 1
  BY <1>1
<1>5. ASSUME ~IsDirty(c, BlockAt(c, k)) PROVE DirtyFrom(c, k + 1) = DirtyFrom(c, k)
  <2>1. {i \in k .. Places(c) - 1 : IsDirty(c, BlockAt(c, i))}
          = {i \in k + 1 .. Places(c) - 1 : IsDirty(c, BlockAt(c, i))}
    BY <1>1, <1>4, <1>5
  <2> QED BY <2>1 DEF DirtyFrom
<1>6. ASSUME IsDirty(c, BlockAt(c, k))
      PROVE  /\ BlockAddr(c, BlockAt(c, k)) \in DirtyFrom(c, k)
             /\ DirtyFrom(c, k + 1) = DirtyFrom(c, k) \ {BlockAddr(c, BlockAt(c, k))}
  <2>1. k \in {i \in k .. Places(c) - 1 : IsDirty(c, BlockAt(c, i))}
    BY <1>1, <1>6
  <2>2. BlockAddr(c, BlockAt(c, k)) \in DirtyFrom(c, k)
    BY <2>1 DEF DirtyFrom
  <2>3. ASSUME NEW x \in DirtyFrom(c, k + 1)
        PROVE  x \in DirtyFrom(c, k) /\ x # BlockAddr(c, BlockAt(c, k))
    <3>1. PICK j \in k + 1 .. Places(c) - 1 :
            IsDirty(c, BlockAt(c, j)) /\ x = BlockAddr(c, BlockAt(c, j))
      BY DEF DirtyFrom
    <3>2. j \in 0 .. Places(c) - 1 /\ j # k /\ j \in k .. Places(c) - 1
      BY <1>1, <3>1
    <3>3. x # BlockAddr(c, BlockAt(c, k))
      BY <1>6, <3>1, <3>2, DirtyApart
    <3> QED BY <3>1, <3>2, <3>3 DEF DirtyFrom
  <2>4. ASSUME NEW x \in DirtyFrom(c, k), x # BlockAddr(c, BlockAt(c, k))
        PROVE  x \in DirtyFrom(c, k + 1)
    <3>1. PICK j \in k .. Places(c) - 1 :
            IsDirty(c, BlockAt(c, j)) /\ x = BlockAddr(c, BlockAt(c, j))
      BY DEF DirtyFrom
    <3>2. j \in k + 1 .. Places(c) - 1
      BY <1>1, <2>4, <3>1
    <3> QED BY <3>1, <3>2 DEF DirtyFrom
  <2> QED BY <2>2, <2>3, <2>4
<1> QED BY <1>1, <1>2, <1>3, <1>5, <1>6

(* The machine of a flush before anything is passed on.                     *)
Emptied(m, n) ==
    PassedDown([m EXCEPT
                  !.caches[n] = cache_flush(m.caches[n]),
                  !.stats[n].writebacks = @ + Cardinality(DirtyBlocks(m.caches[n]))],
               n, DirtyBlocks(m.caches[n]))

LEMMA EmptiedKept ==
    ASSUME Accepted, NEW n \in Own(options) \cap {"dl1", "dl2", "dtlb"},
           NEW m, Kept(m, {}, 0, 0), Running(m)
    PROVE  /\ Kept(Emptied(m, n),
                   IF n = "dl1" THEN DirtyBlocks(m.caches[n]) ELSE {},
                   IF Sends(n) THEN Cardinality(DirtyBlocks(m.caches[n])) ELSE 0, 0)
           /\ Running(Emptied(m, n))
           /\ n = "dl1" => Emptied(m, n).upper = {}
           /\ n = "dl2" => Emptied(m, n).lower = {}
           /\ n # "dl1" => Emptied(m, n).upper = m.upper
<1> DEFINE c    == m.caches[n]
           after == cache_flush(c)
           back == DirtyBlocks(c)
           q    == Cardinality(back)
           r    == Emptied(m, n)
           config == options[n].config
           old  == m.stats[n]
           sum  == old.writebacks + q
           st   == [old EXCEPT !.writebacks = sum]
           own  == [m EXCEPT !.caches[n] = after, !.stats[n] = st]
<1>1. /\ m \in MachineType /\ AllSound(m) /\ UpperDirty(m)
      /\ LowerDirty(m, {}) /\ Traffic(m, 0, 0)
  BY DEF Kept
<1>2. /\ config \in Configs /\ Sound(config, c)
      /\ old \in StatsType /\ DOMAIN m.caches = Own(options)
      /\ DOMAIN m.stats = Own(options) /\ ~c.crashed
      /\ m.caches \in [Own(options) -> AnyCache]
      /\ m.stats \in [Own(options) -> StatsType]
  BY <1>1, OptionsMean DEF AllSound, MachineType
<1>3. IsFiniteSet(back) /\ back \subseteq Nat /\ q \in Nat
  BY <1>2, DirtyFromMeans, FS_CardinalityType
<1>4. Sound(config, after) /\ DirtyBlocks(after) = {} /\ after.crashed = c.crashed
  <2>1. c \in CacheType(config)
    BY <1>2 DEF Sound
  <2>2. after.crashed = c.crashed
    BY <2>1 DEF cache_flush, CacheType
  <2> QED BY <1>2, <2>2, FlushSound
<1>5. st \in StatsType /\ \A x \in {"hits", "misses", "prefetches", "prefetch_misses"} :
                             st[x] = old[x]
  <2>1. sum \in Nat
    BY <1>2, <1>3 DEF StatsType
  <2> HIDE DEF sum, old
  <2> QED BY <1>2, <2>1 DEF StatsType
<1>6. st.writebacks = sum
  BY <1>2 DEF StatsType
<1>7. r = PassedDown(own, n, back)
  BY DEF Emptied
<1> HIDE DEF after, back, r, st, old
<1>8. after \in AnyCache
  BY <1>2, <1>4 DEF Sound, AnyCache
<1>9. /\ own \in MachineType
      /\ own.caches = [m.caches EXCEPT ![n] = after]
      /\ own.stats = [m.stats EXCEPT ![n] = st]
      /\ own.upper = m.upper /\ own.lower = m.lower /\ own.stopped = m.stopped
  BY <1>1, <1>2, <1>5, <1>8 DEF MachineType
<1> HIDE DEF own
<1> DEFINE x == m.upper \ back
           y == m.lower \cup back
           z == {b \in m.lower : CACHE_BADDR(own.caches["dl2"], b) \notin back}
<1>10. /\ n = "dl1" => /\ r.upper = x
                       /\ r.lower = IF "dl2" \in Own(options) THEN y ELSE m.lower
       /\ n = "dl2" => r.upper = m.upper /\ r.lower = z
       /\ n = "dtlb" => r.upper = m.upper /\ r.lower = m.lower
       /\ r.caches = own.caches /\ r.stats = own.stats /\ r.stopped = m.stopped
       /\ r \in MachineType
  <2>1. x \in SUBSET Nat /\ y \in SUBSET Nat /\ z \in SUBSET Nat
        /\ m.lower \in SUBSET Nat
    BY <1>1, <1>3 DEF MachineType
  <2>2. DOMAIN own.caches = Own(options)
    BY <1>9 DEF MachineType
  <2> HIDE DEF x, y, z
  <2>3. CASE n = "dl1"
    <3> DEFINE l == IF "dl2" \in Own(options) THEN y ELSE m.lower
    <3>1. r = [own EXCEPT !.upper = x, !.lower = l]
      BY <1>7, <1>9, <2>2, <2>3 DEF PassedDown, x, y
    <3>2. l \in SUBSET Nat
      BY <2>1
    <3> HIDE DEF l
    <3>3. /\ r \in MachineType /\ r.upper = x /\ r.lower = l
          /\ r.caches = own.caches /\ r.stats = own.stats /\ r.stopped = own.stopped
      BY <1>9, <2>1, <3>1, <3>2 DEF MachineType
    <3> QED BY <1>9, <2>3, <3>3 DEF l
  <2>4. CASE n = "dl2"
    <3>1. r = [own EXCEPT !.lower = z]
      BY <1>7, <1>9, <2>4 DEF PassedDown, z
    <3>2. /\ r \in MachineType /\ r.upper = own.upper /\ r.lower = z
          /\ r.caches = own.caches /\ r.stats = own.stats /\ r.stopped = own.stopped
      BY <1>9, <2>1, <3>1 DEF MachineType
    <3> QED BY <1>9, <2>4, <3>2
  <2>5. CASE n = "dtlb"
    BY <1>7, <1>9, <2>5 DEF PassedDown
  <2> QED BY <2>3, <2>4, <2>5
<1>11. Running(r)
  BY <1>10 DEF Running
<1>12. AllSound(r)
  BY <1>1, <1>2, <1>4, <1>9, <1>10 DEF AllSound
<1>13. /\ n = "dl1" => r.upper = {}
       /\ n # "dl1" => r.upper = m.upper
  BY <1>1, <1>10 DEF UpperDirty, back
<1>14. n = "dl2" => r.lower = {}
  <2>1. SUFFICES ASSUME n = "dl2" PROVE z = {}
    BY <1>10
  <2>2. own.caches["dl2"] = after /\ after.bsize = c.bsize
    BY <1>2, <1>4, <1>9, <2>1, CacheFields DEF Sound
  <2>3. \A b : CACHE_BADDR(own.caches["dl2"], b) = CACHE_BADDR(c, b)
    BY <2>2 DEF CACHE_BADDR
  <2>4. \A b \in m.lower : CACHE_BADDR(c, b) \in back
    BY <1>1, <2>1 DEF LowerDirty, back
  <2> QED BY <2>3, <2>4
<1>15. UpperDirty(r)
  BY <1>1, <1>2, <1>4, <1>9, <1>10, <1>13 DEF UpperDirty
<1> DEFINE pend == IF n = "dl1" THEN back ELSE {}
           k    == IF Sends(n) THEN q ELSE 0
<1>16. LowerDirty(r, pend)
  <2>1. n # "dl2" /\ "dl2" \in Own(options) => r.caches["dl2"] = m.caches["dl2"]
    BY <1>2, <1>9, <1>10
  <2> QED BY <1>1, <1>10, <1>14, <2>1 DEF LowerDirty
<1>17. Traffic(r, k, 0)
  <2>1. SUFFICES ASSUME Counted(options) PROVE Traffic(r, k, 0)
    BY DEF Traffic
  <2>2. "dl2" \in Own(options) /\ "dl1" \in Own(options)
    BY <2>1, OptionsMean DEF Counted
  <2>3. Sends(n) <=> n = "dl1"
    BY <2>1, BelowMeans DEF FromAbove
  <2>4. r.stats[n] = st /\ \A u \in Own(options) : u # n => r.stats[u] = m.stats[u]
    BY <1>2, <1>9, <1>10
  <2>5. /\ st.hits = m.stats[n].hits /\ st.misses = m.stats[n].misses
        /\ st.prefetches = m.stats[n].prefetches
        /\ st.prefetch_misses = m.stats[n].prefetch_misses
        /\ st.writebacks = m.stats[n].writebacks + q
    BY <1>5, <1>6 DEF old
  <2>6. \A u \in Own(options) :
          /\ m.stats[u].hits \in Nat /\ m.stats[u].misses \in Nat
          /\ m.stats[u].writebacks \in Nat /\ m.stats[u].prefetch_misses \in Nat
          /\ m.stats[u].prefetches \in Nat
    BY <1>2 DEF StatsType
  <2>7. /\ m.stats["dl2"].hits + m.stats["dl2"].misses + 0
             = Sent(m.stats, "dl1") + Sent(m.stats, "il1")
        /\ m.stats["dl2"].prefetches + 0
             = Ahead(m.stats, "dl1") + Ahead(m.stats, "il1")
    BY <1>1, <2>1 DEF Traffic
  <2>8. /\ Sent(r.stats, "il1") = Sent(m.stats, "il1")
        /\ Ahead(r.stats, "il1") = Ahead(m.stats, "il1")
        /\ Sent(m.stats, "il1") \in Nat /\ Sent(m.stats, "dl1") \in Nat
    BY <2>4, <2>6 DEF Sent, Ahead
  <2>9. "dl1" \in FromAbove(options)
    BY DEF FromAbove
  <2>10. Sent(r.stats, "dl1") = Sent(m.stats, "dl1") + k
         /\ Ahead(r.stats, "dl1") = Ahead(m.stats, "dl1")
    <3>1. CASE n = "dl1"
      BY <1>3, <2>2, <2>3, <2>4, <2>5, <2>6, <2>9, <3>1 DEF Sent, Ahead
    <3>2. CASE n # "dl1"
      BY <2>2, <2>3, <2>4, <2>8, <3>2 DEF Sent, Ahead
    <3> QED BY <3>1, <3>2
  <2>11. /\ r.stats["dl2"].hits = m.stats["dl2"].hits
         /\ r.stats["dl2"].misses = m.stats["dl2"].misses
         /\ r.stats["dl2"].prefetches = m.stats["dl2"].prefetches
    <3>1. CASE n = "dl2"
      BY <2>4, <2>5, <3>1
    <3>2. CASE n # "dl2"
      BY <2>2, <2>4, <3>2
    <3> QED BY <3>1, <3>2
  <2>12. k \in Nat
    BY <1>3
  <2> HIDE DEF k
  <2> QED BY <2>2, <2>6, <2>7, <2>8, <2>10, <2>11, <2>12 DEF Traffic
<1> HIDE DEF pend, k
<1>18. Kept(r, pend, k, 0)
  BY <1>10, <1>12, <1>15, <1>16, <1>17 DEF Kept
<1> QED BY <1>11, <1>13, <1>14, <1>18 DEF pend, k, q, back, r

(* The machines after each place has been visited.                          *)
Visits(f, gone, n, c, PC) ==
    f = [k \in 0 .. c.nsets * c.assoc |->
           IF k = 0 THEN gone
           ELSE IF IsDirty(c, BlockAt(c, k - 1))
             THEN access_fn(f[k - 1], n, "Write",
                            BlockAddr(c, BlockAt(c, k - 1)), PC, 0)
           ELSE f[k - 1]]

LEMMA VisitsExist ==
    ASSUME NEW gone, NEW n, NEW c, NEW PC, Places(c) \in Nat
    PROVE  \E f : Visits(f, gone, n, c, PC)
<1> DEFINE Go(k, prev) == IF IsDirty(c, BlockAt(c, k - 1))
                            THEN access_fn(prev, n, "Write",
                                           BlockAddr(c, BlockAt(c, k - 1)), PC, 0)
                            ELSE prev
           Upto(f, k) == f = [j \in 0 .. k |-> IF j = 0 THEN gone ELSE Go(j, f[j - 1])]
           Has(k) == \E f : Upto(f, k)
           H == {k \in Nat : Has(k)}
<1> HIDE DEF Go
<1>1. Has(0)
  <2> DEFINE f == [k \in 0 .. 0 |-> gone]
  <2>1. Upto(f, 0)
    OBVIOUS
  <2> QED BY <2>1
<1>2. ASSUME NEW k \in H PROVE k + 1 \in H
  <2>1. k \in Nat /\ Has(k)
    OBVIOUS
  <2>2. PICK f : Upto(f, k)
    BY <2>1
  <2> DEFINE g == [j \in 0 .. k + 1 |-> IF j = k + 1 THEN Go(k + 1, f[k]) ELSE f[j]]
  <2>3. ASSUME NEW j \in 0 .. k + 1
        PROVE  g[j] = IF j = 0 THEN gone ELSE Go(j, g[j - 1])
    <3>1. CASE j = 0
      BY <2>1, <2>2, <3>1
    <3>2. CASE j \in 1 .. k
      <4>1. g[j] = f[j] /\ g[j - 1] = f[j - 1] /\ j \in 0 .. k /\ j # 0
        BY <2>1, <3>2
      <4>2. f[j] = Go(j, f[j - 1])
        BY <2>2, <4>1
      <4> QED BY <4>1, <4>2
    <3>3. CASE j = k + 1
      <4>1. j # 0 /\ j - 1 = k /\ g[j - 1] = f[k]
        BY <2>1, <3>3
      <4> QED BY <3>3, <4>1
    <3> QED BY <2>1, <3>1, <3>2, <3>3
  <2>4. Upto(g, k + 1)
    BY <2>3
  <2> HIDE DEF g, Upto
  <2>5. Has(k + 1)
    BY <2>4
  <2> HIDE DEF Has
  <2> QED BY <2>1, <2>5
<1>3. H = Nat
  <2> HIDE DEF Has
  <2>1. 0 \in H
    BY <1>1
  <2> QED BY <2>1, <1>2, Induction
<1>4. PICK f : Upto(f, Places(c))
  BY <1>3
<1>5. Visits(f, gone, n, c, PC)
  BY <1>4 DEF Visits, Places, Go
<1> QED BY <1>5

(* access_fnKept for a write-back, of which pending and k count those still *)
(* to come.                                                                 *)
SentOne(x, y, n, a, pending, k) ==
    /\ Kept(y, IF Sends(n) THEN pending \ {a} ELSE pending,
               IF Sends(n) THEN k - 1 ELSE k, 0)
    /\ Running(y) => Running(x) /\ y.upper = x.upper
LEMMA SentOneKept ==
    ASSUME Accepted, NEW n \in Own(options), NEW x, NEW pending, NEW k \in Int,
           Kept(x, pending, k, 0), NEW a \in Nat, NEW PC \in Nat
    PROVE  SentOne(x, access_fn(x, n, "Write", a, PC, 0), n, a, pending, k)
<1> DEFINE y == access_fn(x, n, "Write", a, PC, 0)
<1>1. Running(y) => Running(x)
  BY DEF access_fn
<1>2. \A p \in Int : p = 0 =>
        /\ Kept(y, IF Sends(n) THEN pending \ Writes("Write", a) ELSE pending,
                   IF Sends(n) THEN k - (1 - 0) ELSE k,
                   IF Sends(n) THEN p - 0 ELSE p)
        /\ Running(y) => y.upper = x.upper
  <2>1. SUFFICES ASSUME NEW p \in Int, p = 0
        PROVE /\ Kept(y, IF Sends(n) THEN pending \ Writes("Write", a) ELSE pending,
                         IF Sends(n) THEN k - (1 - 0) ELSE k,
                         IF Sends(n) THEN p - 0 ELSE p)
              /\ Running(y) => y.upper = x.upper
    OBVIOUS
  <2>2. Kept(x, pending, k, p)
    BY <2>1
  <2>3. y = access_fn(x, n, "Write", a, PC, 0)
    OBVIOUS
  <2> HIDE DEF y
  <2>4. Kept(y, IF Sends(n) THEN pending \ Writes("Write", a) ELSE pending,
                IF Sends(n) THEN k - (1 - 0) ELSE k,
                IF Sends(n) THEN p - 0 ELSE p)
    BY <2>2, <2>3, access_fnKept
  <2>5. SameUpper(x, y)
    BY <2>2, <2>3, access_fnKept
  <2> QED BY <2>4, <2>5 DEF SameUpper
<1> HIDE DEF y
<1>3. /\ Kept(y, IF Sends(n) THEN pending \ Writes("Write", a) ELSE pending,
                 IF Sends(n) THEN k - (1 - 0) ELSE k,
                 IF Sends(n) THEN 0 - 0 ELSE 0)
      /\ Running(y) => y.upper = x.upper
  BY <1>2
<1>4. /\ (IF Sends(n) THEN 0 - 0 ELSE 0) = 0
      /\ (IF Sends(n) THEN k - (1 - 0) ELSE k) = IF Sends(n) THEN k - 1 ELSE k
      /\ Writes("Write", a) = {a}
  BY DEF Writes
<1>5. Kept(y, IF Sends(n) THEN pending \ {a} ELSE pending,
              IF Sends(n) THEN k - 1 ELSE k, 0)
  BY <1>3, <1>4
<1> QED BY <1>1, <1>3, <1>5 DEF SentOne, y

LEMMA VisitsKept ==
    ASSUME Accepted, NEW n \in Own(options), NEW config \in Configs,
           NEW c, Sound(config, c), NEW PC \in Nat, NEW gone, NEW f,
           Visits(f, gone, n, c, PC),
           Kept(gone, IF n = "dl1" THEN DirtyBlocks(c) ELSE {},
                IF Sends(n) THEN Cardinality(DirtyBlocks(c)) ELSE 0, 0)
    PROVE  LET r == f[Places(c)]
           IN Kept(r, {}, 0, 0) /\ (Running(r) => r.upper = gone.upper)
<1> DEFINE Pend(k) == IF Sends(n) THEN DirtyFrom(c, k) ELSE {}
           Due(k)  == IF Sends(n) THEN Cardinality(DirtyFrom(c, k)) ELSE 0
           OK(k)   == /\ Kept(f[k], Pend(k), Due(k), 0)
                      /\ Running(f[k]) => f[k].upper = gone.upper
           H == {k \in Nat : k <= Places(c) => OK(k)}
<1>1. /\ Places(c) \in Nat
      /\ DirtyFrom(c, 0) = DirtyBlocks(c) /\ DirtyFrom(c, Places(c)) = {}
  BY DirtyFromMeans
<1>2. 0 \in H
  <2>1. f[0] = gone
    BY <1>1 DEF Visits, Places
  <2>2. CASE Sends(n)
    <3>1. n # "dl1" => DirtyFrom(c, 0) \subseteq DirtyFrom(c, 0)
      OBVIOUS
    <3>2. (IF n = "dl1" THEN DirtyBlocks(c) ELSE {}) \subseteq Pend(0)
      BY <1>1, <2>2
    <3>3. (IF Sends(n) THEN Cardinality(DirtyBlocks(c)) ELSE 0) = Due(0)
      BY <1>1, <2>2
    <3> HIDE DEF Pend, Due
    <3>4. Kept(gone, Pend(0), Due(0), 0)
      BY <3>2, <3>3, KeptAny
    <3> QED BY <2>1, <3>4
  <2>3. CASE ~Sends(n)
    <3>1. n = "dl1" => "dl2" \notin Own(options)
      BY <2>3, BelowMeans DEF Sends
    <3>2. Kept(gone, {}, 0, 0)
      BY <2>3, <3>1 DEF Kept, LowerDirty
    <3> QED BY <2>1, <2>3, <3>2
  <2> QED BY <2>2, <2>3
<1>3. ASSUME NEW k \in H PROVE k + 1 \in H
  <2>1. SUFFICES ASSUME k + 1 <= Places(c) PROVE OK(k + 1)
    OBVIOUS
  <2>2. k \in 0 .. Places(c) - 1 /\ k \in Nat /\ OK(k)
    BY <1>1, <2>1
  <2> DEFINE a == BlockAddr(c, BlockAt(c, k))
             x == f[k]
             y == f[k + 1]
  <2>3. /\ IsFiniteSet(DirtyFrom(c, k)) /\ DirtyFrom(c, k) \subseteq Nat
        /\ ~IsDirty(c, BlockAt(c, k)) => DirtyFrom(c, k + 1) = DirtyFrom(c, k)
        /\ IsDirty(c, BlockAt(c, k)) =>
             a \in DirtyFrom(c, k) /\ DirtyFrom(c, k + 1) = DirtyFrom(c, k) \ {a}
    BY <2>2, DirtyFromNext
  <2>4. y = IF IsDirty(c, BlockAt(c, k)) THEN access_fn(x, n, "Write", a, PC, 0) ELSE x
    <3>1. k + 1 \in 0 .. c.nsets * c.assoc /\ k + 1 # 0 /\ (k + 1) - 1 = k
      BY <1>1, <2>2 DEF Places
    <3>2. f[k + 1] = IF IsDirty(c, BlockAt(c, (k + 1) - 1))
                       THEN access_fn(f[(k + 1) - 1], n, "Write",
                                      BlockAddr(c, BlockAt(c, (k + 1) - 1)), PC, 0)
                       ELSE f[(k + 1) - 1]
      BY <3>1 DEF Visits
    <3> QED BY <3>1, <3>2
  <2>5. Kept(x, Pend(k), Due(k), 0) /\ (Running(x) => x.upper = gone.upper)
    BY <2>2
  <2>6. CASE ~IsDirty(c, BlockAt(c, k))
    <3>1. Pend(k + 1) = Pend(k) /\ Due(k + 1) = Due(k) /\ y = x
      BY <2>3, <2>4, <2>6
    <3> HIDE DEF Pend, Due
    <3> QED BY <2>5, <3>1
  <2>7. CASE IsDirty(c, BlockAt(c, k))
    <3> DEFINE pk == Pend(k)
               dk == Due(k)
    <3>1. dk \in Int /\ a \in Nat
      BY <2>3, <2>7, FS_CardinalityType
    <3>2. /\ Pend(k + 1) = IF Sends(n) THEN pk \ {a} ELSE pk
          /\ Due(k + 1) = IF Sends(n) THEN dk - 1 ELSE dk
      <4>1. Sends(n) => Due(k + 1) = Due(k) - 1
        BY <2>3, <2>7, FS_RemoveElement
      <4> QED BY <2>3, <2>7, <4>1
    <3>3. y = access_fn(x, n, "Write", a, PC, 0)
      BY <2>4, <2>7
    <3>4. Kept(x, pk, dk, 0)
      BY <2>5
    <3> HIDE DEF pk, dk, Pend, Due, x, y, a
    <3>5. SentOne(x, y, n, a, pk, dk)
      BY <3>1, <3>3, <3>4, SentOneKept
    <3>6. /\ Kept(y, Pend(k + 1), Due(k + 1), 0)
          /\ Running(y) => Running(x) /\ y.upper = x.upper
      BY <3>2, <3>5 DEF SentOne
    <3>7. Running(y) => y.upper = gone.upper
      BY <2>5, <3>6
    <3> QED BY <3>6, <3>7 DEF y
  <2> QED BY <2>6, <2>7
<1>4. H = Nat
  <2> HIDE DEF H
  <2>1. H \in SUBSET Nat
    BY DEF H
  <2> QED BY <1>2, <1>3, <2>1, Induction
<1>5. OK(Places(c))
  BY <1>1, <1>4
<1>6. Pend(Places(c)) = {} /\ Due(Places(c)) = 0
  BY <1>1, FS_EmptySet
<1> HIDE DEF Pend, Due
<1> QED BY <1>5, <1>6

(* Nothing is below dl2: its write-backs are in memory.                     *)
LEMMA VisitsStay ==
    ASSUME Accepted, NEW n \in Own(options) \ {"dl1", "il1"}, NEW c, NEW PC,
           Places(c) \in Nat, NEW gone, NEW f, Visits(f, gone, n, c, PC),
           gone \in MachineType
    PROVE  f[Places(c)] = gone
<1> DEFINE H == {k \in Nat : k <= Places(c) => f[k] = gone}
<1>1. 0 \in H
  BY DEF Visits, Places
<1>2. ASSUME NEW k \in H PROVE k + 1 \in H
  <2>1. SUFFICES ASSUME k + 1 <= Places(c) PROVE f[k + 1] = gone
    OBVIOUS
  <2>2. k + 1 \in 0 .. c.nsets * c.assoc /\ k + 1 # 0 /\ (k + 1) - 1 = k
        /\ f[k] = gone
    BY <2>1 DEF Places
  <2>3. f[k + 1] = IF IsDirty(c, BlockAt(c, (k + 1) - 1))
                     THEN access_fn(f[(k + 1) - 1], n, "Write",
                                    BlockAddr(c, BlockAt(c, (k + 1) - 1)), PC, 0)
                     ELSE f[(k + 1) - 1]
    BY <2>2 DEF Visits
  <2>4. Below(n) \notin DOMAIN gone.caches
    BY BelowMeans, OptionsMean DEF MachineType
  <2>5. \A a : access_fn(gone, n, "Write", a, PC, 0) = gone
    BY <2>4 DEF access_fn
  <2> QED BY <2>2, <2>3, <2>5
<1>3. H = Nat
  <2> HIDE DEF H
  <2>1. H \in SUBSET Nat
    BY DEF H
  <2> QED BY <1>1, <1>2, <2>1, Induction
<1> QED BY <1>3

-----------------------------------------------------------------------------
(* A flush leaves nothing pending: what was written to dl1 has been passed  *)
(* down, and what was passed down to dl2 is in memory.                      *)
Flushed(m, n, r) ==
    /\ Kept(r, {}, 0, 0)
    /\ Running(r) => /\ Running(m)
                     /\ n = "dl1" => r.upper = {}
                     /\ n = "dl2" => r.lower = {} /\ r.upper = m.upper

LEMMA FlushCacheKept ==
    ASSUME Accepted, NEW n \in {"dl1", "dl2", "dtlb"}, NEW m,
           Kept(m, {}, 0, 0), NEW PC \in Nat
    PROVE  Flushed(m, n, FlushCache(m, n, PC))
<1> DEFINE r == FlushCache(m, n, PC)
<1>1. CASE ~Running(m)
  <2>1. r = m
    BY <1>1 DEF FlushCache
  <2> QED BY <1>1, <2>1 DEF Flushed
<1>2. CASE Running(m)
  <2>1. /\ m \in MachineType /\ AllSound(m) /\ UpperDirty(m) /\ LowerDirty(m, {})
        /\ DOMAIN m.caches = Own(options)
    BY <1>2 DEF Kept, MachineType
  <2>2. CASE n \notin Own(options)
    <3>1. r = m
      BY <2>1, <2>2 DEF FlushCache
    <3>2. /\ n = "dl1" => m.upper = {}
          /\ n = "dl2" => m.lower = {}
      BY <2>1, <2>2 DEF UpperDirty, LowerDirty
    <3> QED BY <1>2, <3>1, <3>2 DEF Flushed
  <2>3. CASE n \in Own(options)
    <3> DEFINE c      == m.caches[n]
               config == options[n].config
               gone   == Emptied(m, n)
               f      == CHOOSE f : Visits(f, gone, n, c, PC)
    <3>1. config \in Configs /\ Sound(config, c)
      BY <2>1, <2>3, OptionsMean DEF AllSound
    <3>2. Places(c) \in Nat
      BY <3>1, DirtyFromMeans
    <3>3. r = f[Places(c)]
      BY <1>2, <2>1, <2>3 DEF FlushCache, Visits, Emptied, Places
    <3>4. Visits(f, gone, n, c, PC)
      BY <3>2, VisitsExist
    <3>5. /\ Kept(gone, IF n = "dl1" THEN DirtyBlocks(c) ELSE {},
                  IF Sends(n) THEN Cardinality(DirtyBlocks(c)) ELSE 0, 0)
          /\ Running(gone)
          /\ n = "dl1" => gone.upper = {}
          /\ n = "dl2" => gone.lower = {}
          /\ n # "dl1" => gone.upper = m.upper
      BY <1>2, <2>3, EmptiedKept
    <3> HIDE DEF r, f, gone, c, config
    <3>6. Kept(r, {}, 0, 0) /\ (Running(r) => r.upper = gone.upper)
      BY <2>3, <3>1, <3>3, <3>4, <3>5, VisitsKept
    <3>7. n = "dl2" => r = gone
      <4>1. gone \in MachineType
        BY <3>5 DEF Kept
      <4> QED BY <2>3, <3>2, <3>3, <3>4, <4>1, VisitsStay
    <3>8. Flushed(m, n, r)
      BY <1>2, <3>5, <3>6, <3>7 DEF Flushed
    <3> QED BY <3>8 DEF r
  <2> QED BY <2>2, <2>3
<1> QED BY <1>1, <1>2

LEMMA FlushAllKept ==
    ASSUME Accepted, NEW m, Kept(m, {}, 0, 0), NEW PC \in Nat
    PROVE  LET r == FlushAll(m, PC)
           IN /\ Kept(r, {}, 0, 0)
              /\ Running(r) => r.upper = {} /\ r.lower = {}
<1> DEFINE x == FlushCache(m, "dtlb", PC)
           y == FlushCache(x, "dl1", PC)
           r == FlushCache(y, "dl2", PC)
<1>1. Flushed(m, "dtlb", x)
  BY FlushCacheKept
<1> HIDE DEF x
<1>2. Kept(x, {}, 0, 0)
  BY <1>1 DEF Flushed
<1>3. Flushed(x, "dl1", y)
  BY <1>2, FlushCacheKept
<1> HIDE DEF y
<1>4. Kept(y, {}, 0, 0)
  BY <1>3 DEF Flushed
<1>5. Flushed(y, "dl2", r)
  BY <1>4, FlushCacheKept
<1> HIDE DEF r
<1>6. Kept(r, {}, 0, 0) /\ (Running(r) => r.upper = {} /\ r.lower = {})
  BY <1>3, <1>5 DEF Flushed
<1> QED BY <1>6 DEF r, y, x, FlushAll

-----------------------------------------------------------------------------
(* The inductive invariant: between two instructions nothing is pending.    *)
Inv == Accepted /\ Kept(Machine, {}, 0, 0)

LEMMA InitKept == Init => Inv
<1> SUFFICES ASSUME Init PROVE Inv
  OBVIOUS
<1>1. Accepted
  BY DEF Init, Accepted
<1>2. \A n \in Own(options) :
        /\ caches[n] = cache_create(options[n].config)
        /\ options[n].config \in Configs
        /\ Sound(options[n].config, caches[n])
        /\ DirtyBlocks(caches[n]) = {}
        /\ stats[n] = NoStats
  BY <1>1, OptionsMean, CreatedSound DEF Init
<1>3. \A n \in Own(options) : caches[n] \in AnyCache /\ ~caches[n].crashed
  <2>1. \A config : ~cache_create(config).crashed
    BY DEF cache_create
  <2>2. SUFFICES ASSUME NEW n \in Own(options)
                 PROVE  caches[n] \in AnyCache /\ ~caches[n].crashed
    OBVIOUS
  <2>3. caches[n] \in CacheType(options[n].config)
    BY <1>2 DEF Sound
  <2>4. ~caches[n].crashed
    BY <1>2, <2>1
  <2> QED BY <1>2, <2>3, <2>4 DEF AnyCache
<1>4. caches \in [Own(options) -> AnyCache]
  BY <1>3 DEF Init
<1>5. stats \in [Own(options) -> StatsType]
  BY <1>2 DEF Init, StatsType, NoStats
<1>6. RPT \in Seq(EntryType)
  <2>1. EmptyEntry \in EntryType
    BY AddrSpaceAssumption DEF EmptyEntry, EntryType, Address
  <2>2. RptRows(options) \in Nat
    <3>1. CASE LastStride(options) = {}
      BY <3>1 DEF RptRows
    <3>2. CASE LastStride(options) # {}
      <4> DEFINE k == CHOOSE k \in LastStride(options) : TRUE
      <4>1. k \in LastStride(options)
        BY <3>2
      <4>2. HasStride(options, CreationOrder[k])
        BY <4>1 DEF LastStride
      <4>3. RptRows(options) = options[CreationOrder[k]].prefetch_type
        BY <3>2 DEF RptRows
      <4> HIDE DEF k
      <4> QED BY <1>1, <4>2, <4>3, OptionsMean DEF HasStride
    <3> QED BY <3>1, <3>2
  <2> QED BY <2>1, <2>2 DEF Init
<1>7. Machine \in MachineType
  BY <1>4, <1>5, <1>6 DEF Machine, MachineType, Init
<1>8. AllSound(Machine) /\ UpperDirty(Machine) /\ LowerDirty(Machine, {})
  BY <1>2, <1>3 DEF Machine, AllSound, UpperDirty, LowerDirty, Init
<1>9. Traffic(Machine, 0, 0)
  <2>1. SUFFICES ASSUME Counted(options) PROVE Traffic(Machine, 0, 0)
    BY DEF Traffic
  <2>2. "dl2" \in Own(options)
    BY <2>1 DEF Counted
  <2>3. Sent(stats, "dl1") = 0 /\ Sent(stats, "il1") = 0
        /\ Ahead(stats, "dl1") = 0 /\ Ahead(stats, "il1") = 0
    BY <1>2 DEF Sent, Ahead, NoStats
  <2> QED BY <1>2, <2>2, <2>3 DEF Traffic, Machine, NoStats
<1> QED BY <1>1, <1>7, <1>8, <1>9 DEF Inv, Kept

LEMMA FetchedKept ==
    ASSUME Inv, NEW PC \in PCs
    PROVE  Kept(Fetched(PC), {}, 0, 0)
<1>1. PC \in Nat /\ Accepted /\ Kept(Machine, {}, 0, 0)
  BY AddressAssumption DEF Inv
<1> DEFINE x == Demand(Machine, "itlb", "Read", PC, PC)
<1>2. Kept(x, {}, 0, 0)
  BY <1>1, DemandKept
<1> HIDE DEF x
<1>3. Kept(Demand(x, "il1", "Read", PC, PC), {}, 0, 0)
  BY <1>1, <1>2, DemandKept
<1> QED BY <1>3 DEF x, Fetched

(* What the machine becomes keeps the invariant.                            *)
LEMMA BecomeKept ==
    ASSUME Inv, NEW m, Kept(m, {}, 0, 0), Become(m)
    PROVE  Inv' /\ (stopped' = "none" => Running(m))
<1>1. stopped' = "none" => Running(m)
  BY DEF Become, Running
<1>2. options' = options
  BY DEF Become
<1>3. Accepted'
  BY <1>2 DEF Inv, Accepted, OptionsAccepted, Own
<1>4. CASE ~Running(m)
  <2>1. ~Running(Machine)'
    BY <1>4 DEF Become, Running, Machine
  <2> QED BY <1>1, <1>3, <2>1 DEF Inv, Kept
<1>5. CASE Running(m)
  <2>1. m \in MachineType /\ AllSound(m) /\ UpperDirty(m)
        /\ LowerDirty(m, {}) /\ Traffic(m, 0, 0)
    BY <1>5 DEF Kept
  <2>2. Machine' = m
    BY <2>1 DEF Become, Machine, MachineType
  <2>3. (m \in MachineType)' /\ AllSound(m)' /\ UpperDirty(m)'
        /\ LowerDirty(m, {})' /\ Traffic(m, 0, 0)'
    BY <1>2, <2>1 DEF MachineType, AllSound, UpperDirty, LowerDirty, Traffic,
       Sent, Ahead
  <2> QED BY <1>1, <1>3, <2>2, <2>3 DEF Inv, Kept
<1> QED BY <1>4, <1>5

LEMMA SyscallKept ==
    ASSUME Inv, NEW PC \in PCs, Syscall(PC)
    PROVE  Inv' /\ (stopped' = "none" => upper' = {} /\ lower' = {})
<1> DEFINE x == Fetched(PC)
           r == FlushAll(x, PC)
<1>1. PC \in Nat /\ Accepted
  BY AddressAssumption DEF Inv
<1>2. Kept(x, {}, 0, 0)
  BY FetchedKept
<1>3. Become(r)
  BY DEF Syscall
<1> HIDE DEF x
<1>4. Kept(r, {}, 0, 0) /\ (Running(r) => r.upper = {} /\ r.lower = {})
  BY <1>1, <1>2, FlushAllKept
<1> HIDE DEF r
<1>5. PICK m : m = r
  OBVIOUS
<1>6. Kept(m, {}, 0, 0) /\ Become(m)
      /\ (Running(m) => m.upper = {} /\ m.lower = {})
  BY <1>3, <1>4, <1>5
<1>7. Inv' /\ (stopped' = "none" => Running(m))
  BY <1>6, BecomeKept
<1> QED BY <1>6, <1>7 DEF Become

LEMMA NextKept == Inv /\ [Next]_svars => Inv'
<1> SUFFICES ASSUME Inv, [Next]_svars PROVE Inv'
  OBVIOUS
<1>1. ASSUME NEW PC \in PCs, NoMemory(PC) PROVE Inv'
  <2>1. PICK m : m = Fetched(PC)
    OBVIOUS
  <2>2. Kept(m, {}, 0, 0) /\ Become(m)
    BY <1>1, <2>1, FetchedKept DEF NoMemory
  <2> QED BY <2>2, BecomeKept
<1>2. ASSUME NEW PC \in PCs, NEW cmd \in {"Read", "Write"}, NEW addr \in Addrs,
             LoadStore(PC, cmd, addr)
      PROVE  Inv'
  <2> DEFINE x == Demand(Fetched(PC), "dtlb", cmd, addr, PC)
             y == Demand(x, "dl1", cmd, addr, PC)
  <2>1. PC \in Nat /\ addr \in Nat /\ Accepted
    BY AddressAssumption DEF Inv
  <2>2. Kept(Fetched(PC), {}, 0, 0)
    BY FetchedKept
  <2>3. Kept(x, {}, 0, 0)
    BY <2>1, <2>2, DemandKept
  <2>4. Become(y)
    BY <1>2 DEF LoadStore
  <2> HIDE DEF x
  <2>5. Kept(y, {}, 0, 0)
    BY <2>1, <2>3, DemandKept
  <2> HIDE DEF y
  <2>6. PICK m : m = y
    OBVIOUS
  <2>7. Kept(m, {}, 0, 0) /\ Become(m)
    BY <2>4, <2>5, <2>6
  <2> QED BY <2>7, BecomeKept
<1>3. ASSUME NEW PC \in PCs, Syscall(PC) PROVE Inv'
  BY <1>3, SyscallKept
<1>4. ASSUME UNCHANGED svars PROVE Inv'
  BY <1>4 DEF svars, Inv, Accepted, OptionsAccepted, Own, Kept, Machine, Running,
     MachineType, AllSound, UpperDirty, LowerDirty, Traffic, Sent, Ahead
<1> QED BY <1>1, <1>2, <1>3, <1>4 DEF Next

-----------------------------------------------------------------------------
(* While the simulator runs, its machine is of type MachineType, every      *)
(* cache in it is sound (what CacheBlocksProofs proves of one cache), and   *)
(* the history and the counts agree with the caches.                        *)
THEOREM MachineKept == Spec => []Inv
<1>1. Init => Inv
  BY InitKept
<1>2. Inv /\ [Next]_svars => Inv'
  BY NextKept
<1> QED BY <1>1, <1>2, PTL DEF Spec

(* A block that the program wrote and that has not reached memory is dirty  *)
(* in dl1 or in dl2 (WritesKept), whatever the geometries, the policies,    *)
(* the prefetchers and the options of the caches.                           *)
THEOREM WritesAreKept == Spec => []WritesKept
<1>1. Inv => WritesKept
  <2> SUFFICES ASSUME Inv, stopped = "none" PROVE WritesKept
    BY DEF WritesKept
  <2>1. /\ Machine \in MachineType /\ UpperDirty(Machine)
        /\ LowerDirty(Machine, {})
    BY DEF Inv, Kept, Running, Machine
  <2>2. DOMAIN caches = Own(options)
    BY <2>1 DEF Machine, MachineType
  <2> QED BY <2>1, <2>2 DEF UpperDirty, LowerDirty, Machine, WritesKept
<1> QED BY <1>1, MachineKept, PTL

(* Every access of the unified second level was sent by a cache above it    *)
(* (TrafficAddsUp).                                                         *)
THEOREM TrafficIsCounted == Spec => []TrafficAddsUp
<1>1. Inv => TrafficAddsUp
  <2> SUFFICES ASSUME Inv, stopped = "none", Counted(options)
               PROVE  TrafficAddsUp
    BY DEF TrafficAddsUp
  <2>1. Machine \in MachineType /\ Traffic(Machine, 0, 0)
    BY DEF Inv, Kept, Running, Machine
  <2>2. "dl2" \in Own(options)
    BY DEF Counted
  <2>3. stats["dl2"].hits \in Nat /\ stats["dl2"].misses \in Nat
        /\ stats["dl2"].prefetches \in Nat
    BY <2>1, <2>2 DEF Machine, MachineType, StatsType
  <2> QED BY <2>1, <2>3 DEF Traffic, Machine, TrafficAddsUp
<1> QED BY <1>1, MachineKept, PTL

(* A system call that flushes leaves nothing that was written outside       *)
(* memory (FlushReachesMemory): what is dirty in dl1 passes through dl2,    *)
(* which is flushed after it.                                               *)
THEOREM FlushesReachMemory == Spec => FlushReachesMemory
<1>1. Inv /\ [Next]_svars =>
        [(\E PC \in PCs : Syscall(PC)) /\ stopped' = "none"
           => upper' = {} /\ lower' = {}]_svars
  BY SyscallKept
<1> QED BY <1>1, MachineKept, PTL DEF Spec, FlushReachesMemory
=============================================================================
