# ECE552 Computer Architecture: a TLA+ verification project

The repository holds four laboratory programs on processor microarchitecture.
Three of them are the authors' own simulators, built around or inside
SimpleScalar 3.0; this directory models them in TLA+, checks the models with
TLC and proves their main properties with TLAPS. It is kept next to the code:
every definition that stands for code is listed in `PROJECT.json` under `map`
with the lines it translates.

## 1. Inventory of the system

All the programs are sequential. What makes them hard is not threads but
*simulated* concurrency: a loop plays the parts of hardware that works in
parallel, one part after the other, over shared arrays of pointers; structures
are finite and fill up; state is read in one function and used in another; and
tables are shared by instructions that alias.

| Component | State | Operations | Interacts with | Modelled by |
|---|---|---|---|---|
| Tomasulo timing simulator (`Lab3-Tomasulo/tomasulo.c`) | instruction queue, reservation stations, functional units, common data bus, map table, fetch index; in every instruction its producers `Q[]` and four cycle stamps | `runTomasulo` and one function per stage | reads the recorded trace with `get_instr`; returns the cycle count to `sim_main` | `Tomasulo`, `Dataflow`, `TomasuloRefinement` |
| Instruction trace list (`Lab3-Tomasulo/instr.c`) | a list of chunks of 16384 entries | `put_instr`, `get_instr`, `print_all_instr` | written by `sim_main`, read by `runTomasulo` | `InstrTrace` |
| Recorder in the functional simulator (`Lab3-Tomasulo/sim-safe.c`) | `sim_num_insn`, the trace | the loop of `sim_main`, exit, fault, instruction limit | calls `put_instr`, then `runTomasulo` | `InstrTrace` (control only) |
| 2bitsat predictor (`Lab2-Branch-Predictor/predictor.cc` 10-40) | 4096 two-bit counters | Init, GetPrediction, UpdatePredictor | called by `main.cc` | `BranchPredictors` |
| 2level predictor, PAp (`predictor.cc` 46-88) | 512 history registers of 6 bits, 8 x 64 two-bit counters | the same three | the same | `BranchPredictors`, `MicroBenchmark` |
| openend predictor, TAGE (`predictor.cc` 94-604) | a PAp base, 7 tagged tables, global history and its folds, usefulness counters | the same three | the same; `providerComp`, `altPred` ... are left by the prediction for the update | `Tage` |
| Predictor driver (`main.cc`, `tracer.cc`) | one record, misprediction counters | read, three predictions, three updates | the predictors | `BranchPredictors` (2bitsat and 2level) |
| `mb.c` | the loop it was written for | | is the input of the predictors | `MicroBenchmark` |
| Cache (`Lab4-Cache-Data-Prefetcher/cache.c`) | sets with a way list and hash chains, block status, last block hit, statistics | access, probe, flush, flush_addr | the next level through `blk_access_fn` | `Cache`, `AbstractCache`, `CacheRefinement` |
| Prefetchers (`cache.c` 545-746) | reference prediction table, delta-correlating table | `generate_prefetch` | call `cache_access` from inside `cache_access` | `Prefetchers` |
| Cache micro-benchmarks (`mbq1.c`, `mbq2.c`, `mbq6.c`) | the arrays they walk | | are the input of the prefetchers | `CacheBenchmarks` |
| Hierarchy (`sim-cache.c`) | L1, L2, TLBs, one prediction table for all of them | miss handlers, the accesses of an instruction, flush at a system call | the caches | `SimCache` |
| Out-of-order core (`sim-outorder.c`) | register update unit, load/store queue, create vectors and their speculative copy, event and ready queues, fetch queue, functional units | one function per pipe stage, recovery, tracing | predictor, caches and the functional core, whose answers are any answer | `OutOfOrder` |
| RAW-hazard statistics (`Lab1-Hazards/sim-safe.c`) | two counters that are registered and never written | none | | nothing to model |
| SimpleScalar itself, its other simulators, its tests and benchmarks | | | | vendored; only the facts about the instruction set that the labs use |

### What is hard, and what correctness means

* **Tomasulo.** The stages are called in reverse pipeline order so that a
  result is not used in the cycle it is produced. A producer pointer copied by
  `dispatch_To_issue` is cleared only by the one `CDB_To_retire` call that
  follows the broadcast: a pointer taken too late would never be cleared. Inputs
  must be read before outputs are renamed. A retiring writer must not unmap a
  younger one. Stations are kept during execution, so an executing instruction
  is seen again by `issue_To_execute`. Correct means: FIFO queue, no lost
  wake-up, exact renaming, no read before the write it depends on, ordered
  stamps, and an end of the simulation with everything complete.
* **Instruction trace.** Instructions are numbered from 1 and the first entry
  of the first chunk, and of no other, is skipped: position arithmetic, list
  walks and two loop exits must agree at every chunk boundary.
* **2bitsat and 2level.** The history register is read by the prediction, read
  again by the update and then shifted; table entries are shared by branches
  that alias. Correct means that a counter is trained by the branches it
  predicted, that its two bits bound what aliasing can cost, and that 6 bits of
  history learn what `mb.c` says they learn.
* **TAGE.** The histories of up to 512 outcomes are never read as such: each
  table keeps two folded registers that are rotated and patched once per branch,
  and one wrong patch would never be repaired. `getCSR` adds the bits up as
  decimal digits. The prediction leaves five globals for the update, which sets
  others on some of its paths only. Correct means: the registers are a function
  of the last outcomes, distinct registers give distinct tags, a useful entry is
  not given away, and the allocation looks at values of this branch.
* **Cache.** The way list, the hash chains and the block of the last hit
  describe one set three times; a flush clears `VALID` and leaves `DIRTY`, the
  tag and the chain. Correct means that the three descriptions agree whatever
  the order of operations, that a write is never lost, and that the whole
  behaves like a map of resident blocks under the replacement policy.
* **Prefetchers.** A prefetch is a nested call of the function that is running,
  after the demand block was put in place and before its latency is computed.
  The stride table inherits state from previous owners of an entry; the
  open-ended one writes to fixed arrays. Correct means that the counters add up,
  that the prefetch does not evict or delay the demanded block, and that the
  prefetcher learns what the benchmarks were written to show.
* **Hierarchy.** A miss writes a victim down and then reads a block up, and
  either can displace a dirty block below; flushes run top-down; command and
  prefetch flag travel through handlers; the prediction table is shared by
  accident. Correct means that the newest data of each block are in one known
  place and that the traffic of a level is that of the level above.
* **Out-of-order core.** Consumers are linked to producers long before they are
  woken, and stations are reused in between: a link carries a tag that must have
  become stale exactly then. The create vector is copied on write while a wrong
  path runs, completions of right-path operations write to both copies, and
  recovery drops the copy. Loads may pass stores. Correct means that an operand
  is ready if and only if its youngest older producer is complete, that the
  create vectors name the right producers, that loads wait for what they depend
  on, that fetch and dispatch stay on the path, and that no program gets stuck
  or trips a check of the simulator.

The hazards are listed with their lines in `PROJECT.json`. One has no property:
the reference prediction table is one global for all caches (`cache.c:335`), so
what a cache predicts depends on which was created last. The code makes no
statement about it that could be right or wrong; `SimCache` models it (section 4).

## 2. Modules

| Module | Contents |
|---|---|
| `Tomasulo` | the pipeline, its properties and its inductive invariant |
| `Dataflow` | the abstract specification: in-order issue, dataflow start, one result per step |
| `TomasuloRefinement` | the refinement mapping from `Tomasulo` to `Dataflow` |
| `TomasuloProofs` | theorems about `Tomasulo`, and that it implements `Dataflow` |
| `MCTomasulo` | instruction shapes and the programs TLC enumerates |
| `InstrTrace`, `MCInstrTrace`, `InstrTraceProofs` | recorder and trace list; instance; theorems |
| `BranchPredictors`, `BranchPredictorsProofs` | 2bitsat, 2level and their driver; theorems |
| `MicroBenchmark` | composes `BranchPredictors` with the loop of `mb.c` |
| `MCPredictors` | instance: `mb.c`'s loop and every short trace of aliasing branches |
| `Tage`, `MCTage`, `TageProofs` | TAGE; instance; theorems |
| `CacheBlocks`, `CacheBlocksProofs` | the operators of `cache.c` on a cache record; what each of them keeps of a sound cache |
| `Cache` | one cache under arbitrary operations, its properties and inductive invariant |
| `AbstractCache`, `CacheRefinement` | a map of resident blocks with recency; the mapping from `Cache` to it |
| `CacheProofs` | theorems about `Cache`, that it implements `AbstractCache`, and about `Prefetchers` |
| `MCCache` | four geometries |
| `StrideTable` | an entry of the reference prediction table |
| `Prefetchers` | `Cache` with timing, statistics, prediction tables and the nested prefetch |
| `CacheBenchmarks`, `MCPrefetchers` | the loads of `mbq1/2/6.c` on top of it; workloads |
| `SimCache`, `SimCacheProofs`, `MCSimCache` | caches of `CacheBlocks` and entries of `StrideTable` composed to a hierarchy; theorems; eight hierarchies |
| `OutOfOrder`, `OutOfOrderProofs`, `MCOutOfOrder` | the pipeline of `sim-outorder.c`; theorems; programs and machines |

A definition with the comment "Mutant" before another one (`ReadyFirstOperand`
before `Ready`, `TrainWrapping` before `Train`, ...) is not part of the
specification: it is the definition with a plausible bug, and `PROJECT.json`
(`mutants`) says which property then fails.

### 2.1 Tomasulo

`pc` names the stage function that `runTomasulo` calls next, so a behaviour is
the sequence of calls, cycle after cycle. A pointer to an instruction is its
index in the trace, NULL is -1. Queue, stations, units, bus and map table are
the arrays of `tomasulo.c` under their own names; `Q` and the stamps are the
fields of the instructions. Each action is the whole function:

| Action | Code |
|---|---|
| `CDB_To_retire` | clears every `Q[]` in the stations and every map-table entry that names the instruction on the bus, frees the bus |
| `execute_To_CDB` | frees finished stores with their station, picks the oldest finished writer of both kinds of unit, takes it off unit and station and onto the bus |
| `issue_To_execute` | each free unit takes the oldest ready instruction of its class from the stations, also one that is executing already |
| `fetch_To_dispatch` | reads the next trace entry if the queue has room and `dont_fetch` is not set |
| `dispatch_To_issue` | evicts a branch at the head, or moves the head into a free station (producers, then renaming, then shifting the queue), or stalls |
| `is_simulation_done` | increments the cycle, sets `dont_fetch`, tests that everything is empty |

The instruction set enters as seven operation classes and sets of register
numbers (`target-pisa/pisa.def`). Two facts about it are assumptions on the
traces (`TraceAssumption`): entry 0 is the zeroed entry that `sim_main` leaves
there (it has no operation class, so it needs no station), and an instruction
that uses a station without writing the bus (a store) has no output register.
The C `int` cycle counter is a natural number: overflow after 2^31 cycles is not
modelled. `MaxCycle` bounds the cycle in the guards and is never reached in the
runs.

The properties: `QueueInOrder`, `NoLostWakeup`, `MapTableExact`, `RAWResolved`,
`StagesInOrder`, `DoneMeansComplete`, `Termination` and the refinement
`ImplementsDataflow`. `Dataflow` has neither stations nor clock: each
instruction is idle, waiting, executing or done. The mapping calls an
instruction executing until it leaves its station, so that the repeated entries
into units of `issue_To_execute` and the broadcasts of the copies are
stuttering: they change the cycle counts, not the dataflow.

### 2.2 Instruction trace

`InstrTrace` runs the loop of `sim_main`, then `runTomasulo`'s sequence of
`get_instr` calls, then `print_all_instr` (whose call is commented out in
`sim-safe.c`; the model makes it or not). The list is a sequence of chunks, a
pointer into it is a chunk number, and every loop iteration of `instr.c` is an
action, because the walks are what could be wrong. An entry is represented by
the index number of its instruction. An exit system call leaves by `longjmp`
and a fault by `exit`, so in both cases `runTomasulo` is not called: the timing
simulation happens only under `-max:inst`. A failing allocation of a further
chunk ends the program at its assertion (`out_of_memory`); the allocation of
the first chunk is assumed to succeed. The last step frees the first chunk
only; the rest is reclaimed by the end of the program and not modelled.

`FetchedInOrder` below is what `Tomasulo` relies on when its `trace` is a
function from positions to instructions with the zeroed entry at 0.

### 2.3 Branch predictors

`BranchPredictors` has one action for reading a record, one for the
predictions and one for the updates of a record, as in `main.cc`. Masks are
modulo, shifts are division and multiplication. `bitsat_log` and `pht_log` are
history variables: of each counter, how often the branches that used it changed
direction, how often it mispredicted, and the last two run lengths (capped at
3, the most a property asks about). `MicroBenchmark` replaces the arbitrary
trace by the two branches of `mb.c`'s loop.

### 2.4 TAGE

`Tage` has two actions, `GetPrediction` and `UpdatePredictor`, each the whole
function. The seven tables that the code writes out one by one are one function
from tables to entries; history lengths, widths and sizes are constants, and the
relation between `TAG_WIDTH` and the number of entries is `TageAssumption`.
Registers are functions from bit positions to 0 or 1; an exclusive-or is taken
bit by bit. `getCSR` is modelled by what it computes, the sum of the decimal
digits, of which the masks of its callers keep the low bits. What `GetPrediction` leaves in globals for
`UpdatePredictor` (`providerComp`, `providerIndex`, `providerPred`, `altPred`)
are variables; `probability`, the counter that decides which of two free tables an
allocation takes, counts on from 2 without effect and is capped there.

### 2.5 Cache

A cache is a record and every function of `cache.c` an operator on it. The
doubly linked way list of a set is the position of each way in it; the hash
table of a set is a set of pairs of a bucket and a way, so that a block on the
wrong chain, on two or on none is visible. A set has a hash table when it has
more than four ways. Shifts and masks are division and remainder. `AccessBlock`
is `cache_access` without timing: the *fast hit* on the block of the last hit, a
*slow hit* found in the list or chain, or a *miss* with the choice of the
victim, write-back, unlinking, replacement and linking. A fast hit tests the
address of the last hit, which is 0 when there is none; an access to block 0 of
a cache that has had no hit therefore dereferences a null pointer, and the model
ends there (`crashed`). `unwritten` is the history variable of the properties:
the blocks written and not passed down since.

`AbstractCache` has resident blocks, dirty ones, and for two blocks of a set
which is newer. `CacheRefinement` maps valid ways to resident blocks and list
positions to that order.

### 2.6 Prefetchers and benchmarks

`Prefetchers` extends `Cache` by the time at which each block is ready, the bus,
the statistics, and the tables of the two prefetchers. All of this is one
record, so that `DemandAccess` can be written the way the code nests: the access
itself, then `generate_prefetch`, which makes accesses of its own on the machine
that the first one left, then the latency, read from the machine that the
prefetch left. `Access`, `Flush` and `FlushAddr` drive it. A workload fixes
geometry, prefetcher, and for each access the addresses that may come. The
arrays of the open-ended prefetcher are sequences whose length is compared with
the size in the code; a write behind an end either does nothing that matters or
ends the program (`overrun`). `CacheBenchmarks` makes the workloads of the three
micro-benchmarks, for the data cache of the configuration they are run with.

### 2.7 Hierarchy

`SimCache` takes the options of `sim-cache.c` and the caches they create; a name
may be another name of a cache further down, as `sim_check_options` allows.
`cache_access` and the miss handlers (`access_fn`) call each other through
`Below`; the handlers of the second levels call nothing, so the nesting ends
there and is written out: `LastAccess` is an access to a cache that has nothing
below, `cache_access` one that may. What `myrand` returns is any sequence
(`Randoms`), repeated. A flush visits the places of a cache one by one
(`BlockAt`), each set in the order of its list. An action is one instruction of `sim_main`'s loop: instruction TLB and
cache, data TLB and cache, or a system call with its three flushes. The one
global prediction table has the rows that the cache created last asked for; a
cache that computes a row behind its end reads memory that is not the table's,
and the model ends there (`wild`). `upper` and `lower` are history: blocks
written and not yet passed to the second level, and passed and not yet to
memory.

### 2.8 Out-of-order core

`stage` names the function that the loop of `sim_main` calls next (the order
depends on `-bugcompat`), and each action is that whole function: `Commit`
(with the freeing of units), `Writeback` (with recovery), `Refresh`, `Issue`,
`Dispatch`, `Fetch`. Stations are identified by queue and index, their tags are
numbers that go up when a station is freed, as in the code; an `RS_link` is a
station with a tag, and a create vector maps registers to the link of their
last maker. The time of an event is the number of cycles left. `panic` is what
the simulator stopped with.

Register and memory values are not modelled. What depends on them is a choice
of the action that would find it out: the direction of a branch at dispatch, what
the predictor says at fetch, the latency of an access at issue and fetch. A
program is a sequence of instructions with their registers, an address for a
load or store, and the possible targets of a control instruction. `arch_NPC` is
history: the successor of the right-path instructions dispatched so far.
A freed station is cleared up to its tag, since nothing else of it is read
again.

## 3. Runs

| Run | Instance | Shows |
|---|---|---|
| `tomasulo_safety` | 5 instructions (the last one unfetched, see findings): all programs of 4 over 9 shapes, 2 registers, queue 2, stations 2/1, units 2/1, latencies 2/3 | the invariants, the inductive invariant `IInv`, refinement of `Dataflow` |
| `tomasulo_termination` | the sizes and latencies of `tomasulo.c`; 16-instruction loops of every pair of shapes | `Termination` |
| `tomasulo_last_instruction`, `tomasulo_enters_once` | small machine | two refuted comments, see findings |
| `instr_trace` | chunks of 3 entries, limits 0 to 9, up to 10 instructions | list, walks, printing, end |
| `predictors` | 32 counters, 8 tables x 64 patterns, 4 histories of 6 bits; all traces of up to 6 records at 3 aliasing addresses; `mb.c`'s loop of 100 iterations with periods 2 to 9 and 12 | bounds on mispredictions; what 2level learns |
| `tage` | histories of 2, 3 and 5 outcomes, tables of 4 entries, tags of 2 bits; all outcomes of 14 branches of a loop with three | folds, digits, useful entries, allocation |
| `tage_alternate` | the same tables, all traces of up to 7 branches at 2 addresses | a refuted comment, see findings |
| `cache` | 2 sets x 2 ways LRU, 1 x 2 FIFO, 1 x 2 random: any number of operations; 1 x 8 LRU with two chains: 5 operations; addresses 0, 12, 16, 32 | list, chains, last block, writes; refinement of `AbstractCache` |
| `prefetchers` | 4 accesses with a flush on three small caches, with and without next line; 6 accesses by two instructions that share a stride entry; 7 accesses with the open-ended prefetcher; the three benchmarks, 40 loads, two placements of the array | statistics, the demanded block, learning, the length of the prefetch array |
| `sim_cache` | eight hierarchies, 4 instructions, 3 data addresses, 2 PCs | writes, flushes and traffic across levels |
| `out_of_order` | seven machines, 7 programs of 5 instructions or so and all of up to 2 instructions of a menu on each of them, all of 3 on one; all predictions, outcomes and latencies | operands, create vector, loads and stores, path, end |

**Why the bounds are enough.** The small Tomasulo machine is chosen so that each
of these states occurs within its short traces: the queue is full when fetch
looks at it; all integer and FP stations are occupied at once, also with another
instruction waiting; all units are busy; the head stalls behind an occupied FP
station while an integer station is free; two units finish in the same cycle and
compete for the bus; a register has two writers in flight. (A full queue while
every integer station is occupied does not occur in it.) The shapes include an
instruction that reads and writes the same two registers, a store, a branch that
names an output (the link register of a call, which is never renamed), a TRAP
and a load without first operand. The last recorded instruction is not fetched
by the code, so its shape is fixed. The run with the real sizes fills the queue
of ten behind a stalled head. Integer and FP stations are never all occupied at
the same time in its loops.

Three chunks of three entries put every limit before, on and behind a boundary.
The three branch addresses share a counter, a pattern table or a history
register in different pairs. 100 iterations are more than ten periods of
`mb.c`'s tests; after the warm-up the tables of a learned pattern no longer
change.

In the TAGE instance the folds of the longest history wrap around both widths,
tags of two bits make the branches collide, and 14 branches are enough for all
tables to be allocated from, for useful entries to be in the way of an
allocation, and for the usefulness counter (3 instead of 255) to run out and
clear them. The properties there are about single steps and about the registers,
whose content repeats after as many branches as the longest history.

The first three caches run forever: all their states are reached. Of the four
addresses one is in block 0, and three share a set of two ways in the two-set
cache. The
eight-way cache is there for its chains: five operations fill, flush and refill
blocks of both. In the hierarchies a set holds one or two blocks, so that three
addresses and two PCs evict dirty blocks at both levels. They are chosen so that
each way for the simulator to stop occurs too: a prediction table asked for a row
it does not have, a second level with smaller blocks than the first, and a first
access in page 0.

The out-of-order machines have 4 (or 2) RUU and 2 (or 4) LSQ stations, so both
fill up with the programs' 4 to 6 instructions and their stations are reused
while links to them remain; one unit of each class and both ports in one
make operations wait for units; loads that hit and miss complete out of order
with divisions and multiplications. Wrong paths of several instructions with
branches and stores on them, jumps and traps are in the programs.

`CHECK_DEADLOCK FALSE` is given where the program ends: `runTomasulo` returns,
`sim_main` and the predictor's `main` return, the bounded traces and workloads
are over, or the program has crashed (`cache`, whose model goes on forever
otherwise).

**Fairness.** Each program is one sequential loop and nothing waits for an
environment, so the only assumption is weak fairness of the whole next-state
relation: the process keeps running (`FairSpec` of `Tomasulo` and `InstrTrace`,
and `WF_stage(Step)` in `OutOfOrder`, where `Step` is the turn of the stage).
`Terminates` of `OutOfOrder` therefore says that the pipeline itself
makes progress, whatever the predictor and the caches answer.

## 4. Findings

Refuted by a run:

1. `is_simulation_done` compares an index that starts at the zeroed entry 0
   with the number of instructions, so the last recorded instruction is never
   fetched, against the function's comment ("finishing the very last
   instruction").
2. `issue_To_execute` does not exclude instructions that are executing: with a
   unit free, an instruction enters a second unit, its execute stamp is
   rewritten, and each copy later takes a turn on the bus and rewrites the CDB
   stamp. `instr.h` calls a stamp the cycle an instruction *entered* the stage.
   The dataflow stays correct (`ImplementsDataflow`), the timing does not.
3. The loop of TAGE's prediction that looks for the next shorter match reads the
   provider's entry again, so the alternate prediction repeats the provider's.

Observed while modelling, as the models have them:

* `fetch_To_dispatch` stamps TRAPs as well (`tomasulo.c:451`): the `if` that
  excludes them has no braces around the two statements its comment describes.
* The folded registers of TAGE hold one outcome less than the history lengths
  defined for them: they are updated after the global history was shifted and
  with the length less one, so an outcome is taken out one branch early
  (`predictor.cc:597`). Tags have 10 bits, not the 11 of the description
  (`predictor.cc:112`).
* The first access to block 0 of a cache takes the fast hit with a null block
  (`cache.c:806`). No program of the labs maps anything at address 0.
* A hit returns the time its block is ready after the prefetch it started
  (`cache.c:996`): in a set of one way that may be the time of the prefetched
  block. `DemandBlockStays` holds from two ways on.
* The state of a stride entry is kept in column 4 of rows of 4 columns and the
  reset for a new owner goes to column 3 (`cache.c:674`, `684`): a new owner
  inherits a state. `LocksOn` shows that three equal strides lock the entry on
  all the same.
* `mbq6.c` says that the stride prefetcher swaps between a stride of 5 and one
  of 11. Its entry is in the state without prediction from the third access on,
  since no two strides in a row are equal, so it prefetches nothing there. That
  the open-ended prefetcher predicts all of it is right (`MissesOnlyInWarmUp`).
* The reference prediction table is one global: with stride prefetchers on two
  caches, the one that asked for more rows reads and writes behind the end of
  the other's (`cache.c:335`, created in the order of `sim-cache.c:298`).
* The replacement policy `n` is documented in `sim-cache.c` and fatal in
  `cache_char2policy`.
* `-issue:inorder` ("run pipeline with in-order issue", `sim-outorder.c:707`)
  only stops dispatch behind an instruction whose operands are not ready: of two
  divisions and an ALU operation, the ALU operation issues before the second
  division, which waits for the unit.

## 5. Proofs

All theorems are for every value of the constants that satisfies the named
assumptions.

| Theorem | States |
|---|---|
| `TomasuloProofs!PipelineInvariant` | `Spec => []IInv` |
| `TypeCorrect`, `QueueCorrect`, `WakeupCorrect`, `RenamingCorrect`, `RAWCorrect`, `TableCorrect`, `CompletionCorrect` | the safety properties of `tomasulo_safety` |
| `TomasuloImplementsDataflow` | `Spec => DF!Spec` |
| `InstrTraceProofs!TraceInvariant`, `ListCorrect`, `GetCorrect`, `PrintCorrect` | the safety properties of `instr_trace` |
| `BranchPredictorsProofs!PredictorInvariant`, `PredictorTypes`, `MispredictionBound`, `HysteresisCorrect` | the invariant and bound of `predictors`; that a counter turns around only after two outcomes against it |
| `TageProofs!Invariance`, `TypeCorrect`, `HistoryFolded`, `CounterMoves`, `UsefulKept`, `DecimalLosesNothing` | the properties of `tage`, for any number of tables and all lengths, widths and sizes |
| `CacheProofs!CacheCorrect`, `CacheTypes`, `WayListsWhole`, `HashChainsExact`, `FreeWayTaken`, `CachedOnce`, `LastHitRight`, `WritesNotLost` | the safety properties of `cache`, for every geometry, policy and address |
| `CacheImplementsAbstract` | `Spec => Abstract!Spec` |
| `PrefetchersCorrect`, `PrefetchersTyped` | `PFSpec => []PFInv`, and the types in it |
| `CacheKeptByPrefetchers` | `PFSpec => []IInv`: what holds of a cache holds of one that prefetches |
| `CountersAddUp`, `DemandSpared`, `StrideLocksOn`, `PrefetchesLimited` | the properties of `prefetchers`, for every geometry, policy, table size and workload |
| `SimCacheProofs!MachineKept` | `Spec => []Inv` |
| `WritesAreKept`, `TrafficIsCounted`, `FlushesReachMemory` | the properties of `sim_cache`, for every hierarchy that `sim_check_options` accepts, with caches of every geometry and policy, and whatever `myrand` returns |
| `OutOfOrderProofs!MachineKept` | `Spec => []Inv` |
| `PathIsKept` | `OnPath` of `out_of_order`, for every program, size, width and option |
| `ChecksHold` | ten of the simulator's own checks never fail, among them all three of the main loop's |

*Tomasulo.* Assumptions: positive sizes and latencies, register 0 exists, and
`TraceAssumption`. `NoLostWakeup` alone is not inductive: that a producer in
the map table still holds a station or the bus needs that the bus is empty when
`execute_To_CDB` runs (`BusInv`), that what left its station was broadcast
(`StationInv`), and that issue is in order (`IssueInv`), since otherwise an
instruction could wait for a younger one. `RAWResolved` needs `RAWInv`: of each
input, the last writer in program order is either the one waited for or has
left its station; this is where `MapTableExact` is used, at the step that copies
the map table. `ClockInv` orders the stamps. There is a lemma per action, and in
it a step per conjunct the action can disturb.

*Refinement.* Each action maps to a Dataflow step or a stutter:
`execute_To_CDB` to `Finish` of the stores and the one writer that leave their
stations, `issue_To_execute` to `Start` of those not yet executing,
`dispatch_To_issue` to `Issue`, all others to stuttering. The dataflow
condition of `Start` comes from `RAWInv`.

*Instruction trace.* The invariant relates each walk to a position:
`(trace - 1) * INSTR_TRACE_SIZE + index` is the entry asked for, at every
iteration of `get_instr`, and the one after the last printed, at every iteration
of `print_all_instr`. That the walk does not leave the list follows because the
list is packed and the position has been recorded (`EntryAt`, `NotBeyond`).

*Predictors.* The bound of two mispredictions per change needs a potential:
`Credit` is what a counter may still mispredict before its next change, and is
paid for by the changes so far; `Reach` says how far a run of equal outcomes has
pushed the counter. One lemma about one counter (`TrainSettled`) serves both
predictors; `PredictionInv` is what ties the prediction made to the counter that
is trained.

*TAGE.* `FoldExact` is about arbitrary lengths of history and widths of
register, so it is proved as a statement on parities: the ones at the positions
`i % width = k` of a history, after one more outcome, are those of position
`k - 1` before, shifted (`OnesShift`), plus the newest outcome and minus the one
that leaves the history; `ShiftFolds` shows that the exclusive-ors of
`updateCSR` do exactly this, for the rotated bit and the two patched ones,
whichever of them coincide. `MispredictionMoves` is not inductive alone: it
needs that the globals a prediction leaves still describe the entry it was made
from when the update comes (`PredictedByProvider`). `UsefulProtected` follows
the update through training, clearing and allocation, with one lemma each about
the tags that can change. For `DigitsKept`: from the lowest digit that differs
on, the difference of two registers read as decimal numbers is odd, and every
digit below multiplies it by ten, which is two times an odd number, so that it
is no multiple of the number of entries. The recursive functions of the model (powers of
two, decimal value) are handled by an induction on sets of numbers that is
derived in the module from the theory of finite sets. Assumptions:
`TageAssumption`, which relates the width of tags and the number of entries as
`predictor.cc` does.

*Cache.* `IInv` is the conjunction of the cache's properties with three that no
run lists on its own: the types, that no block is in two ways (`OneCopy`), and
that under LRU and FIFO the invalid ways of a set are at the end of its list
(`FreeWaysLast`).
They need one another. The victim is well defined and unique because the list is
whole; unlinking it leaves the chains exact because it was on the chain of its
tag; the new block is the only copy because the search that missed would have
found another, which needs the chains; and the fast hit is right because the
block it remembers is valid, has that address and, under LRU, is the head of its
list. The proof follows the code's structure: every access, flush of one address
and step of a flush changes the fields of one way, one list, one set of chains
and the last block (`Changed`), and one lemma each says when such a change keeps
the invariant (`ChangedSound`) and what it does to the dirty blocks
(`ChangedDirty`). That an address can be taken apart into tag, set and offset and
put together again, for every power of two, is arithmetic proved at the start
of the module. Assumptions: the geometries `cache_create` accepts,
natural addresses.

*Refinement of the cache.* The mapping is a function of the cache alone: valid
ways are resident blocks, list positions the order of age. From the invariant,
the block of an address is resident if and only if it would be found, so hits map
to hits and misses to misses. `MoveToHead` and `MoveToTail` keep the order of
all other blocks (that is all that recency can see of them); the victim of a
miss is the oldest block of a set that is full, and an invalid way, hence nobody,
of a set that is not, which is what `FreeWaysLast` is for. The block taken by the
fast hit under LRU is the newest already, so nothing need be moved.

*Prefetchers.* A demand access is a chain of accesses on a machine record, so
the proof is about one link: a machine is `Fit` when its cache satisfies the
cache invariant, its unwritten blocks are the dirty ones and its counters
account for the valid ways, and `Leads` says that an access leaves it fit, with
one prefetch more if it was one, and all tables alone. `HitKeeps` and
`MissFills`, on top of the lemmas about `Cache`, say what an access does to
the set of valid ways. Each prefetcher is then a number of such links:
at most one, and for the open-ended one at most three, because each selected
candidate is an address not yet in flight and all are among three addresses: the
candidates of the second place that the loop looks back to are also candidates
of the first (`Aheads`). `LocksOn` needs to be strengthened to how far an entry is after
one and after two equal strides (`Learned`), from each of the four states that
it may have inherited. `DemandBlockStays` holds because the demanded block is at
the head of its list (`AtHead`) and a victim is at the end of one. What an
overrun array does to the program (nothing, or its end) does not matter to any
of this. Assumptions: positive sizes of address space and tables, and workloads
whose geometry `cache_create` accepts.

*Hierarchy.* `CacheBlocksProofs` speaks of a cache record and of no variable, so
its lemmas serve each cache of a hierarchy. The invariant `Inv` says of a machine
that runs that its caches are sound, that `upper` is what is dirty in dl1, that
each block of `lower` is dirty in dl2, and that the counts of dl2 are those of the
levels above it. None of this holds in the middle of a miss, when the first level
has given up its victim and counted its miss and the second has not been asked
yet. `Kept(m, pending, k, p)` is the invariant with this debt in it: the blocks
passed down and not yet written, and the demand accesses and prefetches not yet
arrived. An access to dl1 or il1 incurs debt (`AboveKept`), one to dl2 pays one
item of it and may displace any other block (`Dl2Kept`), the handler does or does
not pay according to whether there is a dl2 (`access_fnKept`), and an access ends
with none (`cache_accessKept`). A flush owes all dirty blocks of the cache at once
and pays them one by one: the places from the k-th on hold the rest of the debt
(`DirtyFrom`), which needs that every way is at one place only (`PlaceOf`,
`PlaceFor`, from the whole list) and that two dirty blocks never have one address
(`DirtyApart`, from there being one copy of each). `FlushesReachMemory` then is
that dl1 is empty after its flush, that dl2 is after its own, and that dl2 has
nothing below it to disturb dl1 (`VisitsStay`). That the flush goes in the order
of the sets and the lists does not matter to any of this; that it goes from dl1
to dl2 does. Assumptions: options of the kinds that `sim_check_options` tells
apart, geometries that `cache_create` accepts, natural addresses. A simulator
that has stopped (`fatal`, `fault`, `wild`) promises nothing, and the
properties say so.

*Out-of-order core.* `OnPath` is about one machine record `m` between two turns
of any loop, and so is its invariant `Kept(m)`; a turn of commit, of recovery,
of writeback, of dispatch and of fetch each have a lemma, and an induction over the
turns makes it one about the stage. Four things have to be known together.
`Rings`: the stations in use of the RUU and of the LSQ are those from head to
tail, in the order of their sequence numbers. `Paired`: the address of a load or
store is in the RUU, its access in the LSQ, with sequence numbers that follow each
other, so that both rings drop them together, at commit from the head and at
recovery from the tail. `Chained`: each fetched instruction was predicted to be
followed by the next one, and one that is no control instruction by the next of
the text, so that only a control instruction can start the wrong path.
`Speculates`: on the wrong path one branch will recover, and the younger stations
are those of the wrong path. Recovery squashes from the tail until it finds that
branch; that it does find it is `Rings`, that it then has squashed the whole wrong
path and nothing else is `Speculates` (`NoWrongPathLeft`), and that the LSQ is
emptied as far is `Paired`. A trap waits for an empty RUU, where no branch is left
to recover, so it is never dispatched on the wrong path (`NotDrained`). That the
LSQ is never fuller than the RUU is an injection from its stations to their
partners (`LSQFits`). Most operations (refresh, issue, broadcasting a result,
linking inputs, functional units) change nothing of this, and are `Calm`: one
lemma (`CalmKept`) then serves them all. Assumptions: positive sizes of RUU and
LSQ, natural widths and targets, known operations. The simulator's checks on the links
between operations, the ready queue and the event queue
(`sim-outorder.c:1859`, `1862`, `1994`, `2271`, `2391`, `2483`, `2644`, `2659`) are
not proved: they are part of `Terminates`, which TLC checks.

**Only model-checked:** liveness (`Termination` of two programs, `Terminates` of
the out-of-order core), which is outside the prover; `MicroBenchmark`'s
`LearnsShortPatterns` and the cache benchmarks' `MissesOnlyInWarmUp`, which are
about one program each and its whole run; `OperandsExact`, `CreateVectorExact`
and `LoadsSeeStores` of `OutOfOrder`, whose invariants relate the links of every
chain of outputs, the tags that make old ones void and two create vectors, and
have not been attempted; and the two
refuted comments about Tomasulo and the one about TAGE, of which TLC gives the
counterexamples.

## 6. Plan

1. The inductive invariant behind `OperandsExact` and `CreateVectorExact` of
   `OutOfOrder`, on top of `Rings`: which operand waits on which chain.
2. The open-ended prefetcher in `SimCache`.
3. A composition of `InstrTrace` and `Tomasulo` in which `fetch_To_dispatch`
   reads through the list.

**Not modelled.** The map covers a few percent of the repository's lines.
What the authors wrote is modelled nearly completely, and so are the parts of
SimpleScalar that their labs change or build on (`cache.c`, `sim-cache.c`,
`sim-outorder.c`'s pipeline). The rest, over a hundred thousand lines, is three
copies of the same SimpleScalar release with an instruction set each: option
parsing, statistics, symbol tables, loader, debugger, system call proxies, EXO
file library, instruction semantics. It is input and output or tables, it has no
protocol of its own, and the copies are the same files three times. Also left
out: register and memory values and the contents of the branch predictor in
`sim-outorder.c` (choices of the model); its event queue library `eventq.c`,
which it does not use; its statistics; drafts of `cache.c` kept beside it; and
Lab 1, whose counters the code registers and never changes.
