----------------------------- MODULE OutOfOrder -----------------------------
(***************************************************************************)
(* Lab4-Cache-Data-Prefetcher/sim-outorder.c: the core of the out-of-order  *)
(* timing simulator, a register update unit (RUU) and a load/store queue    *)
(* (LSQ).  The stages of a cycle are run from the last to the first,        *)
(*                                                                         *)
(*   commit - writeback - refresh - issue - dispatch - fetch                *)
(*                                                                         *)
(* each an action here.  Instructions are executed when they are dispatched *)
(* (values are not modelled); what a program does is a choice of the action *)
(* that would find it out: a branch goes either way (dispatch), the         *)
(* predictor says anything (fetch), an access to a cache takes one of a set *)
(* of latencies (issue, fetch).  A stage is the set of machines m that it   *)
(* may make of the machine it is given.                                     *)
(*                                                                         *)
(* PCs count instructions from 1; 0 is every address outside the text,      *)
(* where fetch reads NOPs.  A station that is freed is cleared up to its    *)
(* tag: nothing reads the rest of it again.  The time of an event is the    *)
(* number of cycles left until then.                                        *)
(***************************************************************************)
EXTENDS Integers, FiniteSets, SequencesExt

CONSTANTS
    Registers,          \* architected registers, a set of positive numbers
    Workloads
    (* [program: a sequence of instructions [op, out, in, addr, targets] -   *)
    (* out two output registers, in three inputs, NA for none; targets      *)
    (* where a control instruction may go - that ends with an exit,         *)
    (* config: [RUU_size, LSQ_size, ruu_ifq_size, decode_width,             *)
    (* issue_width, commit_width, branch_penalty, inorder, include_spec,    *)
    (* bugcompat, pred_perfect, units: the functional units, each the set   *)
    (* of classes it serves, load_lats, tlb_lats, miss_lats: latencies of   *)
    (* the data cache, and of misses in its TLB and the instruction cache]] *)

VARIABLES
    workload,
    station,            \* the RUU_stations <<"RUU", i>> and <<"LSQ", i>>
    RUU_head, RUU_tail, RUU_num,
    LSQ_head, LSQ_tail, LSQ_num,
    event_queue, ready_queue,
    create_vector, spec_create_vector, use_spec_cv,
    spec_mode, recover_PC,
    fetch_queue,        \* fetch_data from fetch_head on, fetch_num of them
    fetch_pred_PC, ruu_fetch_issue_delay,
    last_miss,          \* the address the instruction cache missed last: its
                        \* block is there now
    inst_seq, last_op,
    busy,               \* per functional unit
    stage,              \* the next stage
    panic,              \* what the simulator stopped with, or "none"
    halted,             \* the program has made its exit system call
    arch_NPC            \* history: what follows the right-path instructions
                        \* dispatched so far

vars == <<workload, station, RUU_head, RUU_tail, RUU_num, LSQ_head, LSQ_tail,
          LSQ_num, event_queue, ready_queue, create_vector,
          spec_create_vector, use_spec_cv, spec_mode, recover_PC, fetch_queue,
          fetch_pred_PC, ruu_fetch_issue_delay, last_miss, inst_seq,
          last_op, busy, stage, panic, halted, arch_NPC>>

config == workload.config
program == workload.program

NA == 0
DTMP == 99              \* the name of an effective address
Names == Registers \cup {DTMP}
BOGUS == 0              \* an address outside the text

-----------------------------------------------------------------------------
(* The instruction set, as far as the core tells instructions apart.        *)

NOP == [op |-> "nop", out |-> <<NA, NA>>, in |-> <<NA, NA, NA>>, addr |-> 0,
        targets |-> {}]
Inst(PC) == IF PC \in DOMAIN program THEN program[PC] ELSE NOP
Sequel(PC) == IF PC + 1 \in DOMAIN program /\ PC # BOGUS THEN PC + 1 ELSE BOGUS

F_CTRL == {"branch", "jump", "jr"}
F_DIRJMP == {"branch", "jump"}
F_MEM == {"load", "store"}
F_LONGLAT == {"mult", "div"}
F_TRAP == {"trap", "exit"}

MD_OP_FUCLASS(op) ==
    CASE op \in {"alu", "agen", "branch"} -> "IntALU"
      [] op = "mult"  -> "IntMULT"
      [] op = "div"   -> "IntDIV"
      [] op = "load"  -> "RdPort"
      [] op = "store" -> "WrPort"
      [] op \in {"jump", "jr", "trap", "exit"} -> "NA"

(* fu_config: the latency of the result, and until the next operation.      *)
oplat(class) == CASE class = "IntMULT" -> 3 [] class = "IntDIV" -> 20
                  [] OTHER -> 1
issuelat(class) == IF class = "IntDIV" THEN 19 ELSE 1

OpClasses == {"nop", "alu", "mult", "div"} \cup F_CTRL \cup F_MEM \cup F_TRAP
ASSUME WorkloadAssumption ==
    \A w \in Workloads :
      /\ \A PC \in DOMAIN w.program : /\ w.program[PC].op \in OpClasses
                                      /\ w.program[PC].targets \subseteq Nat
      /\ {w.config.RUU_size, w.config.LSQ_size} \subseteq Nat \ {0}
      /\ {w.config.decode_width, w.config.commit_width} \subseteq Nat

(* Where an instruction goes.                                               *)
Outcomes(inst, PC) ==
    CASE inst.op = "branch" -> inst.targets \cup {Sequel(PC)}
      [] inst.op \in {"jump", "jr"} -> inst.targets
      [] OTHER -> {Sequel(PC)}

-----------------------------------------------------------------------------
(* The machine: stations, links, queues.                                    *)

Freed(tag) ==
    [op |-> "none", ea_comp |-> FALSE, recover_inst |-> FALSE,
     spec_mode |-> FALSE, addr |-> 0, tag |-> tag, seq |-> 0,
     queued |-> FALSE, issued |-> FALSE, completed |-> FALSE,
     in |-> <<NA, NA, NA>>, onames |-> <<NA, NA>>,
     odep_list |-> <<<<>>, <<>>>>, idep_ready |-> <<TRUE, TRUE, TRUE>>]
OPERANDS_READY(r) == \A k \in 1 .. 3 : r.idep_ready[k]
STORE_ADDR_INDEX == 2

in_LSQ(s) == s[1] = "LSQ"
NoStation == <<>>
CVLINK_NULL == [rs |-> NoStation, odep_num |-> 0]
NoOp == [rs |-> NoStation, tag |-> 0]

RSLINK(m, s) == [rs |-> s, tag |-> m.station[s].tag]
RSLINK_VALID(m, link) == m.station[link.rs].tag = link.tag

Stopped(m) == m.panic # "none" \/ m.halted
Panics(m, what) == [m EXCEPT !.panic = what]

(* Before the first element of an ordered queue that is not less.           *)
Enqueued(queue, node, first) ==
    InsertAt(queue, IF first = 0 THEN Len(queue) + 1 ELSE first, node)

(* Loads, stores, long operations and control instructions go to the head,  *)
(* the others before the first one that is younger.                         *)
readyq_enqueue(m, s) ==
    LET r     == m.station[s]
        node  == [rs |-> s, tag |-> r.tag, seq |-> r.seq]
        first == IF in_LSQ(s) \/ r.op \in F_LONGLAT \cup F_CTRL THEN 1
                 ELSE SelectInSeq(m.ready_queue, LAMBDA n : n.seq >= r.seq)
    IN IF r.queued THEN Panics(m, "node is already queued")
       ELSE [m EXCEPT !.station[s].queued = TRUE,
                      !.ready_queue = Enqueued(@, node, first)]

eventq_queue_event(m, s, lat) ==
    LET event == [rs |-> s, tag |-> m.station[s].tag, left |-> lat]
        first == SelectInSeq(m.event_queue, LAMBDA e : e.left >= lat)
    IN IF m.station[s].completed THEN Panics(m, "event completed")
       ELSE IF lat <= 0 THEN Panics(m, "event occurred in the past")
       ELSE [m EXCEPT !.event_queue = Enqueued(@, event, first)]

CREATE_VECTOR(m, name) ==
    IF name \in m.use_spec_cv THEN m.spec_create_vector[name]
    ELSE m.create_vector[name]
SET_CREATE_VECTOR(m, name, link) ==
    IF m.spec_mode
      THEN [m EXCEPT !.use_spec_cv = @ \cup {name},
                     !.spec_create_vector[name] = link]
      ELSE [m EXCEPT !.create_vector[name] = link]

(* A unit of the class that is not busy, 0 if there is none.                *)
res_get(m, class) ==
    SelectInSeq([u \in DOMAIN config.units |->
                   class \in config.units[u] /\ m.busy[u] = 0],
                LAMBDA free : free)
Reserved(m, class) == [m EXCEPT !.busy[res_get(m, class)] = issuelat(class)]

-----------------------------------------------------------------------------
(* ruu_commit: from the head of the RUU, with the load or store at the head *)
(* of the LSQ.  A store needs a port to the cache.                          *)

RUUHead(m) == <<"RUU", m.RUU_head>>
LSQHead(m) == <<"LSQ", m.LSQ_head>>

MayCommit(m) ==
    /\ m.station[RUUHead(m)].completed
    /\ m.station[RUUHead(m)].ea_comp =>
         /\ m.station[LSQHead(m)].completed
         /\ m.station[LSQHead(m)].op = "store" => res_get(m, "WrPort") # 0

\* Mutant: the tag of a station that commits is left as it is.
FreeSameTag(m, s) == [m EXCEPT !.station[s] = Freed(@.tag)]
Free(m, s) == [m EXCEPT !.station[s] = Freed(@.tag + 1)]

CommitLSQ(m) ==
    LET port == IF m.station[LSQHead(m)].op = "store"
                  THEN Reserved(m, "WrPort") ELSE m
    IN [Free(port, LSQHead(m)) EXCEPT
          !.LSQ_head = (@ + 1) % config.LSQ_size, !.LSQ_num = @ - 1]
CommitRUU(m) ==
    LET done == [Free(m, RUUHead(m)) EXCEPT
                   !.RUU_head = (@ + 1) % config.RUU_size, !.RUU_num = @ - 1]
    IN IF m.station[RUUHead(m)].odep_list # <<<<>>, <<>>>>
         THEN Panics(done, "retired instruction has odeps") ELSE done

CommitOne(m) ==
    IF Stopped(m) \/ m.RUU_num = 0 THEN m
    ELSE IF m.station[RUUHead(m)].ea_comp /\ m.LSQ_num <= 0
      THEN Panics(m, "RUU out of sync with LSQ")
    ELSE IF ~MayCommit(m) THEN m
    ELSE CommitRUU(IF m.station[RUUHead(m)].ea_comp THEN CommitLSQ(m) ELSE m)
ruu_commit(m) ==
    LET after[k \in 0 .. config.commit_width] ==
          IF k = 0 THEN m ELSE CommitOne(after[k - 1])
    IN after[config.commit_width]

ruu_release_fu(m) ==
    [m EXCEPT !.busy = [u \in DOMAIN @ |-> IF @[u] > 0 THEN @[u] - 1 ELSE 0]]

(* The checks at the head of the loop of sim_main.                          *)
Checked(m) ==
    IF m.RUU_num < m.LSQ_num THEN Panics(m, "RUU_num < LSQ_num")
    ELSE IF (m.RUU_head + m.RUU_num) % config.RUU_size # m.RUU_tail
      THEN Panics(m, "RUU_head/RUU_tail wedged")
    ELSE IF (m.LSQ_head + m.LSQ_num) % config.LSQ_size # m.LSQ_tail
      THEN Panics(m, "LSQ_head/LSQ_tail wedged")
    ELSE m

-----------------------------------------------------------------------------
(* ruu_recover and tracer_recover: everything younger than the mispredicted *)
(* branch is squashed, and fetch restarts on the right path.                *)

Before(i, size) == (i + size - 1) % size

SquashLSQ(m) ==
    LET i == Before(m.LSQ_tail, config.LSQ_size)
    IN IF m.LSQ_num = 0 THEN Panics(m, "RUU and LSQ out of sync")
       ELSE [Free(m, <<"LSQ", i>>) EXCEPT !.LSQ_tail = i, !.LSQ_num = @ - 1]
SquashRUU(m) ==
    LET i == Before(m.RUU_tail, config.RUU_size)
    IN [Free(m, <<"RUU", i>>) EXCEPT !.RUU_tail = i, !.RUU_num = @ - 1]

SquashOne(m, branch) ==
    LET i == Before(m.RUU_tail, config.RUU_size)
    IN IF Stopped(m) \/ i = branch THEN m
       ELSE IF m.RUU_num = 0 THEN Panics(m, "empty RUU")
       ELSE IF i = m.RUU_head THEN Panics(m, "RUU head and tail broken")
       ELSE SquashRUU(IF m.station[<<"RUU", i>>].ea_comp
                        THEN SquashLSQ(m) ELSE m)
(* The last turn finds the branch, or an empty RUU.                         *)
SquashAfter(m, branch) ==
    LET after[k \in 0 .. m.RUU_num + 1] ==
          IF k = 0 THEN m ELSE SquashOne(after[k - 1], branch)
    IN after[m.RUU_num + 1]

\* Mutant: the speculative create vector stays in use.
ruu_recoverKeepingCV(m, branch) == SquashAfter(m, branch)
ruu_recover(m, branch) == [SquashAfter(m, branch) EXCEPT !.use_spec_cv = {}]

\* Mutant: the instructions fetched on the wrong path stay in the queue.
tracer_recoverKeepingQueue(m) ==
    [m EXCEPT !.spec_mode = FALSE, !.fetch_pred_PC = m.recover_PC]
tracer_recover(m) ==
    IF ~m.spec_mode THEN Panics(m, "cannot recover unless in speculative mode")
    ELSE [m EXCEPT !.spec_mode = FALSE, !.fetch_queue = <<>>,
                   !.fetch_pred_PC = m.recover_PC]

-----------------------------------------------------------------------------
(* ruu_writeback: for each event of this cycle, completes the operation,    *)
(* recovers from the misprediction it reveals, and wakes its consumers.     *)

(* Loads wait for lsq_refresh.                                              *)
Wakes(m, s) == ~in_LSQ(s) \/ m.station[s].op = "store"

Satisfy(m, link) ==
    LET given == [m EXCEPT !.station[link.rs].idep_ready[link.opnum] = TRUE]
    IN IF Stopped(m) \/ ~RSLINK_VALID(m, link) THEN m
       ELSE IF m.station[link.rs].idep_ready[link.opnum]
         THEN Panics(m, "output dependence already satisfied")
       ELSE IF OPERANDS_READY(given.station[link.rs]) /\ Wakes(m, link.rs)
         THEN readyq_enqueue(given, link.rs)
       ELSE given

(* The register file has the value now, unless another operation makes it.  *)
Created(m, s, i) ==
    LET name == m.station[s].onames[i]
        own  == [rs |-> s, odep_num |-> i]
        Without(link) == IF link = own THEN CVLINK_NULL ELSE link
    IN IF m.station[s].spec_mode
         THEN [m EXCEPT !.spec_create_vector[name] = Without(@)]
         ELSE [m EXCEPT !.create_vector[name] = Without(@)]

Broadcast(m, s, i) ==
    LET list == m.station[s].odep_list[i]
        after[k \in 0 .. Len(list)] ==
          IF k = 0
            THEN [Created(m, s, i) EXCEPT !.station[s].odep_list[i] = <<>>]
          ELSE Satisfy(after[k - 1], list[k])
    IN IF m.station[s].onames[i] = NA THEN m ELSE after[Len(list)]

Recovered(m, s) ==
    IF ~m.station[s].recover_inst THEN m
    ELSE IF in_LSQ(s) THEN Panics(m, "mis-predicted load or store?!?!?")
    ELSE [tracer_recover(ruu_recover(m, s[2])) EXCEPT
            !.ruu_fetch_issue_delay = config.branch_penalty]

Complete(m, s) ==
    LET r == m.station[s]
    IN IF ~OPERANDS_READY(r) \/ r.queued \/ ~r.issued \/ r.completed
         THEN Panics(m, "inst completed and !ready, !issued, or completed")
       ELSE Broadcast(
              Broadcast(Recovered([m EXCEPT !.station[s].completed = TRUE], s),
                        s, 1),
              s, 2)

WritebackOne(m) ==
    LET ev   == Head(m.event_queue)
        rest == [m EXCEPT !.event_queue = Tail(@)]
    IN IF Stopped(m) \/ m.event_queue = <<>> THEN m
       ELSE IF ev.left > 0 THEN m
       ELSE IF RSLINK_VALID(m, ev) THEN Complete(rest, ev.rs)
       ELSE rest
ruu_writeback(m) ==
    LET after[k \in 0 .. Len(m.event_queue)] ==
          IF k = 0 THEN m ELSE WritebackOne(after[k - 1])
    IN after[Len(m.event_queue)]

-----------------------------------------------------------------------------
(* lsq_refresh: queues the loads whose operands are ready and that no older *)
(* store can still change.  scan.unknowns are the addresses of the stores   *)
(* whose data are not there; the scan stops where an address is not there.  *)

LSQWindow(m) ==
    [i \in 1 .. m.LSQ_num |-> <<"LSQ", (m.LSQ_head + i - 1) % config.LSQ_size>>]

\* Mutant: every store hides the older ones from the loads that follow.
PassStoreHiding(scan, r) ==
    IF ~r.idep_ready[STORE_ADDR_INDEX] THEN [scan EXCEPT !.stop = TRUE]
    ELSE IF ~OPERANDS_READY(r) THEN [scan EXCEPT !.unknowns = <<r.addr>>]
    ELSE [scan EXCEPT !.unknowns = <<>>]
(* A store whose data are there hides the older ones to its address (their  *)
(* address becomes the bogus 0).                                            *)
PassStore(scan, r) ==
    IF ~r.idep_ready[STORE_ADDR_INDEX] THEN [scan EXCEPT !.stop = TRUE]
    ELSE IF ~OPERANDS_READY(r)
      THEN [scan EXCEPT !.unknowns = Append(@, r.addr)]
    ELSE [scan EXCEPT !.unknowns = ReplaceAll(@, r.addr, 0)]

PassLoad(scan, s) ==
    LET r == scan.m.station[s]
    IN IF /\ ~r.queued /\ ~r.issued /\ ~r.completed /\ OPERANDS_READY(r)
          /\ ~Contains(scan.unknowns, r.addr)
         THEN [scan EXCEPT !.m = readyq_enqueue(@, s)] ELSE scan

Scan(scan, s) ==
    IF scan.stop \/ Stopped(scan.m) THEN scan
    ELSE IF scan.m.station[s].op = "store"
      THEN PassStore(scan, scan.m.station[s])
    ELSE PassLoad(scan, s)

lsq_refresh(m) ==
    LET after[k \in 0 .. m.LSQ_num] ==
          IF k = 0 THEN [m |-> m, unknowns |-> <<>>, stop |-> FALSE]
          ELSE Scan(after[k - 1], LSQWindow(m)[k])
    IN after[m.LSQ_num].m

-----------------------------------------------------------------------------
(* ruu_issue: hands the ready operations to the functional units, as many   *)
(* as there are units and issue slots; the others are queued again.         *)

(* A load finds its value in the LSQ if an older store has its address, and *)
(* asks the TLB all the same.                                               *)
Forwarded(m, s) ==
    \E i \in 1 .. m.LSQ_num :
      /\ m.station[LSQWindow(m)[i]].op = "store"
      /\ m.station[LSQWindow(m)[i]].addr = m.station[s].addr
      /\ m.station[LSQWindow(m)[i]].seq < m.station[s].seq
Latencies(m, s) ==
    IF m.station[s].op # "load" THEN {oplat(MD_OP_FUCLASS(m.station[s].op))}
    ELSE IF Forwarded(m, s) THEN {1} \cup config.tlb_lats ELSE config.load_lats

Unqueued(m, s) == [m EXCEPT !.station[s].queued = FALSE]
IssueStore(m, s) ==
    IF m.station[s].onames # <<NA, NA>> THEN Panics(m, "store creates result")
    ELSE [Unqueued(m, s) EXCEPT
            !.station[s] = [@ EXCEPT !.issued = TRUE, !.completed = TRUE]]

\* Mutant: an operation that finds no unit is not queued again.
NoUnitDropped(m, s) == Unqueued(m, s)
NoUnit(m, s) == readyq_enqueue(Unqueued(m, s), s)

Start(m, s) ==
    LET class == MD_OP_FUCLASS(m.station[s].op)
        unit  == IF class = "NA" THEN m ELSE Reserved(m, class)
        given == [Unqueued(unit, s) EXCEPT !.station[s].issued = TRUE]
    IN {eventq_queue_event(given, s, lat) : lat \in Latencies(m, s)}
HasUnit(m, s) ==
    \/ MD_OP_FUCLASS(m.station[s].op) = "NA"
    \/ res_get(m, MD_OP_FUCLASS(m.station[s].op)) # 0

PutBack(m, node) ==
    IF Stopped(m) \/ ~RSLINK_VALID(m, node) THEN m
    ELSE readyq_enqueue(Unqueued(m, node.rs), node.rs)

(* What becomes of a machine, and the issue slots it has left.              *)
Issued(machines, width) == {[m |-> x, width |-> width] : x \in machines}
IssueOne(m, node, width) ==
    LET s == node.rs r == m.station[s]
    IN IF Stopped(m) THEN Issued({m}, width)
       ELSE IF width = 0 THEN Issued({PutBack(m, node)}, 0)
       ELSE IF ~RSLINK_VALID(m, node) THEN Issued({m}, width)
       ELSE IF ~OPERANDS_READY(r) \/ ~r.queued \/ r.issued \/ r.completed
         THEN Issued({Panics(m, "issued inst !ready, issued, or completed")}, 0)
       ELSE IF r.op = "store" THEN Issued({IssueStore(m, s)}, width - 1)
       ELSE IF ~HasUnit(m, s) THEN Issued({NoUnit(m, s)}, width)
       ELSE Issued(Start(m, s), width - 1)
ruu_issue(m) ==
    LET nodes == m.ready_queue
        after[k \in 0 .. Len(nodes)] ==
          IF k = 0
            THEN Issued({[m EXCEPT !.ready_queue = <<>>]}, config.issue_width)
          ELSE UNION {IssueOne(x.m, nodes[k], x.width) : x \in after[k - 1]}
    IN {x.m : x \in after[Len(nodes)]}

-----------------------------------------------------------------------------
(* ruu_dispatch: executes the instructions in the fetch queue in order,     *)
(* allocates their stations and links them to what makes their inputs.      *)

ruu_link_idep(m, s, k, name) ==
    LET creator == IF name = NA THEN CVLINK_NULL ELSE CREATE_VECTOR(m, name)
        named   == [m EXCEPT !.station[s] =
                      [@ EXCEPT !.in[k] = name,
                                !.idep_ready[k] = creator.rs = NoStation]]
    IN IF creator.rs = NoStation THEN named
       ELSE [named EXCEPT
              !.station[creator.rs].odep_list[creator.odep_num] =
                 <<[rs |-> s, tag |-> m.station[s].tag, opnum |-> k]>> \o @]

ruu_install_odep(m, s, i, name) ==
    LET named == [m EXCEPT !.station[s].onames[i] = name]
    IN IF name = NA THEN named
       ELSE SET_CREATE_VECTOR(named, name, [rs |-> s, odep_num |-> i])

(* Outputs are installed after inputs, to prevent self reference.           *)
Linked(m, s, in, out) ==
    LET inputs == ruu_link_idep(ruu_link_idep(ruu_link_idep(m, s, 1, in[1]),
                                              s, 2, in[2]), s, 3, in[3])
    IN ruu_install_odep(ruu_install_odep(inputs, s, 1, out[1]), s, 2, out[2])

Filled(m, s, op, addr, ea_comp) ==
    [m EXCEPT !.inst_seq = @ + 1,
              !.station[s] = [Freed(@.tag) EXCEPT
                                !.op = op, !.addr = addr, !.ea_comp = ea_comp,
                                !.spec_mode = m.spec_mode,
                                !.seq = m.inst_seq + 1]]

EnqueueIfReady(m, s) ==
    IF OPERANDS_READY(m.station[s]) /\ (in_LSQ(s) => m.station[s].op = "store")
      THEN readyq_enqueue(m, s) ELSE m

RUUTail(m) == <<"RUU", m.RUU_tail>>
LSQTail(m) == <<"LSQ", m.LSQ_tail>>
GrownRUU(m) == [m EXCEPT !.RUU_tail = (@ + 1) % config.RUU_size,
                         !.RUU_num = @ + 1]
GrownLSQ(m) == [m EXCEPT !.LSQ_tail = (@ + 1) % config.LSQ_size,
                         !.LSQ_num = @ + 1]

(* A load or store is two operations: the address in the RUU, the access in *)
(* the LSQ.                                                                 *)
AllocateMem(m, inst) ==
    LET rs == RUUTail(m) lsq == LSQTail(m)
        agen   == Linked(Filled(m, rs, "agen", 0, TRUE), rs,
                         <<NA, inst.in[2], inst.in[3]>>, <<DTMP, NA>>)
        access == Linked(Filled(agen, lsq, inst.op, inst.addr, FALSE), lsq,
                         <<inst.in[1], DTMP, NA>>, inst.out)
    IN EnqueueIfReady(
         EnqueueIfReady([GrownLSQ(GrownRUU(access)) EXCEPT
                           !.last_op = RSLINK(m, lsq)], rs),
         lsq)
AllocateOther(m, inst) ==
    LET rs == RUUTail(m)
        op == Linked(Filled(m, rs, inst.op, 0, FALSE), rs, inst.in, inst.out)
        ready == OPERANDS_READY(op.station[rs])
    IN EnqueueIfReady([GrownRUU(op) EXCEPT
                         !.last_op = IF ready THEN NoOp ELSE RSLINK(m, rs)],
                      rs)

(* One instruction, which goes on at NPC.  With perfect prediction a wrong  *)
(* prediction redirects fetch, and so does a direct jump or branch that was *)
(* predicted taken to another target (it need not be taken).                *)
Misfetched(m, inst, fetched, NPC) ==
    \/ config.pred_perfect /\ fetched.pred_PC # NPC
    \/ /\ inst.op \in F_DIRJMP /\ fetched.pred_PC \notin inst.targets
       /\ fetched.pred_PC # Sequel(fetched.PC)

(* What happens to the fetch unit and the mode after it.                    *)
Redirected(m, NPC) ==
    [m EXCEPT !.fetch_queue = <<>>, !.fetch_pred_PC = NPC,
              !.ruu_fetch_issue_delay =
                 IF config.pred_perfect THEN @ ELSE config.branch_penalty]
Misspeculating(m, rs, NPC) ==
    [m EXCEPT !.spec_mode = TRUE, !.station[rs].recover_inst = TRUE,
              !.recover_PC = NPC]

Allocated(m, inst) ==
    CASE inst.op = "nop"    -> m
      [] inst.op \in F_MEM -> AllocateMem(m, inst)
      [] OTHER              -> AllocateOther(m, inst)
Resumed(m, rs, inst, fetched, NPC) ==
    IF Misfetched(m, inst, fetched, NPC) THEN Redirected(m, NPC)
    ELSE LET next == [m EXCEPT !.fetch_queue = Tail(@)]
         IN IF ~m.spec_mode /\ fetched.pred_PC # NPC
              THEN Misspeculating(next, rs, NPC) ELSE next
Dispatched(m, inst, fetched, NPC) ==
    IF inst.op = "exit" THEN [m EXCEPT !.halted = TRUE]
    ELSE Resumed([Allocated(m, inst) EXCEPT
                    !.arch_NPC = IF m.spec_mode THEN @ ELSE NPC],
                 RUUTail(m), inst, fetched, NPC)

(* In-order issue waits until the last operation is ready; a trap waits     *)
(* until the machine is empty.                                              *)
MayDispatch(m) ==
    /\ m.RUU_num < config.RUU_size /\ m.LSQ_num < config.LSQ_size
    /\ m.fetch_queue # <<>>
    /\ config.include_spec \/ ~m.spec_mode
    /\ ~ (/\ config.inorder /\ m.last_op # NoOp /\ RSLINK_VALID(m, m.last_op)
          /\ ~OPERANDS_READY(m.station[m.last_op.rs]))
    /\ Inst(Head(m.fetch_queue).PC).op \in F_TRAP => m.RUU_num = 0

DispatchOne(m, width) ==
    LET fetched == Head(m.fetch_queue) inst == Inst(fetched.PC)
        left == IF inst.op = "nop" THEN width ELSE width - 1
    IN IF Stopped(m) \/ width = 0 \/ ~MayDispatch(m)
         THEN {[m |-> m, width |-> 0]}
       ELSE IF inst.op \in F_TRAP /\ m.spec_mode
         THEN {[m |-> Panics(m, "drained and speculative"), width |-> 0]}
       ELSE {[m |-> Dispatched(m, inst, fetched, NPC), width |-> left] :
               NPC \in Outcomes(inst, fetched.PC)}
(* Every turn but the last takes an instruction from the fetch queue.       *)
ruu_dispatch(m) ==
    LET after[k \in 0 .. Len(m.fetch_queue)] ==
          IF k = 0 THEN {[m |-> m, width |-> config.decode_width]}
          ELSE UNION {DispatchOne(x.m, x.width) : x \in after[k - 1]}
    IN {x.m : x \in after[Len(m.fetch_queue)]}

-----------------------------------------------------------------------------
(* ruu_fetch: along the predicted path, until an instruction that is        *)
(* predicted taken (fetch_speed is 1), a miss in the instruction cache or   *)
(* a full queue.                                                          *)

(* What bpred_lookup may say: no branch, its target, or taken without a     *)
(* target (1, where there is no text).                                      *)
Predicted(inst, PC) ==
    {[PC |-> Sequel(PC), taken |-> FALSE]}
      \cup (IF inst.op \in F_CTRL /\ ~config.pred_perfect
              THEN {[PC |-> target, taken |-> TRUE] :
                      target \in inst.targets \cup {BOGUS}}
              ELSE {})

Missed(m) ==
    {[m EXCEPT !.last_miss = m.fetch_pred_PC,
               !.ruu_fetch_issue_delay = @ + lat - 1] :
       lat \in IF m.fetch_pred_PC \in DOMAIN program \ {m.last_miss}
                 THEN config.miss_lats ELSE {}}
Fetched(m, pred_PC) ==
    [m EXCEPT !.fetch_queue = Append(@, [PC |-> m.fetch_pred_PC,
                                         pred_PC |-> pred_PC]),
              !.fetch_pred_PC = pred_PC]

FetchOne(m, goes) ==
    IF ~goes \/ Len(m.fetch_queue) = config.ruu_ifq_size
      THEN {[m |-> m, goes |-> FALSE]}
    ELSE {[m |-> x, goes |-> FALSE] : x \in Missed(m)}
           \cup {[m |-> Fetched(m, p.PC), goes |-> ~p.taken] :
                   p \in Predicted(Inst(m.fetch_pred_PC), m.fetch_pred_PC)}
ruu_fetch(m) ==
    LET after[k \in 0 .. config.decode_width] ==
          IF k = 0 THEN {[m |-> m, goes |-> TRUE]}
          ELSE UNION {FetchOne(x.m, x.goes) : x \in after[k - 1]}
    IN IF m.ruu_fetch_issue_delay = 0
         THEN {x.m : x \in after[config.decode_width]}
       ELSE {[m EXCEPT !.ruu_fetch_issue_delay = @ - 1]}

Sooner(event) == [event EXCEPT !.left = @ - 1]
NextCycle(m) ==
    [m EXCEPT !.event_queue = [e \in DOMAIN @ |-> Sooner(@[e])]]

-----------------------------------------------------------------------------
(* sim_main.                                                                *)

Slots(c) == {<<"RUU", i>> : i \in 0 .. c.RUU_size - 1}
              \cup {<<"LSQ", i>> : i \in 0 .. c.LSQ_size - 1}

Init ==
    /\ workload \in Workloads
    /\ station = [s \in Slots(config) |-> Freed(0)]
    /\ RUU_head = 0 /\ RUU_tail = 0 /\ RUU_num = 0
    /\ LSQ_head = 0 /\ LSQ_tail = 0 /\ LSQ_num = 0
    /\ event_queue = <<>> /\ ready_queue = <<>>
    /\ create_vector = [n \in Names |-> CVLINK_NULL]
    /\ spec_create_vector = [n \in Names |-> CVLINK_NULL]
    /\ use_spec_cv = {}
    /\ spec_mode = FALSE /\ recover_PC = BOGUS
    /\ fetch_queue = <<>> /\ fetch_pred_PC = 1
    /\ ruu_fetch_issue_delay = 0 /\ last_miss = BOGUS
    /\ inst_seq = 0 /\ last_op = NoOp
    /\ busy = [u \in DOMAIN config.units |-> 0]
    /\ stage = "commit" /\ panic = "none" /\ halted = FALSE
    /\ arch_NPC = 1

Machine ==
    [station |-> station,
     RUU_head |-> RUU_head, RUU_tail |-> RUU_tail, RUU_num |-> RUU_num,
     LSQ_head |-> LSQ_head, LSQ_tail |-> LSQ_tail, LSQ_num |-> LSQ_num,
     event_queue |-> event_queue, ready_queue |-> ready_queue,
     create_vector |-> create_vector,
     spec_create_vector |-> spec_create_vector, use_spec_cv |-> use_spec_cv,
     spec_mode |-> spec_mode, recover_PC |-> recover_PC,
     fetch_queue |-> fetch_queue, fetch_pred_PC |-> fetch_pred_PC,
     ruu_fetch_issue_delay |-> ruu_fetch_issue_delay,
     last_miss |-> last_miss, inst_seq |-> inst_seq,
     last_op |-> last_op, busy |-> busy, panic |-> panic, halted |-> halted,
     arch_NPC |-> arch_NPC]
Become(m) ==
    /\ station' = m.station
    /\ RUU_head' = m.RUU_head /\ RUU_tail' = m.RUU_tail /\ RUU_num' = m.RUU_num
    /\ LSQ_head' = m.LSQ_head /\ LSQ_tail' = m.LSQ_tail /\ LSQ_num' = m.LSQ_num
    /\ event_queue' = m.event_queue /\ ready_queue' = m.ready_queue
    /\ create_vector' = m.create_vector
    /\ spec_create_vector' = m.spec_create_vector
    /\ use_spec_cv' = m.use_spec_cv
    /\ spec_mode' = m.spec_mode /\ recover_PC' = m.recover_PC
    /\ fetch_queue' = m.fetch_queue /\ fetch_pred_PC' = m.fetch_pred_PC
    /\ ruu_fetch_issue_delay' = m.ruu_fetch_issue_delay
    /\ last_miss' = m.last_miss
    /\ inst_seq' = m.inst_seq /\ last_op' = m.last_op
    /\ busy' = m.busy /\ panic' = m.panic /\ halted' = m.halted
    /\ arch_NPC' = m.arch_NPC

(* With -bugcompat, instructions issue in the cycle they are dispatched in. *)
Following ==
    CASE stage = "commit"    -> "writeback"
      [] stage = "writeback" ->
             IF config.bugcompat THEN "dispatch" ELSE "refresh"
      [] stage = "refresh"   -> "issue"
      [] stage = "issue"     -> IF config.bugcompat THEN "fetch" ELSE "dispatch"
      [] stage = "dispatch"  -> IF config.bugcompat THEN "refresh" ELSE "fetch"
      [] stage = "fetch"     -> "commit"
Turn(s) ==
    /\ stage = s /\ panic = "none" /\ ~halted
    /\ stage' = Following
    /\ UNCHANGED workload

Commit    == Turn("commit")
               /\ Become(ruu_release_fu(ruu_commit(Checked(Machine))))
Writeback == Turn("writeback") /\ Become(ruu_writeback(Machine))
Refresh   == Turn("refresh") /\ Become(lsq_refresh(Machine))
Issue     == Turn("issue") /\ \E m \in ruu_issue(Machine) : Become(m)
Dispatch  == Turn("dispatch") /\ \E m \in ruu_dispatch(Machine) : Become(m)
Fetch     == Turn("fetch") /\ \E m \in ruu_fetch(Machine) : Become(NextCycle(m))

Next == Commit \/ Writeback \/ Refresh \/ Issue \/ Dispatch \/ Fetch

(* The loop of sim_main always goes on: fairness of the steps of Next, each *)
(* of which is the turn of a stage.                                         *)
Step == Turn(stage)
Spec == Init /\ [][Next]_vars /\ WF_stage(Step)

-----------------------------------------------------------------------------
(* Properties.                                                              *)

Live == {s \in DOMAIN station : station[s].op # "none"}
Creators(name, stations) ==
    {s \in stations : \E i \in 1 .. 2 : station[s].onames[i] = name}
Youngest(stations) ==
    CHOOSE s \in stations : \A t \in stations : station[t].seq <= station[s].seq
Older(s) == {t \in Live : station[t].seq < station[s].seq}

(* An operand is ready exactly when the youngest older instruction in the   *)
(* machine that makes the register, if there is one, has completed: not     *)
(* another maker of the same register, before it, after it or on the wrong  *)
(* path, and not one whose station was used again (sim-outorder.c:2480).    *)
OperandsExact ==
    panic = "none" =>
      \A s \in Live, k \in 1 .. 3 :
        LET makers == IF station[s].in[k] = NA THEN {}
                      ELSE Creators(station[s].in[k], Older(s))
        IN station[s].idep_ready[k] <=>
             makers = {} \/ station[Youngest(makers)].completed

(* The create vector names the youngest maker of a register that has not    *)
(* completed, on the right path whatever the wrong one does, and while the  *)
(* wrong path runs its copy of what was written names that of both          *)
(* (sim-outorder.c:2075, 2359, 2450, 2466).                                 *)
Expected(name, stations) ==
    LET makers == Creators(name, stations)
    IN IF makers = {} \/ station[Youngest(makers)].completed THEN CVLINK_NULL
       ELSE [rs |-> Youngest(makers),
             odep_num |-> CHOOSE i \in 1 .. 2 :
                            station[Youngest(makers)].onames[i] = name]
CreateVectorExact ==
    panic = "none" =>
      /\ \A name \in Names :
           /\ create_vector[name] =
                Expected(name, {s \in Live : ~station[s].spec_mode})
           /\ spec_mode => CREATE_VECTOR(Machine, name) = Expected(name, Live)
      /\ ~spec_mode => use_spec_cv = {}

(* A load is queued only when no older store can change what it reads: the  *)
(* address of each is there, and the data of the last one to its own        *)
(* address, from which the load will get its value (sim-outorder.c:2547).   *)
LoadsSeeStores ==
    panic = "none" =>
      \A s \in Live :
        station[s].op = "load"
          /\ (station[s].queued \/ station[s].issued \/ station[s].completed)
        => LET stores == {t \in Older(s) : station[t].op = "store"}
               same   == {t \in stores : station[t].addr = station[s].addr}
           IN /\ \A t \in stores : station[t].idep_ready[STORE_ADDR_INDEX]
              /\ same # {} => OPERANDS_READY(station[Youngest(same)])

(* Fetch and dispatch keep to the path: the instruction dispatched next is  *)
(* the one that follows the last right-path one, or, in wrong-path mode,    *)
(* the one the recovery will restart from; one branch, not completed yet,   *)
(* will recover, and exactly what is younger is on the wrong path.          *)
OnPath ==
    panic = "none" /\ ~halted =>
      /\ \A i \in DOMAIN fetch_queue :
           fetch_queue[i].pred_PC = IF i = Len(fetch_queue) THEN fetch_pred_PC
                                    ELSE fetch_queue[i + 1].PC
      /\ (IF spec_mode THEN recover_PC
          ELSE IF fetch_queue = <<>> THEN fetch_pred_PC
          ELSE fetch_queue[1].PC) = arch_NPC
      /\ LET recovering == {s \in Live : station[s].recover_inst
                                           /\ ~station[s].completed}
         IN IF spec_mode
              THEN \E s \in recovering :
                     /\ recovering = {s}
                     /\ \A t \in Live : station[t].spec_mode <=>
                                          station[t].seq > station[s].seq
              ELSE recovering = {} /\ \A t \in Live : ~station[t].spec_mode

(* Every program without a loop gets to its exit: none of the checks that   *)
(* the simulator makes on itself stops it first (sim-outorder.c:1994, 2391, *)
(* 2483, 2644, 4535), no operation is left waiting for an operand, a unit,  *)
(* a port or a store that has come or gone, and a trap does not wait for a  *)
(* machine that is never empty (sim-outorder.c:3764).                       *)
Terminates == <>halted
=============================================================================
