-------------------------- MODULE OutOfOrderProofs --------------------------
(***************************************************************************)
(* For every program, every size of the RUU, the LSQ and the fetch queue,   *)
(* every width and every option: fetch and dispatch keep to the path        *)
(* (OnPath), and the checks that the simulator makes on its two rings and   *)
(* on a recovery never fail.                                               *)
(*                                                                         *)
(* A stage makes machines of machines, most of its operations without a     *)
(* change to what these properties are about: such an operation is Calm.    *)
(***************************************************************************)
EXTENDS OutOfOrder, FiniteSetTheorems, TLAPS

(* Induction: a set of numbers that has 0 and the successor of each of its  *)
(* elements has them all.                                                   *)
LEMMA Induction ==
    ASSUME NEW S \in SUBSET Nat, 0 \in S, \A n \in S : n + 1 \in S
    PROVE  S = Nat
<1>1. SUFFICES ASSUME NEW n \in Nat, n \notin S PROVE FALSE
  OBVIOUS
<1> DEFINE B == S \cap (0 .. n)
           R == B \ {0}
           f == [x \in B |-> x + 1]
<1>2. IsFiniteSet(B) /\ Cardinality(B) \in Nat
  <2>1. IsFiniteSet(0 .. n)
    BY FS_Interval
  <2>2. IsFiniteSet(B)
    BY <2>1, FS_Subset
  <2> QED BY <2>2, FS_CardinalityType
<1>3. 0 \in B
  OBVIOUS
<1>4. IsFiniteSet(R) /\ Cardinality(R) = Cardinality(B) - 1
  BY <1>2, <1>3, FS_RemoveElement
<1>5. f \in Injection(B, R)
  <2>1. \A x \in B : x + 1 \in R
    BY <1>1
  <2>2. f \in [B -> R]
    BY <2>1
  <2>3. IsInjective(f)
    BY DEF IsInjective
  <2> QED BY <2>2, <2>3 DEF Injection
<1> HIDE DEF B, R, f
<1>6. Cardinality(B) <= Cardinality(R)
  BY <1>2, <1>4, <1>5, FS_Injection
<1> QED BY <1>2, <1>4, <1>6

-----------------------------------------------------------------------------
(* The fields of a machine and of a station, and updates of them.           *)
MachineFields == DOMAIN Machine
StationFields == DOMAIN Freed(0)

(* Links and events are to stations of the machine.                         *)
IsLink(x) == "rs" \in DOMAIN x /\ x.rs \in Slots(config)
LinkSeq(q) == \E S : q \in Seq(S) /\ \A x \in S : IsLink(x)
IsStation(r) ==
    /\ DOMAIN r = StationFields
    /\ DOMAIN r.odep_list = 1 .. 2
    /\ \A i \in 1 .. 2 : LinkSeq(r.odep_list[i])
IsMachine(m) ==
    /\ DOMAIN m = MachineFields
    /\ DOMAIN m.station = Slots(config)
    /\ \A s \in Slots(config) : IsStation(m.station[s])
    /\ LinkSeq(m.event_queue) /\ LinkSeq(m.ready_queue)

LEMMA MachineFieldsAre ==
    MachineFields =
      {"station", "RUU_head", "RUU_tail", "RUU_num", "LSQ_head", "LSQ_tail",
       "LSQ_num", "event_queue", "ready_queue", "create_vector",
       "spec_create_vector", "use_spec_cv", "spec_mode", "recover_PC",
       "fetch_queue", "fetch_pred_PC", "ruu_fetch_issue_delay", "last_miss",
       "inst_seq", "last_op", "busy", "panic", "halted", "arch_NPC"}
BY DEF MachineFields, Machine

LEMMA StationFieldsAre ==
    StationFields =
      {"op", "ea_comp", "recover_inst", "spec_mode", "addr", "tag", "seq",
       "queued", "issued", "completed", "in", "onames", "odep_list",
       "idep_ready"}
BY DEF StationFields, Freed

LEMMA Least ==
    ASSUME NEW n \in Nat, NEW S \in SUBSET (0 .. n), S # {}
    PROVE  Min(S) \in S
<1> DEFINE Has(k) == (\E x \in S : x <= k)
                       => \E m \in S : \A x \in S : m <= x
           H == {k \in Nat : Has(k)}
<1>1. Has(0)
  OBVIOUS
<1>2. ASSUME NEW k \in H PROVE k + 1 \in H
  <2>1. SUFFICES ASSUME \E x \in S : x <= k + 1
                 PROVE  \E m \in S : \A x \in S : m <= x
    OBVIOUS
  <2>2. CASE \E x \in S : x <= k
    BY <2>2
  <2>3. CASE \A x \in S : x > k
    BY <2>1, <2>3
  <2> QED BY <2>2, <2>3
<1>3. H = Nat
  <2> HIDE DEF Has
  <2>1. 0 \in H
    BY <1>1
  <2> QED BY <2>1, <1>2, Induction
<1>4. \E m \in S : \A x \in S : m <= x
  <2>1. n \in H
    BY <1>3
  <2>2. PICK s \in S : s \in 0 .. n
    OBVIOUS
  <2> QED BY <2>1, <2>2
<1>5. PICK m \in S : \A x \in S : m <= x
  BY <1>4
<1> QED BY <1>5 DEF Min

LEMMA NoLinks == LinkSeq(<<>>)
<1> DEFINE S == {}
<1>1. <<>> \in Seq(S) /\ \A x \in S : IsLink(x)
  OBVIOUS
<1> HIDE DEF S
<1> QED BY <1>1 DEF LinkSeq

LEMMA LinkSeqOps ==
    ASSUME NEW q, LinkSeq(q), NEW x, IsLink(x)
    PROVE  /\ Len(q) \in Nat
           /\ \A i \in 1 .. Len(q) : IsLink(q[i])
           /\ LinkSeq(<<x>> \o q) /\ LinkSeq(<<>>)
           /\ q # <<>> => LinkSeq(Tail(q))
           /\ \A i \in 1 .. Len(q) + 1 : LinkSeq(InsertAt(q, i, x))
<1>1. PICK S : q \in Seq(S) /\ \A y \in S : IsLink(y)
  BY DEF LinkSeq
<1> DEFINE T == S \cup {x}
<1>2. q \in Seq(T) /\ <<x>> \in Seq(T) /\ \A y \in T : IsLink(y)
  BY <1>1
<1> HIDE DEF T
<1>3. <<x>> \o q \in Seq(T) /\ <<>> \in Seq(T) /\ (q # <<>> => Tail(q) \in Seq(T))
  BY <1>2
<1>4. ASSUME NEW i \in 1 .. Len(q) + 1 PROVE InsertAt(q, i, x) \in Seq(T)
  <2>1. SubSeq(q, 1, i - 1) \in Seq(T) /\ SubSeq(q, i, Len(q)) \in Seq(T)
    BY <1>2
  <2>2. SubSeq(q, 1, i - 1) \o <<x>> \in Seq(T)
    BY <1>2, <2>1
  <2> QED BY <2>1, <2>2 DEF InsertAt
<1>5. Len(q) \in Nat /\ \A i \in 1 .. Len(q) : q[i] \in T
  BY <1>2
<1> QED BY <1>2, <1>3, <1>4, <1>5 DEF LinkSeq

(* What OnPath and the rings are about, besides the stations.               *)
PathFields ==
    {"RUU_head", "RUU_tail", "RUU_num", "LSQ_head", "LSQ_tail", "LSQ_num",
     "spec_mode", "recover_PC", "fetch_queue", "fetch_pred_PC", "inst_seq",
     "arch_NPC"}

(* The checks that are shown never to fail.                                 *)
Broken ==
    {"RUU_num < LSQ_num", "RUU out of sync with LSQ",
     "RUU and LSQ out of sync", "empty RUU",
     "RUU head and tail broken", "RUU_head/RUU_tail wedged",
     "LSQ_head/LSQ_tail wedged", "cannot recover unless in speculative mode",
     "mis-predicted load or store?!?!?", "drained and speculative"}
Sane(m) == m.panic \notin Broken

(* A station that stays the same operation, and does not complete unless it *)
(* is a store.                                                              *)
SameOp(q, r) ==
    /\ r.op = q.op /\ r.ea_comp = q.ea_comp /\ r.spec_mode = q.spec_mode
    /\ r.recover_inst = q.recover_inst /\ r.seq = q.seq
    /\ r.completed = q.completed \/ q.op = "store"

Calm(m, r) ==
    /\ IsMachine(r)
    /\ Sane(m) => Sane(r)
    /\ ~Stopped(r) => /\ ~Stopped(m)
                      /\ \A f \in PathFields : r[f] = m[f]
                      /\ \A s \in Slots(config) :
                           SameOp(m.station[s], r.station[s])

LEMMA CalmRefl == \A m : IsMachine(m) => Calm(m, m)
BY DEF Calm, SameOp

LEMMA CalmTrans ==
    ASSUME NEW m, NEW x, NEW r, Calm(m, x), Calm(x, r)
    PROVE  Calm(m, r)
<1>1. IsMachine(r) /\ (Sane(m) => Sane(r))
  BY DEF Calm
<1>2. ASSUME ~Stopped(r)
      PROVE  /\ ~Stopped(m)
             /\ \A f \in PathFields : r[f] = m[f]
             /\ \A s \in Slots(config) : SameOp(m.station[s], r.station[s])
  <2>1. ~Stopped(x) /\ ~Stopped(m)
    BY <1>2 DEF Calm
  <2>2. \A f \in PathFields : r[f] = m[f]
    BY <1>2, <2>1 DEF Calm
  <2>3. ASSUME NEW s \in Slots(config)
        PROVE  SameOp(m.station[s], r.station[s])
    <3>1. SameOp(m.station[s], x.station[s]) /\ SameOp(x.station[s], r.station[s])
      BY <1>2, <2>1 DEF Calm
    <3> QED BY <3>1 DEF SameOp
  <2> QED BY <2>1, <2>2, <2>3
<1> QED BY <1>1, <1>2 DEF Calm

LEMMA PanicCalm ==
    ASSUME NEW m, IsMachine(m), NEW what, what # "none", what \notin Broken
    PROVE  Calm(m, Panics(m, what))
<1> DEFINE r == Panics(m, what)
<1>1. /\ DOMAIN r = MachineFields /\ r.station = m.station /\ r.panic = what
      /\ r.event_queue = m.event_queue /\ r.ready_queue = m.ready_queue
  BY MachineFieldsAre DEF IsMachine, Panics
<1>2. IsMachine(r)
  BY <1>1 DEF IsMachine
<1>3. Stopped(r) /\ Sane(r)
  BY <1>1 DEF Stopped, Sane
<1> QED BY <1>2, <1>3 DEF Calm

(* An update of other fields, and of one station at most.                   *)
LEMMA UpdateCalm ==
    ASSUME NEW m, IsMachine(m), NEW r, DOMAIN r = MachineFields,
           \A f \in PathFields \cup {"panic", "halted"} : r[f] = m[f],
           LinkSeq(r.event_queue), LinkSeq(r.ready_queue),
           NEW s, NEW rec,
           r.station = m.station \/ r.station = [m.station EXCEPT ![s] = rec],
           s \in Slots(config) => IsStation(rec) /\ SameOp(m.station[s], rec)
    PROVE  Calm(m, r)
<1>1. \A t \in Slots(config) :
        r.station[t] = m.station[t] \/ (t = s /\ r.station[t] = rec)
  BY DEF IsMachine
<1>2. DOMAIN r.station = Slots(config)
  BY DEF IsMachine
<1>3. \A t \in Slots(config) : /\ IsStation(r.station[t])
                               /\ SameOp(m.station[t], r.station[t])
  <2>1. \A q : SameOp(q, q)
    BY DEF SameOp
  <2> QED BY <1>1, <2>1 DEF IsMachine
<1>4. r.panic = m.panic /\ r.halted = m.halted
  <2>1. r["panic"] = m["panic"] /\ r["halted"] = m["halted"]
    OBVIOUS
  <2> QED BY <2>1
<1> QED BY <1>2, <1>3, <1>4 DEF Calm, IsMachine, Sane, Stopped

(* The operations on queues, links and create vectors.                      *)
LEMMA EnqueueCalm ==
    ASSUME NEW m, IsMachine(m), NEW s \in Slots(config)
    PROVE  Calm(m, readyq_enqueue(m, s))
<1> DEFINE node  == [rs |-> s, tag |-> m.station[s].tag, seq |-> m.station[s].seq]
           I     == {i \in 1 .. Len(m.ready_queue) :
                       m.ready_queue[i].seq >= m.station[s].seq}
           first == IF in_LSQ(s) \/ m.station[s].op \in F_LONGLAT \cup F_CTRL THEN 1
                    ELSE IF I # {} THEN Min(I) ELSE 0
           queue == Enqueued(m.ready_queue, node, first)
           r     == [m EXCEPT !.station[s].queued = TRUE, !.ready_queue = queue]
           rec   == [m.station[s] EXCEPT !.queued = TRUE]
<1>1. readyq_enqueue(m, s) = IF m.station[s].queued
                               THEN Panics(m, "node is already queued") ELSE r
  BY DEF readyq_enqueue, SelectInSeq
<1>2. Calm(m, Panics(m, "node is already queued"))
  BY PanicCalm DEF Broken
<1>3. LinkSeq(queue)
  <2>1. IsLink(node)
    BY DEF IsLink
  <2>2. LinkSeq(m.ready_queue) /\ Len(m.ready_queue) \in Nat
    BY <2>1, LinkSeqOps DEF IsMachine
  <2>3. I # {} => Min(I) \in 1 .. Len(m.ready_queue)
    <3>1. I \in SUBSET (0 .. Len(m.ready_queue))
      BY <2>2
    <3>2. I # {} => Min(I) \in I
      <4> HIDE DEF I
      <4> QED BY <2>2, <3>1, Least
    <3> QED BY <3>2
  <2> HIDE DEF node, I
  <2>4. (IF first = 0 THEN Len(m.ready_queue) + 1 ELSE first)
          \in 1 .. Len(m.ready_queue) + 1
    BY <2>2, <2>3
  <2> HIDE DEF first
  <2> QED BY <2>1, <2>2, <2>4, LinkSeqOps DEF Enqueued
<1> HIDE DEF node, first, queue
<1>4. /\ DOMAIN r = MachineFields
      /\ \A f \in PathFields \cup {"panic", "halted"} : r[f] = m[f]
      /\ r.station = [m.station EXCEPT ![s] = rec]
      /\ r.event_queue = m.event_queue /\ r.ready_queue = queue
  BY MachineFieldsAre DEF IsMachine, PathFields
<1>5. IsStation(rec) /\ SameOp(m.station[s], rec)
  BY StationFieldsAre DEF IsMachine, IsStation, SameOp
<1> HIDE DEF r, rec
<1>6. LinkSeq(m.event_queue)
  BY DEF IsMachine
<1>7. Calm(m, r)
  BY <1>3, <1>4, <1>5, <1>6, UpdateCalm
<1> QED BY <1>1, <1>2, <1>7

LEMMA EventCalm ==
    ASSUME NEW m, IsMachine(m), NEW s \in Slots(config), NEW lat
    PROVE  Calm(m, eventq_queue_event(m, s, lat))
<1> DEFINE event == [rs |-> s, tag |-> m.station[s].tag, left |-> lat]
           I     == {i \in 1 .. Len(m.event_queue) : m.event_queue[i].left >= lat}
           first == IF I # {} THEN Min(I) ELSE 0
           queue == Enqueued(m.event_queue, event, first)
           r     == [m EXCEPT !.event_queue = queue]
<1>1. \/ eventq_queue_event(m, s, lat) = Panics(m, "event completed")
      \/ eventq_queue_event(m, s, lat) = Panics(m, "event occurred in the past")
      \/ eventq_queue_event(m, s, lat) = r
  BY DEF eventq_queue_event, SelectInSeq
<1>2. /\ Calm(m, Panics(m, "event completed"))
      /\ Calm(m, Panics(m, "event occurred in the past"))
  BY PanicCalm DEF Broken
<1>3. LinkSeq(queue)
  <2>1. IsLink(event)
    BY DEF IsLink
  <2>2. LinkSeq(m.event_queue) /\ Len(m.event_queue) \in Nat
    BY <2>1, LinkSeqOps DEF IsMachine
  <2>3. I # {} => Min(I) \in 1 .. Len(m.event_queue)
    <3>1. I \in SUBSET (0 .. Len(m.event_queue))
      BY <2>2
    <3>2. I # {} => Min(I) \in I
      <4> HIDE DEF I
      <4> QED BY <2>2, <3>1, Least
    <3> QED BY <3>2
  <2> HIDE DEF event, I
  <2>4. (IF first = 0 THEN Len(m.event_queue) + 1 ELSE first)
          \in 1 .. Len(m.event_queue) + 1
    BY <2>2, <2>3
  <2> HIDE DEF first
  <2> QED BY <2>1, <2>2, <2>4, LinkSeqOps DEF Enqueued
<1> HIDE DEF event, first, queue
<1>4. /\ DOMAIN r = MachineFields
      /\ \A f \in PathFields \cup {"panic", "halted"} : r[f] = m[f]
      /\ r.station = m.station
      /\ r.event_queue = queue /\ r.ready_queue = m.ready_queue
  BY MachineFieldsAre DEF IsMachine, PathFields
<1>5. LinkSeq(m.ready_queue) /\ \A t \in Slots(config) :
        IsStation(m.station[t]) /\ SameOp(m.station[t], m.station[t])
  BY DEF IsMachine, SameOp
<1> HIDE DEF r
<1>6. Calm(m, r)
  BY <1>3, <1>4, <1>5, UpdateCalm
<1> QED BY <1>1, <1>2, <1>6

LEMMA SatisfyCalm ==
    ASSUME NEW m, IsMachine(m), NEW link, link.rs \in Slots(config)
    PROVE  Calm(m, Satisfy(m, link))
<1> DEFINE s     == link.rs
           given == [m EXCEPT !.station[s].idep_ready[link.opnum] = TRUE]
           rec   == [m.station[s] EXCEPT !.idep_ready[link.opnum] = TRUE]
           wrong == Panics(m, "output dependence already satisfied")
<1>1. \/ Satisfy(m, link) = m
      \/ Satisfy(m, link) = wrong
      \/ Satisfy(m, link) = readyq_enqueue(given, s)
      \/ Satisfy(m, link) = given
  BY DEF Satisfy
<1>2. Calm(m, m) /\ Calm(m, wrong)
  BY PanicCalm, CalmRefl DEF Broken
<1>3. /\ DOMAIN given = MachineFields
      /\ \A f \in PathFields \cup {"panic", "halted"} : given[f] = m[f]
      /\ given.station = [m.station EXCEPT ![s] = rec]
      /\ given.event_queue = m.event_queue /\ given.ready_queue = m.ready_queue
  BY MachineFieldsAre DEF IsMachine, PathFields
<1>4. /\ IsStation(rec) /\ SameOp(m.station[s], rec)
      /\ LinkSeq(m.event_queue) /\ LinkSeq(m.ready_queue)
  BY StationFieldsAre DEF IsMachine, IsStation, SameOp
<1> HIDE DEF given, rec, wrong
<1>5. Calm(m, given)
  BY <1>3, <1>4, UpdateCalm
<1>6. Calm(m, readyq_enqueue(given, s))
  <2>1. Calm(given, readyq_enqueue(given, s))
    BY <1>5, EnqueueCalm DEF Calm
  <2> QED BY <1>5, <2>1, CalmTrans
<1> QED BY <1>1, <1>2, <1>5, <1>6

LEMMA CreatedCalm ==
    ASSUME NEW m, IsMachine(m), NEW s \in Slots(config), NEW i
    PROVE  Calm(m, [Created(m, s, i) EXCEPT !.station[s].odep_list[i] = <<>>])
<1> DEFINE x   == Created(m, s, i)
           r   == [x EXCEPT !.station[s].odep_list[i] = <<>>]
           rec == [m.station[s] EXCEPT !.odep_list[i] = <<>>]
<1>1. /\ DOMAIN x = MachineFields
      /\ \A f \in PathFields \cup {"panic", "halted"} : x[f] = m[f]
      /\ x.station = m.station
      /\ x.event_queue = m.event_queue /\ x.ready_queue = m.ready_queue
  BY MachineFieldsAre DEF IsMachine, PathFields, Created
<1> HIDE DEF x
<1>2. /\ DOMAIN r = MachineFields
      /\ \A f \in PathFields \cup {"panic", "halted"} : r[f] = m[f]
      /\ r.station = [m.station EXCEPT ![s] = rec]
      /\ r.event_queue = m.event_queue /\ r.ready_queue = m.ready_queue
  BY <1>1, MachineFieldsAre DEF PathFields
<1>3. IsStation(rec) /\ SameOp(m.station[s], rec)
  BY NoLinks, StationFieldsAre DEF IsMachine, IsStation, SameOp
<1> HIDE DEF r, rec
<1>4. LinkSeq(m.event_queue) /\ LinkSeq(m.ready_queue)
  BY DEF IsMachine
<1>5. Calm(m, r)
  BY <1>2, <1>3, <1>4, UpdateCalm
<1> QED BY <1>5 DEF r, x

LEMMA VectorCalm ==
    ASSUME NEW m, IsMachine(m), NEW name, NEW link
    PROVE  Calm(m, SET_CREATE_VECTOR(m, name, link))
<1> DEFINE r == SET_CREATE_VECTOR(m, name, link)
<1>1. /\ DOMAIN r = MachineFields
      /\ \A f \in PathFields \cup {"panic", "halted"} : r[f] = m[f]
      /\ r.station = m.station
      /\ r.event_queue = m.event_queue /\ r.ready_queue = m.ready_queue
  BY MachineFieldsAre DEF IsMachine, PathFields, SET_CREATE_VECTOR
<1>2. /\ LinkSeq(m.event_queue) /\ LinkSeq(m.ready_queue)
      /\ \A t \in Slots(config) :
           IsStation(m.station[t]) /\ SameOp(m.station[t], m.station[t])
  BY DEF IsMachine, SameOp
<1> HIDE DEF r
<1>3. Calm(m, r)
  BY <1>1, <1>2, UpdateCalm
<1> QED BY <1>3 DEF r

LEMMA LinkCalm ==
    ASSUME NEW m, IsMachine(m), NEW s \in Slots(config), NEW k, NEW name
    PROVE  Calm(m, ruu_link_idep(m, s, k, name))
<1> DEFINE creator == IF name = NA THEN CVLINK_NULL ELSE CREATE_VECTOR(m, name)
           c     == creator.rs
           n     == creator.odep_num
           made  == c = NoStation
           rec   == [m.station[s] EXCEPT !.in[k] = name, !.idep_ready[k] = made]
           x     == [m EXCEPT !.station[s] = [@ EXCEPT !.in[k] = name,
                                                       !.idep_ready[k] = made]]
           link  == [rs |-> s, tag |-> m.station[s].tag, opnum |-> k]
           r     == [x EXCEPT !.station[c].odep_list[n] = <<link>> \o @]
           rec2  == [x.station[c] EXCEPT !.odep_list[n] = <<link>> \o @]
<1>1. \/ ruu_link_idep(m, s, k, name) = x
      \/ ruu_link_idep(m, s, k, name) = r
  BY DEF ruu_link_idep
<1> HIDE DEF made, c, n
<1>2. IsLink(link)
  BY DEF IsLink
<1> HIDE DEF link
<1>3. IsStation(rec) /\ SameOp(m.station[s], rec)
  BY StationFieldsAre DEF IsMachine, IsStation, SameOp
<1>4. /\ DOMAIN x = MachineFields
      /\ \A f \in PathFields \cup {"panic", "halted"} : x[f] = m[f]
      /\ x.station = [m.station EXCEPT ![s] = rec]
      /\ x.event_queue = m.event_queue /\ x.ready_queue = m.ready_queue
  BY MachineFieldsAre DEF IsMachine, PathFields
<1>5. LinkSeq(m.event_queue) /\ LinkSeq(m.ready_queue)
  BY DEF IsMachine
<1> HIDE DEF x, rec
<1>6. Calm(m, x)
  BY <1>3, <1>4, <1>5, UpdateCalm
<1>7. IsMachine(x)
  BY <1>6 DEF Calm
<1>8. c \in Slots(config) => IsStation(rec2) /\ SameOp(x.station[c], rec2)
  <2>1. SUFFICES ASSUME c \in Slots(config)
                 PROVE  IsStation(rec2) /\ SameOp(x.station[c], rec2)
    OBVIOUS
  <2>2. IsStation(x.station[c])
    BY <1>7, <2>1 DEF IsMachine
  <2>3. DOMAIN rec2 = StationFields /\ SameOp(x.station[c], rec2)
        /\ rec2.odep_list = [x.station[c].odep_list EXCEPT
                               ![n] = <<link>> \o @]
    BY <2>2, StationFieldsAre DEF IsStation, SameOp
  <2>4. ASSUME NEW i \in 1 .. 2 PROVE LinkSeq(rec2.odep_list[i])
    <3> DEFINE list == x.station[c].odep_list[i]
    <3>1. LinkSeq(list)
      BY <2>2 DEF IsStation
    <3>2. LinkSeq(<<link>> \o list)
      BY <1>2, <3>1, LinkSeqOps
    <3>3. rec2.odep_list[i] = IF i = n THEN <<link>> \o list ELSE list
      BY <2>2, <2>3 DEF IsStation
    <3> QED BY <3>1, <3>2, <3>3
  <2> HIDE DEF rec2
  <2> QED BY <2>2, <2>3, <2>4 DEF IsStation
<1>9. /\ DOMAIN r = MachineFields
      /\ \A f \in PathFields \cup {"panic", "halted"} : r[f] = x[f]
      /\ r.station = [x.station EXCEPT ![c] = rec2]
      /\ r.event_queue = m.event_queue /\ r.ready_queue = m.ready_queue
  BY <1>4, <1>7, MachineFieldsAre DEF IsMachine, PathFields
<1> HIDE DEF r, rec2
<1>10. Calm(x, r)
  BY <1>5, <1>7, <1>8, <1>9, UpdateCalm
<1> QED BY <1>1, <1>6, <1>10, CalmTrans

LEMMA InstallCalm ==
    ASSUME NEW m, IsMachine(m), NEW s \in Slots(config), NEW i, NEW name
    PROVE  Calm(m, ruu_install_odep(m, s, i, name))
<1> DEFINE r    == [m EXCEPT !.station[s].onames[i] = name]
           rec  == [m.station[s] EXCEPT !.onames[i] = name]
           link == [rs |-> s, odep_num |-> i]
<1>1. \/ ruu_install_odep(m, s, i, name) = r
      \/ ruu_install_odep(m, s, i, name) = SET_CREATE_VECTOR(r, name, link)
  BY DEF ruu_install_odep
<1>2. /\ DOMAIN r = MachineFields
      /\ \A f \in PathFields \cup {"panic", "halted"} : r[f] = m[f]
      /\ r.station = [m.station EXCEPT ![s] = rec]
      /\ r.event_queue = m.event_queue /\ r.ready_queue = m.ready_queue
  BY MachineFieldsAre DEF IsMachine, PathFields
<1>3. /\ IsStation(rec) /\ SameOp(m.station[s], rec)
      /\ LinkSeq(m.event_queue) /\ LinkSeq(m.ready_queue)
  BY StationFieldsAre DEF IsMachine, IsStation, SameOp
<1> HIDE DEF r, rec, link
<1>4. Calm(m, r)
  BY <1>2, <1>3, UpdateCalm
<1>5. Calm(r, SET_CREATE_VECTOR(r, name, link))
  BY <1>4, VectorCalm DEF Calm
<1> QED BY <1>1, <1>4, <1>5, CalmTrans

LEMMA LinkedCalm ==
    ASSUME NEW m, IsMachine(m), NEW s \in Slots(config), NEW in, NEW out
    PROVE  Calm(m, Linked(m, s, in, out))
<1> DEFINE a == ruu_link_idep(m, s, 1, in[1])
           b == ruu_link_idep(a, s, 2, in[2])
           c == ruu_link_idep(b, s, 3, in[3])
           d == ruu_install_odep(c, s, 1, out[1])
           e == ruu_install_odep(d, s, 2, out[2])
<1>1. Linked(m, s, in, out) = e
  BY DEF Linked
<1>2. Calm(m, a)
  BY LinkCalm
<1> HIDE DEF a
<1>3. Calm(a, b)
  BY <1>2, LinkCalm DEF Calm
<1> HIDE DEF b
<1>4. Calm(b, c)
  BY <1>3, LinkCalm DEF Calm
<1> HIDE DEF c
<1>5. Calm(c, d)
  BY <1>4, InstallCalm DEF Calm
<1> HIDE DEF d
<1>6. Calm(d, e)
  BY <1>5, InstallCalm DEF Calm
<1> HIDE DEF e
<1> QED BY <1>1, <1>2, <1>3, <1>4, <1>5, <1>6, CalmTrans

LEMMA EnqueueIfReadyCalm ==
    ASSUME NEW m, IsMachine(m), NEW s \in Slots(config)
    PROVE  Calm(m, EnqueueIfReady(m, s))
BY EnqueueCalm, CalmRefl DEF EnqueueIfReady

-----------------------------------------------------------------------------
(* The loops.  The function that a loop defines of its turns exists, so     *)
(* that it is the one that the loop chooses.                                *)
Turned(loop, arg, x, k) ==
    CASE loop = "commit"    -> CommitOne(x)
      [] loop = "squash"    -> SquashOne(x, arg)
      [] loop = "broadcast" -> Satisfy(x, arg[k])
      [] loop = "writeback" -> WritebackOne(x)
      [] loop = "refresh"   -> Scan(x, LSQWindow(arg)[k])
      [] loop = "issue"     ->
             UNION {IssueOne(y.m, arg[k], y.width) : y \in x}
      [] loop = "dispatch"  -> UNION {DispatchOne(y.m, y.width) : y \in x}
      [] loop = "fetch"     -> UNION {FetchOne(y.m, y.goes) : y \in x}

Turns(f, loop, arg, start, n) ==
    f = [k \in 0 .. n |-> IF k = 0 THEN start ELSE Turned(loop, arg, f[k - 1], k)]

LEMMA TurnsExist ==
    ASSUME NEW loop, NEW arg, NEW start, NEW n \in Nat
    PROVE  \E f : Turns(f, loop, arg, start, n)
<1> DEFINE Go(prev, k) == Turned(loop, arg, prev, k)
           Upto(f, k) == f = [j \in 0 .. k |-> IF j = 0 THEN start ELSE Go(f[j - 1], j)]
           Has(k) == \E f : Upto(f, k)
           H == {k \in Nat : Has(k)}
<1> HIDE DEF Go
<1>1. Has(0)
  <2> DEFINE f == [k \in 0 .. 0 |-> start]
  <2>1. Upto(f, 0)
    OBVIOUS
  <2> QED BY <2>1
<1>2. ASSUME NEW k \in H PROVE k + 1 \in H
  <2>1. k \in Nat /\ Has(k)
    OBVIOUS
  <2>2. PICK f : Upto(f, k)
    BY <2>1
  <2> DEFINE g == [j \in 0 .. k + 1 |-> IF j = k + 1 THEN Go(f[k], k + 1) ELSE f[j]]
  <2>3. ASSUME NEW j \in 0 .. k + 1
        PROVE  g[j] = IF j = 0 THEN start ELSE Go(g[j - 1], j)
    <3>1. CASE j = 0
      BY <2>1, <2>2, <3>1
    <3>2. CASE j \in 1 .. k
      <4>1. g[j] = f[j] /\ g[j - 1] = f[j - 1] /\ j \in 0 .. k /\ j # 0
        BY <2>1, <3>2
      <4>2. f[j] = Go(f[j - 1], j)
        BY <2>2, <4>1
      <4> QED BY <4>1, <4>2
    <3>3. CASE j = k + 1
      <4>1. j # 0 /\ j - 1 = k /\ g[j - 1] = f[k]
        BY <2>1, <3>3
      <4> QED BY <3>3, <4>1
    <3> QED BY <2>1, <3>1, <3>2, <3>3
  <2>4. Upto(g, k + 1)
    BY <2>3
  <2> HIDE DEF g, Upto
  <2>5. Has(k + 1)
    BY <2>4
  <2> HIDE DEF Has
  <2> QED BY <2>1, <2>5
<1>3. H = Nat
  <2> HIDE DEF Has
  <2>1. 0 \in H
    BY <1>1
  <2> QED BY <2>1, <1>2, Induction
<1>4. PICK f : Upto(f, n)
  BY <1>3
<1>5. Turns(f, loop, arg, start, n)
  BY <1>4 DEF Turns, Go
<1> QED BY <1>5

(* Each loop, as its definition chooses it.                                 *)
Commits(f, m) ==
    f = [k \in 0 .. config.commit_width |->
           IF k = 0 THEN m ELSE CommitOne(f[k - 1])]
Squashes(f, m, branch) ==
    f = [k \in 0 .. m.RUU_num + 1 |->
           IF k = 0 THEN m ELSE SquashOne(f[k - 1], branch)]
Wakings(f, start, list) ==
    f = [k \in 0 .. Len(list) |->
           IF k = 0 THEN start ELSE Satisfy(f[k - 1], list[k])]
Writebacks(f, m) ==
    f = [k \in 0 .. Len(m.event_queue) |->
           IF k = 0 THEN m ELSE WritebackOne(f[k - 1])]
Scans(f, m) ==
    f = [k \in 0 .. m.LSQ_num |->
           IF k = 0 THEN [m |-> m, unknowns |-> <<>>, stop |-> FALSE]
           ELSE Scan(f[k - 1], LSQWindow(m)[k])]
Issues(f, start, nodes) ==
    f = [k \in 0 .. Len(nodes) |->
           IF k = 0 THEN start
           ELSE UNION {IssueOne(x.m, nodes[k], x.width) : x \in f[k - 1]}]
Dispatches(f, m) ==
    f = [k \in 0 .. Len(m.fetch_queue) |->
           IF k = 0 THEN {[m |-> m, width |-> config.decode_width]}
           ELSE UNION {DispatchOne(x.m, x.width) : x \in f[k - 1]}]
Fetches(f, m) ==
    f = [k \in 0 .. config.decode_width |->
           IF k = 0 THEN {[m |-> m, goes |-> TRUE]}
           ELSE UNION {FetchOne(x.m, x.goes) : x \in f[k - 1]}]

LEMMA CommitsExist ==
    ASSUME NEW m, config.commit_width \in Nat
    PROVE  \E f : Commits(f, m)
<1>1. PICK f : Turns(f, "commit", 0, m, config.commit_width)
  BY TurnsExist
<1>2. \A x, k : Turned("commit", 0, x, k) = CommitOne(x)
  BY DEF Turned
<1>3. Commits(f, m)
  BY <1>1, <1>2 DEF Turns, Commits
<1> QED BY <1>3

LEMMA SquashesExist ==
    ASSUME NEW m, NEW branch, m.RUU_num \in Nat
    PROVE  \E f : Squashes(f, m, branch)
<1>1. PICK f : Turns(f, "squash", branch, m, m.RUU_num + 1)
  BY TurnsExist
<1>2. \A x, k : Turned("squash", branch, x, k) = SquashOne(x, branch)
  BY DEF Turned
<1>3. Squashes(f, m, branch)
  BY <1>1, <1>2 DEF Turns, Squashes
<1> QED BY <1>3

LEMMA WakingsExist ==
    ASSUME NEW start, NEW list, Len(list) \in Nat
    PROVE  \E f : Wakings(f, start, list)
<1>1. PICK f : Turns(f, "broadcast", list, start, Len(list))
  BY TurnsExist
<1>2. \A x, k : Turned("broadcast", list, x, k) = Satisfy(x, list[k])
  BY DEF Turned
<1>3. Wakings(f, start, list)
  BY <1>1, <1>2 DEF Turns, Wakings
<1> QED BY <1>3

LEMMA WritebacksExist ==
    ASSUME NEW m, Len(m.event_queue) \in Nat
    PROVE  \E f : Writebacks(f, m)
<1>1. PICK f : Turns(f, "writeback", 0, m, Len(m.event_queue))
  BY TurnsExist
<1>2. \A x, k : Turned("writeback", 0, x, k) = WritebackOne(x)
  BY DEF Turned
<1>3. Writebacks(f, m)
  BY <1>1, <1>2 DEF Turns, Writebacks
<1> QED BY <1>3

LEMMA ScansExist ==
    ASSUME NEW m, m.LSQ_num \in Nat
    PROVE  \E f : Scans(f, m)
<1> DEFINE start == [m |-> m, unknowns |-> <<>>, stop |-> FALSE]
<1>1. PICK f : Turns(f, "refresh", m, start, m.LSQ_num)
  BY TurnsExist
<1>2. \A x, k : Turned("refresh", m, x, k) = Scan(x, LSQWindow(m)[k])
  BY DEF Turned
<1>3. Scans(f, m)
  BY <1>1, <1>2 DEF Turns, Scans
<1> QED BY <1>3

LEMMA IssuesExist ==
    ASSUME NEW start, NEW nodes, Len(nodes) \in Nat
    PROVE  \E f : Issues(f, start, nodes)
<1>1. PICK f : Turns(f, "issue", nodes, start, Len(nodes))
  BY TurnsExist
<1>2. \A x, k : Turned("issue", nodes, x, k)
                  = UNION {IssueOne(y.m, nodes[k], y.width) : y \in x}
  BY DEF Turned
<1>3. Issues(f, start, nodes)
  BY <1>1, <1>2 DEF Turns, Issues
<1> QED BY <1>3

LEMMA DispatchesExist ==
    ASSUME NEW m, Len(m.fetch_queue) \in Nat
    PROVE  \E f : Dispatches(f, m)
<1> DEFINE start == {[m |-> m, width |-> config.decode_width]}
<1>1. PICK f : Turns(f, "dispatch", 0, start, Len(m.fetch_queue))
  BY TurnsExist
<1>2. \A x, k : Turned("dispatch", 0, x, k)
                  = UNION {DispatchOne(y.m, y.width) : y \in x}
  BY DEF Turned
<1>3. Dispatches(f, m)
  BY <1>1, <1>2 DEF Turns, Dispatches
<1> QED BY <1>3

LEMMA FetchesExist ==
    ASSUME NEW m, config.decode_width \in Nat
    PROVE  \E f : Fetches(f, m)
<1> DEFINE start == {[m |-> m, goes |-> TRUE]}
<1>1. PICK f : Turns(f, "fetch", 0, start, config.decode_width)
  BY TurnsExist
<1>2. \A x, k : Turned("fetch", 0, x, k) = UNION {FetchOne(y.m, y.goes) : y \in x}
  BY DEF Turned
<1>3. Fetches(f, m)
  BY <1>1, <1>2 DEF Turns, Fetches
<1> QED BY <1>3

-----------------------------------------------------------------------------
(* A ring: num stations of a queue from head on are in use, in the order of *)
(* their sequence numbers.  Place is how far a station is behind the head.  *)
Place(head, i, size) == IF i >= head THEN i - head ELSE i - head + size
InUse(st, s) == st[s].op # "none"
Ring(st, q, head, num, tail, size, top) ==
    /\ head \in 0 .. size - 1 /\ num \in 0 .. size
    /\ tail = IF head + num < size THEN head + num ELSE head + num - size
    /\ \A i \in 0 .. size - 1 :
         /\ InUse(st, <<q, i>>) <=> Place(head, i, size) < num
         /\ InUse(st, <<q, i>>) => st[<<q, i>>].seq \in 1 .. top
    /\ \A i, j \in 0 .. size - 1 :
         InUse(st, <<q, i>>) /\ InUse(st, <<q, j>>)
           /\ Place(head, i, size) < Place(head, j, size)
         => st[<<q, i>>].seq < st[<<q, j>>].seq
Same(st2, st, s) == st2[s].op = st[s].op /\ st2[s].seq = st[s].seq

LEMMA Modulo ==
    ASSUME NEW n \in Nat \ {0}, NEW x \in 0 .. 2 * n - 1
    PROVE  x % n = IF x < n THEN x ELSE x - n
OBVIOUS

LEMMA RingStays ==
    ASSUME NEW st, NEW st2, NEW q, NEW head, NEW num, NEW tail,
           NEW size \in Nat \ {0}, NEW top \in Nat, NEW top2 \in Nat,
           Ring(st, q, head, num, tail, size, top), top <= top2,
           \A i \in 0 .. size - 1 : Same(st2, st, <<q, i>>)
    PROVE  Ring(st2, q, head, num, tail, size, top2)
BY DEF Ring, Same, InUse

LEMMA RingDropsHead ==
    ASSUME NEW st, NEW st2, NEW q, NEW head, NEW num, NEW tail,
           NEW size \in Nat \ {0}, NEW top \in Nat,
           Ring(st, q, head, num, tail, size, top), num # 0,
           ~InUse(st2, <<q, head>>),
           \A i \in 0 .. size - 1 : i # head => Same(st2, st, <<q, i>>)
    PROVE  /\ Ring(st2, q, (head + 1) % size, num - 1, tail, size, top)
           /\ InUse(st, <<q, head>>)
           /\ \A i \in 0 .. size - 1 : InUse(st, <<q, i>>) /\ i # head
                => st[<<q, head>>].seq < st[<<q, i>>].seq
<1> DEFINE h == IF head + 1 < size THEN head + 1 ELSE 0
<1>1. head \in 0 .. size - 1 /\ num \in 1 .. size
  BY DEF Ring
<1>2. (head + 1) % size = h /\ h \in 0 .. size - 1
  BY <1>1, Modulo
<1>3. \A i \in 0 .. size - 1 :
        /\ i # head => Place(h, i, size) = Place(head, i, size) - 1
        /\ i = head => Place(h, i, size) = size - 1 /\ Place(head, i, size) = 0
        /\ i # head => Place(head, i, size) \in 1 .. size - 1
  BY <1>1 DEF Place
<1>4. tail = IF h + (num - 1) < size THEN h + (num - 1) ELSE h + (num - 1) - size
  BY <1>1 DEF Ring
<1>5. \A i \in 0 .. size - 1 :
        /\ InUse(st2, <<q, i>>) <=> Place(h, i, size) < num - 1
        /\ InUse(st2, <<q, i>>) => st2[<<q, i>>].seq \in 1 .. top
  BY <1>1, <1>3 DEF Ring, InUse, Same
<1>6. ASSUME NEW i \in 0 .. size - 1, NEW j \in 0 .. size - 1,
             InUse(st2, <<q, i>>), InUse(st2, <<q, j>>),
             Place(h, i, size) < Place(h, j, size)
      PROVE  st2[<<q, i>>].seq < st2[<<q, j>>].seq
  <2>1. i # head /\ j # head
    BY <1>6
  <2>2. Same(st2, st, <<q, i>>) /\ Same(st2, st, <<q, j>>)
        /\ Place(head, i, size) < Place(head, j, size)
    BY <1>3, <1>6, <2>1
  <2> QED BY <1>6, <2>2 DEF Ring, InUse, Same
<1> HIDE DEF h
<1>7. Ring(st2, q, h, num - 1, tail, size, top)
  BY <1>1, <1>2, <1>4, <1>5, <1>6 DEF Ring
<1>8. InUse(st, <<q, head>>)
  BY <1>1, <1>3 DEF Ring
<1>9. \A i \in 0 .. size - 1 : InUse(st, <<q, i>>) /\ i # head
        => st[<<q, head>>].seq < st[<<q, i>>].seq
  BY <1>1, <1>3, <1>8 DEF Ring
<1> QED BY <1>2, <1>7, <1>8, <1>9

LEMMA RingDropsTail ==
    ASSUME NEW st, NEW st2, NEW q, NEW head, NEW num, NEW tail,
           NEW size \in Nat \ {0}, NEW top \in Nat,
           Ring(st, q, head, num, tail, size, top), num # 0,
           NEW k, k = Before(tail, size),
           ~InUse(st2, <<q, k>>),
           \A i \in 0 .. size - 1 : i # k => Same(st2, st, <<q, i>>)
    PROVE  /\ Ring(st2, q, head, num - 1, k, size, top)
           /\ k \in 0 .. size - 1 /\ InUse(st, <<q, k>>)
           /\ \A i \in 0 .. size - 1 : InUse(st, <<q, i>>) /\ i # k
                => st[<<q, i>>].seq < st[<<q, k>>].seq
<1>1. head \in 0 .. size - 1 /\ num \in 1 .. size
      /\ tail = IF head + num < size THEN head + num ELSE head + num - size
  BY DEF Ring
<1>2. k = IF head + num - 1 < size THEN head + num - 1 ELSE head + num - 1 - size
  <2> DEFINE x == tail + size - 1
  <2>1. x \in 0 .. 2 * size - 1
    BY <1>1
  <2>2. k = x % size
    BY DEF Before
  <2>3. x % size = IF x < size THEN x ELSE x - size
    <3> HIDE DEF x
    <3> QED BY <2>1, Modulo
  <2> QED BY <1>1, <2>2, <2>3
<1>3. k \in 0 .. size - 1
  BY <1>1, <1>2
<1>4. \A i \in 0 .. size - 1 : /\ i = k => Place(head, i, size) = num - 1
                               /\ i # k => Place(head, i, size) # num - 1
                               /\ Place(head, i, size) \in Nat
  BY <1>1, <1>2 DEF Place
<1>5. \A i \in 0 .. size - 1 :
        /\ InUse(st2, <<q, i>>) <=> Place(head, i, size) < num - 1
        /\ InUse(st2, <<q, i>>) => st2[<<q, i>>].seq \in 1 .. top
  BY <1>1, <1>4 DEF Ring, InUse, Same
<1>6. ASSUME NEW i \in 0 .. size - 1, NEW j \in 0 .. size - 1,
             InUse(st2, <<q, i>>), InUse(st2, <<q, j>>),
             Place(head, i, size) < Place(head, j, size)
      PROVE  st2[<<q, i>>].seq < st2[<<q, j>>].seq
  <2>1. i # k /\ j # k
    BY <1>6
  <2>2. Same(st2, st, <<q, i>>) /\ Same(st2, st, <<q, j>>)
    BY <2>1
  <2> QED BY <1>6, <2>2 DEF Ring, InUse, Same
<1>7. Ring(st2, q, head, num - 1, k, size, top)
  BY <1>1, <1>2, <1>5, <1>6 DEF Ring
<1>8. InUse(st, <<q, k>>)
  BY <1>1, <1>3, <1>4 DEF Ring
<1>9. \A i \in 0 .. size - 1 : InUse(st, <<q, i>>) /\ i # k
        => st[<<q, i>>].seq < st[<<q, k>>].seq
  BY <1>1, <1>3, <1>4, <1>8 DEF Ring
<1> QED BY <1>3, <1>7, <1>8, <1>9

LEMMA RingGrows ==
    ASSUME NEW st, NEW st2, NEW q, NEW head, NEW num, NEW tail,
           NEW size \in Nat \ {0}, NEW top \in Nat, NEW top2 \in Nat,
           Ring(st, q, head, num, tail, size, top), num < size,
           InUse(st2, <<q, tail>>), st2[<<q, tail>>].seq \in top + 1 .. top2,
           \A i \in 0 .. size - 1 : i # tail => Same(st2, st, <<q, i>>)
    PROVE  /\ Ring(st2, q, head, num + 1, (tail + 1) % size, size, top2)
           /\ tail \in 0 .. size - 1 /\ ~InUse(st, <<q, tail>>)
<1>1. head \in 0 .. size - 1 /\ num \in 0 .. size - 1
      /\ tail = IF head + num < size THEN head + num ELSE head + num - size
  BY DEF Ring
<1>2. tail \in 0 .. size - 1
  BY <1>1
<1>3. (tail + 1) % size = IF head + (num + 1) < size THEN head + (num + 1)
                          ELSE head + (num + 1) - size
  <2> DEFINE x == tail + 1
  <2>1. x \in 0 .. 2 * size - 1
    BY <1>2
  <2>2. x % size = IF x < size THEN x ELSE x - size
    <3> HIDE DEF x
    <3> QED BY <2>1, Modulo
  <2> QED BY <1>1, <2>2
<1>4. \A i \in 0 .. size - 1 : /\ i = tail => Place(head, i, size) = num
                               /\ i # tail => Place(head, i, size) # num
                               /\ Place(head, i, size) \in Nat
  BY <1>1 DEF Place
<1>5. top < top2
  OBVIOUS
<1>6. \A i \in 0 .. size - 1 :
        /\ InUse(st2, <<q, i>>) <=> Place(head, i, size) < num + 1
        /\ InUse(st2, <<q, i>>) => st2[<<q, i>>].seq \in 1 .. top2
  BY <1>1, <1>4, <1>5 DEF Ring, InUse, Same
<1>7. ASSUME NEW i \in 0 .. size - 1, NEW j \in 0 .. size - 1,
             InUse(st2, <<q, i>>), InUse(st2, <<q, j>>),
             Place(head, i, size) < Place(head, j, size)
      PROVE  st2[<<q, i>>].seq < st2[<<q, j>>].seq
  <2>1. i # tail /\ Place(head, i, size) < num
    BY <1>1, <1>4, <1>6, <1>7
  <2>2. Same(st2, st, <<q, i>>) /\ InUse(st, <<q, i>>)
        /\ st[<<q, i>>].seq \in 1 .. top
    BY <2>1 DEF Ring
  <2>3. CASE j = tail
    BY <2>2, <2>3 DEF Same
  <2>4. CASE j # tail
    <3>1. Same(st2, st, <<q, j>>)
      BY <2>4
    <3> QED BY <1>7, <2>2, <3>1 DEF Ring, InUse, Same
  <2> QED BY <2>3, <2>4
<1>8. Ring(st2, q, head, num + 1, (tail + 1) % size, size, top2)
  BY <1>1, <1>3, <1>6, <1>7 DEF Ring
<1>9. ~InUse(st, <<q, tail>>)
  BY <1>1, <1>2, <1>4 DEF Ring
<1> QED BY <1>2, <1>8, <1>9

-----------------------------------------------------------------------------
(* The invariant of a machine, between two turns of any loop.  The address  *)
(* of a load or store and its access are a station of each ring, with       *)
(* numbers that follow each other; a branch that will recover is in the RUU.*)
InRUU(s) == s[1] = "RUU"
Paired(st) ==
    /\ \A s \in Slots(config) :
         /\ st[s].ea_comp => InRUU(s) /\ st[s].op = "agen"
         /\ st[s].recover_inst => InRUU(s) /\ st[s].op \in F_CTRL
    /\ \A s \in Slots(config) : st[s].ea_comp =>
         \E t \in Slots(config) :
           ~InRUU(t) /\ InUse(st, t) /\ st[t].seq = st[s].seq + 1
    /\ \A t \in Slots(config) : ~InRUU(t) /\ InUse(st, t) =>
         \E s \in Slots(config) : st[s].ea_comp /\ st[t].seq = st[s].seq + 1

RUURing(m) == Ring(m.station, "RUU", m.RUU_head, m.RUU_num, m.RUU_tail,
                   config.RUU_size, m.inst_seq)
LSQRing(m) == Ring(m.station, "LSQ", m.LSQ_head, m.LSQ_num, m.LSQ_tail,
                   config.LSQ_size, m.inst_seq)
Rings(m) == m.inst_seq \in Nat /\ RUURing(m) /\ LSQRing(m) /\ Paired(m.station)

(* The parts of OnPath, with what keeps them: an instruction that is no     *)
(* control instruction is predicted to be followed by the next one.         *)
Fetch_Data == [PC : Nat, pred_PC : Nat]
Chained(m) ==
    /\ m.fetch_queue \in Seq(Fetch_Data) /\ m.fetch_pred_PC \in Nat
    /\ \A i \in 1 .. Len(m.fetch_queue) :
         /\ m.fetch_queue[i].pred_PC =
              IF i = Len(m.fetch_queue) THEN m.fetch_pred_PC
              ELSE m.fetch_queue[i + 1].PC
         /\ Inst(m.fetch_queue[i].PC).op \notin F_CTRL =>
              m.fetch_queue[i].pred_PC = Sequel(m.fetch_queue[i].PC)
Expects(m) ==
    /\ m.arch_NPC \in Nat
    /\ m.arch_NPC = IF m.spec_mode THEN m.recover_PC
                    ELSE IF m.fetch_queue = <<>> THEN m.fetch_pred_PC
                    ELSE m.fetch_queue[1].PC
Recovering(st) ==
    {s \in Slots(config) : st[s].recover_inst /\ ~st[s].completed}
Divided(st, s) ==
    \A t \in Slots(config) :
      InUse(st, t) => (st[t].spec_mode <=> st[t].seq > st[s].seq)
Speculates(m) ==
    IF m.spec_mode
      THEN \E s \in Slots(config) :
             Recovering(m.station) = {s} /\ Divided(m.station, s)
      ELSE /\ Recovering(m.station) = {}
           /\ \A t \in Slots(config) :
                InUse(m.station, t) => ~m.station[t].spec_mode
Path(m) == Chained(m) /\ Expects(m) /\ Speculates(m)

Kept(m) == IsMachine(m) /\ Sane(m) /\ (~Stopped(m) => Rings(m) /\ Path(m))

LEMMA Configured ==
    ASSUME workload \in Workloads
    PROVE  /\ config.RUU_size \in Nat \ {0} /\ config.LSQ_size \in Nat \ {0}
           /\ config.decode_width \in Nat /\ config.commit_width \in Nat
           /\ \A i \in 0 .. config.RUU_size - 1 : <<"RUU", i>> \in Slots(config)
           /\ \A i \in 0 .. config.LSQ_size - 1 : <<"LSQ", i>> \in Slots(config)
           /\ \A s \in Slots(config) :
                \/ /\ InRUU(s) /\ s[2] \in 0 .. config.RUU_size - 1
                   /\ s = <<"RUU", s[2]>>
                \/ /\ ~InRUU(s) /\ s[2] \in 0 .. config.LSQ_size - 1
                   /\ s = <<"LSQ", s[2]>>
BY WorkloadAssumption DEF config, Slots, InRUU

LEMMA CalmFields ==
    ASSUME NEW m, NEW r, \A f \in PathFields : r[f] = m[f]
    PROVE  /\ r.RUU_head = m.RUU_head /\ r.RUU_tail = m.RUU_tail
           /\ r.RUU_num = m.RUU_num /\ r.LSQ_head = m.LSQ_head
           /\ r.LSQ_tail = m.LSQ_tail /\ r.LSQ_num = m.LSQ_num
           /\ r.spec_mode = m.spec_mode /\ r.recover_PC = m.recover_PC
           /\ r.fetch_queue = m.fetch_queue /\ r.fetch_pred_PC = m.fetch_pred_PC
           /\ r.inst_seq = m.inst_seq /\ r.arch_NPC = m.arch_NPC
<1>1. {"RUU_head", "RUU_tail", "RUU_num", "LSQ_head", "LSQ_tail", "LSQ_num",
       "spec_mode", "recover_PC", "fetch_queue", "fetch_pred_PC", "inst_seq",
       "arch_NPC"} = PathFields
  BY DEF PathFields
<1> QED BY <1>1

(* Operations that leave the operations alone keep the pairs.               *)
LEMMA PairsStay ==
    ASSUME NEW st, NEW st2, Paired(st),
           \A s \in Slots(config) : SameOp(st[s], st2[s])
    PROVE  Paired(st2) /\ Recovering(st2) = Recovering(st)
<1>1. Paired(st2)
  BY DEF Paired, SameOp, InUse
<1>2. \A s \in Slots(config) : st[s].recover_inst => st[s].op # "store"
  BY DEF Paired, F_CTRL
<1>3. Recovering(st2) = Recovering(st)
  BY <1>2 DEF SameOp, Recovering
<1> QED BY <1>1, <1>3

LEMMA CalmKept ==
    ASSUME workload \in Workloads, NEW m, NEW r, Kept(m), Calm(m, r)
    PROVE  Kept(r)
<1>1. IsMachine(r) /\ Sane(r)
  BY DEF Kept, Calm
<1>2. SUFFICES ASSUME ~Stopped(r) PROVE Rings(r) /\ Path(r)
  BY <1>1 DEF Kept
<1>3. /\ ~Stopped(m) /\ Rings(m) /\ Path(m)
      /\ \A f \in PathFields : r[f] = m[f]
      /\ \A s \in Slots(config) : SameOp(m.station[s], r.station[s])
  BY <1>2 DEF Kept, Calm
<1>4. /\ r.RUU_head = m.RUU_head /\ r.RUU_tail = m.RUU_tail
      /\ r.RUU_num = m.RUU_num /\ r.LSQ_head = m.LSQ_head
      /\ r.LSQ_tail = m.LSQ_tail /\ r.LSQ_num = m.LSQ_num
      /\ r.spec_mode = m.spec_mode /\ r.recover_PC = m.recover_PC
      /\ r.fetch_queue = m.fetch_queue /\ r.fetch_pred_PC = m.fetch_pred_PC
      /\ r.inst_seq = m.inst_seq /\ r.arch_NPC = m.arch_NPC
  BY <1>3, CalmFields
<1> DEFINE st == m.station
           st2 == r.station
<1>5. \A s \in Slots(config) : SameOp(st[s], st2[s]) /\ Same(st2, st, s)
  BY <1>3 DEF SameOp, Same
<1>6. Paired(st2) /\ Recovering(st2) = Recovering(st)
  <2>1. Paired(st)
    BY <1>3 DEF Rings
  <2> HIDE DEF st, st2
  <2> QED BY <1>5, <2>1, PairsStay
<1>7. Rings(r)
  <2>1. RUURing(r)
    <3>1. \A i \in 0 .. config.RUU_size - 1 : Same(st2, st, <<"RUU", i>>)
      BY <1>5, Configured
    <3>2. Ring(st, "RUU", m.RUU_head, m.RUU_num, m.RUU_tail, config.RUU_size,
               m.inst_seq) /\ m.inst_seq \in Nat /\ m.inst_seq <= m.inst_seq
      BY <1>3 DEF Rings, RUURing
    <3> HIDE DEF st, st2
    <3>3. Ring(st2, "RUU", m.RUU_head, m.RUU_num, m.RUU_tail, config.RUU_size,
               m.inst_seq)
      BY <3>1, <3>2, RingStays, Configured
    <3> QED BY <1>4, <3>3 DEF RUURing, st2
  <2>2. LSQRing(r)
    <3>1. \A i \in 0 .. config.LSQ_size - 1 : Same(st2, st, <<"LSQ", i>>)
      BY <1>5, Configured
    <3>2. Ring(st, "LSQ", m.LSQ_head, m.LSQ_num, m.LSQ_tail, config.LSQ_size,
               m.inst_seq) /\ m.inst_seq \in Nat /\ m.inst_seq <= m.inst_seq
      BY <1>3 DEF Rings, LSQRing
    <3> HIDE DEF st, st2
    <3>3. Ring(st2, "LSQ", m.LSQ_head, m.LSQ_num, m.LSQ_tail, config.LSQ_size,
               m.inst_seq)
      BY <3>1, <3>2, RingStays, Configured
    <3> QED BY <1>4, <3>3 DEF LSQRing, st2
  <2> QED BY <1>3, <1>4, <1>6, <2>1, <2>2 DEF Rings
<1>8. Path(r)
  <2>1. Chained(r) /\ Expects(r)
    BY <1>3, <1>4 DEF Path, Chained, Expects
  <2>2. Speculates(r)
    <3>1. Speculates(m)
      BY <1>3 DEF Path
    <3> QED BY <1>4, <1>5, <1>6, <3>1 DEF Speculates, Divided, SameOp, InUse
  <2> QED BY <2>1, <2>2 DEF Path
<1> QED BY <1>7, <1>8

-----------------------------------------------------------------------------
(* The calm stages.                                                         *)

LEMMA BroadcastCalm ==
    ASSUME NEW m, IsMachine(m), NEW s \in Slots(config), NEW i \in 1 .. 2
    PROVE  Calm(m, Broadcast(m, s, i))
<1> DEFINE list  == m.station[s].odep_list[i]
           start == [Created(m, s, i) EXCEPT !.station[s].odep_list[i] = <<>>]
           f     == CHOOSE f : Wakings(f, start, list)
           r     == Broadcast(m, s, i)
<1>1. r = IF m.station[s].onames[i] = NA THEN m ELSE f[Len(list)]
  BY DEF Broadcast, Wakings
<1>2. Len(list) \in Nat /\ \A k \in 1 .. Len(list) : IsLink(list[k])
  <2>1. LinkSeq(list) /\ IsLink([rs |-> s])
    BY DEF IsMachine, IsStation, IsLink
  <2> QED BY <2>1, LinkSeqOps
<1>3. Calm(m, start)
  BY CreatedCalm
<1> HIDE DEF r, start, list
<1>4. Wakings(f, start, list)
  BY <1>2, WakingsExist
<1> HIDE DEF f
<1> DEFINE n == Len(list)
           H == {k \in Nat : k <= n => Calm(m, f[k])}
<1>5. 0 \in H
  BY <1>2, <1>3, <1>4 DEF Wakings
<1>6. ASSUME NEW k \in H PROVE k + 1 \in H
  <2>1. SUFFICES ASSUME k + 1 <= n PROVE Calm(m, f[k + 1])
    OBVIOUS
  <2>2. Calm(m, f[k]) /\ k + 1 \in 1 .. n
    BY <1>2, <2>1
  <2>3. f[k + 1] = Satisfy(f[k], list[k + 1])
    BY <1>2, <1>4, <2>2 DEF Wakings
  <2>4. list[k + 1].rs \in Slots(config)
    BY <1>2, <2>2 DEF IsLink
  <2>5. Calm(f[k], Satisfy(f[k], list[k + 1]))
    BY <2>2, <2>4, SatisfyCalm DEF Calm
  <2> QED BY <2>2, <2>3, <2>5, CalmTrans
<1>7. H = Nat
  <2> HIDE DEF H
  <2>1. H \in SUBSET Nat
    BY DEF H
  <2> QED BY <1>5, <1>6, <2>1, Induction
<1>8. Calm(m, f[n])
  BY <1>2, <1>7
<1> QED BY <1>1, <1>8, CalmRefl DEF r

(* The LSQ from its head on is made of stations of the LSQ.                 *)
LEMMA WindowSlots ==
    ASSUME workload \in Workloads, NEW m, m.LSQ_num \in Nat,
           m.LSQ_head \in 0 .. config.LSQ_size - 1
    PROVE  \A k \in 1 .. m.LSQ_num : LSQWindow(m)[k] \in Slots(config)
<1> TAKE k \in 1 .. m.LSQ_num
<1> DEFINE i == (m.LSQ_head + k - 1) % config.LSQ_size
<1>1. LSQWindow(m)[k] = <<"LSQ", i>>
  BY DEF LSQWindow
<1>2. i \in 0 .. config.LSQ_size - 1
  BY Configured
<1> HIDE DEF i
<1> QED BY <1>1, <1>2, Configured

LEMMA ScanCalm ==
    ASSUME NEW scan, DOMAIN scan = {"m", "unknowns", "stop"},
           IsMachine(scan.m), NEW s \in Slots(config)
    PROVE  /\ Calm(scan.m, Scan(scan, s).m)
           /\ DOMAIN Scan(scan, s) = {"m", "unknowns", "stop"}
<1>1. Calm(scan.m, scan.m) /\ Calm(scan.m, readyq_enqueue(scan.m, s))
  BY CalmRefl, EnqueueCalm
<1>2. \/ Scan(scan, s) = scan
      \/ Scan(scan, s) = PassStore(scan, scan.m.station[s])
      \/ Scan(scan, s) = [scan EXCEPT !.m = readyq_enqueue(@, s)]
  BY DEF Scan, PassLoad
<1>3. /\ PassStore(scan, scan.m.station[s]).m = scan.m
      /\ DOMAIN PassStore(scan, scan.m.station[s]) = {"m", "unknowns", "stop"}
  BY DEF PassStore
<1>4. /\ [scan EXCEPT !.m = readyq_enqueue(@, s)].m = readyq_enqueue(scan.m, s)
      /\ DOMAIN [scan EXCEPT !.m = readyq_enqueue(@, s)]
           = {"m", "unknowns", "stop"}
  OBVIOUS
<1> QED BY <1>1, <1>2, <1>3, <1>4

LEMMA RefreshCalm ==
    ASSUME workload \in Workloads, NEW m, IsMachine(m), m.LSQ_num \in Nat,
           m.LSQ_head \in 0 .. config.LSQ_size - 1
    PROVE  Calm(m, lsq_refresh(m))
<1> DEFINE n == m.LSQ_num
           f == CHOOSE f : Scans(f, m)
           start == [m |-> m, unknowns |-> <<>>, stop |-> FALSE]
           Good(k) == /\ DOMAIN f[k] = {"m", "unknowns", "stop"}
                      /\ Calm(m, f[k].m)
           H == {k \in Nat : k <= n => Good(k)}
<1>1. lsq_refresh(m) = f[n].m
  BY DEF lsq_refresh, Scans
<1>2. Scans(f, m)
  BY ScansExist
<1> HIDE DEF f
<1>3. 0 \in H
  <2>1. f[0] = start
    BY <1>2 DEF Scans
  <2> QED BY <2>1, CalmRefl
<1>4. ASSUME NEW k \in H PROVE k + 1 \in H
  <2>1. SUFFICES ASSUME k + 1 <= n PROVE Good(k + 1)
    OBVIOUS
  <2>2. Good(k) /\ k + 1 \in 1 .. n
    BY <2>1
  <2> DEFINE s == LSQWindow(m)[k + 1]
  <2>3. f[k + 1] = Scan(f[k], s)
    <3>1. k + 1 \in 0 .. m.LSQ_num /\ k + 1 # 0 /\ (k + 1) - 1 = k
      BY <2>2
    <3> QED BY <1>2, <3>1, Zenon DEF Scans
  <2>4. s \in Slots(config)
    BY <2>2, WindowSlots
  <2> HIDE DEF s
  <2>5. Calm(f[k].m, Scan(f[k], s).m) /\ DOMAIN Scan(f[k], s) = {"m", "unknowns", "stop"}
    BY <2>2, <2>4, ScanCalm DEF Calm
  <2>6. Calm(m, f[k + 1].m)
    BY <2>2, <2>3, <2>5, CalmTrans
  <2> QED BY <2>3, <2>5, <2>6
<1>5. H = Nat
  <2> HIDE DEF H
  <2>1. H \in SUBSET Nat
    BY DEF H
  <2> QED BY <1>3, <1>4, <2>1, Induction
<1>6. Calm(m, f[n].m)
  BY <1>5
<1> QED BY <1>1, <1>6

(* An update that leaves the stations and the queues alone.                 *)
LEMMA AsideCalm ==
    ASSUME NEW m, IsMachine(m), NEW r, DOMAIN r = MachineFields,
           \A f \in PathFields \cup {"panic", "halted"} : r[f] = m[f],
           r.station = m.station,
           r.event_queue = m.event_queue \/ LinkSeq(r.event_queue),
           r.ready_queue = m.ready_queue \/ LinkSeq(r.ready_queue)
    PROVE  Calm(m, r)
<1>1. /\ LinkSeq(m.event_queue) /\ LinkSeq(m.ready_queue)
      /\ \A t \in Slots(config) :
           IsStation(m.station[t]) /\ SameOp(m.station[t], m.station[t])
  BY DEF IsMachine, SameOp
<1> QED BY <1>1, UpdateCalm

LEMMA ReservedCalm ==
    ASSUME NEW m, IsMachine(m), NEW class
    PROVE  Calm(m, Reserved(m, class))
<1> DEFINE u == res_get(m, class)
           r == [m EXCEPT !.busy[u] = issuelat(class)]
<1>1. Reserved(m, class) = r
  BY DEF Reserved
<1> HIDE DEF u
<1>2. /\ DOMAIN r = MachineFields /\ r.station = m.station
      /\ \A f \in PathFields \cup {"panic", "halted"} : r[f] = m[f]
      /\ r.event_queue = m.event_queue /\ r.ready_queue = m.ready_queue
  BY MachineFieldsAre DEF IsMachine, PathFields
<1> HIDE DEF r
<1> QED BY <1>1, <1>2, AsideCalm

LEMMA ReleaseCalm ==
    ASSUME NEW m, IsMachine(m)
    PROVE  Calm(m, ruu_release_fu(m))
<1> DEFINE r == ruu_release_fu(m)
<1>1. /\ DOMAIN r = MachineFields /\ r.station = m.station
      /\ \A f \in PathFields \cup {"panic", "halted"} : r[f] = m[f]
      /\ r.event_queue = m.event_queue /\ r.ready_queue = m.ready_queue
  BY MachineFieldsAre DEF IsMachine, PathFields, ruu_release_fu
<1> HIDE DEF r
<1> QED BY <1>1, AsideCalm DEF r

LEMMA UnqueuedCalm ==
    ASSUME NEW m, IsMachine(m), NEW s \in Slots(config)
    PROVE  Calm(m, Unqueued(m, s)) /\ Unqueued(m, s).station[s].op = m.station[s].op
<1> DEFINE r   == Unqueued(m, s)
           rec == [m.station[s] EXCEPT !.queued = FALSE]
<1>1. /\ DOMAIN r = MachineFields
      /\ \A f \in PathFields \cup {"panic", "halted"} : r[f] = m[f]
      /\ r.station = [m.station EXCEPT ![s] = rec]
      /\ r.event_queue = m.event_queue /\ r.ready_queue = m.ready_queue
  BY MachineFieldsAre DEF IsMachine, PathFields, Unqueued
<1>2. IsStation(rec) /\ SameOp(m.station[s], rec) /\ rec.op = m.station[s].op
  BY StationFieldsAre DEF IsMachine, IsStation, SameOp
<1>3. LinkSeq(m.event_queue) /\ LinkSeq(m.ready_queue)
  BY DEF IsMachine
<1> HIDE DEF r, rec
<1>4. Calm(m, r)
  BY <1>1, <1>2, <1>3, UpdateCalm
<1>5. r.station[s].op = m.station[s].op
  BY <1>1, <1>2 DEF IsMachine
<1> QED BY <1>4, <1>5 DEF r

(* A store is complete when it is issued.                                   *)
LEMMA IssueStoreCalm ==
    ASSUME NEW m, IsMachine(m), NEW s \in Slots(config), m.station[s].op = "store"
    PROVE  Calm(m, IssueStore(m, s))
<1> DEFINE x   == Unqueued(m, s)
           rec == [x.station[s] EXCEPT !.issued = TRUE, !.completed = TRUE]
           r   == [x EXCEPT !.station[s] = [@ EXCEPT !.issued = TRUE,
                                                     !.completed = TRUE]]
<1>1. \/ IssueStore(m, s) = Panics(m, "store creates result")
      \/ IssueStore(m, s) = r
  BY DEF IssueStore
<1>2. Calm(m, Panics(m, "store creates result"))
  BY PanicCalm DEF Broken
<1>3. Calm(m, x) /\ x.station[s].op = "store" /\ IsMachine(x)
  BY UnqueuedCalm DEF Calm
<1> HIDE DEF x
<1>4. /\ DOMAIN r = MachineFields
      /\ \A f \in PathFields \cup {"panic", "halted"} : r[f] = x[f]
      /\ r.station = [x.station EXCEPT ![s] = rec]
      /\ r.event_queue = x.event_queue /\ r.ready_queue = x.ready_queue
  BY <1>3, MachineFieldsAre DEF IsMachine, PathFields
<1>5. IsStation(rec) /\ SameOp(x.station[s], rec)
  BY <1>3, StationFieldsAre DEF IsMachine, IsStation, SameOp
<1>6. LinkSeq(x.event_queue) /\ LinkSeq(x.ready_queue)
  BY <1>3 DEF IsMachine
<1> HIDE DEF r, rec
<1>7. Calm(x, r)
  BY <1>3, <1>4, <1>5, <1>6, UpdateCalm
<1>8. Calm(m, r)
  BY <1>3, <1>7, CalmTrans
<1> QED BY <1>1, <1>2, <1>8

LEMMA StartCalm ==
    ASSUME NEW m, IsMachine(m), NEW s \in Slots(config), NEW r \in Start(m, s)
    PROVE  Calm(m, r)
<1> DEFINE class == MD_OP_FUCLASS(m.station[s].op)
           unit  == IF class = "NA" THEN m ELSE Reserved(m, class)
           x     == Unqueued(unit, s)
           given == [x EXCEPT !.station[s].issued = TRUE]
           rec   == [x.station[s] EXCEPT !.issued = TRUE]
<1>1. PICK lat : r = eventq_queue_event(given, s, lat)
  BY DEF Start
<1>2. Calm(m, unit)
  BY ReservedCalm, CalmRefl
<1> HIDE DEF unit
<1>3. Calm(unit, x) /\ IsMachine(x)
  BY <1>2, UnqueuedCalm DEF Calm
<1> HIDE DEF x
<1>4. /\ DOMAIN given = MachineFields
      /\ \A f \in PathFields \cup {"panic", "halted"} : given[f] = x[f]
      /\ given.station = [x.station EXCEPT ![s] = rec]
      /\ given.event_queue = x.event_queue /\ given.ready_queue = x.ready_queue
  BY <1>3, MachineFieldsAre DEF IsMachine, PathFields
<1>5. IsStation(rec) /\ SameOp(x.station[s], rec)
  BY <1>3, StationFieldsAre DEF IsMachine, IsStation, SameOp
<1>6. LinkSeq(x.event_queue) /\ LinkSeq(x.ready_queue)
  BY <1>3 DEF IsMachine
<1> HIDE DEF given, rec
<1>7. Calm(x, given)
  BY <1>3, <1>4, <1>5, <1>6, UpdateCalm
<1>8. Calm(given, r)
  BY <1>1, <1>7, EventCalm DEF Calm
<1>9. Calm(m, x)
  BY <1>2, <1>3, CalmTrans
<1>10. Calm(m, given)
  BY <1>7, <1>9, CalmTrans
<1> QED BY <1>8, <1>10, CalmTrans

LEMMA RequeuedCalm ==
    ASSUME NEW m, IsMachine(m), NEW s \in Slots(config)
    PROVE  Calm(m, readyq_enqueue(Unqueued(m, s), s))
<1> DEFINE x == Unqueued(m, s)
<1>1. Calm(m, x)
  BY UnqueuedCalm
<1> HIDE DEF x
<1>2. Calm(x, readyq_enqueue(x, s))
  BY <1>1, EnqueueCalm DEF Calm
<1>3. Calm(m, readyq_enqueue(x, s))
  BY <1>1, <1>2, CalmTrans
<1> QED BY <1>3 DEF x

LEMMA IssueOneCalm ==
    ASSUME NEW m, IsMachine(m), NEW node, IsLink(node), NEW width,
           NEW x \in IssueOne(m, node, width)
    PROVE  Calm(m, x.m)
<1> DEFINE s == node.rs
           wrong == Panics(m, "issued inst !ready, issued, or completed")
<1>1. s \in Slots(config)
  BY DEF IsLink
<1>2. \/ x.m = m
      \/ x.m = PutBack(m, node)
      \/ x.m = wrong
      \/ m.station[s].op = "store" /\ x.m = IssueStore(m, s)
      \/ x.m = NoUnit(m, s)
      \/ x.m \in Start(m, s)
  <2>1. \A S, w : \A y \in Issued(S, w) : y.m \in S
    BY DEF Issued
  <2> DEFINE p == PutBack(m, node)
             i == IssueStore(m, s)
             u == NoUnit(m, s)
             S == Start(m, s)
  <2>2. \/ \E w : x \in Issued({m}, w)
        \/ \E w : x \in Issued({p}, w)
        \/ \E w : x \in Issued({wrong}, w)
        \/ m.station[s].op = "store" /\ \E w : x \in Issued({i}, w)
        \/ \E w : x \in Issued({u}, w)
        \/ \E w : x \in Issued(S, w)
    BY DEF IssueOne
  <2> HIDE DEF p, i, u, S, wrong
  <2>3. \/ x.m = m \/ x.m = p \/ x.m = wrong
        \/ (m.station[s].op = "store" /\ x.m = i)
        \/ x.m = u \/ x.m \in S
    BY <2>1, <2>2
  <2> QED BY <2>3 DEF p, i, u, S
<1>3. Calm(m, wrong)
  BY PanicCalm DEF Broken
<1>4. Calm(m, m) /\ Calm(m, PutBack(m, node)) /\ Calm(m, NoUnit(m, s))
  BY <1>1, CalmRefl, RequeuedCalm DEF PutBack, NoUnit
<1>5. m.station[s].op = "store" => Calm(m, IssueStore(m, s))
  BY <1>1, IssueStoreCalm
<1>6. \A r \in Start(m, s) : Calm(m, r)
  BY <1>1, StartCalm
<1> HIDE DEF s, wrong
<1> QED BY <1>2, <1>3, <1>4, <1>5, <1>6

LEMMA IssueCalm ==
    ASSUME NEW m, IsMachine(m), NEW r \in ruu_issue(m)
    PROVE  Calm(m, r)
<1> DEFINE nodes == m.ready_queue
           taken == [m EXCEPT !.ready_queue = <<>>]
           start == Issued({taken}, config.issue_width)
           f == CHOOSE f : Issues(f, start, nodes)
           n == Len(nodes)
           Good(k) == \A x \in f[k] : Calm(m, x.m)
           H == {k \in Nat : k <= n => Good(k)}
<1>1. PICK y \in f[n] : r = y.m
  BY DEF ruu_issue, Issues
<1>2. n \in Nat /\ \A k \in 1 .. n : IsLink(nodes[k])
  <2>1. PICK S : nodes \in Seq(S) /\ \A x \in S : IsLink(x)
    BY DEF IsMachine, LinkSeq
  <2> QED BY <2>1
<1>3. Calm(m, taken)
  <2>1. /\ DOMAIN taken = MachineFields
        /\ \A g \in PathFields \cup {"panic", "halted"} : taken[g] = m[g]
        /\ taken.station = m.station
        /\ taken.event_queue = m.event_queue /\ taken.ready_queue = <<>>
    BY MachineFieldsAre DEF IsMachine, PathFields
  <2> HIDE DEF taken
  <2> QED BY <2>1, NoLinks, AsideCalm
<1>4. Issues(f, start, nodes)
  BY <1>2, IssuesExist
<1>5. \A x \in start : x.m = taken
  BY DEF Issued
<1> HIDE DEF f, start, taken, nodes
<1>6. 0 \in H
  <2>1. f[0] = start
    BY <1>2, <1>4 DEF Issues
  <2> QED BY <1>3, <1>5, <2>1
<1>7. ASSUME NEW k \in H PROVE k + 1 \in H
  <2>1. SUFFICES ASSUME k + 1 <= n PROVE Good(k + 1)
    OBVIOUS
  <2>2. Good(k) /\ k + 1 \in 1 .. n
    BY <1>2, <2>1
  <2>3. f[k + 1] = UNION {IssueOne(x.m, nodes[k + 1], x.width) : x \in f[k]}
    <3>1. k + 1 \in 0 .. n /\ k + 1 # 0 /\ (k + 1) - 1 = k
      BY <1>2, <2>2
    <3> QED BY <1>4, <3>1, Zenon DEF Issues
  <2>4. ASSUME NEW z \in f[k + 1] PROVE Calm(m, z.m)
    <3>1. PICK x \in f[k] : z \in IssueOne(x.m, nodes[k + 1], x.width)
      BY <2>3
    <3>2. Calm(m, x.m) /\ IsLink(nodes[k + 1])
      BY <1>2, <2>2
    <3>3. Calm(x.m, z.m)
      BY <3>1, <3>2, IssueOneCalm DEF Calm
    <3> QED BY <3>2, <3>3, CalmTrans
  <2> QED BY <2>4
<1>8. H = Nat
  <2> HIDE DEF H
  <2>1. H \in SUBSET Nat
    BY DEF H
  <2> QED BY <1>6, <1>7, <2>1, Induction
<1> QED BY <1>1, <1>2, <1>8

LEMMA NextCycleCalm ==
    ASSUME NEW m, IsMachine(m)
    PROVE  Calm(m, NextCycle(m))
<1> DEFINE q == m.event_queue
           r == NextCycle(m)
<1>1. /\ DOMAIN r = MachineFields /\ r.station = m.station
      /\ \A f \in PathFields \cup {"panic", "halted"} : r[f] = m[f]
      /\ r.event_queue = [e \in DOMAIN q |-> Sooner(q[e])]
      /\ r.ready_queue = m.ready_queue
  BY MachineFieldsAre DEF IsMachine, PathFields, NextCycle
<1>2. LinkSeq([e \in DOMAIN q |-> Sooner(q[e])])
  <2>1. PICK S : q \in Seq(S) /\ \A x \in S : IsLink(x)
    BY DEF IsMachine, LinkSeq
  <2> DEFINE T == {Sooner(x) : x \in S}
             p == [e \in DOMAIN q |-> Sooner(q[e])]
  <2> HIDE DEF q
  <2>2. p \in Seq(T)
    BY <2>1
  <2>3. \A x \in S : IsLink(Sooner(x))
    BY <2>1 DEF IsLink, Sooner
  <2> HIDE DEF p
  <2>4. LinkSeq(p)
    BY <2>2, <2>3 DEF LinkSeq
  <2> QED BY <2>4 DEF p
<1> HIDE DEF r, q
<1> QED BY <1>1, <1>2, AsideCalm DEF r

(* The rings are as the checks of sim_main want them.                       *)
(* Each access in the LSQ has its address in the RUU: the LSQ is no fuller.  *)
LEMMA LSQFits ==
    ASSUME workload \in Workloads, NEW m, Rings(m)
    PROVE  m.LSQ_num <= m.RUU_num
<1> DEFINE st == m.station
           R  == config.RUU_size
           L  == config.LSQ_size
           h  == m.RUU_head
           g  == m.LSQ_head
           r  == m.RUU_num
           n  == m.LSQ_num
           At(p) == IF g + p < L THEN g + p ELSE g + p - L
           Pair(p, k) == \E i \in 0 .. R - 1 :
                           /\ InUse(st, <<"RUU", i>>) /\ Place(h, i, R) = k
                           /\ st[<<"LSQ", At(p)>>].seq = st[<<"RUU", i>>].seq + 1
<1>1. /\ Ring(st, "RUU", h, r, m.RUU_tail, R, m.inst_seq)
      /\ Ring(st, "LSQ", g, n, m.LSQ_tail, L, m.inst_seq)
      /\ Paired(st) /\ m.inst_seq \in Nat
      /\ R \in Nat \ {0} /\ L \in Nat \ {0}
  BY Configured DEF Rings, RUURing, LSQRing
<1>2. \A i \in 0 .. L - 1 : <<"LSQ", i>> \in Slots(config) /\ ~InRUU(<<"LSQ", i>>)
  BY Configured DEF InRUU
<1>3. \A s \in Slots(config) : InRUU(s) => \E i \in 0 .. R - 1 : s = <<"RUU", i>>
  BY Configured
<1> HIDE DEF st, R, L, h, g, r, n
<1>4. r \in 0 .. R /\ n \in 0 .. L /\ h \in 0 .. R - 1 /\ g \in 0 .. L - 1
  BY <1>1 DEF Ring
<1>5. \A p \in 0 .. n - 1 : At(p) \in 0 .. L - 1 /\ Place(g, At(p), L) = p
  BY <1>1, <1>4 DEF Place
<1>6. \A p \in 0 .. n - 1 : InUse(st, <<"LSQ", At(p)>>)
                           /\ st[<<"LSQ", At(p)>>].seq \in Nat
  <2> HIDE DEF At
  <2> QED BY <1>1, <1>4, <1>5 DEF Ring
<1> HIDE DEF At
<1>7. \A p \in 0 .. n - 1 : \E k \in 0 .. r - 1 : Pair(p, k)
  <2> TAKE p \in 0 .. n - 1
  <2>1. <<"LSQ", At(p)>> \in Slots(config) /\ ~InRUU(<<"LSQ", At(p)>>)
        /\ InUse(st, <<"LSQ", At(p)>>)
    BY <1>2, <1>5, <1>6
  <2>2. PICK s \in Slots(config) :
          st[s].ea_comp /\ st[<<"LSQ", At(p)>>].seq = st[s].seq + 1
    BY <1>1, <2>1 DEF Paired
  <2>3. InRUU(s) /\ InUse(st, s)
    BY <1>1, <2>2 DEF Paired, InUse
  <2>4. PICK i \in 0 .. R - 1 : s = <<"RUU", i>>
    BY <1>3, <2>3
  <2>5. Place(h, i, R) \in Nat
    BY <1>1, <1>4 DEF Place
  <2>6. Place(h, i, R) < r
    BY <1>1, <2>3, <2>4 DEF Ring
  <2>7. Place(h, i, R) \in 0 .. r - 1
    BY <1>4, <2>5, <2>6
  <2> QED BY <2>2, <2>3, <2>4, <2>7
<1>8. ASSUME NEW p \in 0 .. n - 1, NEW q \in 0 .. n - 1, NEW k \in 0 .. r - 1,
             Pair(p, k), Pair(q, k)
      PROVE  p = q
  <2>1. PICK i \in 0 .. R - 1 :
          /\ Place(h, i, R) = k
          /\ st[<<"LSQ", At(p)>>].seq = st[<<"RUU", i>>].seq + 1
    BY <1>8
  <2>2. PICK j \in 0 .. R - 1 :
          /\ Place(h, j, R) = k
          /\ st[<<"LSQ", At(q)>>].seq = st[<<"RUU", j>>].seq + 1
    BY <1>8
  <2>3. i = j
    BY <1>1, <1>4, <2>1, <2>2 DEF Place
  <2>4. st[<<"LSQ", At(p)>>].seq = st[<<"LSQ", At(q)>>].seq
    BY <2>1, <2>2, <2>3
  <2>5. \A a, b \in 0 .. n - 1 :
          a < b => st[<<"LSQ", At(a)>>].seq < st[<<"LSQ", At(b)>>].seq
    BY <1>1, <1>5, <1>6 DEF Ring
  <2>6. ~(p < q) /\ ~(q < p)
    BY <1>6, <2>4, <2>5
  <2> QED BY <1>4, <2>6
<1> HIDE DEF Pair
<1> DEFINE f == [p \in 0 .. n - 1 |-> CHOOSE k \in 0 .. r - 1 : Pair(p, k)]
<1>9. \A p \in 0 .. n - 1 : f[p] \in 0 .. r - 1 /\ Pair(p, f[p])
  BY <1>7
<1>10. f \in Injection(0 .. n - 1, 0 .. r - 1)
  <2>1. f \in [0 .. n - 1 -> 0 .. r - 1]
    BY <1>9
  <2>2. IsInjective(f)
    <3>1. DOMAIN f = 0 .. n - 1
      OBVIOUS
    <3> HIDE DEF f
    <3> QED BY <1>8, <1>9, <3>1 DEF IsInjective
  <2> QED BY <2>1, <2>2 DEF Injection
<1> HIDE DEF f
<1>11. /\ IsFiniteSet(0 .. r - 1)
       /\ Cardinality(0 .. r - 1) = r /\ Cardinality(0 .. n - 1) = n
  <2>1. \A x \in Nat : /\ IsFiniteSet(0 .. x - 1)
                       /\ Cardinality(0 .. x - 1) = x
    <3> TAKE x \in Nat
    <3>1. 0 \in Int /\ x - 1 \in Int
      OBVIOUS
    <3>2. /\ IsFiniteSet(0 .. x - 1)
          /\ Cardinality(0 .. x - 1) = IF 0 > x - 1 THEN 0 ELSE (x - 1) - 0 + 1
      BY <3>1, FS_Interval
    <3> QED BY <3>2
  <2> QED BY <1>4, <2>1
<1>12. Cardinality(0 .. n - 1) <= Cardinality(0 .. r - 1)
  BY <1>10, <1>11, FS_Injection
<1> QED BY <1>11, <1>12 DEF r, n

LEMMA CheckedCalm ==
    ASSUME workload \in Workloads, NEW m, IsMachine(m), Rings(m)
    PROVE  Calm(m, Checked(m))
<1>1. Calm(m, m) /\ ~(m.RUU_num < m.LSQ_num)
  <2>1. m.RUU_num \in Int /\ m.LSQ_num \in Int
    BY Configured DEF Rings, RUURing, LSQRing, Ring
  <2> QED BY <2>1, CalmRefl, LSQFits
<1>2. (m.RUU_head + m.RUU_num) % config.RUU_size = m.RUU_tail
  <2> DEFINE x == m.RUU_head + m.RUU_num
             n == config.RUU_size
  <2>1. n \in Nat \ {0}
    BY Configured
  <2>2. x \in 0 .. 2 * n - 1 /\ m.RUU_tail = IF x < n THEN x ELSE x - n
    BY <2>1 DEF Rings, RUURing, Ring
  <2> HIDE DEF x, n
  <2>3. x % n = m.RUU_tail
    BY <2>1, <2>2, Modulo
  <2> QED BY <2>3 DEF x, n
<1>3. (m.LSQ_head + m.LSQ_num) % config.LSQ_size = m.LSQ_tail
  <2> DEFINE x == m.LSQ_head + m.LSQ_num
             n == config.LSQ_size
  <2>1. n \in Nat \ {0}
    BY Configured
  <2>2. x \in 0 .. 2 * n - 1 /\ m.LSQ_tail = IF x < n THEN x ELSE x - n
    BY <2>1 DEF Rings, LSQRing, Ring
  <2> HIDE DEF x, n
  <2>3. x % n = m.LSQ_tail
    BY <2>1, <2>2, Modulo
  <2> QED BY <2>3 DEF x, n
<1> QED BY <1>1, <1>2, <1>3 DEF Checked

-----------------------------------------------------------------------------
(* Stations that are freed: at the head by ruu_commit, at the tail by       *)
(* ruu_recover.                                                            *)
Others(m, r, changed) ==
    \A f \in (PathFields \cup {"panic", "halted"}) \ changed : r[f] = m[f]

LEMMA FreedStation == \A tag : IsStation(Freed(tag))
<1> TAKE tag
<1>1. DOMAIN Freed(tag) = StationFields /\ Freed(tag).odep_list = <<<<>>, <<>>>>
  BY StationFieldsAre DEF Freed
<1> QED BY <1>1, NoLinks DEF IsStation

LEMMA FreeMachine ==
    ASSUME NEW m, IsMachine(m), NEW s \in Slots(config)
    PROVE  /\ IsMachine(Free(m, s)) /\ Others(m, Free(m, s), {})
           /\ Free(m, s).station
                = [m.station EXCEPT ![s] = Freed(m.station[s].tag + 1)]
<1> DEFINE r   == Free(m, s)
           rec == Freed(m.station[s].tag + 1)
<1>1. IsStation(rec)
  BY FreedStation
<1> HIDE DEF rec
<1>2. /\ DOMAIN r = MachineFields /\ Others(m, r, {})
      /\ r.station = [m.station EXCEPT ![s] = rec]
      /\ r.event_queue = m.event_queue /\ r.ready_queue = m.ready_queue
  BY MachineFieldsAre DEF IsMachine, PathFields, Others, Free, rec
<1>3. IsMachine(r)
  BY <1>1, <1>2 DEF IsMachine
<1> HIDE DEF r
<1> QED BY <1>2, <1>3 DEF r, rec

LEMMA CommitLSQMachine ==
    ASSUME NEW m, IsMachine(m), LSQHead(m) \in Slots(config)
    PROVE  /\ IsMachine(CommitLSQ(m))
           /\ Others(m, CommitLSQ(m), {"LSQ_head", "LSQ_num"})
           /\ CommitLSQ(m).station = [m.station EXCEPT
                ![LSQHead(m)] = Freed(m.station[LSQHead(m)].tag + 1)]
           /\ CommitLSQ(m).LSQ_head = (m.LSQ_head + 1) % config.LSQ_size
           /\ CommitLSQ(m).LSQ_num = m.LSQ_num - 1
<1> DEFINE l    == LSQHead(m)
           port == IF m.station[l].op = "store" THEN Reserved(m, "WrPort") ELSE m
           x    == Free(port, l)
           r    == [x EXCEPT !.LSQ_head = (@ + 1) % config.LSQ_size,
                             !.LSQ_num = @ - 1]
<1>1. CommitLSQ(m) = r
  BY DEF CommitLSQ
<1>2. IsMachine(port) /\ Others(m, port, {}) /\ port.station = m.station
  <2>1. IsMachine(Reserved(m, "WrPort"))
    BY ReservedCalm DEF Calm
  <2>2. /\ Others(m, Reserved(m, "WrPort"), {})
        /\ Reserved(m, "WrPort").station = m.station
    BY MachineFieldsAre DEF IsMachine, PathFields, Others, Reserved
  <2>3. Others(m, m, {})
    BY DEF Others
  <2> QED BY <2>1, <2>2, <2>3
<1> HIDE DEF port
<1>3. /\ IsMachine(x) /\ Others(port, x, {})
      /\ x.station = [m.station EXCEPT ![l] = Freed(m.station[l].tag + 1)]
  BY <1>2, FreeMachine
<1> HIDE DEF x
<1>4. /\ DOMAIN r = MachineFields /\ r.station = x.station
      /\ r.event_queue = x.event_queue /\ r.ready_queue = x.ready_queue
      /\ Others(x, r, {"LSQ_head", "LSQ_num"})
      /\ r.LSQ_head = (x.LSQ_head + 1) % config.LSQ_size
      /\ r.LSQ_num = x.LSQ_num - 1
  BY <1>3, MachineFieldsAre DEF IsMachine, PathFields, Others
<1> HIDE DEF r
<1>5. IsMachine(r)
  BY <1>3, <1>4 DEF IsMachine
<1>6. Others(m, r, {"LSQ_head", "LSQ_num"})
  BY <1>2, <1>3, <1>4 DEF Others
<1>7. x.LSQ_head = m.LSQ_head /\ x.LSQ_num = m.LSQ_num
  BY <1>2, <1>3 DEF Others, PathFields
<1> QED BY <1>1, <1>3, <1>4, <1>5, <1>6, <1>7

LEMMA CommitRUUMachine ==
    ASSUME NEW m, IsMachine(m), RUUHead(m) \in Slots(config)
    PROVE  \E r : /\ IsMachine(r) /\ Others(m, r, {"RUU_head", "RUU_num"})
                  /\ r.station = [m.station EXCEPT
                       ![RUUHead(m)] = Freed(m.station[RUUHead(m)].tag + 1)]
                  /\ r.RUU_head = (m.RUU_head + 1) % config.RUU_size
                  /\ r.RUU_num = m.RUU_num - 1
                  /\ Calm(r, CommitRUU(m))
<1> DEFINE h == RUUHead(m)
           x == Free(m, h)
           r == [x EXCEPT !.RUU_head = (@ + 1) % config.RUU_size,
                          !.RUU_num = @ - 1]
           wrong == Panics(r, "retired instruction has odeps")
<1>1. CommitRUU(m) = r \/ CommitRUU(m) = wrong
  BY DEF CommitRUU
<1>2. /\ IsMachine(x) /\ Others(m, x, {})
      /\ x.station = [m.station EXCEPT ![h] = Freed(m.station[h].tag + 1)]
  BY FreeMachine
<1> HIDE DEF x
<1>3. /\ DOMAIN r = MachineFields /\ r.station = x.station
      /\ r.event_queue = x.event_queue /\ r.ready_queue = x.ready_queue
      /\ Others(x, r, {"RUU_head", "RUU_num"})
      /\ r.RUU_head = (x.RUU_head + 1) % config.RUU_size
      /\ r.RUU_num = x.RUU_num - 1
  BY <1>2, MachineFieldsAre DEF IsMachine, PathFields, Others
<1> HIDE DEF r
<1>4. IsMachine(r)
  BY <1>2, <1>3 DEF IsMachine
<1>5. Others(m, r, {"RUU_head", "RUU_num"})
  BY <1>2, <1>3 DEF Others
<1>6. x.RUU_head = m.RUU_head /\ x.RUU_num = m.RUU_num
  BY <1>2 DEF Others, PathFields
<1>7. Calm(r, r) /\ Calm(r, wrong)
  BY <1>4, CalmRefl, PanicCalm DEF Broken
<1> QED BY <1>1, <1>2, <1>3, <1>4, <1>5, <1>6, <1>7

(* In a ring no two stations in use have the same number.                   *)
LEMMA Numbered ==
    ASSUME workload \in Workloads, NEW m, Rings(m)
    PROVE  /\ \A s \in Slots(config) :
                InUse(m.station, s) => m.station[s].seq \in 1 .. m.inst_seq
           /\ \A s, t \in Slots(config) :
                InUse(m.station, s) /\ InUse(m.station, t)
                  /\ (InRUU(s) <=> InRUU(t)) /\ s # t
                => m.station[s].seq # m.station[t].seq
<1> DEFINE st == m.station
           top == m.inst_seq
           R == config.RUU_size
           L == config.LSQ_size
<1>1. \A q, head, num, tail, size : size \in Nat \ {0} /\ top \in Nat
         /\ Ring(st, q, head, num, tail, size, top) =>
           \A i, j \in 0 .. size - 1 :
             InUse(st, <<q, i>>) /\ InUse(st, <<q, j>>) /\ i # j =>
               st[<<q, i>>].seq # st[<<q, j>>].seq
  BY DEF Ring, Place
<1>2. /\ Ring(st, "RUU", m.RUU_head, m.RUU_num, m.RUU_tail, R, top)
      /\ Ring(st, "LSQ", m.LSQ_head, m.LSQ_num, m.LSQ_tail, L, top)
      /\ R \in Nat \ {0} /\ L \in Nat \ {0} /\ top \in Nat
  BY Configured DEF Rings, RUURing, LSQRing
<1>3. /\ \A i \in 0 .. R - 1 : InUse(st, <<"RUU", i>>) => st[<<"RUU", i>>].seq \in 1 .. top
      /\ \A i \in 0 .. L - 1 : InUse(st, <<"LSQ", i>>) => st[<<"LSQ", i>>].seq \in 1 .. top
  BY <1>2 DEF Ring
<1>4. /\ \A i, j \in 0 .. R - 1 :
           InUse(st, <<"RUU", i>>) /\ InUse(st, <<"RUU", j>>) /\ i # j =>
             st[<<"RUU", i>>].seq # st[<<"RUU", j>>].seq
      /\ \A i, j \in 0 .. L - 1 :
           InUse(st, <<"LSQ", i>>) /\ InUse(st, <<"LSQ", j>>) /\ i # j =>
             st[<<"LSQ", i>>].seq # st[<<"LSQ", j>>].seq
  BY <1>1, <1>2
<1>5. \A s \in Slots(config) :
        \/ InRUU(s) /\ s[2] \in 0 .. R - 1 /\ s = <<"RUU", s[2]>>
        \/ ~InRUU(s) /\ s[2] \in 0 .. L - 1 /\ s = <<"LSQ", s[2]>>
  BY Configured
<1> HIDE DEF st, top, R, L
<1>6. \A s \in Slots(config) : InUse(st, s) => st[s].seq \in 1 .. top
  <2> TAKE s \in Slots(config)
  <2> DEFINE i == s[2]
  <2>1. \/ i \in 0 .. R - 1 /\ s = <<"RUU", i>>
        \/ i \in 0 .. L - 1 /\ s = <<"LSQ", i>>
    BY <1>5
  <2> HIDE DEF i
  <2> QED BY <1>3, <2>1
<1>7. ASSUME NEW s \in Slots(config), NEW t \in Slots(config), InUse(st, s),
             InUse(st, t), InRUU(s) <=> InRUU(t), s # t
      PROVE  st[s].seq # st[t].seq
  <2> DEFINE i == s[2]
             j == t[2]
  <2>1. \/ /\ i \in 0 .. R - 1 /\ s = <<"RUU", i>>
           /\ j \in 0 .. R - 1 /\ t = <<"RUU", j>>
        \/ /\ i \in 0 .. L - 1 /\ s = <<"LSQ", i>>
           /\ j \in 0 .. L - 1 /\ t = <<"LSQ", j>>
    BY <1>5, <1>7
  <2> HIDE DEF i, j
  <2>2. i # j
    BY <1>7, <2>1
  <2> QED BY <1>4, <1>7, <2>1, <2>2
<1> QED BY <1>6, <1>7 DEF st, top

(* The oldest and the youngest station of a ring are at its ends.           *)
Ends(st, q, head, k, num, size) ==
    /\ num # 0 => /\ head \in 0 .. size - 1 /\ InUse(st, <<q, head>>)
                  /\ k \in 0 .. size - 1 /\ InUse(st, <<q, k>>)
    /\ \A i \in 0 .. size - 1 : InUse(st, <<q, i>>) =>
         /\ num # 0
         /\ i = head \/ st[<<q, head>>].seq < st[<<q, i>>].seq
         /\ i = k \/ st[<<q, i>>].seq < st[<<q, k>>].seq

LEMMA RingEnds ==
    ASSUME NEW st, NEW q, NEW head, NEW num, NEW tail, NEW size \in Nat \ {0},
           NEW top \in Nat, Ring(st, q, head, num, tail, size, top),
           NEW k, k = Before(tail, size)
    PROVE  Ends(st, q, head, k, num, size)
<1>1. head \in 0 .. size - 1 /\ num \in 0 .. size
      /\ tail = IF head + num < size THEN head + num ELSE head + num - size
  BY DEF Ring
<1>2. num # 0 =>
        k = IF head + num - 1 < size THEN head + num - 1 ELSE head + num - 1 - size
  <2> DEFINE x == tail + size - 1
  <2>1. x \in 0 .. 2 * size - 1
    BY <1>1
  <2>2. k = x % size
    BY DEF Before
  <2>3. x % size = IF x < size THEN x ELSE x - size
    <3> HIDE DEF x
    <3> QED BY <2>1, Modulo
  <2> QED BY <1>1, <2>2, <2>3
<1>3. num # 0 => k \in 0 .. size - 1
  BY <1>1, <1>2
<1>4. num # 0 => /\ Place(head, head, size) = 0 /\ Place(head, k, size) = num - 1
                 /\ \A i \in 0 .. size - 1 :
                      /\ i # head => Place(head, i, size) > 0
                      /\ i # k => Place(head, i, size) # num - 1
                      /\ Place(head, i, size) \in Nat
  BY <1>1, <1>2 DEF Place
<1>5. num # 0 => InUse(st, <<q, head>>) /\ InUse(st, <<q, k>>)
  BY <1>1, <1>3, <1>4 DEF Ring
<1>6. ASSUME NEW i \in 0 .. size - 1, InUse(st, <<q, i>>)
      PROVE  /\ num # 0
             /\ i = head \/ st[<<q, head>>].seq < st[<<q, i>>].seq
             /\ i = k \/ st[<<q, i>>].seq < st[<<q, k>>].seq
  <2>1. Place(head, i, size) < num /\ Place(head, i, size) \in Nat
    BY <1>1, <1>6 DEF Ring, Place
  <2>2. num # 0
    BY <2>1
  <2>3. i # head => st[<<q, head>>].seq < st[<<q, i>>].seq
    BY <1>1, <1>4, <1>5, <1>6, <2>2 DEF Ring
  <2>4. i # k => Place(head, i, size) < Place(head, k, size)
    BY <1>1, <1>4, <2>1, <2>2
  <2>5. i # k => st[<<q, i>>].seq < st[<<q, k>>].seq
    BY <1>3, <1>5, <1>6, <2>2, <2>4 DEF Ring
  <2> QED BY <2>2, <2>3, <2>5
<1> QED BY <1>1, <1>3, <1>5, <1>6 DEF Ends

(* A station of the RUU is freed, with its access if it has one.            *)
Dropped(st, st2, h, l) ==
    \A s \in Slots(config) :
      IF s = h \/ (s = l /\ st[h].ea_comp) THEN \E tag : st2[s] = Freed(tag)
      ELSE st2[s] = st[s]

LEMMA FreedIs ==
    \A tag : /\ Freed(tag).op = "none" /\ ~Freed(tag).ea_comp
             /\ ~Freed(tag).recover_inst
BY DEF Freed

LEMMA PairsDrop ==
    ASSUME NEW st, NEW st2, Paired(st), NEW h \in Slots(config), NEW l,
           InRUU(h), InUse(st, h),
           \A s \in Slots(config) : InUse(st, s) => st[s].seq \in Nat,
           \A s, t \in Slots(config) :
             InUse(st, s) /\ InUse(st, t) /\ (InRUU(s) <=> InRUU(t)) /\ s # t
               => st[s].seq # st[t].seq,
           st[h].ea_comp => /\ l \in Slots(config) /\ ~InRUU(l) /\ InUse(st, l)
                            /\ st[l].seq = st[h].seq + 1,
           Dropped(st, st2, h, l)
    PROVE  Paired(st2) /\ Recovering(st2) = Recovering(st) \ {h}
<1> DEFINE Gone(s) == s = h \/ (s = l /\ st[h].ea_comp)
<1>1. \A s \in Slots(config) :
        IF Gone(s) THEN /\ ~InUse(st2, s) /\ ~st2[s].ea_comp
                        /\ ~st2[s].recover_inst
        ELSE st2[s] = st[s]
  BY FreedIs DEF Dropped, InUse
<1>2. \A s \in Slots(config) :
        /\ st[s].ea_comp => InRUU(s) /\ st[s].op = "agen"
        /\ st[s].recover_inst => InRUU(s) /\ st[s].op \in F_CTRL
  BY DEF Paired
<1>3. \A s \in Slots(config) :
        /\ st2[s].ea_comp => InRUU(s) /\ st2[s].op = "agen"
        /\ st2[s].recover_inst => InRUU(s) /\ st2[s].op \in F_CTRL
  BY <1>1, <1>2
<1>4. ASSUME NEW s \in Slots(config), st2[s].ea_comp
      PROVE  \E t \in Slots(config) :
               ~InRUU(t) /\ InUse(st2, t) /\ st2[t].seq = st2[s].seq + 1
  <2>1. s # h /\ st2[s] = st[s] /\ st[s].ea_comp /\ InRUU(s) /\ InUse(st, s)
    BY <1>1, <1>2, <1>4 DEF InUse
  <2>2. PICK t \in Slots(config) :
          ~InRUU(t) /\ InUse(st, t) /\ st[t].seq = st[s].seq + 1
    BY <2>1 DEF Paired
  <2>3. st[s].seq # st[h].seq /\ st[s].seq \in Nat /\ st[h].seq \in Nat
    BY <2>1
  <2>4. ~Gone(t)
    BY <2>2, <2>3
  <2>5. st2[t] = st[t]
    BY <1>1, <2>4
  <2> QED BY <2>1, <2>2, <2>5 DEF InUse
<1>5. ASSUME NEW t \in Slots(config), ~InRUU(t), InUse(st2, t)
      PROVE  \E s \in Slots(config) : st2[s].ea_comp /\ st2[t].seq = st2[s].seq + 1
  <2>1. ~Gone(t) /\ st2[t] = st[t] /\ InUse(st, t)
    BY <1>1, <1>5 DEF InUse
  <2>2. PICK s \in Slots(config) : st[s].ea_comp /\ st[t].seq = st[s].seq + 1
    BY <1>5, <2>1 DEF Paired
  <2>3. s # h
    <3>1. SUFFICES ASSUME s = h PROVE FALSE
      OBVIOUS
    <3>2. l \in Slots(config) /\ l # t /\ ~InRUU(l) /\ InUse(st, l)
          /\ st[l].seq = st[t].seq
      BY <2>1, <2>2, <3>1
    <3> QED BY <1>5, <2>1, <3>2
  <2>4. ~Gone(s)
    BY <1>2, <2>2, <2>3
  <2>5. st2[s] = st[s]
    BY <1>1, <2>4
  <2> QED BY <2>1, <2>2, <2>5
<1>6. Paired(st2)
  <2> HIDE DEF Gone
  <2> QED BY <1>3, <1>4, <1>5 DEF Paired
<1>7. Recovering(st2) = Recovering(st) \ {h}
  <2>1. \A s \in Slots(config) :
          (st2[s].recover_inst /\ ~st2[s].completed)
            <=> (st[s].recover_inst /\ ~st[s].completed /\ s # h)
    BY <1>1, <1>2
  <2> QED BY <2>1 DEF Recovering
<1> QED BY <1>6, <1>7

(* The access that belongs to the address at one end of the RUU is at that  *)
(* end of the LSQ.                                                          *)
LEMMA EndPairs ==
    ASSUME workload \in Workloads, NEW m, Rings(m), NEW h, NEW l,
           \/ h = RUUHead(m) /\ l = LSQHead(m)
           \/ /\ h = <<"RUU", Before(m.RUU_tail, config.RUU_size)>>
              /\ l = <<"LSQ", Before(m.LSQ_tail, config.LSQ_size)>>,
           m.RUU_num # 0
    PROVE  /\ h \in Slots(config) /\ InRUU(h) /\ InUse(m.station, h)
           /\ m.station[h].ea_comp =>
                /\ l \in Slots(config) /\ ~InRUU(l) /\ InUse(m.station, l)
                /\ m.station[l].seq = m.station[h].seq + 1
                /\ m.LSQ_num # 0
<1> DEFINE st == m.station
           R == config.RUU_size
           L == config.LSQ_size
           k == Before(m.RUU_tail, R)
           j == Before(m.LSQ_tail, L)
<1>1. /\ Ring(st, "RUU", m.RUU_head, m.RUU_num, m.RUU_tail, R, m.inst_seq)
      /\ Ring(st, "LSQ", m.LSQ_head, m.LSQ_num, m.LSQ_tail, L, m.inst_seq)
      /\ R \in Nat \ {0} /\ L \in Nat \ {0} /\ m.inst_seq \in Nat /\ Paired(st)
  BY Configured DEF Rings, RUURing, LSQRing
<1>2. /\ \A i \in 0 .. R - 1 : <<"RUU", i>> \in Slots(config)
      /\ \A i \in 0 .. L - 1 : <<"LSQ", i>> \in Slots(config)
      /\ \A s \in Slots(config) :
           \/ InRUU(s) /\ s[2] \in 0 .. R - 1 /\ s = <<"RUU", s[2]>>
           \/ ~InRUU(s) /\ s[2] \in 0 .. L - 1 /\ s = <<"LSQ", s[2]>>
      /\ \A i : InRUU(<<"RUU", i>>) /\ ~InRUU(<<"LSQ", i>>)
  BY Configured DEF InRUU
<1>3. \/ h = <<"RUU", m.RUU_head>> /\ l = <<"LSQ", m.LSQ_head>>
      \/ h = <<"RUU", k>> /\ l = <<"LSQ", j>>
  BY DEF RUUHead, LSQHead
<1>0. k = Before(m.RUU_tail, R) /\ j = Before(m.LSQ_tail, L)
  OBVIOUS
<1> HIDE DEF st, R, L, k, j
<1>4. Ends(st, "RUU", m.RUU_head, k, m.RUU_num, R)
  BY <1>0, <1>1, RingEnds
<1>5. Ends(st, "LSQ", m.LSQ_head, j, m.LSQ_num, L)
  BY <1>0, <1>1, RingEnds
<1>6. h \in Slots(config) /\ InRUU(h) /\ InUse(st, h)
  BY <1>2, <1>3, <1>4 DEF Ends
<1>7. ASSUME st[h].ea_comp
      PROVE  /\ l \in Slots(config) /\ ~InRUU(l) /\ InUse(st, l)
             /\ st[l].seq = st[h].seq + 1 /\ m.LSQ_num # 0
  <2>1. PICK t \in Slots(config) :
          ~InRUU(t) /\ InUse(st, t) /\ st[t].seq = st[h].seq + 1
    BY <1>1, <1>6, <1>7 DEF Paired
  <2>2. PICK i \in 0 .. L - 1 : t = <<"LSQ", i>>
    BY <1>2, <2>1
  <2>3. m.LSQ_num # 0
    BY <1>5, <2>1, <2>2 DEF Ends
  <2>4. l \in Slots(config) /\ ~InRUU(l) /\ InUse(st, l)
    BY <1>2, <1>3, <1>5, <2>3 DEF Ends
  <2>5. PICK s \in Slots(config) : st[s].ea_comp /\ st[l].seq = st[s].seq + 1
    BY <1>1, <2>4 DEF Paired
  <2>6. InRUU(s) /\ InUse(st, s)
    BY <1>1, <2>5 DEF Paired, InUse
  <2>7. PICK n \in 0 .. R - 1 : s = <<"RUU", n>>
    BY <1>2, <2>6
  <2>8. /\ st[h].seq \in Nat /\ st[s].seq \in Nat
    <3>1. workload \in Workloads /\ Rings(m)
      OBVIOUS
    <3> QED BY <1>6, <2>6, <3>1, Numbered DEF st
  <2>9. \/ h = <<"RUU", m.RUU_head>> /\ (s = h \/ st[h].seq < st[s].seq)
           /\ (t = l \/ st[l].seq < st[t].seq)
        \/ h = <<"RUU", k>> /\ (s = h \/ st[s].seq < st[h].seq)
           /\ (t = l \/ st[t].seq < st[l].seq)
    BY <1>3, <1>4, <1>5, <2>1, <2>2, <2>6, <2>7 DEF Ends
  <2> QED BY <2>1, <2>3, <2>4, <2>5, <2>8, <2>9
<1> QED BY <1>6, <1>7 DEF st

(* What is on the path stays so when stations are freed that are none of    *)
(* the branch that will recover.                                            *)
LEMMA DropSpeculates ==
    ASSUME NEW m, NEW r, NEW h, NEW l, Speculates(m), Paired(m.station),
           Dropped(m.station, r.station, h, l), h \notin Recovering(m.station),
           m.station[h].ea_comp => ~InRUU(l),
           Recovering(r.station) = Recovering(m.station) \ {h},
           r.spec_mode = m.spec_mode
    PROVE  Speculates(r)
<1> DEFINE st == m.station
           st2 == r.station
<1>1. \A s \in Slots(config) : ~InUse(st2, s) \/ st2[s] = st[s]
  BY FreedIs DEF Dropped, InUse
<1>2. \A s \in Recovering(st) : s \in Slots(config) /\ st2[s] = st[s]
  BY DEF Recovering, Paired, Dropped
<1>3. Recovering(st2) = Recovering(st)
  OBVIOUS
<1>4. ASSUME NEW s, Recovering(st) = {s}, Divided(st, s)
      PROVE  Divided(st2, s)
  <2>1. st2[s] = st[s]
    BY <1>2, <1>4
  <2> QED BY <1>1, <1>4, <2>1 DEF Divided, InUse
<1> HIDE DEF st, st2
<1>5. CASE m.spec_mode
  <2>1. PICK s \in Slots(config) : Recovering(st) = {s} /\ Divided(st, s)
    BY <1>5 DEF Speculates, st
  <2>2. Recovering(st2) = {s} /\ Divided(st2, s)
    BY <1>3, <1>4, <2>1
  <2> QED BY <1>5, <2>2 DEF Speculates, st2
<1>6. CASE ~m.spec_mode
  <2>1. Recovering(st) = {} /\ \A t \in Slots(config) :
          InUse(st, t) => ~st[t].spec_mode
    BY <1>6 DEF Speculates, st
  <2>2. Recovering(st2) = {} /\ \A t \in Slots(config) :
          InUse(st2, t) => ~st2[t].spec_mode
    BY <1>1, <1>3, <2>1 DEF InUse
  <2> QED BY <1>6, <2>2 DEF Speculates, st2
<1> QED BY <1>5, <1>6

LEMMA CommitOneKept ==
    ASSUME workload \in Workloads, NEW m, Kept(m)
    PROVE  Kept(CommitOne(m))
<1> DEFINE st == m.station
           h == RUUHead(m)
           l == LSQHead(m)
           x == IF st[h].ea_comp THEN CommitLSQ(m) ELSE m
           R == config.RUU_size
           L == config.LSQ_size
<1>1. SUFFICES ASSUME ~Stopped(m), m.RUU_num # 0, MayCommit(m),
                      CommitOne(m) = CommitRUU(x)
               PROVE  Kept(CommitOne(m))
  <2>1. SUFFICES ASSUME ~Stopped(m), m.RUU_num # 0
                 PROVE  CommitOne(m) = m \/ (MayCommit(m) /\ CommitOne(m) = CommitRUU(x))
    BY DEF CommitOne
  <2>2. st[h].ea_comp => m.LSQ_num # 0
    BY <2>1, EndPairs DEF Kept
  <2>3. m.LSQ_num \in Nat
    BY <2>1, Configured DEF Kept, Rings, LSQRing, Ring
  <2>4. ~(st[h].ea_comp /\ m.LSQ_num <= 0)
    BY <2>2, <2>3
  <2> QED BY <2>1, <2>4, Zenon DEF CommitOne
<1>2. IsMachine(m) /\ Rings(m) /\ Path(m) /\ Paired(st) /\ m.inst_seq \in Nat
  BY <1>1 DEF Kept, Rings
<1>3. /\ h \in Slots(config) /\ InRUU(h) /\ InUse(st, h)
      /\ st[h].ea_comp => /\ l \in Slots(config) /\ ~InRUU(l) /\ InUse(st, l)
                          /\ st[l].seq = st[h].seq + 1 /\ m.LSQ_num # 0
  BY <1>1, <1>2, EndPairs
<1>4. st[h].completed
  BY <1>1 DEF MayCommit
<1>5. h = <<"RUU", m.RUU_head>> /\ l = <<"LSQ", m.LSQ_head>>
  BY DEF RUUHead, LSQHead
<1> HIDE DEF h, l
<1>6. /\ IsMachine(x) /\ Others(m, x, {"LSQ_head", "LSQ_num"})
      /\ x.station = IF st[h].ea_comp
                       THEN [st EXCEPT ![l] = Freed(st[l].tag + 1)] ELSE st
      /\ x.LSQ_head = IF st[h].ea_comp THEN (m.LSQ_head + 1) % L ELSE m.LSQ_head
      /\ x.LSQ_num = IF st[h].ea_comp THEN m.LSQ_num - 1 ELSE m.LSQ_num
  <2>1. CASE st[h].ea_comp
    BY <1>2, <1>3, <2>1, CommitLSQMachine DEF l
  <2>2. CASE ~st[h].ea_comp
    BY <1>2, <2>2 DEF Others
  <2> QED BY <2>1, <2>2
<1> HIDE DEF x
<1>7. RUUHead(x) = h /\ x.RUU_head = m.RUU_head /\ x.RUU_num = m.RUU_num
  BY <1>6 DEF RUUHead, Others, PathFields, h
<1>8. PICK r : /\ IsMachine(r) /\ Others(x, r, {"RUU_head", "RUU_num"})
               /\ r.station = [x.station EXCEPT ![h] = Freed(x.station[h].tag + 1)]
               /\ r.RUU_head = (m.RUU_head + 1) % R
               /\ r.RUU_num = m.RUU_num - 1
               /\ Calm(r, CommitRUU(x))
  BY <1>3, <1>6, <1>7, CommitRUUMachine
<1> DEFINE st2 == r.station
<1>9. Dropped(st, st2, h, l)
  <2>1. DOMAIN st = Slots(config) /\ DOMAIN x.station = Slots(config)
    BY <1>2, <1>6 DEF IsMachine
  <2> QED BY <1>3, <1>6, <1>8, <2>1 DEF Dropped
<1>10. /\ r.RUU_tail = m.RUU_tail /\ r.LSQ_tail = m.LSQ_tail
       /\ r.LSQ_head = x.LSQ_head /\ r.LSQ_num = x.LSQ_num
       /\ r.spec_mode = m.spec_mode /\ r.recover_PC = m.recover_PC
       /\ r.fetch_queue = m.fetch_queue /\ r.fetch_pred_PC = m.fetch_pred_PC
       /\ r.inst_seq = m.inst_seq /\ r.arch_NPC = m.arch_NPC
       /\ r.panic = m.panic /\ r.halted = m.halted
  BY <1>6, <1>8 DEF Others, PathFields
<1> HIDE DEF st, st2, R, L
<1>11. Paired(st2) /\ Recovering(st2) = Recovering(st) \ {h}
  <2>1. /\ \A s \in Slots(config) : InUse(st, s) => st[s].seq \in Nat
        /\ \A s, t \in Slots(config) :
             InUse(st, s) /\ InUse(st, t) /\ (InRUU(s) <=> InRUU(t)) /\ s # t
               => st[s].seq # st[t].seq
    BY <1>2, Numbered DEF st
  <2> QED BY <1>2, <1>3, <1>9, <2>1, PairsDrop
<1>12. ~InUse(st2, h) /\ (st[h].ea_comp => ~InUse(st2, l))
  BY <1>3, <1>9, FreedIs DEF Dropped, InUse
<1>13. RUURing(r)
  <2>1. \A i \in 0 .. R - 1 : i # m.RUU_head => Same(st2, st, <<"RUU", i>>)
    <3> TAKE i \in 0 .. R - 1
    <3>1. <<"RUU", i>> \in Slots(config) /\ <<"RUU", i>> # l
      BY <1>5, Configured DEF R
    <3> QED BY <1>5, <1>9, <3>1 DEF Dropped, Same
  <2>2. /\ Ring(st, "RUU", m.RUU_head, m.RUU_num, m.RUU_tail, R, m.inst_seq)
        /\ R \in Nat \ {0}
    BY <1>2, Configured DEF Rings, RUURing, st, R
  <2>3. Ring(st2, "RUU", (m.RUU_head + 1) % R, m.RUU_num - 1, m.RUU_tail, R,
             m.inst_seq)
    BY <1>1, <1>2, <1>5, <1>12, <2>1, <2>2, RingDropsHead
  <2> QED BY <1>8, <1>10, <2>3 DEF RUURing, st2, R
<1>14. LSQRing(r)
  <2>1. \A i \in 0 .. L - 1 : i # m.LSQ_head \/ ~st[h].ea_comp
                                => Same(st2, st, <<"LSQ", i>>)
    <3> TAKE i \in 0 .. L - 1
    <3>1. <<"LSQ", i>> \in Slots(config) /\ <<"LSQ", i>> # h
      BY <1>5, Configured DEF L
    <3> QED BY <1>5, <1>9, <3>1 DEF Dropped, Same
  <2>2. /\ Ring(st, "LSQ", m.LSQ_head, m.LSQ_num, m.LSQ_tail, L, m.inst_seq)
        /\ L \in Nat \ {0}
    BY <1>2, Configured DEF Rings, LSQRing, st, L
  <2>3. CASE st[h].ea_comp
    <3>1. Ring(st2, "LSQ", (m.LSQ_head + 1) % L, m.LSQ_num - 1, m.LSQ_tail, L,
               m.inst_seq)
      BY <1>2, <1>3, <1>5, <1>12, <2>1, <2>2, <2>3, RingDropsHead
    <3> QED BY <1>6, <1>10, <2>3, <3>1 DEF LSQRing, st2, L
  <2>4. CASE ~st[h].ea_comp
    <3>1. m.inst_seq <= m.inst_seq
      BY <1>2
    <3>2. Ring(st2, "LSQ", m.LSQ_head, m.LSQ_num, m.LSQ_tail, L, m.inst_seq)
      BY <1>2, <2>1, <2>2, <2>4, <3>1, RingStays
    <3> QED BY <1>6, <1>10, <2>4, <3>2 DEF LSQRing, st2, L
  <2> QED BY <2>3, <2>4
<1>15. Path(r)
  <2>1. Chained(r) /\ Expects(r)
    BY <1>2, <1>10 DEF Path, Chained, Expects
  <2>2. h \notin Recovering(st)
    BY <1>4 DEF Recovering, st
  <2>3. Speculates(r)
    BY <1>2, <1>3, <1>9, <1>10, <1>11, <2>2, DropSpeculates DEF Path, st, st2
  <2> QED BY <2>1, <2>3 DEF Path
<1>16. Kept(r)
  <2>1. Sane(r)
    BY <1>10 DEF Kept, Sane
  <2>2. Rings(r)
    BY <1>2, <1>10, <1>11, <1>13, <1>14 DEF Rings, st2
  <2> QED BY <1>8, <1>15, <2>1, <2>2 DEF Kept
<1> QED BY <1>1, <1>8, <1>16, CalmKept

LEMMA CommitKept ==
    ASSUME workload \in Workloads, NEW m, Kept(m)
    PROVE  Kept(ruu_commit(m))
<1> DEFINE n == config.commit_width
           f == CHOOSE f : Commits(f, m)
           H == {k \in Nat : k <= n => Kept(f[k])}
<1>1. ruu_commit(m) = f[n]
  BY DEF ruu_commit, Commits
<1>2. n \in Nat
  BY Configured
<1>3. Commits(f, m)
  BY <1>2, CommitsExist
<1> HIDE DEF f
<1>4. 0 \in H
  BY <1>2, <1>3 DEF Commits
<1>5. ASSUME NEW k \in H PROVE k + 1 \in H
  <2>1. SUFFICES ASSUME k + 1 <= n PROVE Kept(f[k + 1])
    OBVIOUS
  <2>2. Kept(f[k]) /\ k + 1 \in 0 .. n /\ k + 1 # 0 /\ (k + 1) - 1 = k
    BY <1>2, <2>1
  <2>3. f[k + 1] = CommitOne(f[k])
    BY <1>3, <2>2, Zenon DEF Commits
  <2> QED BY <2>2, <2>3, CommitOneKept
<1>6. H = Nat
  <2> HIDE DEF H
  <2>1. H \in SUBSET Nat
    BY DEF H
  <2> QED BY <1>4, <1>5, <2>1, Induction
<1> QED BY <1>1, <1>2, <1>6

-----------------------------------------------------------------------------
(* The recovery from a misprediction: everything younger than the branch b  *)
(* goes, from the tail, and the branch is found before the queue is empty.  *)
LEMMA SquashLSQMachine ==
    ASSUME NEW m, IsMachine(m), m.LSQ_num # 0, NEW l,
           l = <<"LSQ", Before(m.LSQ_tail, config.LSQ_size)>>, l \in Slots(config)
    PROVE  /\ IsMachine(SquashLSQ(m))
           /\ Others(m, SquashLSQ(m), {"LSQ_tail", "LSQ_num"})
           /\ SquashLSQ(m).station
                = [m.station EXCEPT ![l] = Freed(m.station[l].tag + 1)]
           /\ SquashLSQ(m).LSQ_tail = Before(m.LSQ_tail, config.LSQ_size)
           /\ SquashLSQ(m).LSQ_num = m.LSQ_num - 1
<1> DEFINE i == Before(m.LSQ_tail, config.LSQ_size)
           x == Free(m, l)
           r == [x EXCEPT !.LSQ_tail = i, !.LSQ_num = @ - 1]
<1>1. SquashLSQ(m) = r
  BY DEF SquashLSQ
<1>2. /\ IsMachine(x) /\ Others(m, x, {})
      /\ x.station = [m.station EXCEPT ![l] = Freed(m.station[l].tag + 1)]
  BY FreeMachine
<1> HIDE DEF x, i
<1>3. /\ DOMAIN r = MachineFields /\ r.station = x.station
      /\ r.event_queue = x.event_queue /\ r.ready_queue = x.ready_queue
      /\ Others(x, r, {"LSQ_tail", "LSQ_num"})
      /\ r.LSQ_tail = i /\ r.LSQ_num = x.LSQ_num - 1
  BY <1>2, MachineFieldsAre DEF IsMachine, PathFields, Others
<1> HIDE DEF r
<1>4. IsMachine(r)
  BY <1>2, <1>3 DEF IsMachine
<1>5. Others(m, r, {"LSQ_tail", "LSQ_num"}) /\ x.LSQ_num = m.LSQ_num
  BY <1>2, <1>3 DEF Others, PathFields
<1> QED BY <1>1, <1>2, <1>3, <1>4, <1>5 DEF i

LEMMA SquashRUUMachine ==
    ASSUME NEW m, IsMachine(m), NEW h,
           h = <<"RUU", Before(m.RUU_tail, config.RUU_size)>>, h \in Slots(config)
    PROVE  /\ IsMachine(SquashRUU(m))
           /\ Others(m, SquashRUU(m), {"RUU_tail", "RUU_num"})
           /\ SquashRUU(m).station
                = [m.station EXCEPT ![h] = Freed(m.station[h].tag + 1)]
           /\ SquashRUU(m).RUU_tail = Before(m.RUU_tail, config.RUU_size)
           /\ SquashRUU(m).RUU_num = m.RUU_num - 1
<1> DEFINE i == Before(m.RUU_tail, config.RUU_size)
           x == Free(m, h)
           r == [x EXCEPT !.RUU_tail = i, !.RUU_num = @ - 1]
<1>1. SquashRUU(m) = r
  BY DEF SquashRUU
<1>2. /\ IsMachine(x) /\ Others(m, x, {})
      /\ x.station = [m.station EXCEPT ![h] = Freed(m.station[h].tag + 1)]
  BY FreeMachine
<1> HIDE DEF x, i
<1>3. /\ DOMAIN r = MachineFields /\ r.station = x.station
      /\ r.event_queue = x.event_queue /\ r.ready_queue = x.ready_queue
      /\ Others(x, r, {"RUU_tail", "RUU_num"})
      /\ r.RUU_tail = i /\ r.RUU_num = x.RUU_num - 1
  BY <1>2, MachineFieldsAre DEF IsMachine, PathFields, Others
<1> HIDE DEF r
<1>4. IsMachine(r)
  BY <1>2, <1>3 DEF IsMachine
<1>5. Others(m, r, {"RUU_tail", "RUU_num"}) /\ x.RUU_num = m.RUU_num
  BY <1>2, <1>3 DEF Others, PathFields
<1> QED BY <1>1, <1>2, <1>3, <1>4, <1>5 DEF i

(* What the loop of ruu_recover keeps.                                      *)
Rewinds(m, x, b) ==
    /\ IsMachine(x) /\ ~Stopped(x) /\ Rings(x)
    /\ Others(m, x, {"RUU_tail", "RUU_num", "LSQ_tail", "LSQ_num"})
    /\ b \in Slots(config) /\ InRUU(b) /\ InUse(x.station, b)
    /\ ~x.station[b].ea_comp
    /\ Recovering(x.station) = {} /\ Divided(x.station, b)
Youngest_RUU(x) == Before(x.RUU_tail, config.RUU_size)

LEMMA SquashOneRewinds ==
    ASSUME workload \in Workloads, NEW m, NEW x, NEW b, Rewinds(m, x, b),
           Youngest_RUU(x) # b[2]
    PROVE  /\ Rewinds(m, SquashOne(x, b[2]), b)
           /\ SquashOne(x, b[2]).RUU_num = x.RUU_num - 1
<1> DEFINE st == x.station
           k == Before(x.RUU_tail, config.RUU_size)
           j == Before(x.LSQ_tail, config.LSQ_size)
           h == <<"RUU", k>>
           l == <<"LSQ", j>>
           y == IF st[h].ea_comp THEN SquashLSQ(x) ELSE x
           r == SquashRUU(y)
           R == config.RUU_size
           L == config.LSQ_size
<1>1. /\ IsMachine(x) /\ Rings(x) /\ Paired(st) /\ x.inst_seq \in Nat
      /\ ~Stopped(x)
  BY DEF Rewinds, Rings
<1>2. b \in Slots(config) /\ InRUU(b) /\ b = <<"RUU", b[2]>>
      /\ b[2] \in 0 .. R - 1 /\ InUse(st, b)
  BY Configured DEF Rewinds
<1>3. /\ Ring(st, "RUU", x.RUU_head, x.RUU_num, x.RUU_tail, R, x.inst_seq)
      /\ R \in Nat \ {0} /\ x.inst_seq \in Nat
  BY <1>1, Configured DEF Rings, RUURing
<1>4. Ends(st, "RUU", x.RUU_head, k, x.RUU_num, R)
  <2> HIDE DEF R
  <2>1. k = Before(x.RUU_tail, R)
    BY DEF R
  <2> HIDE DEF k
  <2> QED BY <1>3, <2>1, RingEnds
<1> HIDE DEF k, j
<1>5. /\ x.RUU_num # 0 /\ k # b[2] /\ k # x.RUU_head
  <2>1. k # b[2]
    BY DEF Youngest_RUU, k
  <2>2. x.RUU_num # 0 /\ st[b].seq < st[h].seq
    BY <1>2, <1>4, <2>1 DEF Ends
  <2>3. b[2] = x.RUU_head \/ st[<<"RUU", x.RUU_head>>].seq < st[b].seq
    BY <1>2, <1>4 DEF Ends
  <2>4. InUse(st, h)
    BY <1>4, <2>2 DEF Ends
  <2>5. k # x.RUU_head
    <3>1. SUFFICES ASSUME k = x.RUU_head, b[2] # k PROVE FALSE
      BY <2>1
    <3>2. st[h].seq < st[b].seq
      BY <2>3, <3>1
    <3>3. st[h].seq \in Nat /\ st[b].seq \in Nat
      <4>1. k \in 0 .. R - 1
        BY <1>4, <2>2 DEF Ends
      <4> QED BY <1>2, <1>3, <2>4, <4>1 DEF Ring
    <3> QED BY <2>2, <3>2, <3>3
  <2> QED BY <2>1, <2>2, <2>5
<1>6. /\ h \in Slots(config) /\ InRUU(h) /\ InUse(st, h)
      /\ st[h].ea_comp => /\ l \in Slots(config) /\ ~InRUU(l) /\ InUse(st, l)
                          /\ st[l].seq = st[h].seq + 1 /\ x.LSQ_num # 0
  BY <1>1, <1>5, EndPairs DEF k, j
<1>7. SquashOne(x, b[2]) = r
  BY <1>1, <1>5, Zenon DEF SquashOne, k
<1>8. /\ IsMachine(y) /\ Others(x, y, {"LSQ_tail", "LSQ_num"})
      /\ y.station = IF st[h].ea_comp
                       THEN [st EXCEPT ![l] = Freed(st[l].tag + 1)] ELSE st
      /\ y.LSQ_tail = IF st[h].ea_comp THEN j ELSE x.LSQ_tail
      /\ y.LSQ_num = IF st[h].ea_comp THEN x.LSQ_num - 1 ELSE x.LSQ_num
  <2>1. CASE st[h].ea_comp
    BY <1>1, <1>6, <2>1, SquashLSQMachine DEF j
  <2>2. CASE ~st[h].ea_comp
    BY <1>1, <2>2 DEF Others
  <2> QED BY <2>1, <2>2
<1> HIDE DEF y
<1>9. y.RUU_tail = x.RUU_tail /\ y.RUU_num = x.RUU_num
  BY <1>8 DEF Others, PathFields
<1>10. /\ IsMachine(r) /\ Others(y, r, {"RUU_tail", "RUU_num"})
       /\ r.station = [y.station EXCEPT ![h] = Freed(y.station[h].tag + 1)]
       /\ r.RUU_tail = k /\ r.RUU_num = x.RUU_num - 1
  BY <1>6, <1>8, <1>9, SquashRUUMachine DEF k
<1> HIDE DEF r
<1> DEFINE st2 == r.station
<1>11. Dropped(st, st2, h, l)
  <2>1. DOMAIN st = Slots(config) /\ DOMAIN y.station = Slots(config)
    BY <1>1, <1>8 DEF IsMachine
  <2> HIDE DEF h, l
  <2> QED BY <1>6, <1>8, <1>10, <2>1 DEF Dropped
<1>12. /\ r.RUU_head = x.RUU_head /\ r.LSQ_head = x.LSQ_head
       /\ r.LSQ_tail = y.LSQ_tail /\ r.LSQ_num = y.LSQ_num
       /\ r.inst_seq = x.inst_seq /\ r.panic = x.panic /\ r.halted = x.halted
  BY <1>8, <1>10 DEF Others, PathFields
<1>13. Others(m, r, {"RUU_tail", "RUU_num", "LSQ_tail", "LSQ_num"})
  BY <1>8, <1>10 DEF Others, Rewinds
<1> HIDE DEF st, st2, R, L
<1>14. Paired(st2) /\ Recovering(st2) = Recovering(st) \ {h}
  <2>1. /\ \A s \in Slots(config) : InUse(st, s) => st[s].seq \in Nat
        /\ \A s, t \in Slots(config) :
             InUse(st, s) /\ InUse(st, t) /\ (InRUU(s) <=> InRUU(t)) /\ s # t
               => st[s].seq # st[t].seq
    BY <1>1, Numbered DEF st
  <2> HIDE DEF h, l
  <2> QED BY <1>1, <1>6, <1>11, <2>1, PairsDrop
<1>15. ~InUse(st2, h) /\ (st[h].ea_comp => ~InUse(st2, l))
  <2> HIDE DEF h, l
  <2> QED BY <1>6, <1>11, FreedIs DEF Dropped, InUse
<1>16. RUURing(r)
  <2>1. \A i \in 0 .. R - 1 : i # k => Same(st2, st, <<"RUU", i>>)
    <3> TAKE i \in 0 .. R - 1
    <3>1. <<"RUU", i>> \in Slots(config) /\ <<"RUU", i>> # l
      BY Configured DEF R
    <3> QED BY <1>11, <3>1 DEF Dropped, Same
  <2>2. k = Before(x.RUU_tail, R) /\ x.RUU_num # 0
    BY <1>5 DEF k, R
  <2>3. Ring(st2, "RUU", x.RUU_head, x.RUU_num - 1, k, R, x.inst_seq)
    BY <1>3, <1>15, <2>1, <2>2, RingDropsTail
  <2> QED BY <1>10, <1>12, <2>3 DEF RUURing, st2, R
<1>17. LSQRing(r)
  <2>1. \A i \in 0 .. L - 1 : i # j \/ ~st[h].ea_comp
                                => Same(st2, st, <<"LSQ", i>>)
    <3> TAKE i \in 0 .. L - 1
    <3>1. <<"LSQ", i>> \in Slots(config) /\ <<"LSQ", i>> # h
      BY Configured DEF L
    <3> QED BY <1>11, <3>1 DEF Dropped, Same
  <2>2. /\ Ring(st, "LSQ", x.LSQ_head, x.LSQ_num, x.LSQ_tail, L, x.inst_seq)
        /\ L \in Nat \ {0} /\ j = Before(x.LSQ_tail, L)
    BY <1>1, Configured DEF Rings, LSQRing, st, L, j
  <2>3. CASE st[h].ea_comp
    <3>1. Ring(st2, "LSQ", x.LSQ_head, x.LSQ_num - 1, j, L, x.inst_seq)
      BY <1>1, <1>6, <1>15, <2>1, <2>2, <2>3, RingDropsTail
    <3> QED BY <1>8, <1>12, <2>3, <3>1 DEF LSQRing, st2, L
  <2>4. CASE ~st[h].ea_comp
    <3>1. x.inst_seq <= x.inst_seq
      BY <1>1
    <3>2. Ring(st2, "LSQ", x.LSQ_head, x.LSQ_num, x.LSQ_tail, L, x.inst_seq)
      BY <1>1, <2>1, <2>2, <2>4, <3>1, RingStays
    <3> QED BY <1>8, <1>12, <2>4, <3>2 DEF LSQRing, st2, L
  <2> QED BY <2>3, <2>4
<1>18. st2[b] = st[b]
  <2>1. b # h /\ (st[h].ea_comp => b # l)
    BY <1>2, <1>5, <1>6
  <2> HIDE DEF h, l
  <2> QED BY <1>2, <1>11, <2>1 DEF Dropped
<1>19. Divided(st2, b) /\ Recovering(st2) = {}
  <2>1. Divided(st, b) /\ Recovering(st) = {}
    BY DEF Rewinds, st
  <2>2. \A t \in Slots(config) : ~InUse(st2, t) \/ st2[t] = st[t]
    BY <1>11, FreedIs DEF Dropped, InUse
  <2>3. Divided(st2, b)
    BY <1>18, <2>1, <2>2 DEF Divided, InUse
  <2> QED BY <1>14, <2>1, <2>3
<1>20. Rings(r) /\ ~Stopped(r)
  BY <1>1, <1>12, <1>14, <1>16, <1>17 DEF Rings, Stopped, st2
<1>21. InUse(st2, b) /\ ~st2[b].ea_comp
  BY <1>2, <1>18 DEF InUse, Rewinds, st
<1>22. Rewinds(m, r, b)
  BY <1>2, <1>10, <1>13, <1>19, <1>20, <1>21 DEF Rewinds, st2
<1> QED BY <1>7, <1>10, <1>22

LEMMA SquashAfterRewinds ==
    ASSUME workload \in Workloads, NEW m, NEW b, Rewinds(m, m, b)
    PROVE  /\ Rewinds(m, SquashAfter(m, b[2]), b)
           /\ Youngest_RUU(SquashAfter(m, b[2])) = b[2]
<1> DEFINE n == m.RUU_num
           f == CHOOSE f : Squashes(f, m, b[2])
           Found(x) == Youngest_RUU(x) = b[2]
           Good(k) == /\ Rewinds(m, f[k], b)
                      /\ Found(f[k]) \/ f[k].RUU_num = n - k
           H == {k \in Nat : k <= n + 1 => Good(k)}
<1>1. SquashAfter(m, b[2]) = f[n + 1]
  BY DEF SquashAfter, Squashes
<1>2. \A x : Rewinds(m, x, b) => x.RUU_num \in Nat /\ ~Stopped(x)
  BY Configured DEF Rewinds, Rings, RUURing, Ring
<1>3. n \in Nat
  BY <1>2
<1>4. Squashes(f, m, b[2])
  BY <1>3, SquashesExist
<1> HIDE DEF f, Found
<1>5. 0 \in H
  <2>1. f[0] = m
    BY <1>3, <1>4 DEF Squashes
  <2> QED BY <1>3, <2>1
<1>6. ASSUME NEW k \in H PROVE k + 1 \in H
  <2>1. SUFFICES ASSUME k + 1 <= n + 1 PROVE Good(k + 1)
    OBVIOUS
  <2>2. Good(k) /\ k + 1 \in 0 .. n + 1 /\ k + 1 # 0 /\ (k + 1) - 1 = k
    BY <1>3, <2>1
  <2>3. f[k + 1] = SquashOne(f[k], b[2])
    BY <1>4, <2>2, Zenon DEF Squashes
  <2>4. CASE Found(f[k])
    <3>1. SquashOne(f[k], b[2]) = f[k]
      BY <2>4 DEF SquashOne, Found, Youngest_RUU
    <3> QED BY <2>2, <2>3, <2>4, <3>1
  <2>5. CASE ~Found(f[k])
    <3>1. /\ Rewinds(m, f[k + 1], b)
          /\ f[k + 1].RUU_num = f[k].RUU_num - 1
      BY <2>2, <2>3, <2>5, SquashOneRewinds DEF Found
    <3>2. f[k].RUU_num = n - k
      BY <2>2, <2>5
    <3> QED BY <1>3, <3>1, <3>2
  <2> QED BY <2>4, <2>5
<1>7. H = Nat
  <2> HIDE DEF H
  <2>1. H \in SUBSET Nat
    BY DEF H
  <2> QED BY <1>5, <1>6, <2>1, Induction
<1>8. Good(n + 1)
  <2>1. n + 1 \in H
    BY <1>3, <1>7
  <2> QED BY <1>3, <2>1
<1>9. Found(f[n + 1])
  BY <1>2, <1>3, <1>8
<1> QED BY <1>1, <1>8, <1>9 DEF Found

(* With the branch the youngest of the RUU, nothing of the wrong path is    *)
(* left, in the LSQ either.                                                 *)
LEMMA NoWrongPathLeft ==
    ASSUME workload \in Workloads, NEW m, NEW x, NEW b, Rewinds(m, x, b),
           Youngest_RUU(x) = b[2]
    PROVE  \A t \in Slots(config) : InUse(x.station, t) => ~x.station[t].spec_mode
<1> DEFINE st == x.station
           R == config.RUU_size
           k == b[2]
<1>1. b \in Slots(config) /\ InRUU(b) /\ b = <<"RUU", k>> /\ InUse(st, b)
      /\ ~st[b].ea_comp
  BY Configured DEF Rewinds
<1>2. /\ Ring(st, "RUU", x.RUU_head, x.RUU_num, x.RUU_tail, R, x.inst_seq)
      /\ R \in Nat \ {0} /\ x.inst_seq \in Nat /\ k = Before(x.RUU_tail, R)
      /\ Paired(st) /\ Rings(x)
  BY Configured DEF Rewinds, Rings, RUURing, Youngest_RUU
<1>3. \A t \in Slots(config) : InUse(st, t) => st[t].seq \in Nat
  BY <1>2, Numbered
<1> HIDE DEF st, R, k
<1>4. Ends(st, "RUU", x.RUU_head, k, x.RUU_num, R)
  BY <1>2, RingEnds
<1>5. ASSUME NEW t \in Slots(config), InUse(st, t), InRUU(t)
      PROVE  t = b \/ st[t].seq < st[b].seq
  <2>1. PICK i \in 0 .. R - 1 : t = <<"RUU", i>>
    BY <1>5, Configured DEF R
  <2> QED BY <1>1, <1>4, <1>5, <2>1 DEF Ends
<1>6. ASSUME NEW t \in Slots(config), InUse(st, t)
      PROVE  ~(st[t].seq > st[b].seq)
  <2>1. CASE InRUU(t)
    BY <1>1, <1>3, <1>5, <1>6, <2>1
  <2>2. CASE ~InRUU(t)
    <3>1. PICK s \in Slots(config) : st[s].ea_comp /\ st[t].seq = st[s].seq + 1
      BY <1>2, <1>6, <2>2 DEF Paired
    <3>2. InRUU(s) /\ InUse(st, s) /\ s # b
      BY <1>1, <1>2, <3>1 DEF Paired, InUse
    <3>3. st[s].seq < st[b].seq
      BY <1>5, <3>2
    <3>4. st[s].seq \in Nat /\ st[b].seq \in Nat
      BY <1>1, <1>3, <3>2
    <3> QED BY <3>1, <3>3, <3>4
  <2> QED BY <2>1, <2>2
<1>7. Divided(st, b)
  BY DEF Rewinds, st
<1> QED BY <1>6, <1>7 DEF Divided, st

LEMMA RecoveredKept ==
    ASSUME workload \in Workloads, NEW m, NEW b, Rewinds(m, m, b), Sane(m),
           m.station[b].recover_inst, m.spec_mode, Expects(m)
    PROVE  Kept(Recovered(m, b))
<1> DEFINE x == SquashAfter(m, b[2])
           y == ruu_recover(m, b[2])
           z == tracer_recover(y)
           r == [z EXCEPT !.ruu_fetch_issue_delay = config.branch_penalty]
<1>1. Recovered(m, b) = r
  BY DEF Recovered, Rewinds, InRUU, in_LSQ
<1>2. Rewinds(m, x, b) /\ Youngest_RUU(x) = b[2]
  BY SquashAfterRewinds
<1>3. y = [x EXCEPT !.use_spec_cv = {}]
  BY DEF ruu_recover
<1>4. \A t \in Slots(config) : InUse(x.station, t) => ~x.station[t].spec_mode
  BY <1>2, NoWrongPathLeft
<1> HIDE DEF x
<1>5. /\ IsMachine(x) /\ ~Stopped(x) /\ Rings(x) /\ Recovering(x.station) = {}
      /\ x.spec_mode = m.spec_mode /\ x.recover_PC = m.recover_PC
      /\ x.arch_NPC = m.arch_NPC
  BY <1>2 DEF Rewinds, Others, PathFields
<1> HIDE DEF y
<1>6. /\ DOMAIN y = MachineFields /\ y.spec_mode = m.spec_mode
      /\ y.station = x.station /\ y.event_queue = x.event_queue
      /\ y.ready_queue = x.ready_queue /\ Others(x, y, {})
  BY <1>3, <1>5, MachineFieldsAre DEF IsMachine, PathFields, Others
<1>7. z = [y EXCEPT !.spec_mode = FALSE, !.fetch_queue = <<>>,
                    !.fetch_pred_PC = y.recover_PC]
  BY <1>6 DEF tracer_recover
<1> HIDE DEF z
<1>8. /\ DOMAIN r = MachineFields /\ r.station = x.station
      /\ r.event_queue = x.event_queue /\ r.ready_queue = x.ready_queue
      /\ Others(y, r, {"spec_mode", "fetch_queue", "fetch_pred_PC"})
      /\ r.spec_mode = FALSE /\ r.fetch_queue = <<>>
      /\ r.fetch_pred_PC = y.recover_PC
  BY <1>6, <1>7, MachineFieldsAre DEF PathFields, Others
<1> HIDE DEF r
<1>9. /\ r.RUU_head = x.RUU_head /\ r.RUU_tail = x.RUU_tail
      /\ r.RUU_num = x.RUU_num /\ r.LSQ_head = x.LSQ_head
      /\ r.LSQ_tail = x.LSQ_tail /\ r.LSQ_num = x.LSQ_num
      /\ r.inst_seq = x.inst_seq /\ r.arch_NPC = m.arch_NPC
      /\ r.panic = x.panic /\ r.halted = x.halted
      /\ r.fetch_pred_PC = m.recover_PC
  BY <1>5, <1>6, <1>8 DEF Others, PathFields
<1>10. IsMachine(r)
  BY <1>5, <1>8 DEF IsMachine
<1>11. Sane(r) /\ ~Stopped(r)
  BY <1>5, <1>9 DEF Sane, Stopped, Broken
<1>12. Rings(r)
  BY <1>5, <1>8, <1>9 DEF Rings, RUURing, LSQRing
<1>13. Chained(r)
  <2>1. r.fetch_queue \in Seq(Fetch_Data) /\ Len(r.fetch_queue) = 0
    BY <1>8
  <2>2. r.fetch_pred_PC \in Nat
    BY <1>9 DEF Expects
  <2> QED BY <2>1, <2>2 DEF Chained
<1>14. Expects(r)
  BY <1>8, <1>9 DEF Expects
<1>15. Speculates(r)
  BY <1>4, <1>5, <1>8 DEF Speculates
<1> QED BY <1>1, <1>10, <1>11, <1>12, <1>13, <1>14, <1>15 DEF Kept, Path

-----------------------------------------------------------------------------
(* ruu_writeback.                                                           *)
SamePlace(q, r) == r.op = q.op /\ r.seq = q.seq /\ r.ea_comp = q.ea_comp

LEMMA RingsStay ==
    ASSUME workload \in Workloads, NEW m, NEW r, Rings(m),
           r.RUU_head = m.RUU_head, r.RUU_num = m.RUU_num,
           r.RUU_tail = m.RUU_tail, r.LSQ_head = m.LSQ_head,
           r.LSQ_num = m.LSQ_num, r.LSQ_tail = m.LSQ_tail,
           r.inst_seq = m.inst_seq,
           \A s \in Slots(config) :
             /\ SamePlace(m.station[s], r.station[s])
             /\ r.station[s].recover_inst =>
                  InRUU(s) /\ r.station[s].op \in F_CTRL
    PROVE  Rings(r)
<1> DEFINE st == m.station
           st2 == r.station
           R == config.RUU_size
           L == config.LSQ_size
<1>1. /\ Ring(st, "RUU", m.RUU_head, m.RUU_num, m.RUU_tail, R, m.inst_seq)
      /\ Ring(st, "LSQ", m.LSQ_head, m.LSQ_num, m.LSQ_tail, L, m.inst_seq)
      /\ R \in Nat \ {0} /\ L \in Nat \ {0} /\ m.inst_seq \in Nat
      /\ m.inst_seq <= m.inst_seq /\ Paired(st)
  BY Configured DEF Rings, RUURing, LSQRing
<1>2. \A s \in Slots(config) : Same(st2, st, s)
  BY DEF SamePlace, Same
<1>3. /\ \A i \in 0 .. R - 1 : Same(st2, st, <<"RUU", i>>)
      /\ \A i \in 0 .. L - 1 : Same(st2, st, <<"LSQ", i>>)
  BY <1>2, Configured
<1>4. Paired(st2)
  BY <1>1 DEF Paired, SamePlace, InUse
<1> HIDE DEF st, st2, R, L
<1>5. Ring(st2, "RUU", m.RUU_head, m.RUU_num, m.RUU_tail, R, m.inst_seq)
  BY <1>1, <1>3, RingStays
<1>6. Ring(st2, "LSQ", m.LSQ_head, m.LSQ_num, m.LSQ_tail, L, m.inst_seq)
  BY <1>1, <1>3, RingStays
<1> QED BY <1>1, <1>4, <1>5, <1>6 DEF Rings, RUURing, LSQRing, st, st2, R, L

LEMMA CompleteKept ==
    ASSUME workload \in Workloads, NEW m, Kept(m), ~Stopped(m),
           NEW s \in Slots(config)
    PROVE  Kept(Complete(m, s))
<1> DEFINE st    == m.station
           x     == [m EXCEPT !.station[s].completed = TRUE]
           rec   == [st[s] EXCEPT !.completed = TRUE]
           y     == Recovered(x, s)
           z     == Broadcast(y, s, 1)
           r     == Broadcast(z, s, 2)
           wrong == Panics(m, "inst completed and !ready, !issued, or completed")
<1>1. \/ Complete(m, s) = wrong
      \/ ~st[s].completed /\ Complete(m, s) = r
  BY DEF Complete
<1>2. IsMachine(m) /\ Sane(m) /\ Rings(m) /\ Path(m)
  BY DEF Kept
<1>3. Kept(wrong)
  BY <1>2, PanicCalm, CalmKept DEF Broken
<1>4. /\ DOMAIN x = MachineFields
      /\ \A f \in PathFields \cup {"panic", "halted"} : x[f] = m[f]
      /\ x.station = [m.station EXCEPT ![s] = rec]
      /\ x.event_queue = m.event_queue /\ x.ready_queue = m.ready_queue
  BY <1>2, MachineFieldsAre DEF IsMachine, PathFields
<1>5. /\ IsStation(rec) /\ rec.completed
      /\ rec.op = st[s].op /\ rec.ea_comp = st[s].ea_comp
      /\ rec.spec_mode = st[s].spec_mode /\ rec.seq = st[s].seq
      /\ rec.recover_inst = st[s].recover_inst
  BY <1>2, StationFieldsAre DEF IsMachine, IsStation
<1>6. LinkSeq(m.event_queue) /\ LinkSeq(m.ready_queue) /\ DOMAIN st = Slots(config)
  BY <1>2 DEF IsMachine
<1>7. ASSUME ~st[s].completed PROVE Kept(y)
  <2> HIDE DEF x, rec
  <2>1. \A t \in Slots(config) : x.station[t] = IF t = s THEN rec ELSE st[t]
    BY <1>4, <1>6
  <2>2. \A t \in Slots(config) :
          /\ SamePlace(st[t], x.station[t])
          /\ x.station[t].recover_inst => InRUU(t) /\ x.station[t].op \in F_CTRL
    BY <1>2, <1>5, <2>1 DEF SamePlace, Rings, Paired
  <2>3. /\ x.RUU_head = m.RUU_head /\ x.RUU_num = m.RUU_num
        /\ x.RUU_tail = m.RUU_tail /\ x.LSQ_head = m.LSQ_head
        /\ x.LSQ_num = m.LSQ_num /\ x.LSQ_tail = m.LSQ_tail
        /\ x.inst_seq = m.inst_seq /\ x.spec_mode = m.spec_mode
        /\ x.fetch_queue = m.fetch_queue /\ x.recover_PC = m.recover_PC
        /\ x.fetch_pred_PC = m.fetch_pred_PC /\ x.arch_NPC = m.arch_NPC
    BY <1>4, CalmFields
  <2>4. ~Stopped(x) /\ Sane(x)
    <3>1. "panic" \in PathFields \cup {"panic", "halted"}
          /\ "halted" \in PathFields \cup {"panic", "halted"}
      OBVIOUS
    <3>2. x.panic = m.panic /\ x.halted = m.halted
      BY <1>4, <3>1
    <3> QED BY <1>2, <3>2 DEF Stopped, Sane
  <2>5. IsMachine(x)
    <3>1. \A t \in Slots(config) : IsStation(x.station[t])
      BY <1>2, <1>5, <2>1 DEF IsMachine
    <3> QED BY <1>4, <1>6, <3>1 DEF IsMachine
  <2>6. Rings(x)
    BY <1>2, <2>2, <2>3, RingsStay
  <2>7. Recovering(x.station) = Recovering(st) \ {s}
    BY <1>5, <2>1 DEF Recovering
  <2>8. \A b \in Slots(config) : Divided(st, b) => Divided(x.station, b)
    BY <1>5, <2>1 DEF Divided, InUse
  <2>9. Chained(x) /\ Expects(x)
    BY <1>2, <2>3 DEF Path, Chained, Expects
  <2>10. CASE ~st[s].recover_inst
    <3>1. y = x
      BY <1>5, <2>1, <2>10 DEF Recovered
    <3>2. Recovering(x.station) = Recovering(st)
      BY <2>7, <2>10 DEF Recovering
    <3>3. Speculates(x)
      <4>1. CASE m.spec_mode
        <5>1. PICK b \in Slots(config) : Recovering(st) = {b} /\ Divided(st, b)
          BY <1>2, <4>1 DEF Path, Speculates
        <5> QED BY <2>3, <2>8, <3>2, <4>1, <5>1 DEF Speculates
      <4>2. CASE ~m.spec_mode
        <5>1. /\ Recovering(st) = {}
              /\ \A t \in Slots(config) : InUse(st, t) => ~st[t].spec_mode
          BY <1>2, <4>2 DEF Path, Speculates
        <5>2. \A t \in Slots(config) :
                InUse(x.station, t) => ~x.station[t].spec_mode
          BY <1>5, <2>1, <5>1 DEF InUse
        <5> QED BY <2>3, <3>2, <4>2, <5>1, <5>2 DEF Speculates
      <4> QED BY <4>1, <4>2
    <3> QED BY <2>4, <2>5, <2>6, <2>9, <3>1, <3>3 DEF Kept, Path
  <2>11. CASE st[s].recover_inst
    <3>1. s \in Recovering(st)
      BY <1>7, <2>11 DEF Recovering
    <3>2. m.spec_mode /\ Recovering(st) = {s} /\ Divided(st, s)
      BY <1>2, <3>1 DEF Path, Speculates
    <3>3. InRUU(s) /\ st[s].op \in F_CTRL
      BY <1>2, <2>11 DEF Rings, Paired
    <3>4. InUse(st, s) /\ ~st[s].ea_comp
      BY <1>2, <3>3 DEF Rings, Paired, InUse, F_CTRL
    <3>5. Recovering(x.station) = {}
      BY <2>7, <3>2
    <3>6. InUse(x.station, s) /\ ~x.station[s].ea_comp /\ x.station[s].recover_inst
      BY <1>5, <2>1, <2>11, <3>4 DEF InUse
    <3>7. Rewinds(x, x, s)
      BY <2>4, <2>5, <2>6, <2>8, <3>2, <3>3, <3>5, <3>6 DEF Rewinds, Others
    <3> QED BY <2>3, <2>4, <2>9, <3>2, <3>6, <3>7, RecoveredKept
  <2> QED BY <2>10, <2>11
<1> HIDE DEF y
<1>8. ASSUME Kept(y) PROVE Kept(r)
  <2>1. Calm(y, z)
    BY <1>8, BroadcastCalm DEF Kept
  <2> HIDE DEF z
  <2>2. Kept(z)
    BY <1>8, <2>1, CalmKept
  <2>3. Calm(z, r)
    BY <2>2, BroadcastCalm DEF Kept
  <2> HIDE DEF r
  <2> QED BY <2>2, <2>3, CalmKept
<1> HIDE DEF r
<1> QED BY <1>1, <1>3, <1>7, <1>8

LEMMA WritebackOneKept ==
    ASSUME workload \in Workloads, NEW m, Kept(m)
    PROVE  Kept(WritebackOne(m))
<1> DEFINE ev   == Head(m.event_queue)
           rest == [m EXCEPT !.event_queue = Tail(@)]
<1>1. SUFFICES ASSUME ~Stopped(m), m.event_queue # <<>>
               PROVE  Kept(rest) /\ ~Stopped(rest) /\ ev.rs \in Slots(config)
  BY CompleteKept DEF WritebackOne
<1>2. IsMachine(m)
  BY DEF Kept
<1>3. LinkSeq(Tail(m.event_queue)) /\ IsLink(ev)
  <2>1. PICK S : m.event_queue \in Seq(S) /\ \A x \in S : IsLink(x)
    BY <1>2 DEF IsMachine, LinkSeq
  <2>2. Tail(m.event_queue) \in Seq(S) /\ ev \in S
    BY <1>1, <2>1
  <2> QED BY <2>1, <2>2 DEF LinkSeq
<1>4. /\ DOMAIN rest = MachineFields /\ rest.station = m.station
      /\ \A f \in PathFields \cup {"panic", "halted"} : rest[f] = m[f]
      /\ rest.event_queue = Tail(m.event_queue)
      /\ rest.ready_queue = m.ready_queue
      /\ rest.panic = m.panic /\ rest.halted = m.halted
  BY <1>2, MachineFieldsAre DEF IsMachine, PathFields
<1> HIDE DEF rest, ev
<1>5. Calm(m, rest)
  BY <1>2, <1>3, <1>4, AsideCalm
<1>6. ~Stopped(rest)
  BY <1>1, <1>4 DEF Stopped
<1> QED BY <1>3, <1>5, <1>6, CalmKept DEF IsLink

LEMMA WritebackKept ==
    ASSUME workload \in Workloads, NEW m, Kept(m)
    PROVE  Kept(ruu_writeback(m))
<1> DEFINE n == Len(m.event_queue)
           f == CHOOSE f : Writebacks(f, m)
           H == {k \in Nat : k <= n => Kept(f[k])}
<1>1. ruu_writeback(m) = f[n]
  BY DEF ruu_writeback, Writebacks
<1>2. n \in Nat
  <2>1. PICK S : m.event_queue \in Seq(S)
    BY DEF Kept, IsMachine, LinkSeq
  <2> QED BY <2>1
<1>3. Writebacks(f, m)
  BY <1>2, WritebacksExist
<1> HIDE DEF f
<1>4. 0 \in H
  BY <1>2, <1>3 DEF Writebacks
<1>5. ASSUME NEW k \in H PROVE k + 1 \in H
  <2>1. SUFFICES ASSUME k + 1 <= n PROVE Kept(f[k + 1])
    OBVIOUS
  <2>2. Kept(f[k]) /\ k + 1 \in 0 .. n /\ k + 1 # 0 /\ (k + 1) - 1 = k
    BY <1>2, <2>1
  <2>3. f[k + 1] = WritebackOne(f[k])
    BY <1>3, <2>2, Zenon DEF Writebacks
  <2> QED BY <2>2, <2>3, WritebackOneKept
<1>6. H = Nat
  <2> HIDE DEF H
  <2>1. H \in SUBSET Nat
    BY DEF H
  <2> QED BY <1>4, <1>5, <2>1, Induction
<1> QED BY <1>1, <1>2, <1>6

-----------------------------------------------------------------------------
(* ruu_dispatch: the stations of an instruction are filled and linked, and  *)
(* then they are in the rings.                                              *)
IsNew(r, op, ea_comp, mode, n) ==
    /\ r.op = op /\ r.ea_comp = ea_comp /\ r.spec_mode = mode /\ r.seq = n
    /\ ~r.recover_inst /\ (op # "store" => ~r.completed)
Fills(m, x, s, op, ea_comp) ==
    /\ IsMachine(x) /\ (Sane(m) => Sane(x))
    /\ ~Stopped(x) =>
         /\ ~Stopped(m) /\ x.inst_seq = m.inst_seq + 1
         /\ \A f \in PathFields \ {"inst_seq"} : x[f] = m[f]
         /\ \A t \in Slots(config) \ {s} : SameOp(m.station[t], x.station[t])
         /\ IsNew(x.station[s], op, ea_comp, m.spec_mode, m.inst_seq + 1)

LEMMA FilledFills ==
    ASSUME NEW m, IsMachine(m), NEW s \in Slots(config), NEW op, NEW addr,
           NEW ea_comp, NEW in, NEW out
    PROVE  Fills(m, Linked(Filled(m, s, op, addr, ea_comp), s, in, out), s, op,
                 ea_comp)
<1> DEFINE x   == Filled(m, s, op, addr, ea_comp)
           old == Freed(m.station[s].tag)
           rec == [old EXCEPT !.op = op, !.addr = addr, !.ea_comp = ea_comp,
                              !.spec_mode = m.spec_mode, !.seq = m.inst_seq + 1]
           r   == Linked(x, s, in, out)
<1>1. /\ DOMAIN x = MachineFields
      /\ \A f \in (PathFields \cup {"panic", "halted"}) \ {"inst_seq"} : x[f] = m[f]
      /\ x.inst_seq = m.inst_seq + 1
      /\ x.station = [m.station EXCEPT ![s] = rec]
      /\ x.event_queue = m.event_queue /\ x.ready_queue = m.ready_queue
      /\ x.panic = m.panic /\ x.halted = m.halted
  BY MachineFieldsAre DEF IsMachine, PathFields, Filled
<1>2. IsStation(rec) /\ IsNew(rec, op, ea_comp, m.spec_mode, m.inst_seq + 1)
  <2>1. IsStation(old) /\ ~old.recover_inst /\ ~old.completed
    BY FreedStation DEF Freed
  <2> HIDE DEF old
  <2> QED BY <2>1, StationFieldsAre DEF IsStation, IsNew
<1> HIDE DEF x, rec
<1>3. \A t \in Slots(config) : x.station[t] = IF t = s THEN rec ELSE m.station[t]
  BY <1>1 DEF IsMachine
<1>4. IsMachine(x)
  BY <1>1, <1>2, <1>3 DEF IsMachine
<1>5. Calm(x, r)
  BY <1>4, LinkedCalm
<1> HIDE DEF r
<1>6. IsMachine(r) /\ (Sane(m) => Sane(r))
  BY <1>1, <1>5 DEF Calm, Sane
<1>7. ASSUME ~Stopped(r)
      PROVE  /\ ~Stopped(m) /\ r.inst_seq = m.inst_seq + 1
             /\ \A f \in PathFields \ {"inst_seq"} : r[f] = m[f]
             /\ \A t \in Slots(config) \ {s} : SameOp(m.station[t], r.station[t])
             /\ IsNew(r.station[s], op, ea_comp, m.spec_mode, m.inst_seq + 1)
  <2>1. /\ ~Stopped(x) /\ \A f \in PathFields : r[f] = x[f]
        /\ \A t \in Slots(config) : SameOp(x.station[t], r.station[t])
    BY <1>5, <1>7 DEF Calm
  <2>2. ~Stopped(m)
    BY <1>1, <2>1 DEF Stopped
  <2>3. r.inst_seq = m.inst_seq + 1
    BY <1>1, <2>1, CalmFields
  <2>4. \A f \in PathFields \ {"inst_seq"} : r[f] = m[f]
    BY <1>1, <2>1
  <2>5. \A t \in Slots(config) \ {s} : SameOp(m.station[t], r.station[t])
    <3> TAKE t \in Slots(config) \ {s}
    <3>1. x.station[t] = m.station[t]
      BY <1>3
    <3>2. SameOp(x.station[t], r.station[t])
      BY <2>1
    <3> QED BY <3>1, <3>2
  <2>6. IsNew(r.station[s], op, ea_comp, m.spec_mode, m.inst_seq + 1)
    <3>1. x.station[s] = rec /\ SameOp(x.station[s], r.station[s])
      BY <1>3, <2>1
    <3> QED BY <1>2, <3>1 DEF IsNew, SameOp
  <2> QED BY <2>2, <2>3, <2>4, <2>5, <2>6
<1> QED BY <1>6, <1>7 DEF Fills, r, x

(* What an instruction that is dispatched does to the rings.                *)
Grows(m, x) ==
    /\ IsMachine(x) /\ Sane(x)
    /\ ~Stopped(x) =>
         /\ Rings(x)
         /\ x.spec_mode = m.spec_mode /\ x.recover_PC = m.recover_PC
         /\ x.fetch_queue = m.fetch_queue /\ x.fetch_pred_PC = m.fetch_pred_PC
         /\ x.arch_NPC = m.arch_NPC
         /\ \A s \in Slots(config) :
              \/ SameOp(m.station[s], x.station[s])
              \/ /\ ~InUse(m.station, s) /\ ~x.station[s].recover_inst
                 /\ x.station[s].spec_mode = m.spec_mode
                 /\ x.station[s].seq > m.inst_seq

LEMMA AllocateOtherGrows ==
    ASSUME workload \in Workloads, NEW m, Kept(m), ~Stopped(m),
           m.RUU_num < config.RUU_size, NEW inst, inst.op # "none"
    PROVE  /\ Grows(m, AllocateOther(m, inst))
           /\ RUUTail(m) \in Slots(config)
           /\ ~Stopped(AllocateOther(m, inst)) =>
                /\ IsNew(AllocateOther(m, inst).station[RUUTail(m)], inst.op,
                         FALSE, m.spec_mode, m.inst_seq + 1)
                /\ AllocateOther(m, inst).inst_seq = m.inst_seq + 1
<1> DEFINE rs == RUUTail(m)
           R  == config.RUU_size
           L  == config.LSQ_size
           x  == Linked(Filled(m, rs, inst.op, 0, FALSE), rs, inst.in, inst.out)
           last == IF OPERANDS_READY(x.station[rs]) THEN NoOp ELSE RSLINK(m, rs)
           g  == [GrownRUU(x) EXCEPT !.last_op = last]
           r  == EnqueueIfReady(g, rs)
           st == m.station
           st2 == r.station
<1>1. AllocateOther(m, inst) = r
  BY DEF AllocateOther
<1>2. IsMachine(m) /\ Sane(m) /\ Rings(m)
  BY DEF Kept
<1>3. /\ Ring(st, "RUU", m.RUU_head, m.RUU_num, m.RUU_tail, R, m.inst_seq)
      /\ Ring(st, "LSQ", m.LSQ_head, m.LSQ_num, m.LSQ_tail, L, m.inst_seq)
      /\ R \in Nat \ {0} /\ L \in Nat \ {0} /\ m.inst_seq \in Nat /\ Paired(st)
  BY <1>2, Configured DEF Rings, RUURing, LSQRing
<1>4. /\ rs = <<"RUU", m.RUU_tail>> /\ m.RUU_tail \in 0 .. R - 1
      /\ rs \in Slots(config) /\ InRUU(rs)
  <2>1. m.RUU_tail \in 0 .. R - 1
    BY <1>3 DEF Ring
  <2> QED BY <2>1, Configured DEF RUUTail, InRUU
<1>5. Fills(m, x, rs, inst.op, FALSE)
  BY <1>2, <1>4, FilledFills
<1> HIDE DEF x, last, rs
<1>6. /\ DOMAIN g = MachineFields /\ g.station = x.station
      /\ g.event_queue = x.event_queue /\ g.ready_queue = x.ready_queue
      /\ g.panic = x.panic /\ g.halted = x.halted
      /\ g.RUU_tail = (x.RUU_tail + 1) % R /\ g.RUU_num = x.RUU_num + 1
      /\ \A f \in PathFields \ {"RUU_tail", "RUU_num"} : g[f] = x[f]
  BY <1>5, MachineFieldsAre DEF Fills, IsMachine, GrownRUU, PathFields
<1>7. IsMachine(g)
  BY <1>5, <1>6 DEF Fills, IsMachine
<1> HIDE DEF g
<1>8. Calm(g, r)
  BY <1>4, <1>7, EnqueueIfReadyCalm
<1> HIDE DEF r
<1>9. IsMachine(r) /\ Sane(r)
  BY <1>2, <1>5, <1>6, <1>8 DEF Calm, Fills, Sane
<1>10. ASSUME ~Stopped(r)
       PROVE  /\ Rings(r)
              /\ r.spec_mode = m.spec_mode /\ r.recover_PC = m.recover_PC
              /\ r.fetch_queue = m.fetch_queue /\ r.fetch_pred_PC = m.fetch_pred_PC
              /\ r.arch_NPC = m.arch_NPC /\ r.inst_seq = m.inst_seq + 1
              /\ \A s \in Slots(config) \ {rs} : SameOp(st[s], st2[s])
              /\ IsNew(st2[rs], inst.op, FALSE, m.spec_mode, m.inst_seq + 1)
  <2>1. /\ ~Stopped(g) /\ \A f \in PathFields : r[f] = g[f]
        /\ \A s \in Slots(config) : SameOp(g.station[s], r.station[s])
    BY <1>8, <1>10 DEF Calm
  <2>2. ~Stopped(x)
    BY <1>6, <2>1 DEF Stopped
  <2>3. /\ r.RUU_tail = (m.RUU_tail + 1) % R /\ r.RUU_num = m.RUU_num + 1
        /\ r.RUU_head = m.RUU_head /\ r.LSQ_head = m.LSQ_head
        /\ r.LSQ_tail = m.LSQ_tail /\ r.LSQ_num = m.LSQ_num
        /\ r.spec_mode = m.spec_mode /\ r.recover_PC = m.recover_PC
        /\ r.fetch_queue = m.fetch_queue /\ r.fetch_pred_PC = m.fetch_pred_PC
        /\ r.inst_seq = m.inst_seq + 1 /\ r.arch_NPC = m.arch_NPC
    BY <1>5, <1>6, <2>1, <2>2 DEF Fills, PathFields
  <2>4. ASSUME NEW s \in Slots(config) \ {rs} PROVE SameOp(st[s], st2[s])
    <3>1. SameOp(st[s], x.station[s]) /\ SameOp(x.station[s], st2[s])
      BY <1>5, <1>6, <2>1, <2>2 DEF Fills
    <3> QED BY <3>1 DEF SameOp
  <2>5. IsNew(st2[rs], inst.op, FALSE, m.spec_mode, m.inst_seq + 1)
    <3>1. /\ IsNew(x.station[rs], inst.op, FALSE, m.spec_mode, m.inst_seq + 1)
          /\ SameOp(x.station[rs], st2[rs])
      BY <1>4, <1>5, <1>6, <2>1, <2>2 DEF Fills
    <3> QED BY <3>1 DEF IsNew, SameOp
  <2> HIDE DEF st, st2, R, L
  <2>6. \A s \in Slots(config) \ {rs} : Same(st2, st, s)
    BY <2>4 DEF SameOp, Same
  <2>7. /\ Ring(st2, "RUU", m.RUU_head, m.RUU_num + 1, (m.RUU_tail + 1) % R, R,
                m.inst_seq + 1)
        /\ ~InUse(st, rs)
    <3>1. \A i \in 0 .. R - 1 : i # m.RUU_tail => Same(st2, st, <<"RUU", i>>)
      BY <1>4, <2>6, Configured DEF R
    <3>2. InUse(st2, <<"RUU", m.RUU_tail>>)
          /\ st2[<<"RUU", m.RUU_tail>>].seq \in m.inst_seq + 1 .. m.inst_seq + 1
      BY <1>3, <1>4, <2>5 DEF IsNew, InUse
    <3>3. m.RUU_num < R /\ m.inst_seq + 1 \in Nat
      BY <1>3 DEF R
    <3> QED BY <1>3, <1>4, <3>1, <3>2, <3>3, RingGrows
  <2>8. Ring(st2, "LSQ", m.LSQ_head, m.LSQ_num, m.LSQ_tail, L, m.inst_seq + 1)
    <3>1. \A i \in 0 .. L - 1 : Same(st2, st, <<"LSQ", i>>)
      BY <1>4, <2>6, Configured DEF L
    <3>2. m.inst_seq + 1 \in Nat /\ m.inst_seq <= m.inst_seq + 1
      BY <1>3
    <3> QED BY <1>3, <3>1, <3>2, RingStays
  <2>9. Paired(st2)
    <3>1. ~st2[rs].ea_comp /\ ~st2[rs].recover_inst /\ ~st[rs].ea_comp
      BY <1>3, <1>4, <2>5, <2>7 DEF IsNew, Paired, InUse
    <3>2. \A s \in Slots(config) :
            /\ st2[s].ea_comp => InRUU(s) /\ st2[s].op = "agen"
            /\ st2[s].recover_inst => InRUU(s) /\ st2[s].op \in F_CTRL
      BY <1>3, <2>4, <3>1 DEF Paired, SameOp
    <3>3. ASSUME NEW s \in Slots(config), st2[s].ea_comp
          PROVE  \E t \in Slots(config) :
                   ~InRUU(t) /\ InUse(st2, t) /\ st2[t].seq = st2[s].seq + 1
      <4>1. s # rs /\ SameOp(st[s], st2[s])
        BY <2>4, <3>1, <3>3
      <4>2. PICK t \in Slots(config) :
              ~InRUU(t) /\ InUse(st, t) /\ st[t].seq = st[s].seq + 1
        BY <1>3, <3>3, <4>1 DEF Paired, SameOp
      <4>3. SameOp(st[t], st2[t])
        BY <1>4, <2>4, <4>2
      <4> QED BY <4>1, <4>2, <4>3 DEF SameOp, InUse
    <3>4. ASSUME NEW t \in Slots(config), ~InRUU(t), InUse(st2, t)
          PROVE  \E s \in Slots(config) :
                   st2[s].ea_comp /\ st2[t].seq = st2[s].seq + 1
      <4>1. SameOp(st[t], st2[t])
        BY <1>4, <2>4, <3>4
      <4>2. PICK s \in Slots(config) : st[s].ea_comp /\ st[t].seq = st[s].seq + 1
        BY <1>3, <3>4, <4>1 DEF Paired, SameOp, InUse
      <4>3. SameOp(st[s], st2[s])
        BY <2>4, <3>1, <4>2
      <4> QED BY <4>1, <4>2, <4>3 DEF SameOp
    <3> QED BY <3>2, <3>3, <3>4 DEF Paired
  <2>10. Rings(r)
    BY <1>3, <2>3, <2>7, <2>8, <2>9 DEF Rings, RUURing, LSQRing, st2, R, L
  <2> QED BY <2>3, <2>4, <2>5, <2>10 DEF st, st2
<1>11. ~InUse(st, rs)
  <2>1. m.RUU_num < R
    OBVIOUS
  <2>2. m.RUU_num \in Nat /\ Place(m.RUU_head, m.RUU_tail, R) = m.RUU_num
    BY <1>3, <2>1 DEF Ring, Place
  <2> QED BY <1>3, <1>4, <2>2 DEF Ring
<1>12. ASSUME ~Stopped(r), NEW s \in Slots(config)
       PROVE  \/ SameOp(st[s], st2[s])
              \/ /\ ~InUse(st, s) /\ ~st2[s].recover_inst
                 /\ st2[s].spec_mode = m.spec_mode /\ st2[s].seq > m.inst_seq
  <2>1. CASE s = rs
    BY <1>3, <1>10, <1>11, <1>12, <2>1 DEF IsNew
  <2> QED BY <1>10, <1>12, <2>1
<1>13. Grows(m, r)
  BY <1>9, <1>10, <1>12 DEF Grows
<1> QED BY <1>1, <1>4, <1>10, <1>13 DEF rs

LEMMA AllocateMemGrows ==
    ASSUME workload \in Workloads, NEW m, Kept(m), ~Stopped(m),
           m.RUU_num < config.RUU_size, m.LSQ_num < config.LSQ_size,
           NEW inst, inst.op # "none"
    PROVE  Grows(m, AllocateMem(m, inst))
<1> DEFINE rs  == RUUTail(m)
           lsq == LSQTail(m)
           R   == config.RUU_size
           L   == config.LSQ_size
           x   == Linked(Filled(m, rs, "agen", 0, TRUE), rs,
                         <<NA, inst.in[2], inst.in[3]>>, <<DTMP, NA>>)
           y   == Linked(Filled(x, lsq, inst.op, inst.addr, FALSE), lsq,
                         <<inst.in[1], DTMP, NA>>, inst.out)
           last == RSLINK(m, lsq)
           g   == [GrownLSQ(GrownRUU(y)) EXCEPT !.last_op = last]
           z   == EnqueueIfReady(g, rs)
           r   == EnqueueIfReady(z, lsq)
           st  == m.station
           st2 == r.station
<1>1. AllocateMem(m, inst) = r
  BY DEF AllocateMem
<1>2. IsMachine(m) /\ Sane(m) /\ Rings(m)
  BY DEF Kept
<1>3. /\ Ring(st, "RUU", m.RUU_head, m.RUU_num, m.RUU_tail, R, m.inst_seq)
      /\ Ring(st, "LSQ", m.LSQ_head, m.LSQ_num, m.LSQ_tail, L, m.inst_seq)
      /\ R \in Nat \ {0} /\ L \in Nat \ {0} /\ m.inst_seq \in Nat /\ Paired(st)
  BY <1>2, Configured DEF Rings, RUURing, LSQRing
<1>4. /\ rs = <<"RUU", m.RUU_tail>> /\ m.RUU_tail \in 0 .. R - 1
      /\ rs \in Slots(config) /\ InRUU(rs)
      /\ lsq = <<"LSQ", m.LSQ_tail>> /\ m.LSQ_tail \in 0 .. L - 1
      /\ lsq \in Slots(config) /\ ~InRUU(lsq)
  <2>1. m.RUU_tail \in 0 .. R - 1 /\ m.LSQ_tail \in 0 .. L - 1
    BY <1>3 DEF Ring
  <2> QED BY <2>1, Configured DEF RUUTail, LSQTail, InRUU
<1>5. Fills(m, x, rs, "agen", TRUE)
  BY <1>2, <1>4, FilledFills
<1> HIDE DEF x
<1>6. Fills(x, y, lsq, inst.op, FALSE)
  BY <1>4, <1>5, FilledFills DEF Fills
<1> HIDE DEF y, last, rs, lsq
<1>7. /\ DOMAIN g = MachineFields /\ g.station = y.station
      /\ g.event_queue = y.event_queue /\ g.ready_queue = y.ready_queue
      /\ g.panic = y.panic /\ g.halted = y.halted
      /\ g.RUU_tail = (y.RUU_tail + 1) % R /\ g.RUU_num = y.RUU_num + 1
      /\ g.LSQ_tail = (y.LSQ_tail + 1) % L /\ g.LSQ_num = y.LSQ_num + 1
      /\ \A f \in PathFields \ {"RUU_tail", "RUU_num", "LSQ_tail", "LSQ_num"} :
           g[f] = y[f]
  BY <1>6, MachineFieldsAre DEF Fills, IsMachine, GrownRUU, GrownLSQ, PathFields
<1>8. IsMachine(g)
  BY <1>6, <1>7 DEF Fills, IsMachine
<1> HIDE DEF g
<1>9. Calm(g, z)
  BY <1>4, <1>8, EnqueueIfReadyCalm
<1> HIDE DEF z
<1>10. Calm(z, r)
  BY <1>4, <1>9, EnqueueIfReadyCalm DEF Calm
<1> HIDE DEF r
<1>11. Calm(g, r)
  BY <1>9, <1>10, CalmTrans
<1>12. IsMachine(r) /\ Sane(r)
  BY <1>2, <1>5, <1>6, <1>7, <1>11 DEF Calm, Fills, Sane
<1>13. ASSUME ~Stopped(r)
       PROVE  /\ Rings(r)
              /\ r.spec_mode = m.spec_mode /\ r.recover_PC = m.recover_PC
              /\ r.fetch_queue = m.fetch_queue /\ r.fetch_pred_PC = m.fetch_pred_PC
              /\ r.arch_NPC = m.arch_NPC
              /\ \A s \in Slots(config) \ {rs, lsq} : SameOp(st[s], st2[s])
              /\ ~InUse(st, rs) /\ ~InUse(st, lsq)
              /\ IsNew(st2[rs], "agen", TRUE, m.spec_mode, m.inst_seq + 1)
              /\ IsNew(st2[lsq], inst.op, FALSE, m.spec_mode, m.inst_seq + 2)
  <2>1. /\ ~Stopped(g) /\ \A f \in PathFields : r[f] = g[f]
        /\ \A s \in Slots(config) : SameOp(g.station[s], r.station[s])
    BY <1>11, <1>13 DEF Calm
  <2>2. ~Stopped(y)
    BY <1>7, <2>1 DEF Stopped
  <2>3. ~Stopped(x) /\ x.spec_mode = m.spec_mode /\ x.inst_seq = m.inst_seq + 1
    BY <1>5, <1>6, <2>2 DEF Fills, PathFields
  <2>4. /\ y.inst_seq = m.inst_seq + 2
        /\ \A f \in PathFields \ {"inst_seq"} : y[f] = m[f]
    BY <1>3, <1>5, <1>6, <2>2, <2>3 DEF Fills
  <2>5. /\ r.RUU_tail = (m.RUU_tail + 1) % R /\ r.RUU_num = m.RUU_num + 1
        /\ r.LSQ_tail = (m.LSQ_tail + 1) % L /\ r.LSQ_num = m.LSQ_num + 1
        /\ r.RUU_head = m.RUU_head /\ r.LSQ_head = m.LSQ_head
        /\ r.spec_mode = m.spec_mode /\ r.recover_PC = m.recover_PC
        /\ r.fetch_queue = m.fetch_queue /\ r.fetch_pred_PC = m.fetch_pred_PC
        /\ r.inst_seq = m.inst_seq + 2 /\ r.arch_NPC = m.arch_NPC
    BY <1>7, <2>1, <2>4 DEF PathFields
  <2>6. ASSUME NEW s \in Slots(config) \ {rs, lsq} PROVE SameOp(st[s], st2[s])
    <3>1. /\ SameOp(st[s], x.station[s]) /\ SameOp(x.station[s], y.station[s])
          /\ SameOp(y.station[s], st2[s])
      BY <1>5, <1>6, <1>7, <2>1, <2>2, <2>3 DEF Fills
    <3> QED BY <3>1 DEF SameOp
  <2>7. IsNew(st2[rs], "agen", TRUE, m.spec_mode, m.inst_seq + 1)
    <3>1. /\ IsNew(x.station[rs], "agen", TRUE, m.spec_mode, m.inst_seq + 1)
          /\ rs \in Slots(config) \ {lsq}
      BY <1>4, <1>5, <2>3 DEF Fills
    <3>2. SameOp(x.station[rs], y.station[rs]) /\ SameOp(y.station[rs], st2[rs])
      BY <1>6, <1>7, <2>1, <2>2, <3>1 DEF Fills
    <3> QED BY <3>1, <3>2 DEF IsNew, SameOp
  <2>8. IsNew(st2[lsq], inst.op, FALSE, m.spec_mode, m.inst_seq + 2)
    <3>1. IsNew(y.station[lsq], inst.op, FALSE, m.spec_mode, m.inst_seq + 2)
      <4>1. (m.inst_seq + 1) + 1 = m.inst_seq + 2
        BY <1>3
      <4> QED BY <1>6, <2>2, <2>3, <4>1 DEF Fills
    <3>2. SameOp(y.station[lsq], st2[lsq])
      BY <1>4, <1>7, <2>1
    <3> QED BY <3>1, <3>2 DEF IsNew, SameOp
  <2> DEFINE top == m.inst_seq + 2
  <2>9. top \in Nat /\ m.inst_seq <= top /\ m.inst_seq + 1 \in m.inst_seq + 1 .. top
        /\ top \in m.inst_seq + 1 .. top /\ m.RUU_num < R /\ m.LSQ_num < L
    BY <1>3
  <2> HIDE DEF st, st2, R, L, top
  <2>10. \A s \in Slots(config) \ {rs, lsq} : Same(st2, st, s)
    BY <2>6 DEF SameOp, Same
  <2>11. /\ Ring(st2, "RUU", m.RUU_head, m.RUU_num + 1, (m.RUU_tail + 1) % R, R, top)
         /\ ~InUse(st, rs)
    <3>1. \A i \in 0 .. R - 1 : i # m.RUU_tail => Same(st2, st, <<"RUU", i>>)
      BY <1>4, <2>10, Configured DEF R
    <3>2. InUse(st2, <<"RUU", m.RUU_tail>>)
          /\ st2[<<"RUU", m.RUU_tail>>].seq \in m.inst_seq + 1 .. top
      BY <1>4, <2>7, <2>9 DEF IsNew, InUse
    <3> QED BY <1>3, <1>4, <2>9, <3>1, <3>2, RingGrows
  <2>12. /\ Ring(st2, "LSQ", m.LSQ_head, m.LSQ_num + 1, (m.LSQ_tail + 1) % L, L, top)
         /\ ~InUse(st, lsq)
    <3>1. \A i \in 0 .. L - 1 : i # m.LSQ_tail => Same(st2, st, <<"LSQ", i>>)
      BY <1>4, <2>10, Configured DEF L
    <3>2. InUse(st2, <<"LSQ", m.LSQ_tail>>)
          /\ st2[<<"LSQ", m.LSQ_tail>>].seq \in m.inst_seq + 1 .. top
      BY <1>4, <2>8, <2>9 DEF IsNew, InUse, top
    <3> QED BY <1>3, <1>4, <2>9, <3>1, <3>2, RingGrows
  <2>13. Paired(st2)
    <3>1. /\ st2[rs].ea_comp /\ st2[rs].op = "agen" /\ ~st2[rs].recover_inst
          /\ ~st2[lsq].ea_comp /\ ~st2[lsq].recover_inst /\ InUse(st2, lsq)
          /\ st2[lsq].seq = st2[rs].seq + 1
          /\ ~st[rs].ea_comp /\ ~st[lsq].ea_comp
      BY <1>3, <1>4, <2>7, <2>8, <2>11, <2>12 DEF IsNew, Paired, InUse
    <3>2. \A s \in Slots(config) :
            /\ st2[s].ea_comp => InRUU(s) /\ st2[s].op = "agen"
            /\ st2[s].recover_inst => InRUU(s) /\ st2[s].op \in F_CTRL
      BY <1>3, <1>4, <2>6, <3>1 DEF Paired, SameOp
    <3>3. ASSUME NEW s \in Slots(config), st2[s].ea_comp
          PROVE  \E t \in Slots(config) :
                   ~InRUU(t) /\ InUse(st2, t) /\ st2[t].seq = st2[s].seq + 1
      <4>1. CASE s = rs
        BY <1>4, <3>1, <4>1
      <4>2. CASE s # rs
        <5>1. s \in Slots(config) \ {rs, lsq}
          BY <3>1, <3>3, <4>2
        <5>2. SameOp(st[s], st2[s])
          BY <2>6, <5>1
        <5>3. PICK t \in Slots(config) :
                ~InRUU(t) /\ InUse(st, t) /\ st[t].seq = st[s].seq + 1
          BY <1>3, <3>3, <5>2 DEF Paired, SameOp
        <5>4. t \in Slots(config) \ {rs, lsq}
          BY <1>4, <2>12, <5>3
        <5>5. SameOp(st[t], st2[t])
          BY <2>6, <5>4
        <5> QED BY <5>2, <5>3, <5>5 DEF SameOp, InUse
      <4> QED BY <4>1, <4>2
    <3>4. ASSUME NEW t \in Slots(config), ~InRUU(t), InUse(st2, t)
          PROVE  \E s \in Slots(config) :
                   st2[s].ea_comp /\ st2[t].seq = st2[s].seq + 1
      <4>1. CASE t = lsq
        BY <1>4, <3>1, <4>1
      <4>2. CASE t # lsq
        <5>1. t \in Slots(config) \ {rs, lsq}
          BY <1>4, <3>4, <4>2
        <5>2. SameOp(st[t], st2[t])
          BY <2>6, <5>1
        <5>3. PICK s \in Slots(config) : st[s].ea_comp /\ st[t].seq = st[s].seq + 1
          BY <1>3, <3>4, <5>2 DEF Paired, SameOp, InUse
        <5>4. s \in Slots(config) \ {rs, lsq}
          BY <3>1, <5>3
        <5>5. SameOp(st[s], st2[s])
          BY <2>6, <5>4
        <5> QED BY <5>2, <5>3, <5>5 DEF SameOp
      <4> QED BY <4>1, <4>2
    <3> QED BY <3>2, <3>3, <3>4 DEF Paired
  <2>14. Rings(r)
    BY <2>5, <2>9, <2>11, <2>12, <2>13 DEF Rings, RUURing, LSQRing, st2, R, L, top
  <2> QED BY <2>5, <2>6, <2>7, <2>8, <2>11, <2>12, <2>14 DEF st, st2
<1>14. ASSUME ~Stopped(r), NEW s \in Slots(config)
       PROVE  \/ SameOp(st[s], st2[s])
              \/ /\ ~InUse(st, s) /\ ~st2[s].recover_inst
                 /\ st2[s].spec_mode = m.spec_mode /\ st2[s].seq > m.inst_seq
  <2>1. CASE s \in {rs, lsq}
    BY <1>3, <1>13, <1>14, <2>1 DEF IsNew
  <2> QED BY <1>13, <1>14, <2>1
<1>15. Grows(m, r)
  BY <1>12, <1>13, <1>14 DEF Grows
<1> QED BY <1>1, <1>15

LEMMA GrowsSpeculates ==
    ASSUME workload \in Workloads, NEW m, Kept(m), ~Stopped(m), NEW x, Grows(m, x),
           ~Stopped(x)
    PROVE  Speculates(x)
<1> DEFINE st == m.station
           st2 == x.station
<1>1. Rings(m) /\ Path(m) /\ Paired(st) /\ Rings(x) /\ Paired(st2)
      /\ x.spec_mode = m.spec_mode /\ m.inst_seq \in Nat
  BY DEF Kept, Grows, Rings
<1>2. \A s \in Slots(config) :
        \/ SameOp(st[s], st2[s])
        \/ /\ ~InUse(st, s) /\ ~st2[s].recover_inst
           /\ st2[s].spec_mode = m.spec_mode /\ st2[s].seq > m.inst_seq
  BY DEF Grows
<1>3. \A s \in Slots(config) : InUse(st, s) => st[s].seq \in 1 .. m.inst_seq
  BY <1>1, Numbered
<1>4. \A s \in Slots(config) :
        InUse(x.station, s) => x.station[s].seq \in 1 .. x.inst_seq
  BY <1>1, Numbered
<1>5. Speculates(m)
  BY <1>1 DEF Path
<1> HIDE DEF st, st2
<1>6. \A s \in Slots(config) : st[s].recover_inst =>
        InUse(st, s) /\ st[s].op # "store"
  BY <1>1 DEF Paired, F_CTRL, InUse
<1>7. Recovering(st2) = Recovering(st)
  BY <1>2, <1>6 DEF SameOp, Recovering
<1>8. CASE m.spec_mode
  <2>1. PICK b \in Slots(config) : Recovering(st) = {b} /\ Divided(st, b)
    BY <1>5, <1>8 DEF Speculates, st
  <2>2. InUse(st, b) /\ SameOp(st[b], st2[b]) /\ st[b].seq \in 1 .. m.inst_seq
    BY <1>2, <1>3, <1>6, <2>1 DEF Recovering
  <2>3. ASSUME NEW t \in Slots(config), InUse(st2, t)
        PROVE  st2[t].spec_mode <=> st2[t].seq > st2[b].seq
    <3>1. CASE SameOp(st[t], st2[t])
      BY <2>1, <2>2, <2>3, <3>1 DEF Divided, InUse, SameOp
    <3>2. CASE st2[t].spec_mode = m.spec_mode /\ st2[t].seq > m.inst_seq
      <4>1. st2[t].seq \in 1 .. x.inst_seq /\ x.inst_seq \in Nat
        BY <1>1, <1>4, <2>3 DEF st2, Rings
      <4>2. st2[b].seq \in 1 .. m.inst_seq
        BY <2>2 DEF SameOp
      <4> QED BY <1>1, <1>8, <3>2, <4>1, <4>2
    <3> QED BY <1>2, <3>1, <3>2
  <2> QED BY <1>1, <1>7, <1>8, <2>1, <2>3 DEF Speculates, Divided, st2
<1>9. CASE ~m.spec_mode
  <2>1. Recovering(st) = {} /\ \A t \in Slots(config) :
          InUse(st, t) => ~st[t].spec_mode
    BY <1>5, <1>9 DEF Speculates, st
  <2>2. \A t \in Slots(config) : InUse(st2, t) => ~st2[t].spec_mode
    BY <1>2, <1>9, <2>1 DEF SameOp, InUse
  <2> QED BY <1>1, <1>7, <1>9, <2>1, <2>2 DEF Speculates, st2
<1> QED BY <1>8, <1>9

(* What is fetched, and where it may go on.                                 *)
LEMMA FetchedIs ==
    ASSUME workload \in Workloads, NEW PC \in Nat
    PROVE  /\ Inst(PC).op \in OpClasses /\ Sequel(PC) \in Nat
           /\ Outcomes(Inst(PC), PC) \subseteq Nat
           /\ Inst(PC).targets \subseteq Nat
           /\ Inst(PC).op \notin F_CTRL => Outcomes(Inst(PC), PC) = {Sequel(PC)}
<1>1. Inst(PC).op \in OpClasses /\ Inst(PC).targets \subseteq Nat
  BY WorkloadAssumption DEF Inst, NOP, program, OpClasses
<1>2. Sequel(PC) \in Nat
  BY DEF Sequel, BOGUS
<1> QED BY <1>1, <1>2 DEF Outcomes, F_CTRL

LEMMA ChainedTail ==
    ASSUME workload \in Workloads, NEW m, Chained(m), m.fetch_queue # <<>>
    PROVE  LET q == m.fetch_queue
           IN /\ q[1] = Head(q) /\ Head(q) \in Fetch_Data
              /\ Tail(q) \in Seq(Fetch_Data)
              /\ Head(q).pred_PC = IF Tail(q) = <<>> THEN m.fetch_pred_PC
                                   ELSE Tail(q)[1].PC
              /\ \A i \in 1 .. Len(Tail(q)) :
                   /\ Tail(q)[i].pred_PC = IF i = Len(Tail(q)) THEN m.fetch_pred_PC
                                           ELSE Tail(q)[i + 1].PC
                   /\ Inst(Tail(q)[i].PC).op \notin F_CTRL =>
                        Tail(q)[i].pred_PC = Sequel(Tail(q)[i].PC)
              /\ Inst(Head(q).PC).op \notin F_CTRL =>
                   Head(q).pred_PC = Sequel(Head(q).PC)
<1> DEFINE q == m.fetch_queue
           p == Tail(q)
<1>1. /\ q \in Seq(Fetch_Data) /\ q # <<>>
      /\ \A i \in 1 .. Len(q) :
           /\ q[i].pred_PC = IF i = Len(q) THEN m.fetch_pred_PC ELSE q[i + 1].PC
           /\ Inst(q[i].PC).op \notin F_CTRL => q[i].pred_PC = Sequel(q[i].PC)
  BY DEF Chained
<1> HIDE DEF q
<1>2. /\ p \in Seq(Fetch_Data) /\ Len(p) = Len(q) - 1 /\ Len(q) \in Nat
      /\ Len(q) >= 1 /\ \A i \in 1 .. Len(p) : p[i] = q[i + 1]
      /\ q[1] = Head(q) /\ Head(q) \in Fetch_Data /\ (p = <<>> <=> Len(q) = 1)
  <2> DEFINE S == Fetch_Data
  <2>1. q \in Seq(S) /\ q # <<>>
    BY <1>1
  <2> HIDE DEF S
  <2>2. /\ p \in Seq(S) /\ Len(p) = Len(q) - 1 /\ Len(q) \in Nat /\ Len(q) >= 1
    BY <2>1
  <2>3. \A i \in 1 .. Len(p) : p[i] = q[i + 1]
    BY <2>1, <2>2
  <2>4. q[1] = Head(q) /\ Head(q) \in S
    BY <2>1
  <2>5. p = <<>> <=> Len(p) = 0
    <3> HIDE DEF p
    <3> QED BY <2>2
  <2>6. p = <<>> <=> Len(q) = 1
    BY <2>2, <2>5
  <2> QED BY <2>2, <2>3, <2>4, <2>6 DEF S
<1> HIDE DEF p
<1>3. \A i \in 1 .. Len(p) :
        /\ p[i].pred_PC = IF i = Len(p) THEN m.fetch_pred_PC ELSE p[i + 1].PC
        /\ Inst(p[i].PC).op \notin F_CTRL => p[i].pred_PC = Sequel(p[i].PC)
  <2> TAKE i \in 1 .. Len(p)
  <2>1. i + 1 \in 1 .. Len(q) /\ p[i] = q[i + 1]
        /\ (i = Len(p) <=> i + 1 = Len(q))
    BY <1>2
  <2>2. i # Len(p) => p[i + 1] = q[(i + 1) + 1]
    BY <1>2
  <2> QED BY <1>1, <2>1, <2>2
<1>4. Head(q).pred_PC = IF p = <<>> THEN m.fetch_pred_PC ELSE p[1].PC
  <2>1. 1 \in 1 .. Len(q) /\ (p # <<>> => p[1] = q[1 + 1])
    BY <1>2
  <2> QED BY <1>1, <1>2, <2>1
<1>5. Inst(Head(q).PC).op \notin F_CTRL => Head(q).pred_PC = Sequel(Head(q).PC)
  <2>1. 1 \in 1 .. Len(q)
    BY <1>2
  <2> QED BY <1>1, <1>2, <2>1
<1> QED BY <1>2, <1>3, <1>4, <1>5 DEF p, q

LEMMA AllocatedGrows ==
    ASSUME workload \in Workloads, NEW m, Kept(m), ~Stopped(m),
           m.RUU_num < config.RUU_size, m.LSQ_num < config.LSQ_size,
           NEW inst, inst.op \in OpClasses
    PROVE  /\ Grows(m, Allocated(m, inst)) /\ RUUTail(m) \in Slots(config)
           /\ inst.op \in F_CTRL /\ ~Stopped(Allocated(m, inst)) =>
                /\ IsNew(Allocated(m, inst).station[RUUTail(m)], inst.op,
                         FALSE, m.spec_mode, m.inst_seq + 1)
                /\ Allocated(m, inst).inst_seq = m.inst_seq + 1
<1>1. inst.op # "none" /\ (inst.op \in F_CTRL => inst.op \notin F_MEM \cup {"nop"})
  BY DEF OpClasses, F_CTRL, F_MEM, F_TRAP
<1>2. Grows(m, m)
  BY DEF Grows, Kept, SameOp
<1>3. /\ Grows(m, AllocateMem(m, inst)) /\ Grows(m, AllocateOther(m, inst))
      /\ RUUTail(m) \in Slots(config)
      /\ ~Stopped(AllocateOther(m, inst)) =>
           /\ IsNew(AllocateOther(m, inst).station[RUUTail(m)], inst.op,
                    FALSE, m.spec_mode, m.inst_seq + 1)
           /\ AllocateOther(m, inst).inst_seq = m.inst_seq + 1
  BY <1>1, AllocateOtherGrows, AllocateMemGrows
<1>4. /\ Allocated(m, inst) \in {m, AllocateMem(m, inst), AllocateOther(m, inst)}
      /\ inst.op \in F_CTRL => Allocated(m, inst) = AllocateOther(m, inst)
  BY <1>1 DEF Allocated
<1> QED BY <1>2, <1>3, <1>4

(* A machine that has the stations and the rings of x, but another path.    *)
Follows(x, r, changed) ==
    /\ DOMAIN r = MachineFields /\ r.station = x.station
    /\ r.event_queue = x.event_queue /\ r.ready_queue = x.ready_queue
    /\ Others(x, r, changed)

LEMMA FollowsKeeps ==
    ASSUME NEW x, NEW r, IsMachine(x),
           Follows(x, r, {"fetch_queue", "fetch_pred_PC", "arch_NPC"})
    PROVE  /\ IsMachine(r) /\ (Sane(x) => Sane(r)) /\ (Stopped(r) <=> Stopped(x))
           /\ r.spec_mode = x.spec_mode /\ r.recover_PC = x.recover_PC
           /\ r.inst_seq = x.inst_seq
           /\ Rings(x) => Rings(r)
           /\ Speculates(x) => Speculates(r)
<1>1. IsMachine(r)
  BY DEF IsMachine, Follows
<1>2. /\ r.RUU_head = x.RUU_head /\ r.RUU_tail = x.RUU_tail
      /\ r.RUU_num = x.RUU_num /\ r.LSQ_head = x.LSQ_head
      /\ r.LSQ_tail = x.LSQ_tail /\ r.LSQ_num = x.LSQ_num
      /\ r.spec_mode = x.spec_mode /\ r.recover_PC = x.recover_PC
      /\ r.inst_seq = x.inst_seq /\ r.panic = x.panic /\ r.halted = x.halted
      /\ r.station = x.station
  BY DEF Follows, Others, PathFields
<1>3. (Sane(x) => Sane(r)) /\ (Stopped(r) <=> Stopped(x))
  BY <1>2 DEF Sane, Stopped
<1>4. Rings(x) => Rings(r)
  BY <1>2 DEF Rings, RUURing, LSQRing
<1>5. Speculates(x) => Speculates(r)
  BY <1>2 DEF Speculates
<1> QED BY <1>1, <1>2, <1>3, <1>4, <1>5

LEMMA MisspeculatingKept ==
    ASSUME workload \in Workloads, NEW x, IsMachine(x), Sane(x),
           NEW rs \in Slots(config), NEW NPC \in Nat,
           ~Stopped(x) =>
             /\ Rings(x) /\ Chained(x) /\ Speculates(x) /\ ~x.spec_mode
             /\ x.arch_NPC = NPC /\ InRUU(rs)
             /\ x.station[rs].op \in F_CTRL /\ ~x.station[rs].completed
             /\ x.station[rs].seq = x.inst_seq
    PROVE  Kept(Misspeculating(x, rs, NPC))
<1> DEFINE r   == Misspeculating(x, rs, NPC)
           st  == x.station
           st2 == r.station
           rec == [st[rs] EXCEPT !.recover_inst = TRUE]
<1>1. /\ DOMAIN r = MachineFields /\ r.station = [st EXCEPT ![rs] = rec]
      /\ r.event_queue = x.event_queue /\ r.ready_queue = x.ready_queue
      /\ Others(x, r, {"spec_mode", "recover_PC"})
      /\ r.spec_mode = TRUE /\ r.recover_PC = NPC
  BY MachineFieldsAre DEF IsMachine, PathFields, Others, Misspeculating
<1>2. /\ IsStation(rec) /\ rec.op = st[rs].op /\ rec.seq = st[rs].seq
      /\ rec.ea_comp = st[rs].ea_comp /\ rec.spec_mode = st[rs].spec_mode
      /\ rec.completed = st[rs].completed /\ rec.recover_inst = TRUE
  BY StationFieldsAre DEF IsMachine, IsStation
<1> HIDE DEF r, rec
<1>3. \A t \in Slots(config) : st2[t] = IF t = rs THEN rec ELSE st[t]
  BY <1>1 DEF IsMachine
<1>4. IsMachine(r)
  BY <1>1, <1>2, <1>3 DEF IsMachine
<1>5. /\ r.RUU_head = x.RUU_head /\ r.RUU_tail = x.RUU_tail
      /\ r.RUU_num = x.RUU_num /\ r.LSQ_head = x.LSQ_head
      /\ r.LSQ_tail = x.LSQ_tail /\ r.LSQ_num = x.LSQ_num
      /\ r.fetch_queue = x.fetch_queue /\ r.fetch_pred_PC = x.fetch_pred_PC
      /\ r.arch_NPC = x.arch_NPC
      /\ r.inst_seq = x.inst_seq /\ r.panic = x.panic /\ r.halted = x.halted
  BY <1>1 DEF Others, PathFields
<1>6. Sane(r) /\ (Stopped(r) <=> Stopped(x))
  BY <1>5 DEF Sane, Stopped
<1>7. ASSUME ~Stopped(x) PROVE Rings(r) /\ Path(r)
  <2>1. Rings(x) /\ Chained(x) /\ Speculates(x) /\ ~x.spec_mode /\ Paired(st)
    BY <1>7 DEF Rings
  <2>2. \A s \in Slots(config) :
          /\ SamePlace(st[s], st2[s])
          /\ st2[s].recover_inst => InRUU(s) /\ st2[s].op \in F_CTRL
    BY <1>2, <1>3, <1>7, <2>1 DEF SamePlace, Paired
  <2>3. Rings(r)
    BY <1>5, <2>1, <2>2, RingsStay
  <2>4. Chained(r) /\ Expects(r)
    BY <1>1, <1>5, <1>7, <2>1 DEF Chained, Expects
  <2>5. Recovering(st) = {} /\ \A t \in Slots(config) :
          InUse(st, t) => ~st[t].spec_mode
    BY <2>1 DEF Speculates
  <2>6. Recovering(st2) = {rs}
    BY <1>2, <1>3, <1>7, <2>5 DEF Recovering
  <2>7. \A t \in Slots(config) : InUse(st, t) =>
          st[t].seq \in 1 .. x.inst_seq /\ x.inst_seq \in Nat
    BY <2>1, Numbered DEF Rings
  <2>8. Divided(st2, rs)
    <3>1. \A t \in Slots(config) : /\ st2[t].seq = st[t].seq
                                   /\ st2[t].spec_mode = st[t].spec_mode
                                   /\ InUse(st2, t) <=> InUse(st, t)
      BY <1>2, <1>3 DEF InUse
    <3> QED BY <1>7, <2>5, <2>7, <3>1 DEF Divided
  <2>9. Speculates(r)
    BY <1>1, <2>6, <2>8 DEF Speculates
  <2> QED BY <2>3, <2>4, <2>9 DEF Path
<1> QED BY <1>4, <1>6, <1>7 DEF Kept, r

LEMMA DispatchedKept ==
    ASSUME workload \in Workloads, NEW m, Kept(m), ~Stopped(m), MayDispatch(m),
           NEW fetched, fetched = Head(m.fetch_queue),
           NEW inst, inst = Inst(fetched.PC),
           NEW NPC \in Outcomes(inst, fetched.PC)
    PROVE  Kept(Dispatched(m, inst, fetched, NPC))
<1> DEFINE al   == Allocated(m, inst)
           rs   == RUUTail(m)
           a    == [al EXCEPT !.arch_NPC = IF m.spec_mode THEN @ ELSE NPC]
           red  == Redirected(a, NPC)
           next == [a EXCEPT !.fetch_queue = Tail(@)]
           q    == m.fetch_queue
           some == {"fetch_queue", "fetch_pred_PC", "arch_NPC"}
<1>1. /\ IsMachine(m) /\ Sane(m) /\ Rings(m) /\ Path(m) /\ Chained(m) /\ Expects(m)
      /\ q # <<>> /\ m.RUU_num < config.RUU_size /\ m.LSQ_num < config.LSQ_size
  BY DEF Kept, Path, MayDispatch
<1>2. /\ q[1] = fetched /\ fetched \in Fetch_Data /\ Tail(q) \in Seq(Fetch_Data)
      /\ fetched.pred_PC = IF Tail(q) = <<>> THEN m.fetch_pred_PC ELSE Tail(q)[1].PC
      /\ \A i \in 1 .. Len(Tail(q)) :
           /\ Tail(q)[i].pred_PC = IF i = Len(Tail(q)) THEN m.fetch_pred_PC
                                   ELSE Tail(q)[i + 1].PC
           /\ Inst(Tail(q)[i].PC).op \notin F_CTRL =>
                Tail(q)[i].pred_PC = Sequel(Tail(q)[i].PC)
      /\ inst.op \notin F_CTRL => fetched.pred_PC = Sequel(fetched.PC)
  BY <1>1, ChainedTail
<1>3. /\ fetched.PC \in Nat /\ inst.op \in OpClasses /\ NPC \in Nat
      /\ inst.op \notin F_CTRL => NPC = Sequel(fetched.PC)
  <2>1. fetched.PC \in Nat
    BY <1>2 DEF Fetch_Data
  <2> QED BY <2>1, FetchedIs
<1>4. /\ Grows(m, al) /\ rs \in Slots(config)
      /\ inst.op \in F_CTRL /\ ~Stopped(al) =>
           /\ IsNew(al.station[rs], inst.op, FALSE, m.spec_mode, m.inst_seq + 1)
           /\ al.inst_seq = m.inst_seq + 1
  BY <1>1, <1>3, AllocatedGrows
<1>5. CASE inst.op = "exit"
  <2> DEFINE r == [m EXCEPT !.halted = TRUE]
  <2>1. /\ DOMAIN r = MachineFields /\ r.station = m.station
        /\ r.event_queue = m.event_queue /\ r.ready_queue = m.ready_queue
        /\ r.panic = m.panic /\ r.halted = TRUE
    BY <1>1, MachineFieldsAre DEF IsMachine
  <2>2. Dispatched(m, inst, fetched, NPC) = r
    BY <1>5 DEF Dispatched
  <2> HIDE DEF r
  <2>3. IsMachine(r) /\ Sane(r) /\ Stopped(r)
    BY <1>1, <2>1 DEF IsMachine, Sane, Stopped
  <2> QED BY <2>2, <2>3 DEF Kept
<1>6. CASE inst.op # "exit"
  <2>1. /\ IsMachine(al) /\ Sane(al)
        /\ ~Stopped(al) =>
             /\ Rings(al) /\ Speculates(al) /\ al.spec_mode = m.spec_mode
             /\ al.recover_PC = m.recover_PC /\ al.fetch_queue = q
             /\ al.fetch_pred_PC = m.fetch_pred_PC /\ al.arch_NPC = m.arch_NPC
    BY <1>4, GrowsSpeculates DEF Grows
  <2> HIDE DEF al, rs, q
  <2>2. /\ Follows(al, a, some) /\ a.fetch_queue = al.fetch_queue
        /\ a.fetch_pred_PC = al.fetch_pred_PC
        /\ a.arch_NPC = IF m.spec_mode THEN al.arch_NPC ELSE NPC
    BY <2>1, MachineFieldsAre DEF Follows, Others, PathFields, IsMachine
  <2> HIDE DEF a
  <2>3. /\ Follows(al, red, some) /\ red.fetch_queue = <<>>
        /\ red.fetch_pred_PC = NPC /\ red.arch_NPC = a.arch_NPC
    BY <2>2, MachineFieldsAre DEF Follows, Others, PathFields, Redirected
  <2>4. /\ Follows(al, next, some) /\ next.fetch_queue = Tail(a.fetch_queue)
        /\ next.fetch_pred_PC = a.fetch_pred_PC /\ next.arch_NPC = a.arch_NPC
    BY <2>2, MachineFieldsAre DEF Follows, Others, PathFields
  <2>5. /\ a.spec_mode = al.spec_mode /\ (Stopped(a) <=> Stopped(al))
    BY <2>1, <2>2, FollowsKeeps
  <2>6. \/ Dispatched(m, inst, fetched, NPC) = red
        \/ /\ Dispatched(m, inst, fetched, NPC) = next
           /\ a.spec_mode \/ fetched.pred_PC = NPC
        \/ /\ Dispatched(m, inst, fetched, NPC) = Misspeculating(next, rs, NPC)
           /\ ~a.spec_mode /\ fetched.pred_PC # NPC
    BY <1>6 DEF Dispatched, Resumed, al, rs, a
  <2> HIDE DEF red, next, some
  <2>7. Kept(red)
    <3>1. /\ IsMachine(red) /\ Sane(red) /\ (Stopped(red) <=> Stopped(al))
          /\ red.spec_mode = al.spec_mode /\ red.recover_PC = al.recover_PC
          /\ Rings(al) => Rings(red)
          /\ Speculates(al) => Speculates(red)
      BY <2>1, <2>3, FollowsKeeps DEF some
    <3>2. ASSUME ~Stopped(al) PROVE Chained(red) /\ Expects(red)
      <4>1. red.fetch_queue \in Seq(Fetch_Data) /\ Len(red.fetch_queue) = 0
        BY <2>3
      <4>2. Chained(red)
        BY <1>3, <2>3, <4>1 DEF Chained
      <4>3. Expects(red)
        BY <1>1, <1>3, <2>1, <2>2, <2>3, <3>1, <3>2 DEF Expects
      <4> QED BY <4>2, <4>3
    <3> QED BY <2>1, <3>1, <3>2 DEF Kept, Path
  <2>8. /\ IsMachine(next) /\ Sane(next) /\ (Stopped(next) <=> Stopped(al))
        /\ next.spec_mode = al.spec_mode /\ next.recover_PC = al.recover_PC
        /\ next.inst_seq = al.inst_seq /\ next.station = al.station
        /\ Rings(al) => Rings(next)
        /\ Speculates(al) => Speculates(next)
    BY <2>1, <2>4, FollowsKeeps DEF some, Follows
  <2>9. ~Stopped(al) => Chained(next)
    BY <1>1, <1>2, <2>1, <2>2, <2>4 DEF Chained, q
  <2>10. ASSUME a.spec_mode \/ fetched.pred_PC = NPC PROVE Kept(next)
    <3>1. ASSUME ~Stopped(al) PROVE Expects(next)
      <4>1. next.fetch_queue = Tail(q) /\ next.fetch_pred_PC = m.fetch_pred_PC
            /\ next.arch_NPC = (IF m.spec_mode THEN m.arch_NPC ELSE NPC)
            /\ next.spec_mode = m.spec_mode /\ next.recover_PC = m.recover_PC
        BY <2>1, <2>2, <2>4, <2>8, <3>1
      <4>2. m.spec_mode => m.arch_NPC = m.recover_PC
        BY <1>1 DEF Expects
      <4>3. m.arch_NPC \in Nat
        BY <1>1 DEF Expects
      <4>4. m.spec_mode \/ fetched.pred_PC = NPC
        BY <2>1, <2>5, <2>10, <3>1
      <4> QED BY <1>2, <1>3, <4>1, <4>2, <4>3, <4>4 DEF Expects
    <3> QED BY <2>1, <2>8, <2>9, <3>1 DEF Kept, Path
  <2>11. ASSUME ~a.spec_mode, fetched.pred_PC # NPC
         PROVE  Kept(Misspeculating(next, rs, NPC))
    <3>1. inst.op \in F_CTRL
      BY <1>2, <1>3, <2>11
    <3>2. ASSUME ~Stopped(next)
          PROVE  /\ Rings(next) /\ Chained(next) /\ Speculates(next)
                 /\ ~next.spec_mode /\ next.arch_NPC = NPC /\ InRUU(rs)
                 /\ next.station[rs].op \in F_CTRL /\ ~next.station[rs].completed
                 /\ next.station[rs].seq = next.inst_seq
      <4>1. ~Stopped(al)
        BY <2>8, <3>2
      <4>2. IsNew(al.station[rs], inst.op, FALSE, m.spec_mode, m.inst_seq + 1)
            /\ al.inst_seq = m.inst_seq + 1
        BY <1>4, <3>1, <4>1
      <4>3. inst.op # "store"
        BY <3>1 DEF F_CTRL
      <4>4. ~m.spec_mode
        BY <2>1, <2>5, <2>11, <4>1
      <4> QED BY <2>1, <2>2, <2>4, <2>5, <2>8, <2>9, <2>11, <3>1, <4>1, <4>2, <4>3, <4>4
              DEF IsNew, InRUU, rs, RUUTail
    <3> QED BY <1>3, <1>4, <2>8, <3>2, MisspeculatingKept DEF rs
  <2> QED BY <2>6, <2>7, <2>10, <2>11
<1> QED BY <1>5, <1>6

(* A trap that is dispatched on the wrong path would find the branch that   *)
(* will recover in the RUU.                                                 *)
LEMMA NotDrained ==
    ASSUME workload \in Workloads, NEW m, Rings(m), Speculates(m), m.RUU_num = 0
    PROVE  ~m.spec_mode
<1>1. SUFFICES ASSUME m.spec_mode PROVE FALSE
  OBVIOUS
<1> DEFINE st == m.station
           R  == config.RUU_size
           k  == Before(m.RUU_tail, R)
<1>2. PICK b \in Slots(config) : Recovering(st) = {b}
  BY <1>1 DEF Speculates
<1>3. InRUU(b) /\ InUse(st, b)
  BY <1>2 DEF Rings, Paired, Recovering, F_CTRL, InUse
<1>4. Ring(st, "RUU", m.RUU_head, m.RUU_num, m.RUU_tail, R, m.inst_seq)
      /\ R \in Nat \ {0} /\ m.inst_seq \in Nat /\ k = Before(m.RUU_tail, R)
  BY Configured DEF Rings, RUURing
<1> HIDE DEF st, R, k
<1>5. Ends(st, "RUU", m.RUU_head, k, m.RUU_num, R)
  BY <1>4, RingEnds
<1>6. PICK i \in 0 .. R - 1 : b = <<"RUU", i>>
  BY <1>3, Configured DEF R
<1> QED BY <1>3, <1>5, <1>6 DEF Ends

LEMMA DispatchOneKept ==
    ASSUME workload \in Workloads, NEW m, Kept(m), NEW width,
           NEW x \in DispatchOne(m, width)
    PROVE  Kept(x.m)
<1> DEFINE fetched == Head(m.fetch_queue)
           inst    == Inst(fetched.PC)
           wrong   == Panics(m, "drained and speculative")
           left    == IF inst.op = "nop" THEN width ELSE width - 1
<1>1. CASE x.m = m
  BY <1>1
<1>2. CASE x.m # m
  <2>1. /\ ~Stopped(m) /\ MayDispatch(m)
        /\ \/ inst.op \in F_TRAP /\ m.spec_mode
           \/ \E NPC \in Outcomes(inst, fetched.PC) :
                x.m = Dispatched(m, inst, fetched, NPC)
    <3> DEFINE ends  == Stopped(m) \/ width = 0 \/ ~MayDispatch(m)
               traps == inst.op \in F_TRAP /\ m.spec_mode
               made  == {[m |-> Dispatched(m, inst, fetched, NPC),
                          width |-> left] : NPC \in Outcomes(inst, fetched.PC)}
               stays == [m |-> m, width |-> 0]
               fails == [m |-> wrong, width |-> 0]
    <3>1. x \in IF ends THEN {stays} ELSE IF traps THEN {fails} ELSE made
      BY Zenon DEF DispatchOne
    <3>2. stays.m = m
      OBVIOUS
    <3>3. x \in made => \E NPC \in Outcomes(inst, fetched.PC) :
                          x.m = Dispatched(m, inst, fetched, NPC)
      <4> DEFINE D(NPC) == Dispatched(m, inst, fetched, NPC)
      <4> HIDE DEF D, left, inst, fetched
      <4>1. x \in made => \E NPC \in Outcomes(inst, fetched.PC) :
                             x = [m |-> D(NPC), width |-> left]
        BY DEF D
      <4>2. x \in made => \E NPC \in Outcomes(inst, fetched.PC) : x.m = D(NPC)
        BY <4>1
      <4> QED BY <4>2 DEF D
    <3> HIDE DEF made, stays, fails
    <3>4. ~ends
      <4>1. ends => x = stays
        BY <3>1
      <4> QED BY <4>1, <3>2, <1>2
    <3>5. ~Stopped(m) /\ MayDispatch(m)
      BY <3>4
    <3> HIDE DEF ends
    <3>6. traps \/ x \in made
      BY <3>1, <3>4
    <3> QED BY <3>3, <3>5, <3>6
  <2>2. inst.op \in F_TRAP => ~m.spec_mode
    <3>1. inst.op \in F_TRAP => m.RUU_num = 0
      BY <2>1 DEF MayDispatch
    <3> QED BY <2>1, <3>1, NotDrained DEF Kept, Path
  <2>3. PICK NPC \in Outcomes(inst, fetched.PC) :
          x.m = Dispatched(m, inst, fetched, NPC)
    BY <2>1, <2>2
  <2> HIDE DEF fetched
  <2>4. fetched = Head(m.fetch_queue)
    BY DEF fetched
  <2> QED BY <2>1, <2>3, <2>4, DispatchedKept
<1> QED BY <1>1, <1>2

LEMMA DispatchKept ==
    ASSUME workload \in Workloads, NEW m, Kept(m), ~Stopped(m),
           NEW r \in ruu_dispatch(m)
    PROVE  Kept(r)
<1> DEFINE n == Len(m.fetch_queue)
           start == {[m |-> m, width |-> config.decode_width]}
           f == CHOOSE f : Dispatches(f, m)
           Good(k) == \A x \in f[k] : Kept(x.m)
           H == {k \in Nat : k <= n => Good(k)}
<1>1. PICK y \in f[n] : r = y.m
  BY DEF ruu_dispatch, Dispatches
<1>2. n \in Nat
  <2>1. m.fetch_queue \in Seq(Fetch_Data)
    BY DEF Kept, Path, Chained
  <2> QED BY <2>1
<1>3. Dispatches(f, m)
  BY <1>2, DispatchesExist
<1> HIDE DEF f
<1>4. 0 \in H
  <2>1. f[0] = start
    BY <1>2, <1>3 DEF Dispatches
  <2>2. \A x \in start : x.m = m
    OBVIOUS
  <2> QED BY <2>1, <2>2
<1>5. ASSUME NEW k \in H PROVE k + 1 \in H
  <2>1. SUFFICES ASSUME k + 1 <= n PROVE Good(k + 1)
    OBVIOUS
  <2>2. Good(k) /\ k + 1 \in 0 .. n /\ k + 1 # 0 /\ (k + 1) - 1 = k
    BY <1>2, <2>1
  <2>3. f[k + 1] = UNION {DispatchOne(x.m, x.width) : x \in f[k]}
    BY <1>3, <2>2, Zenon DEF Dispatches
  <2>4. ASSUME NEW z \in f[k + 1] PROVE Kept(z.m)
    <3>1. PICK x \in f[k] : z \in DispatchOne(x.m, x.width)
      BY <2>3
    <3>2. Kept(x.m)
      BY <2>2
    <3> QED BY <3>1, <3>2, DispatchOneKept
  <2> QED BY <2>4
<1>6. H = Nat
  <2> HIDE DEF H
  <2>1. H \in SUBSET Nat
    BY DEF H
  <2> QED BY <1>4, <1>5, <2>1, Induction
<1>7. Good(n)
  BY <1>2, <1>6
<1> QED BY <1>1, <1>7

-----------------------------------------------------------------------------
(* ruu_fetch.                                                               *)
LEMMA FetchedKept ==
    ASSUME workload \in Workloads, NEW m, Kept(m),
           NEW p \in Predicted(Inst(m.fetch_pred_PC), m.fetch_pred_PC)
    PROVE  Kept(Fetched(m, p.PC))
<1> DEFINE PC == m.fetch_pred_PC
           q  == m.fetch_queue
           e  == [PC |-> PC, pred_PC |-> p.PC]
           r  == Fetched(m, p.PC)
           some == {"fetch_queue", "fetch_pred_PC", "arch_NPC"}
<1>1. IsMachine(m) /\ Sane(m)
  BY DEF Kept
<1>2. /\ Follows(m, r, some) /\ r.fetch_queue = Append(q, e)
      /\ r.fetch_pred_PC = p.PC /\ r.arch_NPC = m.arch_NPC
  BY <1>1, MachineFieldsAre DEF IsMachine, Follows, Others, PathFields, Fetched
<1> HIDE DEF r
<1>3. /\ IsMachine(r) /\ Sane(r) /\ (Stopped(r) <=> Stopped(m))
      /\ r.spec_mode = m.spec_mode /\ r.recover_PC = m.recover_PC
      /\ Rings(m) => Rings(r)
      /\ Speculates(m) => Speculates(r)
  BY <1>1, <1>2, FollowsKeeps
<1>4. ASSUME ~Stopped(m) PROVE Chained(r) /\ Expects(r)
  <2>1. Chained(m) /\ Expects(m)
    BY <1>4 DEF Kept, Path
  <2>2. PC \in Nat
    BY <2>1 DEF Chained
  <2>3. p.PC \in Nat /\ (Inst(PC).op \notin F_CTRL => p.PC = Sequel(PC))
    <3>1. Sequel(PC) \in Nat /\ Inst(PC).targets \subseteq Nat
      BY <2>2, FetchedIs
    <3> HIDE DEF PC
    <3>2. \/ p = [PC |-> Sequel(PC), taken |-> FALSE]
          \/ /\ Inst(PC).op \in F_CTRL
             /\ \E target \in Inst(PC).targets \cup {BOGUS} :
                  p = [PC |-> target, taken |-> TRUE]
      BY DEF Predicted, PC
    <3> QED BY <3>1, <3>2 DEF BOGUS
  <2>4. e \in Fetch_Data /\ e.PC = PC /\ e.pred_PC = p.PC
    BY <2>2, <2>3 DEF Fetch_Data
  <2>5. q \in Seq(Fetch_Data)
    BY <2>1 DEF Chained
  <2> DEFINE D == Fetch_Data
             s == Append(q, e)
  <2> HIDE DEF e, q, D
  <2>6. /\ s \in Seq(D) /\ Len(s) = Len(q) + 1 /\ Len(q) \in Nat
        /\ s[Len(q) + 1] = e /\ \A i \in 1 .. Len(q) : s[i] = q[i]
    BY <2>4, <2>5 DEF D
  <2> HIDE DEF s
  <2>7. \A i \in 1 .. Len(s) :
          /\ s[i].pred_PC = IF i = Len(s) THEN p.PC ELSE s[i + 1].PC
          /\ Inst(s[i].PC).op \notin F_CTRL => s[i].pred_PC = Sequel(s[i].PC)
    <3> TAKE i \in 1 .. Len(s)
    <3>1. CASE i = Len(s)
      BY <2>3, <2>4, <2>6, <3>1
    <3>2. CASE i # Len(s)
      <4>1. i \in 1 .. Len(q) /\ s[i] = q[i]
        BY <2>6, <3>2
      <4>2. /\ q[i].pred_PC = IF i = Len(q) THEN PC ELSE q[i + 1].PC
            /\ Inst(q[i].PC).op \notin F_CTRL => q[i].pred_PC = Sequel(q[i].PC)
        BY <2>1, <4>1 DEF Chained, q
      <4>3. CASE i = Len(q)
        <5>1. s[i + 1] = e
          BY <2>6, <4>3
        <5> QED BY <2>4, <3>2, <4>1, <4>2, <4>3, <5>1
      <4>4. CASE i # Len(q)
        <5>1. i + 1 \in 1 .. Len(q)
          BY <2>6, <4>1, <4>4
        <5>2. s[i + 1] = q[i + 1]
          BY <2>6, <5>1
        <5> QED BY <3>2, <4>1, <4>2, <4>4, <5>2
      <4> QED BY <4>3, <4>4
    <3> QED BY <3>1, <3>2
  <2>8. Chained(r)
    BY <1>2, <2>3, <2>6, <2>7 DEF Chained, s, D, q
  <2>9. s # <<>> /\ s[1].PC = IF q = <<>> THEN PC ELSE q[1].PC
    <3>1. s # <<>>
      BY <2>6
    <3>2. CASE q = <<>>
      <4>1. Len(q) = 0
        BY <3>2
      <4> QED BY <2>4, <2>6, <3>1, <3>2, <4>1
    <3>3. CASE q # <<>>
      <4>1. 1 \in 1 .. Len(q)
        BY <2>5, <3>3
      <4> QED BY <2>6, <3>1, <3>3, <4>1
    <3> QED BY <3>2, <3>3
  <2>10. Expects(r)
    BY <1>2, <1>3, <2>1, <2>9 DEF Expects, s, q
  <2> QED BY <2>8, <2>10
<1> QED BY <1>3, <1>4 DEF Kept, Path, r

LEMMA FetchOneKept ==
    ASSUME workload \in Workloads, NEW m, Kept(m), NEW goes,
           NEW x \in FetchOne(m, goes)
    PROVE  Kept(x.m)
<1>1. \/ x.m = m
      \/ x.m \in Missed(m)
      \/ \E p \in Predicted(Inst(m.fetch_pred_PC), m.fetch_pred_PC) :
           x.m = Fetched(m, p.PC)
  BY DEF FetchOne
<1>2. ASSUME NEW r \in Missed(m) PROVE Kept(r)
  <2>1. PICK lat : r = [m EXCEPT !.last_miss = m.fetch_pred_PC,
                                 !.ruu_fetch_issue_delay = @ + lat - 1]
    BY DEF Missed
  <2>2. IsMachine(m)
    BY DEF Kept
  <2>3. /\ DOMAIN r = MachineFields /\ r.station = m.station
        /\ \A f \in PathFields \cup {"panic", "halted"} : r[f] = m[f]
        /\ r.event_queue = m.event_queue /\ r.ready_queue = m.ready_queue
    BY <2>1, <2>2, MachineFieldsAre DEF IsMachine, PathFields
  <2>4. Calm(m, r)
    BY <2>2, <2>3, AsideCalm
  <2> QED BY <2>4, CalmKept
<1> QED BY <1>1, <1>2, FetchedKept

LEMMA FetchKept ==
    ASSUME workload \in Workloads, NEW m, Kept(m), NEW r \in ruu_fetch(m)
    PROVE  Kept(r)
<1> DEFINE n == config.decode_width
           start == {[m |-> m, goes |-> TRUE]}
           f == CHOOSE f : Fetches(f, m)
           Good(k) == \A x \in f[k] : Kept(x.m)
           H == {k \in Nat : k <= n => Good(k)}
           waits == [m EXCEPT !.ruu_fetch_issue_delay = @ - 1]
<1>1. r = waits \/ \E y \in f[n] : r = y.m
  BY DEF ruu_fetch, Fetches
<1>2. n \in Nat
  BY Configured
<1>3. Fetches(f, m)
  BY <1>2, FetchesExist
<1> HIDE DEF f
<1>4. 0 \in H
  <2>1. f[0] = start
    BY <1>2, <1>3 DEF Fetches
  <2>2. \A x \in start : x.m = m
    OBVIOUS
  <2> QED BY <2>1, <2>2
<1>5. ASSUME NEW k \in H PROVE k + 1 \in H
  <2>1. SUFFICES ASSUME k + 1 <= n PROVE Good(k + 1)
    OBVIOUS
  <2>2. Good(k) /\ k + 1 \in 0 .. n /\ k + 1 # 0 /\ (k + 1) - 1 = k
    BY <1>2, <2>1
  <2>3. f[k + 1] = UNION {FetchOne(x.m, x.goes) : x \in f[k]}
    BY <1>3, <2>2, Zenon DEF Fetches
  <2>4. ASSUME NEW z \in f[k + 1] PROVE Kept(z.m)
    <3>1. PICK x \in f[k] : z \in FetchOne(x.m, x.goes)
      BY <2>3
    <3>2. Kept(x.m)
      BY <2>2
    <3> QED BY <3>1, <3>2, FetchOneKept
  <2> QED BY <2>4
<1>6. H = Nat
  <2> HIDE DEF H
  <2>1. H \in SUBSET Nat
    BY DEF H
  <2> QED BY <1>4, <1>5, <2>1, Induction
<1>7. Good(n)
  BY <1>2, <1>6
<1>8. Kept(waits)
  <2>1. IsMachine(m)
    BY DEF Kept
  <2>2. /\ DOMAIN waits = MachineFields /\ waits.station = m.station
        /\ \A g \in PathFields \cup {"panic", "halted"} : waits[g] = m[g]
        /\ waits.event_queue = m.event_queue /\ waits.ready_queue = m.ready_queue
    BY <2>1, MachineFieldsAre DEF IsMachine, PathFields
  <2> HIDE DEF waits
  <2>3. Calm(m, waits)
    BY <2>1, <2>2, AsideCalm
  <2> QED BY <2>3, CalmKept
<1> HIDE DEF waits
<1> QED BY <1>1, <1>7, <1>8

-----------------------------------------------------------------------------
(* A machine that is kept becomes the state of the simulator.               *)
LEMMA BecomeKept ==
    ASSUME NEW m, Kept(m), Become(m), UNCHANGED workload
    PROVE  Kept(Machine)'
<1>1. config' = config /\ program' = program
  BY DEF config, program
<1>2. MachineFields' = MachineFields
  BY DEF MachineFields, Machine
<1>3. /\ Machine.station' = m.station
      /\ Machine.RUU_head' = m.RUU_head /\ Machine.RUU_tail' = m.RUU_tail
      /\ Machine.RUU_num' = m.RUU_num /\ Machine.LSQ_head' = m.LSQ_head
      /\ Machine.LSQ_tail' = m.LSQ_tail /\ Machine.LSQ_num' = m.LSQ_num
      /\ Machine.event_queue' = m.event_queue
      /\ Machine.ready_queue' = m.ready_queue
      /\ Machine.spec_mode' = m.spec_mode /\ Machine.recover_PC' = m.recover_PC
      /\ Machine.fetch_queue' = m.fetch_queue
      /\ Machine.fetch_pred_PC' = m.fetch_pred_PC
      /\ Machine.inst_seq' = m.inst_seq /\ Machine.panic' = m.panic
      /\ Machine.halted' = m.halted /\ Machine.arch_NPC' = m.arch_NPC
  BY DEF Machine, Become
<1>4. IsMachine(Machine)'
  <2>1. IsMachine(m)
    BY DEF Kept
  <2>2. (DOMAIN Machine)' = MachineFields
    BY <1>2 DEF MachineFields
  <2> QED BY <1>1, <1>2, <1>3, <2>1, <2>2 DEF IsMachine, IsStation, LinkSeq, IsLink
<1>5. Sane(Machine)' /\ (Stopped(Machine)' <=> Stopped(m))
  BY <1>3 DEF Kept, Sane, Stopped
<1>6. ASSUME ~Stopped(m) PROVE Rings(Machine)' /\ Path(Machine)'
  <2>1. Rings(m) /\ Path(m)
    BY <1>6 DEF Kept
  <2>2. Rings(Machine)'
    <3>1. RUURing(Machine)' /\ LSQRing(Machine)'
      BY <1>1, <1>3, <2>1 DEF Rings, RUURing, LSQRing
    <3>2. Paired(Machine.station)'
      BY <1>1, <1>3, <2>1 DEF Rings, Paired
    <3> QED BY <1>3, <2>1, <3>1, <3>2 DEF Rings
  <2>3. Chained(Machine)'
    <3>1. \A PC : Inst(PC)' = Inst(PC) /\ Sequel(PC)' = Sequel(PC)
      BY <1>1 DEF Inst, Sequel
    <3> QED BY <1>1, <1>3, <2>1, <3>1 DEF Path, Chained, Inst, Sequel
  <2>4. Expects(Machine)'
    BY <1>3, <2>1 DEF Path, Expects
  <2>5. Speculates(Machine)'
    BY <1>1, <1>3, <2>1 DEF Path, Speculates, Recovering, Divided
  <2> QED BY <2>2, <2>3, <2>4, <2>5 DEF Path
<1> QED BY <1>4, <1>5, <1>6 DEF Kept

(* The invariant: the workload is one that was given, and the machine is    *)
(* kept between any two stages.                                             *)
Inv == workload \in Workloads /\ Kept(Machine)

LEMMA InitKept == Init => Inv
<1> SUFFICES ASSUME Init PROVE Inv
  OBVIOUS
<1>1. workload \in Workloads
  BY DEF Init
<1>2. \A s \in Slots(config) : station[s] = Freed(0)
  BY DEF Init
<1>3. \A s \in Slots(config) : /\ ~InUse(station, s)
                               /\ ~station[s].ea_comp
                               /\ ~station[s].recover_inst
  BY <1>2 DEF InUse, Freed
<1>4. IsMachine(Machine)
  <2>1. IsStation(Freed(0))
    BY FreedStation
  <2>2. DOMAIN station = Slots(config) /\ \A s \in Slots(config) : IsStation(station[s])
    BY <1>2, <2>1 DEF Init
  <2>3. LinkSeq(event_queue) /\ LinkSeq(ready_queue)
    BY NoLinks DEF Init
  <2>4. /\ Machine.station = station /\ Machine.event_queue = event_queue
        /\ Machine.ready_queue = ready_queue
    BY DEF Machine
  <2> QED BY <2>2, <2>3, <2>4 DEF IsMachine, MachineFields
<1>5. Sane(Machine)
  BY DEF Init, Machine, Sane, Broken
<1>6. Rings(Machine)
  <2>1. \A q \in {"RUU", "LSQ"}, N \in Nat \ {0} :
          (\A i \in 0 .. N - 1 : ~InUse(station, <<q, i>>))
             => Ring(station, q, 0, 0, 0, N, 0)
    BY DEF Ring, Place
  <2>2. RUURing(Machine)
    BY <1>1, <1>3, <2>1, Configured DEF RUURing, Init, Machine
  <2>3. LSQRing(Machine)
    BY <1>1, <1>3, <2>1, Configured DEF LSQRing, Init, Machine
  <2>4. Paired(station)
    BY <1>3 DEF Paired
  <2> QED BY <2>2, <2>3, <2>4 DEF Rings, Init, Machine
<1>7. Path(Machine)
  <2>1. Chained(Machine) /\ Expects(Machine)
    BY DEF Chained, Expects, Init, Machine
  <2>2. Speculates(Machine)
    <3>1. Recovering(station) = {}
      BY <1>3 DEF Recovering
    <3> QED BY <1>3, <3>1 DEF Speculates, Init, Machine
  <2> QED BY <2>1, <2>2 DEF Path
<1> QED BY <1>1, <1>4, <1>5, <1>6, <1>7 DEF Inv, Kept

(* Every stage starts with a machine that goes on.                          *)
LEMMA TurnRuns ==
    ASSUME NEW s, Turn(s)
    PROVE  ~Stopped(Machine) /\ UNCHANGED workload
BY DEF Turn, Stopped, Machine

LEMMA StepKept ==
    ASSUME Inv, Next
    PROVE  Inv'
<1>1. workload \in Workloads /\ Kept(Machine) /\ IsMachine(Machine)
  BY DEF Inv, Kept
<1>2. SUFFICES \E m : Kept(m) /\ Become(m) /\ UNCHANGED workload
  <2>1. PICK m : Kept(m) /\ Become(m) /\ UNCHANGED workload
    BY <1>2
  <2> QED BY <1>1, <2>1, BecomeKept DEF Inv
<1>3. CASE Commit
  <2> DEFINE c == Checked(Machine)
             d == ruu_commit(c)
             r == ruu_release_fu(d)
  <2>1. ~Stopped(Machine) /\ UNCHANGED workload /\ Become(r)
    BY <1>3, TurnRuns DEF Commit
  <2>2. Rings(Machine)
    BY <1>1, <2>1 DEF Kept
  <2>3. Calm(Machine, c)
    BY <1>1, <2>2, CheckedCalm
  <2> HIDE DEF c
  <2>4. Kept(c)
    BY <1>1, <2>3, CalmKept
  <2>5. Kept(d) /\ IsMachine(d)
    BY <1>1, <2>4, CommitKept DEF Kept
  <2> HIDE DEF d
  <2>6. Calm(d, r)
    BY <2>5, ReleaseCalm
  <2> HIDE DEF r
  <2>7. Kept(r)
    BY <1>1, <2>5, <2>6, CalmKept
  <2> QED BY <2>1, <2>7
<1>4. CASE Writeback
  <2>1. UNCHANGED workload /\ Become(ruu_writeback(Machine))
    BY <1>4, TurnRuns DEF Writeback
  <2>2. Kept(ruu_writeback(Machine))
    BY <1>1, WritebackKept
  <2> QED BY <2>1, <2>2
<1>5. CASE Refresh
  <2> DEFINE r == lsq_refresh(Machine)
  <2>1. ~Stopped(Machine) /\ UNCHANGED workload /\ Become(r)
    BY <1>5, TurnRuns DEF Refresh
  <2>2. Rings(Machine)
    BY <1>1, <2>1 DEF Kept
  <2>3. /\ Machine.LSQ_num \in Nat
        /\ Machine.LSQ_head \in 0 .. config.LSQ_size - 1
    BY <1>1, <2>2, Configured DEF Rings, LSQRing, Ring
  <2>4. Calm(Machine, r)
    BY <1>1, <2>3, RefreshCalm
  <2> HIDE DEF r
  <2>5. Kept(r)
    BY <1>1, <2>4, CalmKept
  <2> QED BY <2>1, <2>5
<1>6. CASE Issue
  <2>1. PICK r \in ruu_issue(Machine) : Become(r) /\ UNCHANGED workload
    BY <1>6, TurnRuns DEF Issue
  <2>2. Calm(Machine, r)
    BY <1>1, IssueCalm
  <2>3. Kept(r)
    BY <1>1, <2>2, CalmKept
  <2> QED BY <2>1, <2>3
<1>7. CASE Dispatch
  <2>1. ~Stopped(Machine)
    BY <1>7, TurnRuns DEF Dispatch
  <2>2. PICK r \in ruu_dispatch(Machine) : Become(r) /\ UNCHANGED workload
    BY <1>7, TurnRuns DEF Dispatch
  <2>3. Kept(r)
    BY <1>1, <2>1, DispatchKept
  <2> QED BY <2>2, <2>3
<1>8. CASE Fetch
  <2>1. PICK d \in ruu_fetch(Machine) :
          Become(NextCycle(d)) /\ UNCHANGED workload
    BY <1>8, TurnRuns DEF Fetch
  <2>2. Kept(d) /\ IsMachine(d)
    BY <1>1, FetchKept DEF Kept
  <2>3. Calm(d, NextCycle(d))
    BY <2>2, NextCycleCalm
  <2>4. Kept(NextCycle(d))
    BY <1>1, <2>2, <2>3, CalmKept
  <2> QED BY <2>1, <2>4
<1> QED BY <1>3, <1>4, <1>5, <1>6, <1>7, <1>8 DEF Next

LEMMA StutterKept ==
    ASSUME Inv, UNCHANGED vars
    PROVE  Inv'
<1>1. /\ Machine.station = station /\ UNCHANGED workload
      /\ Become(Machine)
  BY DEF vars, Machine, Become
<1>2. Kept(Machine)'
  BY <1>1, BecomeKept DEF Inv
<1> QED BY <1>1, <1>2 DEF Inv

(* What the simulator checks between two turns of its loops: the two rings  *)
(* hold what is in use and only that, oldest first; the address of a load   *)
(* or store and its access are one station of each, one after the other;    *)
(* the fetched instructions follow each other, and one branch, or none,     *)
(* will recover (sim-outorder.c:2226-2380, 4529-4541).                      *)
THEOREM MachineKept == Spec => []Inv
<1>1. Inv /\ [Next]_vars => Inv'
  BY StepKept, StutterKept
<1> QED BY InitKept, <1>1, PTL DEF Spec

(* Fetch and dispatch keep to the path whatever is predicted, whatever the  *)
(* wrong path does and wherever it is squashed: the instruction dispatched  *)
(* next is the one that follows the last right-path one, or the one that    *)
(* the recovery restarts from, and exactly what is younger than the branch  *)
(* that recovers is on the wrong path (sim-outorder.c:2369, 3710-4190).     *)
THEOREM PathIsKept == Spec => []OnPath
<1>1. Inv => OnPath
  <2>1. SUFFICES ASSUME Inv, panic = "none", ~halted PROVE OnPath
    BY DEF OnPath
  <2>2. /\ Machine.fetch_queue = fetch_queue /\ Machine.arch_NPC = arch_NPC
        /\ Machine.fetch_pred_PC = fetch_pred_PC
        /\ Machine.recover_PC = recover_PC /\ Machine.spec_mode = spec_mode
        /\ Machine.station = station
    BY DEF Machine
  <2>3. ~Stopped(Machine)
    BY <2>1 DEF Stopped, Machine
  <2>4. Path(Machine) /\ Rings(Machine) /\ DOMAIN station = Slots(config)
    BY <2>1, <2>2, <2>3 DEF Inv, Kept, IsMachine
  <2>5. /\ DOMAIN fetch_queue = 1 .. Len(fetch_queue)
        /\ \A i \in 1 .. Len(fetch_queue) :
             fetch_queue[i].pred_PC = IF i = Len(fetch_queue) THEN fetch_pred_PC
                                      ELSE fetch_queue[i + 1].PC
    <3>1. fetch_queue \in Seq(Fetch_Data)
      BY <2>2, <2>4 DEF Path, Chained
    <3> QED BY <2>2, <2>4, <3>1 DEF Path, Chained
  <2>6. (IF spec_mode THEN recover_PC
         ELSE IF fetch_queue = <<>> THEN fetch_pred_PC
         ELSE fetch_queue[1].PC) = arch_NPC
    BY <2>2, <2>4 DEF Path, Expects
  <2> DEFINE recovering == {s \in Live : station[s].recover_inst
                                           /\ ~station[s].completed}
  <2>7. recovering = Recovering(station)
    <3>1. Paired(station)
      BY <2>2, <2>4 DEF Rings
    <3>2. \A s \in Slots(config) : station[s].recover_inst => InUse(station, s)
      BY <3>1 DEF Paired, InUse, F_CTRL
    <3> QED BY <2>4, <3>2 DEF Recovering, Live, InUse
  <2>8. IF spec_mode
          THEN \E s \in recovering :
                 /\ recovering = {s}
                 /\ \A t \in Live : station[t].spec_mode <=>
                                      station[t].seq > station[s].seq
          ELSE recovering = {} /\ \A t \in Live : ~station[t].spec_mode
    <3>1. Speculates(Machine) /\ \A t \in Live : t \in Slots(config) /\ InUse(station, t)
      BY <2>4 DEF Path, Live, InUse
    <3> HIDE DEF recovering
    <3>2. CASE spec_mode
      <4>1. PICK s \in Slots(config) :
              Recovering(station) = {s} /\ Divided(station, s)
        BY <2>2, <3>1, <3>2 DEF Speculates
      <4> QED BY <2>7, <3>1, <3>2, <4>1 DEF Divided
    <3>3. CASE ~spec_mode
      BY <2>2, <2>7, <3>1, <3>3 DEF Speculates
    <3> QED BY <3>2, <3>3
  <2> QED BY <2>5, <2>6, <2>8 DEF OnPath
<1> QED BY <1>1, MachineKept, PTL

(* None of the checks that the simulator makes on the two rings, on their   *)
(* agreement and on a recovery ever stops it (sim-outorder.c:2226, 2303,    *)
(* 2315, 2369, 2443, 3953, 4529, 4535).                                     *)
THEOREM ChecksHold == Spec => [](panic \notin Broken)
<1>1. Inv => panic \notin Broken
  BY DEF Inv, Kept, Sane, Machine
<1> QED BY <1>1, MachineKept, PTL
=============================================================================
