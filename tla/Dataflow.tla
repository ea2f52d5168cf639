------------------------------ MODULE Dataflow ------------------------------
(***************************************************************************)
(* What out-of-order execution promises, without stations, units, queue,    *)
(* map table or clock: instructions are issued in program order, start only *)
(* when the results they read have been produced, and finish once, at most  *)
(* one result a step.  Tomasulo implements it.                              *)
(***************************************************************************)
EXTENDS Integers

CONSTANT Instr          \* the instructions, numbered in program order

VARIABLES
    phase,              \* how far each instruction has come
    program             \* what the instructions read, write and need

\* program[i] is a record: executes (goes through the pipeline at all),
\* broadcasts (has a result), reads and writes (sets of registers).
Executes(i) == program[i].executes

\* p produces for i the value of some register: no executing instruction
\* between them writes it.
Feeds(p, i) ==
    /\ p < i /\ Executes(p)
    /\ \E r \in program[p].writes \cap program[i].reads :
          \A q \in Instr : p < q /\ q < i /\ Executes(q)
                             => r \notin program[q].writes

Init == phase = [i \in Instr |-> "idle"]

Issue(i) ==
    /\ phase[i] = "idle" /\ Executes(i)
    /\ \A p \in Instr : p < i /\ Executes(p) => phase[p] # "idle"
    /\ phase' = [phase EXCEPT ![i] = "waiting"]

Start(S) ==
    /\ \A i \in S : /\ phase[i] = "waiting"
                    /\ \A p \in Instr : Feeds(p, i) => phase[p] = "done"
    /\ phase' = [i \in Instr |-> IF i \in S THEN "executing" ELSE phase[i]]

Finish(S) ==
    /\ \A i \in S : phase[i] = "executing"
    /\ \A i, k \in S : program[i].broadcasts /\ program[k].broadcasts => i = k
    /\ phase' = [i \in Instr |-> IF i \in S THEN "done" ELSE phase[i]]

Next ==
    /\ \/ \E i \in Instr : Issue(i)
       \/ \E S \in SUBSET Instr : Start(S) \/ Finish(S)
    /\ UNCHANGED program

Spec == Init /\ [][Next]_<<phase, program>>
=============================================================================
