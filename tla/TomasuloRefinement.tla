------------------------- MODULE TomasuloRefinement -------------------------
(***************************************************************************)
(* Tomasulo implements Dataflow.  An instruction is waiting from its entry  *)
(* into a station until it enters a functional unit, executing until it     *)
(* gives up its station, and done from then on.  That issue_To_execute puts *)
(* an instruction into execute again, and that execute_To_CDB broadcasts    *)
(* the copies left in other units, are stuttering steps here: they disturb  *)
(* the cycle counts but not the dataflow.                                   *)
(***************************************************************************)
EXTENDS Tomasulo

\* The entries of the trace that runTomasulo fetches.
Fetched == 0 .. sim_num_insn - 1

phase == [i \in Fetched |->
            IF ~Issued(i) THEN "idle"
            ELSE IF ~InRS(i) THEN "done"
            ELSE IF tom_execute_cycle[i] = 0 THEN "waiting" ELSE "executing"]

program == [i \in Fetched |->
              [executes   |-> UsesRS(trace[i].op),
               broadcasts |-> WRITES_CDB(trace[i].op),
               reads      |-> {trace[i].r_in[j] : j \in In} \ {DNA},
               writes     |-> {trace[i].r_out[k] : k \in Out} \ {DNA}]]

DF == INSTANCE Dataflow WITH Instr <- Fetched

(***************************************************************************)
(* The pipeline executes the program as a dataflow machine would: in-order  *)
(* issue, no instruction started before the results it reads were on the    *)
(* bus, no result produced twice, one result a cycle.                       *)
(***************************************************************************)
ImplementsDataflow == DF!Spec
=============================================================================
