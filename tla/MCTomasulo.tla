----------------------------- MODULE MCTomasulo -----------------------------
(***************************************************************************)
(* Small instances of Tomasulo: every program of sim_num_insn instructions  *)
(* over a few instruction shapes.  The last entry is fixed, because no step *)
(* reads it (see LastInstructionSimulated).                                 *)
(***************************************************************************)
EXTENDS TomasuloRefinement, Sequences

MCReg == 0 .. 1

Shape(op, in, out) ==
    [op    |-> op,
     r_in  |-> [j \in In |-> IF j < Len(in) THEN in[j + 1] ELSE DNA],
     r_out |-> [k \in Out |-> IF k < Len(out) THEN out[k + 1] ELSE DNA]]

Shapes == {Shape("ICOMP", <<>>, <<0>>), Shape("LOAD", <<DNA, 0>>, <<0>>),
           Shape("ICOMP", <<0>>, <<1>>), Shape("ICOMP", <<0, 1>>, <<0, 1>>),
           Shape("STORE", <<1, 0>>, <<>>),
           Shape("FCOMP", <<0>>, <<1>>), Shape("FCOMP", <<1>>, <<0>>),
           Shape("CTRL", <<0>>, <<1>>), Shape("TRAP", <<>>, <<>>)}

Program(p) == [i \in Index |-> IF i = 0 THEN ZeroedInstr
                               ELSE IF i = sim_num_insn
                               THEN Shape("ICOMP", <<>>, <<>>) ELSE p[i]]

\* Every program over the shapes.
AllPrograms == {Program(p) : p \in [1 .. sim_num_insn - 1 -> Shapes]}

\* Long programs: two instructions, alternating.
Loops == {Program([i \in 1 .. sim_num_insn - 1 |-> IF i % 2 = 1 THEN a ELSE b])
            : a, b \in Shapes}
=============================================================================
