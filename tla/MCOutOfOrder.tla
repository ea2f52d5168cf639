---------------------------- MODULE MCOutOfOrder ----------------------------
(***************************************************************************)
(* Programs and machines for TLC.                                          *)
(***************************************************************************)
EXTENDS OutOfOrder

I(op, out, in) ==
    [op |-> op, out |-> out, in |-> in, addr |-> 0, targets |-> {}]
Alu(rd, rs)   == I("alu", <<rd, NA>>, <<rs, NA, NA>>)
Mult(rs)      == I("mult", <<1, 2>>, <<rs, NA, NA>>)    \* HI and LO
Div(rs)       == I("div", <<1, 2>>, <<rs, NA, NA>>)
Load(rd, base, addr) ==
    [I("load", <<rd, NA>>, <<NA, base, NA>>) EXCEPT !.addr = addr]
Store(rs, base, addr) ==
    [I("store", <<NA, NA>>, <<rs, base, NA>>) EXCEPT !.addr = addr]
Branch(rs, target) ==
    [I("branch", <<NA, NA>>, <<rs, NA, NA>>) EXCEPT !.targets = {target}]
Jump(target)     == [I("jump", <<NA, NA>>, <<NA, NA, NA>>) EXCEPT
                       !.targets = {target}]
Jr(rs, targets)  == [I("jr", <<NA, NA>>, <<rs, NA, NA>>) EXCEPT
                       !.targets = targets]
Trap == I("trap", <<NA, NA>>, <<NA, NA, NA>>)
Exit == I("exit", <<NA, NA>>, <<NA, NA, NA>>)

(* Two writers of a register around a branch that waits for the first of    *)
(* them; loads behind stores to their address, the address of one of which  *)
(* comes late, and behind two stores, the data of the older of which come   *)
(* late; a chain of branches that wait for a load; a wrong-path consumer of *)
(* a division, whose station is used again before the division completes;   *)
(* jumps through a register, a trap and a division.                         *)
Renaming   == <<Mult(1), Alu(1, 2), Branch(1, 5), Alu(2, 1), Mult(2), Exit>>
Forwarding == <<Load(1, NA, 4), Store(1, 2, 8), Store(NA, 1, 4),
                Load(2, NA, 8), Load(1, NA, 4), Exit>>
Passing    == <<Div(NA), Store(1, NA, 4), Store(NA, NA, 8),
                Load(1, NA, 4), Exit>>
Reusing    == <<I("div", <<1, NA>>, <<NA, NA, NA>>), Load(2, 1, 4),
                Branch(NA, 5), Alu(1, 1), Alu(1, 2), Exit>>
Branching  == <<Load(1, NA, 4), Branch(1, 4), Store(2, 1, 4), Branch(NA, 6),
                Alu(2, 1), Exit>>
Jumping    == <<Jr(1, {3, 4}), NOP, Div(2), Trap, Jump(6), Exit>>
Loading    == <<Load(1, NA, 4), Branch(1, 4), Store(2, 1, 4), Load(1, 2, 4),
                Alu(2, 1), Exit>>
Curated ==
    {Renaming, Forwarding, Passing, Reusing, Branching, Jumping, Loading}

(* Every program of n instructions of a menu, and the exit.                 *)
Menu(k, n) ==
    {Mult(1), Alu(1, 2), Alu(2, 1), Load(1, 2, 4), Load(2, NA, 8),
     Store(1, 2, 4), Store(2, NA, 4), Store(NA, 1, 8)}
      \cup {Branch(1, target) : target \in (k + 2) .. (n + 1)}
Programs(n) ==
    {Append(p, Exit) :
       p \in {q \in [1 .. n -> UNION {Menu(k, n) : k \in 1 .. n}] :
                 \A k \in 1 .. n : q[k] \in Menu(k, n)}}

Small == [RUU_size |-> 4, LSQ_size |-> 2, ruu_ifq_size |-> 2,
          decode_width |-> 2, issue_width |-> 2, commit_width |-> 2,
          branch_penalty |-> 1, inorder |-> FALSE, include_spec |-> TRUE,
          bugcompat |-> FALSE, pred_perfect |-> FALSE,
          units |-> <<{"IntALU"}, {"IntMULT", "IntDIV"}, {"RdPort", "WrPort"}>>,
          load_lats |-> {1, 3}, tlb_lats |-> {}, miss_lats |-> {2}]
InOrder     == [Small EXCEPT !.inorder = TRUE]
BugCompat   == [Small EXCEPT !.bugcompat = TRUE, !.RUU_size = 2]
NoWrongPath == [Small EXCEPT !.include_spec = FALSE]
Perfect     == [Small EXCEPT !.pred_perfect = TRUE]
Narrow      == [Small EXCEPT !.decode_width = 1, !.issue_width = 1,
                             !.commit_width = 1, !.branch_penalty = 3]
Deep        == [Small EXCEPT !.LSQ_size = 4, !.ruu_ifq_size = 4,
                             !.tlb_lats = {3}]
Machines == {Small, InOrder, BugCompat, NoWrongPath, Perfect, Narrow, Deep}

MCWorkloads ==
    [program : Curated, config : Machines]
      \cup [program : Programs(1), config : Machines]
      \cup [program : Programs(2), config : Machines]
      \cup [program : Programs(3), config : {Small}]
=============================================================================
