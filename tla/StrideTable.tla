---------------------------- MODULE StrideTable ----------------------------
(***************************************************************************)
(* Lab4-Cache-Data-Prefetcher/cache.c: an entry of the reference           *)
(* prediction table of the stride prefetcher, and what an access makes of  *)
(* it.  state is RPT[i][4]; RPT[i][3] is set to INITIAL for a new owner    *)
(* and never read.                                                         *)
(*                                                                         *)
(* RPT[i][4] lies outside the row of four that was allocated.  calloc      *)
(* rounds the 16 bytes of a row up to 20 or 24 and clears them, so that    *)
(* the element belongs to the row after all and is 0 at first.             *)
(***************************************************************************)
EXTENDS Integers

CONSTANT AddrSpace      \* addresses are 32 bits wide: 2^32
ASSUME AddrSpaceAssumption == AddrSpace \in Nat \ {0}

INITIAL == 0
TRANSIENT == 1
STEADY == 2
NOPRED == 3

NewOwner(entry, PC, addr) ==
    [entry EXCEPT !.PC = PC, !.prev = addr, !.stride = 0]

\* Mutant: an entry that gave up predicting never starts again.
NextStateStuck(state, same) ==
    CASE state = NOPRED -> NOPRED
      [] state # NOPRED /\ same -> STEADY
      [] state = INITIAL /\ ~same -> TRANSIENT
      [] state = TRANSIENT /\ ~same -> NOPRED
      [] state = STEADY /\ ~same -> INITIAL
NextState(state, same) ==
    CASE state = INITIAL   -> IF same THEN STEADY ELSE TRANSIENT
      [] state = TRANSIENT -> IF same THEN STEADY ELSE NOPRED
      [] state = STEADY    -> IF same THEN STEADY ELSE INITIAL
      [] state = NOPRED    -> IF same THEN TRANSIENT ELSE NOPRED

Stride(entry, addr) == (addr - entry.prev) % AddrSpace

SameOwner(entry, addr) ==
    LET stride == Stride(entry, addr)
    IN [entry EXCEPT !.prev = addr,
                     !.state = NextState(@, stride = entry.stride),
                     !.stride = IF entry.state = STEADY THEN @ ELSE stride]

StrideTrained(entry, PC, addr) ==
    IF entry.PC # PC THEN NewOwner(entry, PC, addr) ELSE SameOwner(entry, addr)

Address == 0 .. AddrSpace - 1
EmptyEntry == [PC |-> 0, prev |-> 0, stride |-> 0, state |-> INITIAL]
EntryType == [PC : Nat, prev : Nat, stride : Address,
              state : {INITIAL, TRANSIENT, STEADY, NOPRED}]
=============================================================================
