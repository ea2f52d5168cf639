---------------------------- MODULE MCInstrTrace ----------------------------
(***************************************************************************)
(* A small instance of InstrTrace: chunks of three entries and every        *)
(* instruction limit that ends inside, at the end of, or just after each of *)
(* the first three chunks (0: no limit, the program runs until it exits).   *)
(***************************************************************************)
EXTENDS InstrTrace

MCLimits == 0 .. 9
=============================================================================
