---------------------------- MODULE GraphStores ----------------------------
(***************************************************************************)
(* What the two stores of world graphs are for, WorldStore in PostgreSQL   *)
(* and MemoryWorld in memory: the same worlds, in which the same things    *)
(* may be missing.                                                         *)
(***************************************************************************)
CONSTANTS
    Worlds,         \* world ids
    None            \* absent row, missing profile, no head, a free lock
=============================================================================
