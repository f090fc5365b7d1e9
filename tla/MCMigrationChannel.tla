------------------------- MODULE MCMigrationChannel -------------------------
(* Constants of MigrationChannel for TLC.                                  *)
EXTENDS MigrationChannel

CONSTANTS v1, v2

MCVm == {v1, v2}

(* Fields of several bytes at both ends and in the middle, so that a write *)
(* or a read can take part of one.                                         *)
MCFieldSize ==
  [f \in Field |->
     IF f \in {"registers", "guest_memory", "open_files"} THEN 2 ELSE 1]
=============================================================================
