-------------------------- MODULE MCColdMigration ---------------------------
(* Constants of ColdMigration for TLC.                                     *)
EXTENDS ColdMigration, TLC

CONSTANTS p1, p2, z, x

MCOnePath     == {p1}
MCPath        == {p1, p2}
MCByte        == {z, x}
MCGuestByte   == {x}
MCOldContents == {<<z>>}
MCEmptyFile   == {<<>>}
MCIgnoredCall == {231}
MCVmmFds      == {3}
MCLoaderFds   == {4}

(* A launched guest's opens are answered 5 and 6, a restored one's 4 to 6. *)
MCGuestFd   == {-1, 0, 3, 4, 5, 6}
MCCloseFd   == {0, 4, 5, 6}
MCNumbers   == {4, 5, 6}
MCOpenFlags == {{"CREAT"}, {"TRUNC"}}
MCExclusive == {{"CREAT"}, {"CREAT", "EXCL"}, {}}

PathSymmetry == Permutations(MCPath)
=============================================================================
