-------------------------- MODULE MCSyscallHandler --------------------------
(* Constants of SyscallHandler for TLC.                                    *)
EXTENDS SyscallHandlerRefinement, TLC

CONSTANTS p1, p2, z, x

MCPath        == {p1, p2}
MCByte        == {z, x}
MCIgnoredCall == {231}
MCVmmFds      == {3}
MCLoaderFds   == {4}

(* The guest writes zeroes, over files that do not hold any.               *)
MCGuestByte   == {z}
MCOldContents == {<<x>>}

(* Numbers a guest may pass: a failed open's -1, stdin, stdout, one of the *)
(* VMM's own and the numbers its opens are answered with.                  *)
MCGuestFd   == {-1, 0, 1, 3, 5}
MCCloseFd   == MCGuestFd \ {1}
MCOpenFlags == {{"CREAT"}, {"APPEND"}, {"RDONLY", "TRUNC"}}

PathSymmetry == Permutations(MCPath)
=============================================================================
