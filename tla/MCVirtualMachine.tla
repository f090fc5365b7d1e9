-------------------------- MODULE MCVirtualMachine --------------------------
(* Constants of VirtualMachine for TLC.                                    *)
EXTENDS VirtualMachine

CONSTANTS f, z, a, b

MCPath        == {f}
MCByte        == {z, a, b}
MCHello       == <<a, a, a, a>>
MCBye         == <<b, b, b, b, b>>
MCOldContents == {<<>>, <<z, b, z, b, z, b, z, b, z, b, z>>}

(* /dev/kvm, the VM and the vCPU; bin/boot and bin/app_img.  The guest's   *)
(* open is then answered 8, as README.md shows.                            *)
MCVmmFds      == {3, 4, 5}
MCLoaderFds   == {6, 7}
MCGuestFd     == {1, 6, 8}
MCCloseFd     == {6, 8}
MCOpenFlags   == {{"CREAT"}}
MCIgnoredCall == {158, 218, 231}
=============================================================================
