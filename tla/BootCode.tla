------------------------------ MODULE BootCode ------------------------------
(***************************************************************************)
(* The guest's own kernel, boot.asm: from the reset state of the vCPU to   *)
(* long mode, and the two instructions that serve a call.  What is kept of *)
(* the processor is which of the settings below its registers hold.  An    *)
(* instruction that lacks one faults; there is no interrupt table, so the  *)
(* guest ends in a triple fault.                                           *)
(***************************************************************************)
EXTENDS Naturals, Sequences

(* The kvm_regs, kvm_sregs and MSRs of VM_image.  EFER, with the bits LME  *)
(* and SCE, is in kvm_sregs and is MSR 0xC0000080 as well.                 *)
Regs    == {"r14", "r15", "rsp", "rcx"}
Sregs   == {"gdt32", "PE", "CS32", "PAE", "LME", "CR3", "PG", "gdt64", "CS64",
            "SSE", "SCE"}
Msrs    == {"LME", "SCE", "STAR", "LSTAR"}
Setting == Regs \cup Sregs \cup Msrs

Step(needs, gives) == [needs |-> needs, gives |-> gives]

boot ==
  << Step({}, "gdt32"),                          \* lgdt [eax]
     Step({}, "PE"),
     Step({"gdt32", "PE"}, "CS32"),              \* jmp 0x8:main32
     Step({"CS32"}, "PAE"),
     Step({"CS32"}, "LME"),
     Step({"CS32"}, "CR3"),
     Step({"CS32", "PAE", "LME", "CR3"}, "PG"),
     Step({"CS32", "PG"}, "gdt64"),
     Step({"gdt64", "PG"}, "CS64"),              \* jmp 0x8:main64
     Step({"CS64", "r14"}, "rsp"),
     Step({"CS64"}, "SSE"),
     Step({"CS64"}, "SCE"),
     Step({"CS64"}, "LSTAR"),
     Step({"CS64"}, "STAR"),
     Step({"CS64", "r15"}, "rcx") >>             \* the target of sysret

(* The application from sysret to the hlt of its next call: sysret takes   *)
(* STAR and rcx, syscall goes where LSTAR says.                            *)
CallNeeds == {"PG", "CR3", "gdt64", "CS64", "rsp", "rcx", "SSE", "SCE",
              "STAR", "LSTAR"}
=============================================================================
