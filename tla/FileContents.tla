---------------------------- MODULE FileContents ----------------------------
(* Regular files as the modules of this project share them: a file is the  *)
(* sequence of its bytes.                                                  *)
EXTENDS Integers, Sequences

CONSTANTS Byte,     \* contents of a cell of memory or of a file
          ZeroByte  \* what the kernel puts in the hole before a late write

ASSUME ZeroByteAssumption == ZeroByte \in Byte

(* The flags of open that change what a call does.  Reading is absent from *)
(* the system, so O_WRONLY and O_RDWR are the absence of RDONLY.           *)
Flag == {"CREAT", "EXCL", "TRUNC", "APPEND", "RDONLY"}

(* The contents c after data is written at offset pos.                     *)
WriteAt(c, pos, data) ==
  IF data = <<>> THEN c
  ELSE [i \in 1..(IF pos + Len(data) > Len(c) THEN pos + Len(data)
                                              ELSE Len(c)) |->
          IF i > pos /\ i <= pos + Len(data) THEN data[i - pos]
          ELSE IF i <= Len(c) THEN c[i] ELSE ZeroByte]
=============================================================================
