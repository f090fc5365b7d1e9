--------------------------- MODULE MCGuestLoading ---------------------------
(* Constants of GuestLoading for TLC.                                      *)
EXTENDS GuestLoading

(* Pages 8 and 9-10, of four cells each, as the linker scripts and the     *)
(* sizes of the files give them.                                           *)
MCFileStart   == <<32, 36>>
MCFileEnd     == <<36, 44>>
MCSectionSize == {1, 3}

(* SHT_PROGBITS, SHT_NOBITS; SHT_INIT_ARRAY is one more that crt files use.*)
MCSectionType == {1, 8}
MCAllTypes    == {1, 8, 14}
=============================================================================
