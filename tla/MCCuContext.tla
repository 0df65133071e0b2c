----------------------------- MODULE MCCuContext -----------------------------
(* CuContext on a section of three CUs of different lengths.                *)
EXTENDS CuContext

CU(at, len) == [start |-> at, length |-> len, length_size |-> 1, extension_size |-> 0]

(* 32-bit DWARF: no extension, which dwarf_offdie() forgets.  A header is    *)
(* 5 bytes long.                                                           *)
CUs32 == <<CU(0, 6), CU(7, 8), CU(16, 7)>>

(* Offsets of DIEs, the last byte of a CU among them, and one past the end. *)
Offsets32 == {5, 14, 23, 24}
=============================================================================
