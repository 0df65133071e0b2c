---------------------------- MODULE MCAbbrevTable ----------------------------
(* AbbrevTable on a few declarations, out of order and with a gap, and with  *)
(* codes nobody declared; HT_MULTIPLE is small so that the table moves, and  *)
(* UnsignedSize so small that codes are cut.                               *)
EXTENDS AbbrevTable

InSection == <<1, 3, 2, 9, 4>>
(* Three codes of the section, and one (5) that is not there.        *)
Asked == {2, 3, 5, 9}
=============================================================================
