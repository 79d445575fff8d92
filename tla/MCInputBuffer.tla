--------------------------- MODULE MCInputBuffer ----------------------------
(***************************************************************************)
(* Three slots behind the free one; texts that fit, that fill the ring and *)
(* that are longer than it.                                                *)
(***************************************************************************)
EXTENDS InputBuffer

MCTexts == {<<1>>, <<2, 1>>, <<1, 2, 2>>, <<2, 2, 1, 1, 2>>}
=============================================================================
