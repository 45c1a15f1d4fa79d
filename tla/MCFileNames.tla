----------------------------- MODULE MCFileNames -----------------------------
EXTENDS FileNames, SequencesExt
(* Bytes whose sextets reach the ends of the alphabets, tab, space, percent,  *)
(* plus, question mark, a digit, a letter, and the bytes of a character of two.*)
MCTexts == BoundedSeq({9, 32, 37, 43, 52, 63, 97, 169, 195, 251, 255}, 4)
MCPrefix == <<47, 100, 47>>
=============================================================================
