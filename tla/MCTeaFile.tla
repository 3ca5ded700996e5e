------------------------------ MODULE MCTeaFile ------------------------------
(***************************************************************************)
(* TeaFile with bytes of three bits and words of two bytes: files that are *)
(* empty, end inside a block, at its end and inside the next one, with and *)
(* without '\n' in them; tmpfile is absent, or longer than what is written. *)
(***************************************************************************)
EXTENDS TeaFile, Bitwise

MCExor(a, b) == a ^^ b
MCgkey == <<2, 5, 1, 4>>
MCFiles == UNION {[1 .. n -> {2, 5}] : n \in {0, 3}}
             \cup {<<5, 5, 2, 7>>, <<0, 2, 2, 2>>, <<3, 5, 2, 7, 5>>, <<2, 2, 2, 2, 6>>}
MCLeftovers == {<<>>, <<7, 1, 0, 3, 6, 2, 1, 5, 5, 4>>}
===============================================================================
