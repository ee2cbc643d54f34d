------------------------------ MODULE MCCaches ------------------------------
(* Lists that share texts or hold one twice; every file of up to three       *)
(* lines, from one far below the chunk size to one above it.                 *)
EXTENDS Caches

SomeBatches == {<<1, 2, 3>>, <<2, 1, 2>>, <<3>>}
AllTexts    == UNION {[1 .. n -> {1, 2, 3, 5}] : n \in 0 .. 3}
SomeTexts   == {<<1, 5>>, <<2, 3, 1>>, NoFile}
=============================================================================
