----------------------------- MODULE MCKmalloc ------------------------------
(* Pages of 16 bytes with a header of 4.                                   *)
EXTENDS Kmalloc

Class(size, total) == [block_size |-> size, block_total |-> total]

(* Two classes that fill the page, with three and with two blocks.         *)
TwoClasses == << Class(4, 3), Class(6, 2) >>

=============================================================================
