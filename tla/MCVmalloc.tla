----------------------------- MODULE MCVmalloc ------------------------------
(* Pages of 4 bytes, two entries to a page table, a heap of four pages.    *)
EXTENDS Vmalloc

=============================================================================
