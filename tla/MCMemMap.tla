------------------------------ MODULE MCMemMap ------------------------------
(* The map a PC reports, scaled down: memory below and above the hole, the *)
(* BIOS under the first megabyte, firmware tables at the end of memory,    *)
(* and the flash chip below 4 GB.                                          *)
EXTENDS MemMap

Entry(base, length, type) == [BaseAddr |-> base, Length |-> length, Type |-> type]

PcMap == << Entry(0, 40, 1), Entry(60, 4, 2), Entry(64, 56, 1),
            Entry(120, 8, 2), Entry(1008, 16, 2) >>

=============================================================================
