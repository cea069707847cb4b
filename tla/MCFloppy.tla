------------------------------ MODULE MCFloppy ------------------------------
(* A disk of two tracks, two heads and two sectors, numbered 0 to 7; a     *)
(* byte counts to 4.  The requests begin inside the disk, on both sides of *)
(* the end of a track, at the end and behind it.                           *)
EXTENDS Floppy

Request(rw, lba, n) == [rw |-> rw, lba |-> lba, n |-> n]

SomeRequests ==
    { Request("read", 1, 1), Request("read", 3, 2), Request("read", 7, 2),
      Request("write", 1, 2), Request("write", 3, 2), Request("write", 6, 1),
      Request("read", 2, 0) }

=============================================================================
