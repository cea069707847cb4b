------------------------------ MODULE MCFat12 ------------------------------
(* Three small disks.  Sectors hold three entries and eight bytes are four *)
(* FAT entries and a third; an entry counts to 63. A short name has two    *)
(* characters and an extension of two.                                     *)
EXTENDS Fat12


(* The blocks of two long names: one with a dot, one with two.             *)
N1 == <<"n", "a", "m">>
N2 == <<".", "e">>
M1 == <<"a", ".", "b">>
M2 == <<"c", ".", "d">>

E(kind, name, start)  == [kind |-> kind, name |-> name, ext |-> <<>>, start |-> start]
File(name, ext, start) == [kind |-> "file", name |-> name, ext |-> ext, start |-> start]
Dots(c, parent) == << E("dir", <<".">>, c), E("dir", <<".", ".">>, parent) >>
Media == FAT12_END - NIBBLE + 1

(* A label, a long name of two blocks, names that differ in the extension, *)
(* a name with two dots, /B with one full cluster, /B/G with three, of     *)
(* which the last is a link to follow in the odd half of a byte.           *)
Plain ==
    [resv |-> 1, fats |-> 2, spf |-> 2, spc |-> 1,
     fat  |-> (0 :> Media @@ 1 :> FAT12_END @@ 2 :> FAT12_END @@ 3 :> 6 @@ 4 :> FAT12_END
                @@ 5 :> FAT12_END @@ 6 :> 7 @@ 7 :> FAT12_END @@ 8 :> FAT12_END),
     root |-> << E("file", <<"V">>, 0), E("dir", <<"B">>, 2), E("deleted", <<"K">>, 4),
                 E("lfn", N2, 0), E("lfn", N1, 0), E("file", <<"L", "1">>, 5),
                 File(<<"K">>, <<"S">>, 5), File(<<"K">>, <<"T">>, 4), E("lfn", M2, 0),
                 E("lfn", M1, 0), E("file", <<"L", "3">>, 8), UNUSED >>,
     dirs |-> (2 :> Dots(2, 0) \o << E("dir", <<"G">>, 3) >>
                @@ 3 :> Dots(3, 2) \o << E("file", <<"F">>, 8) >>
                @@ 6 :> << E("deleted", <<"D">>, 4), E("file", <<"H">>, 4), E("file", <<"I">>, 4) >>
                @@ 7 :> << E("lfn", N1, 0), E("file", <<"L", "2">>, 5), UNUSED >>)]

(* Two sectors in a cluster, one FAT; names that begin others, "G.T" and   *)
(* "GG.TX" among them, a directory with two dots in its long name, and     *)
(* what deleted files leave.                                               *)
Crowded ==
    [resv |-> 1, fats |-> 1, spf |-> 2, spc |-> 2,
     fat  |-> (0 :> Media @@ 1 :> FAT12_END @@ 2 :> 3 @@ 3 :> FAT12_END @@ 4 :> FAT12_END
                @@ 5 :> FAT12_END @@ 6 :> FAT12_END @@ 7 :> FAT12_END),
     root |-> << E("lfn", N1, 0), E("dir", <<"B">>, 2), E("lfn", M2, 0), E("lfn", M1, 0),
                 E("dir", <<"M">>, 6), UNUSED >>,
     dirs |-> (2 :> Dots(2, 0) \o << E("dir", <<"G", "G">>, 4), E("dir", <<"G">>, 5),
                                     E("dead_lfn", N2, 0), E("deleted", <<"L">>, 0) >>
                @@ 3 :> << File(<<"K">>, <<"T">>, 7), UNUSED, UNUSED, UNUSED, UNUSED, UNUSED >>
                @@ 4 :> Dots(4, 2) \o << E("dead_lfn", N2, 0), E("lfn", N1, 0),
                                         E("file", <<"L", "1">>, 7), UNUSED >>
                @@ 5 :> Dots(5, 2) \o << File(<<"G", "G">>, <<"T", "X">>, 0), File(<<"G">>, <<"T">>, 7),
                                         E("file", <<"F">>, 7), UNUSED >>
                @@ 6 :> Dots(6, 0) \o << UNUSED, UNUSED, UNUSED, UNUSED >>)]

(* Two reserved sectors, and a root that begins with a directory.          *)
Odd ==
    [Plain EXCEPT !.resv = 2, !.root = << @[2], @[1] >> \o SubSeq(@, 3, Len(@))]

TheDisks == {Plain, Crowded, Odd}

B == <<"B">>
G == <<"G">>
K == <<"K", ".", "T">>
Path(comps)   == [abs |-> FALSE, comps |-> comps, slash |-> FALSE]
DirPath(comps) == [Path(comps) EXCEPT !.slash = TRUE]
Abs(path)     == [path EXCEPT !.abs = TRUE]

ThePath == Abs(DirPath(<<B, G, DOTDOT, DOTDOT, B, G, DOTDOT, DOT, DOTDOT, DOTDOT, DOT, DOTDOT, B>>))

SomeCalls ==
    [op : {"search"}, dir : {0, 2, 3, 5},
     path : { Path(<<>>), Abs(Path(<<K>>)), Path(<< <<"H">> >>), Path(<< <<"G", ".", "T">> >>),
              Path(<<DOTDOT, N1 \o N2>>), Path(<<DOT, N1>>), Abs(Path(<<M1 \o M2>>)),
              Abs(Path(<<B, G, <<"F">> >>)), DirPath(<<K>>), DirPath(<<DOTDOT, DOTDOT>>) }]
    \cup
    [op : {"list"}, dir : {0, 2, 3, 4, 5},
     path : { Path(<<>>), DirPath(<<DOTDOT>>), DirPath(<<B>>), DirPath(<<G>>), DirPath(<<N1>>),
              DirPath(<<M1 \o M2>>), Abs(DirPath(<<B>>)) }]

=============================================================================
