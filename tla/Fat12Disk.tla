----------------------------- MODULE Fat12Disk -----------------------------
(***************************************************************************)
(* A FAT12 disk by the definition of its format, independent of the code   *)
(* in fs/fat12.c: what each sector contains, which entries a directory has *)
(* and what a path names.  Fat12 reads the sectors; its properties compare *)
(* what it finds with the definitions below.                               *)
(*                                                                         *)
(* A disk is a record: resv reserved sectors, fats copies of a FAT of spf  *)
(* sectors, spc sectors in a cluster; fat the cluster that follows each    *)
(* one, root the entries of the root directory, dirs those of each cluster *)
(* that belongs to a directory.                                            *)
(*                                                                         *)
(* An entry has a kind, a name and an extension, sequences of characters,  *)
(* and a start cluster.  Of a long name, each entry of kind "lfn" holds    *)
(* one block of 13 characters, its last block first, the entry it belongs  *)
(* to behind them; long names have at most three blocks here.  A deleted   *)
(* file leaves "deleted" and "dead_lfn" entries.  "unused" ends a          *)
(* directory.  A volume label is a "file" that starts at 0, which is how   *)
(* the code sees it.  Letters are neither upper nor lower case.            *)
(***************************************************************************)
EXTENDS Integers, FiniteSets, SequencesExt

CONSTANTS
    NIBBLE,      \* 2^4: a byte counts to NIBBLE^2, a FAT entry to NIBBLE^3
    SECTOR,      \* bytes in a sector of the FAT
    FDBS,        \* entries in a sector of a directory
    NAME_MAX,    \* characters in a short name,
    EXT_MAX      \* and in its extension

ASSUME FormatAssumption == {NIBBLE, SECTOR, FDBS, NAME_MAX, EXT_MAX} \subseteq Nat \ {0}

BYTE == NIBBLE * NIBBLE
FAT12_END == BYTE * NIBBLE - 1

Kinds == {"file", "dir", "lfn", "deleted", "dead_lfn", "unused"}

-----------------------------------------------------------------------------
(* The sectors.                                                            *)

RootSectors(d) == Len(d.root) \div FDBS
RootStart(d)   == d.resv + d.fats * d.spf
DataStart(d)   == RootStart(d) + RootSectors(d)

FatEntry(d, c) == IF c \in DOMAIN d.fat THEN d.fat[c] ELSE 0

(* Two FAT entries share three bytes.                                      *)
FatByte(d, b) ==
    LET even == FatEntry(d, 2 * (b \div 3))
        odd  == FatEntry(d, 2 * (b \div 3) + 1)
    IN  CASE b % 3 = 0 -> even % BYTE
          [] b % 3 = 1 -> even \div BYTE + (odd % NIBBLE) * NIBBLE
          [] b % 3 = 2 -> odd \div NIBBLE

Part(entries, i) == SubSeq(entries, i * FDBS + 1, (i + 1) * FDBS)

UNUSED == [kind |-> "unused", name |-> <<>>, ext |-> <<>>, start |-> 0]

(* What a sector contains.  Boot sectors and files, which are never        *)
(* searched, are shown as unused entries.                                  *)
Sector(d, s) ==
    LET cluster == 2 + (s - DataStart(d)) \div d.spc IN
    CASE s \in d.resv .. RootStart(d) - 1 ->
            [i \in 1 .. SECTOR |-> FatByte(d, ((s - d.resv) % d.spf) * SECTOR + i - 1)]
      [] s \in RootStart(d) .. DataStart(d) - 1 -> Part(d.root, s - RootStart(d))
      [] cluster \in DOMAIN d.dirs -> Part(d.dirs[cluster], (s - DataStart(d)) % d.spc)
      [] OTHER -> [i \in 1 .. FDBS |-> UNUSED]

OnDisk(d, s, n) == s >= 0 /\ s + n <= DataStart(d) + (Cardinality(DOMAIN d.fat) - 2) * d.spc

Sectors(d, s, n) == FlattenSeq([i \in 1 .. n |-> Sector(d, s + i - 1)])

-----------------------------------------------------------------------------
(* The directories.  A start cluster below 2 stands for the root.          *)

Chain(d, c) ==
    LET from[k \in DOMAIN d.fat] ==
            IF d.fat[k] = FAT12_END THEN <<k>> ELSE <<k>> \o from[d.fat[k]]
    IN  from[c]

FirstPart(d, c) == IF c < 2 THEN d.root ELSE d.dirs[c]

Directory(d, c) ==
    IF c < 2 THEN d.root
    ELSE FlattenSeq([i \in DOMAIN Chain(d, c) |-> d.dirs[Chain(d, c)[i]]])

Visible(entries, i) ==
    /\ entries[i].kind \in {"file", "dir"}
    /\ \A j \in 1 .. i : entries[j].kind # "unused"

VisibleEntries(entries) ==
    {i \in DOMAIN entries : Visible(entries, i)}

(* The blocks of the long name of entry i, or nothing if it has none.      *)
LongName(entries, i) ==
    LET first == CHOOSE j \in 1 .. i :
                    /\ \A k \in j .. i - 1 : entries[k].kind = "lfn"
                    /\ j = 1 \/ entries[j - 1].kind # "lfn"
    IN  Reverse([k \in 1 .. i - first |-> entries[first + k - 1].name])

ShortName(e) == IF e.ext = <<>> THEN e.name ELSE e.name \o <<".">> \o e.ext

FullName(entries, i) ==
    LET long == LongName(entries, i)
    IN  IF long = <<>> THEN ShortName(entries[i]) ELSE FlattenSeq(long)

(* An entry answers to its short name and to its long name.                *)
EntryNames(entries, i) == {ShortName(entries[i]), FullName(entries, i)}

(* What is left of deleted long names does not touch a file's own entries, *)
(* and a long name lies in one cluster with its file.                      *)
NamesIntact(d, c) ==
    LET entries == Directory(d, c) IN
    /\ \A i \in DOMAIN entries \ {Len(entries)} :
          entries[i].kind = "dead_lfn" => entries[i + 1].kind \in {"dead_lfn", "deleted"}
    /\ c >= 2 => \A i \in DOMAIN entries :
                    i % (d.spc * FDBS) = 0 => entries[i].kind # "lfn"

(* A path has components, is absolute if it begins with a delimiter, and   *)
(* names a directory if it ends with one.  A component is a text.          *)
DOT    == <<".">>
DOTDOT == <<".", ".">>

(* A text up to its first dot, and behind it.                              *)
FirstDot(text) ==
    CHOOSE i \in 1 .. Len(text) + 1 : /\ i <= Len(text) => text[i] = "."
                                      /\ \A j \in 1 .. i - 1 : text[j] # "."

Stem(text) == IF text \in {DOT, DOTDOT} THEN text ELSE SubSeq(text, 1, FirstDot(text) - 1)

Extension(text) ==
    IF text \in {DOT, DOTDOT} THEN <<>> ELSE SubSeq(text, FirstDot(text) + 1, Len(text))

PathType(path, k) == IF k < Len(path.comps) \/ path.slash THEN "dir" ELSE "file"

Names(entries, i, comp) == comp \in EntryNames(entries, i)

NOWHERE == -1

Lookup(d, c, comp, type) ==
    LET entries == Directory(d, c)
        found   == {i \in VisibleEntries(entries) :
                      entries[i].kind = type /\ Names(entries, i, comp)}
    IN  IF found = {} THEN NOWHERE ELSE entries[CHOOSE i \in found : TRUE].start

Entries(d) == ToSet(d.root) \cup UNION {ToSet(d.dirs[c]) : c \in DOMAIN d.dirs}

(* The start clusters of all directories.                                  *)
DirStarts(d) == {e.start : e \in {f \in Entries(d) : f.kind = "dir"}}

(* Where a component leads from directory c, and a path component by       *)
(* component: the start clusters.                                          *)
Follow(d, c, comp, type) ==
    IF c = NOWHERE \/ comp = DOT \/ (comp = DOTDOT /\ c < 2) THEN c ELSE Lookup(d, c, comp, type)

Walk(d, path, c) ==
    LET at[k \in 0 .. Len(path.comps)] ==
            IF k = 0 THEN IF path.abs \/ c < 2 THEN 0 ELSE c
            ELSE Follow(d, at[k - 1], path.comps[k], PathType(path, k))
    IN  at

(* What the path names, followed from directory c: its start cluster.      *)
Resolve(d, path, c) == Walk(d, path, c)[Len(path.comps)]

-----------------------------------------------------------------------------
(* What makes a disk one.  Each entry of the FAT lies in it, a table fills *)
(* its sectors, the chain of a directory ends and runs through clusters of *)
(* directories, the first entry of which leads to itself, no two entries   *)
(* of a directory have the same kind and a name in common, and a short     *)
(* name fits its fields and has no dot in them.                            *)

IsTable(entries, n) ==
    /\ entries \in Seq(ToSet(entries))
    /\ Len(entries) = n

IsChain(d, chain, c) ==
    /\ chain \in Seq(DOMAIN d.dirs) /\ chain # <<>>
    /\ chain[1] = c
    /\ \A i \in DOMAIN chain \ {1} : chain[i] = d.fat[chain[i - 1]]
    /\ d.fat[chain[Len(chain)]] = FAT12_END

NamesUnique(entries) ==
    \A i, j \in VisibleEntries(entries) :
        entries[i].kind = entries[j].kind /\ EntryNames(entries, i) \cap EntryNames(entries, j) # {}
            => i = j

IsText(text) == text \in Seq(ToSet(text))

NameFits(e) ==
    /\ IsText(e.name) /\ Len(e.name) \in 1 .. NAME_MAX
    /\ IsText(e.ext) /\ Len(e.ext) <= EXT_MAX
    /\ "." \in ToSet(e.name) \cup ToSet(e.ext) => ShortName(e) \in {DOT, DOTDOT}

FewBlocks(entries) == \A i \in 1 .. Len(entries) - 3 : \E j \in i .. i + 3 : entries[j].kind # "lfn"

IsDisk(d) ==
    /\ {d.resv, d.fats, d.spf, d.spc} \subseteq Nat \ {0}
    /\ DOMAIN d.fat \subseteq 0 .. FAT12_END - 1 /\ d.fat \in [DOMAIN d.fat -> 0 .. FAT12_END]
    /\ \A c \in DOMAIN d.fat : 3 * (c \div 2) + 2 + (c % 2) <= d.spf * SECTOR
    /\ IsTable(d.root, Len(d.root)) /\ Len(d.root) > 0 /\ Len(d.root) % FDBS = 0
    /\ DOMAIN d.dirs \subseteq DOMAIN d.fat \ {0, 1}
    /\ \A c \in DOMAIN d.dirs : IsTable(d.dirs[c], d.spc * FDBS)
    /\ \A e \in Entries(d) : /\ e.kind \in Kinds /\ e.start \in Nat \ {1}
                             /\ e.kind \in {"file", "dir"} => NameFits(e)
    /\ \A c \in DirStarts(d) \ {0} : /\ c \in DOMAIN d.dirs /\ d.dirs[c][1].start = c
                                     /\ IsChain(d, Chain(d, c), c)
    /\ \A c \in DirStarts(d) \cup {0} : NamesUnique(Directory(d, c)) /\ FewBlocks(Directory(d, c))

IsPath(path) ==
    /\ path.comps \in Seq(ToSet(path.comps))
    /\ \A k \in DOMAIN path.comps : IsText(path.comps[k]) /\ path.comps[k] # <<>>

=============================================================================
