------------------------------- MODULE Fat12 -------------------------------
(***************************************************************************)
(* The FAT12 file system, fs/fat12.c: fat12_init with its clean-up and the *)
(* three calls at its end, fat12_search_fdb and fat12_get_fs_list, reading *)
(* a disk of Fat12Disk through a floppy_read that may fail, with memory    *)
(* from a vmalloc that may fail.  Nothing here interleaves: a call runs    *)
(* loop iteration by loop iteration because each may fail.  The writing    *)
(* branches are not reached from anywhere.                                 *)
(*                                                                         *)
(* "search" and "listing" hold the variables of the two functions.  "at"   *)
(* is p_fdb: the table it points into and the index there.  A block of     *)
(* vmalloc is a number.  A failed read gives the empty sequence.           *)
(***************************************************************************)
EXTENDS Fat12Disk

CONSTANTS
    Disks,       \* the disks that may be in the drive
    TestPath,    \* the path fat12_init searches for
    Calls,       \* what is called afterwards: [op, path, dir]
    LOST_MAX     \* bound: no call while more blocks than this are lost

ASSUME DiskAssumption == \A d \in Disks : IsDisk(d)

ASSUME CallAssumption == \A path \in {TestPath} \cup {call.path : call \in Calls} : IsPath(path)

VARIABLES
    disk,        \* the disk in the drive
    info,        \* p_fat12_main_fs_info and the tables it points to
    heap,        \* the blocks of vmalloc in use
    lost,        \* history: those the code has no pointer to any more
    phase,       \* how far fat12_init has come
    search,      \* the call of fat12_search_fdb in progress
    listing,     \* the call of fat12_get_fs_list in progress
    handed,      \* the list a caller was given and still has
    trouble,     \* history: a read or an allocation of this call has failed
    last         \* history: the call that ended last and what it answered

vars == <<disk, info, heap, lost, phase, search, listing, handed, trouble, last>>
fixed == <<disk, info>>
caller == <<phase, handed, last>>

NULL == [blocks |-> {}]
NONE == 0       \* no block

NoPath    == [abs |-> FALSE, comps |-> <<>>, slash |-> FALSE]
NoSearch  == [pc |-> "idle", path |-> NoPath, next |-> 1, at |-> <<"root", 1>>, idx |-> 0,
              max |-> 0, fat |-> 0, match |-> 0, start |-> 0, block |-> NONE, buf |-> <<>>]
NoListing == [pc |-> "idle", path |-> NoPath, dir |-> 0, at |-> <<"root", 1>>, idx |-> 0,
              max |-> 0, fat |-> 0, nodes |-> <<>>, fail |-> FALSE, block |-> NONE, buf |-> <<>>]
NoCall    == [op |-> "none", path |-> NoPath, dir |-> 0, ok |-> FALSE, start |-> 0,
              names |-> <<>>]

Init ==
    /\ disk \in Disks
    /\ info = NULL
    /\ heap = {} /\ lost = {} /\ handed = <<>>
    /\ phase = "off"
    /\ search = NoSearch /\ listing = NoListing /\ last = NoCall
    /\ trouble = FALSE

Idle == search.pc = "idle" /\ listing.pc = "idle"

-----------------------------------------------------------------------------
(* What the calls are made of.                                             *)

Fresh(blocks) == CHOOSE b \in 1 .. Cardinality(blocks) + 1 : b \notin blocks

floppy_read(s, n) == {<<>>} \cup (IF OnDisk(disk, s, n) THEN {Sectors(disk, s, n)} ELSE {})

Tried(buf) == trouble' = (trouble \/ buf = <<>>)

(* The boot sector counts as the only reserved one.                        *)
FAT12_CLUSTER_TO_SECTOR(c) ==
    1 + info.fats * info.spf + Len(info.root) \div FDBS + (c - 2) * info.spc

fat12_rw_cluster(c) ==
    IF c \in {0, 1} THEN {<<>>} ELSE floppy_read(FAT12_CLUSTER_TO_SECTOR(c), info.spc)

ClusterEntries == FDBS * info.spc

(* The cluster that follows c; -1 behind the table (also for -1 itself).   *)
fat12_get_next_fat(c) ==
    LET offset  == 3 * (c \div 2)
        byte(i) == info.fat[offset + i]
    IN  IF c < 0 \/ offset + 1 > Len(info.fat) THEN -1
        ELSE IF c % 2 = 0 THEN (byte(1) + (BYTE * byte(2))) % (BYTE * NIBBLE)
        ELSE (byte(2) + (BYTE * byte(3))) \div NIBBLE

Table(at, buf) == IF at[1] = "root" THEN info.root ELSE buf
Entry(at, buf) == Table(at, buf)[at[2]]
Next1(at)      == <<at[1], at[2] + 1>>

(* The entries with the attribute of a long name in front of entry i, read *)
(* backwards: those of a deleted file are not told apart.                  *)
LongBlocks(entries, i) ==
    LET part(j) == entries[j].kind \in {"lfn", "dead_lfn"}
        first   == CHOOSE j \in 1 .. i : /\ \A k \in j .. i - 1 : part(k)
                                         /\ j = 1 \/ ~ part(j - 1)
    IN  Reverse([k \in 1 .. i - first |-> entries[first + k - 1].name])

(* The lengths in front of the first dot and behind it; no dot is counted. *)
fat12_get_filename_len(name) ==
    LET dot == FirstDot(name) IN
    IF name \in {DOT, DOTDOT} THEN [name |-> Len(name), ext |-> 0]
    ELSE [name |-> dot - 1, ext |-> Cardinality({i \in dot .. Len(name) : name[i] # "."})]

IsLong(name) ==
    LET len == fat12_get_filename_len(name) IN len.name > NAME_MAX \/ len.ext > EXT_MAX

(* Of a long name the dots behind the first are not counted.               *)
LongLength(name) ==
    LET len == fat12_get_filename_len(name)
    IN  IF len.ext = 0 THEN len.name ELSE len.name + 1 + len.ext

(* Faulty: the dot is not skipped in front of the extension.               *)
DotAndExtension(name, len) == SubSeq(name, len.name + 1, len.name + len.ext)

ExtensionGiven(name, len) == SubSeq(name, len.name + 2, len.name + 1 + len.ext)

(* On disk, blanks fill the fields of a short name.                        *)
Field(text, size) == [k \in 1 .. size |-> IF k <= Len(text) THEN text[k] ELSE " "]

(* A long name is compared whole, a short one's name and extension each up *)
(* to the length given.                                                    *)
fat12_cmp_filename(entries, i, name) ==
    LET len  == fat12_get_filename_len(name)
        long == LongBlocks(entries, i)
    IN  /\ len.name > 0
        /\ IF IsLong(name)
           THEN long # <<>> /\ FlattenSeq(long) = SubSeq(name, 1, LongLength(name))
           ELSE /\ IsPrefix(SubSeq(name, 1, len.name), Field(entries[i].name, NAME_MAX))
                /\ IsPrefix(ExtensionGiven(name, len), Field(entries[i].ext, EXT_MAX))

(* A file's short name is shown with its dot even if nothing is behind it, *)
(* a directory's without its extension.                                    *)
fat12_get_file_name(entries, i) ==
    LET long  == LongBlocks(entries, i)
        entry == entries[i]
    IN  IF long # <<>> THEN FlattenSeq(long)
        ELSE IF entry.kind = "dir" THEN entry.name
        ELSE entry.name \o <<".">> \o entry.ext

NodeBlocks(nodes) == UNION {nodes[i].blocks : i \in DOMAIN nodes}

-----------------------------------------------------------------------------
(* fat12_init.                                                             *)

(* Faulty: only one copy of the FAT is skipped.                            *)
RootBehindFirstFat(d) == d.resv + d.spf

fdb_start_sector(d) == d.resv + d.fats * d.spf

(* Whether the boot sector can be read and says FAT12.                     *)
fat12_get_info   == BOOLEAN
fat12_check_type == BOOLEAN

fat12_rw_fat_table == Sectors(disk, disk.resv, disk.spf)
fat12_rw_root_fdb  == Sectors(disk, fdb_start_sector(disk), RootSectors(disk))

(* What is left allocated when the file system cannot be created.          *)
CleanUp(got) == got \ {1, 2, 3}

(* The boot sector is read and the two tables are loaded, each into memory *)
(* of its own; the second is tried even if the first has failed.           *)
fat12_init ==
    /\ phase = "off"
    /\ \E header \in fat12_get_info, fat12 \in fat12_check_type,
          ok \in [{"info", "fat", "fat_read", "fdb", "fdb_read"} -> BOOLEAN] :
          LET got     == {1} \cup {b \in {2, 3} : ok[<<"info", "fat", "fdb">>[b]]}
              created == \A step \in DOMAIN ok : ok[step]
          IN  IF ~ header \/ ~ fat12 \/ ~ ok["info"] THEN phase' = "done" /\ UNCHANGED <<info, heap>>
              ELSE IF ~ created THEN phase' = "done" /\ heap' = CleanUp(got) /\ UNCHANGED info
              ELSE /\ phase' = "search"
                   /\ heap' = got
                   /\ info' = [fats |-> disk.fats, spf |-> disk.spf, spc |-> disk.spc,
                               fat |-> fat12_rw_fat_table, root |-> fat12_rw_root_fdb,
                               blocks |-> got]
    /\ UNCHANGED <<disk, lost, search, listing, handed, trouble, last>>

-----------------------------------------------------------------------------
(* fat12_search_fdb.                                                       *)

Searching(path, dir) == [NoSearch EXCEPT !.pc = "enter", !.path = path, !.fat = dir]

(* A failed read of the directory to start from leaves the buffer to       *)
(* kfree, which knows nothing of it.                                       *)
SearchEnter ==
    LET b == Fresh(heap) IN
    /\ search.pc = "enter"
    /\ \/ /\ search' = [search EXCEPT !.pc = "end", !.match = -1]
          /\ trouble' = TRUE
          /\ UNCHANGED <<heap, lost>>
       \/ /\ heap' = heap \cup {b}
          /\ IF search.fat < 2 \/ search.path.abs
             THEN /\ search' = [search EXCEPT !.pc = "parse", !.block = b]
                  /\ UNCHANGED <<lost, trouble>>
             ELSE \E buf \in fat12_rw_cluster(search.fat) :
                  /\ Tried(buf)
                  /\ IF buf = <<>>
                     THEN /\ search' = [search EXCEPT !.pc = "end", !.match = -1]
                          /\ lost' = lost \cup {b}
                     ELSE /\ search' = [search EXCEPT !.pc = "parse", !.block = b, !.buf = buf,
                                                      !.at = <<"cluster", 1>>]
                          /\ UNCHANGED lost
    /\ UNCHANGED <<fixed, listing, caller>>

path_type(path, k) == IF k < Len(path.comps) \/ path.slash THEN "dir" ELSE "file"

(* A scan begins: the buffer is read if "at" becomes a cluster.            *)
StartScan(at, max, buf) ==
    search' = [search EXCEPT !.pc = "scan", !.at = at, !.idx = 0, !.max = max, !.match = 0,
                             !.buf = buf]

SearchFails == search' = [search EXCEPT !.pc = "end", !.match = -1]

(* Faulty: a component that is passed over remains the next one.           *)
PassOverNothing(k) == k

PassOver(k) == k + 1

(* The next component of the path.  "." is passed over, ".." where the     *)
(* current entry leads to the root; anything else is looked for in the     *)
(* directory the current entry leads to.  A path without any component     *)
(* leaves is_match as it was found.                                        *)
SearchParse ==
    LET name == search.path.comps[search.next]
        dir  == Entry(search.at, search.buf).start
    IN  /\ search.pc = "parse"
        /\ IF search.next > Len(search.path.comps)
           THEN /\ \E match \in (IF search.path.comps = <<>> THEN {0, 1} ELSE {search.match}) :
                      search' = [search EXCEPT !.pc = "end", !.match = match]
                /\ UNCHANGED trouble
           ELSE IF name = DOT \/ (name = DOTDOT /\ dir < 2)
           THEN search' = [search EXCEPT !.next = PassOver(@), !.match = 1] /\ UNCHANGED trouble
           ELSE IF dir < 2
           THEN StartScan(<<"root", 1>>, Len(info.root), search.buf) /\ UNCHANGED trouble
           ELSE \E buf \in fat12_rw_cluster(dir) :
                /\ Tried(buf)
                /\ IF buf = <<>> THEN SearchFails
                                 ELSE StartScan(<<"cluster", 1>>, ClusterEntries, buf)
        /\ UNCHANGED <<fixed, heap, lost, listing, caller>>

Matches(at, buf) ==
    LET entry == Entry(at, buf) IN
    /\ entry.kind = path_type(search.path, search.next)
    /\ fat12_cmp_filename(Table(at, buf), at[2], search.path.comps[search.next])

(* Faulty: the cluster that follows is read without more entries to scan.  *)
NoMoreEntries(max) == max

MoreEntries(max) == max + ClusterEntries

(* One entry.  At the end of the table the chain is followed, if the last  *)
(* entry leads to a cluster: the chain curt_fat is in, which is that of    *)
(* the directory the caller named.                                         *)
SearchScan ==
    LET entry == Entry(search.at, search.buf)
        f     == fat12_get_next_fat(search.fat)
        step  == [search EXCEPT !.idx = @ + 1]
    IN  /\ search.pc = "scan"
        /\ IF search.idx >= search.max \/ entry.kind = "unused"
           THEN search' = [search EXCEPT !.pc = "end"] /\ UNCHANGED trouble
           ELSE IF Matches(search.at, search.buf)
           THEN /\ search' = [search EXCEPT !.pc = "parse", !.next = @ + 1, !.match = 1]
                /\ UNCHANGED trouble
           ELSE IF search.idx + 1 < search.max \/ entry.start < 2
           THEN search' = [step EXCEPT !.at = Next1(@)] /\ UNCHANGED trouble
           ELSE IF f = FAT12_END
           THEN search' = [step EXCEPT !.fat = f] /\ UNCHANGED trouble
           ELSE \E buf \in fat12_rw_cluster(f) :
                /\ Tried(buf)
                /\ IF buf = <<>> THEN SearchFails
                   ELSE search' = [step EXCEPT !.fat = f, !.max = MoreEntries(@), !.buf = buf,
                                               !.at = <<"cluster", 1>>]
        /\ UNCHANGED <<fixed, heap, lost, listing, caller>>

(* The entry is copied and the buffer given back.                          *)
SearchEnd ==
    /\ search.pc = "end"
    /\ heap' = heap \ {search.block}
    /\ search' = [search EXCEPT !.pc = "return", !.buf = <<>>,
                     !.start = IF search.match = 1 THEN Entry(search.at, search.buf).start ELSE 0]
    /\ UNCHANGED <<fixed, lost, listing, trouble, caller>>

-----------------------------------------------------------------------------
(* fat12_get_fs_list.                                                      *)

Listing(path, dir) == [NoListing EXCEPT !.pc = "enter", !.path = path, !.dir = dir]

ListFails == [listing EXCEPT !.pc = "end", !.fail = TRUE]

(* Any absolute path lists the root.  Another path is searched for.        *)
ListEnter ==
    LET b     == Fresh(heap)
        empty == listing.path.comps = <<>>
        open  == [listing EXCEPT !.block = b]
    IN  /\ listing.pc = "enter"
        /\ \/ /\ listing' = ListFails
              /\ trouble' = TRUE
              /\ UNCHANGED <<heap, search>>
           \/ /\ heap' = heap \cup {b}
              /\ IF listing.path.abs \/ (empty /\ listing.dir < 2)
                 THEN /\ listing' = [open EXCEPT !.pc = "scan", !.max = Len(info.root)]
                      /\ UNCHANGED search
                 ELSE IF empty THEN listing' = [open EXCEPT !.pc = "load"] /\ UNCHANGED search
                 ELSE /\ listing' = [open EXCEPT !.pc = "resolve"]
                      /\ search' = Searching(listing.path, listing.dir)
              /\ UNCHANGED trouble
        /\ UNCHANGED <<fixed, lost, caller>>

(* When the search fails nobody gives the buffer back.                     *)
ListResolved ==
    /\ listing.pc = "resolve" /\ search.pc = "return"
    /\ search' = NoSearch
    /\ IF search.match = 1
       THEN /\ listing' = [listing EXCEPT !.pc = "load", !.dir = search.start]
            /\ UNCHANGED lost
       ELSE /\ listing' = [ListFails EXCEPT !.block = NONE]
            /\ lost' = lost \cup {listing.block}
    /\ UNCHANGED <<fixed, heap, trouble, caller>>

ListLoad ==
    /\ listing.pc = "load"
    /\ \E buf \in fat12_rw_cluster(listing.dir) :
          /\ Tried(buf)
          /\ listing' = IF buf = <<>> THEN ListFails
                        ELSE [listing EXCEPT !.pc = "scan", !.at = <<"cluster", 1>>, !.buf = buf,
                                             !.fat = listing.dir, !.max = ClusterEntries]
    /\ UNCHANGED <<fixed, heap, lost, search, caller>>

(* On to the next entry; at the end of a cluster to the next cluster.      *)
ListAdvance(here) ==
    LET f    == fat12_get_next_fat(here.fat)
        step == [here EXCEPT !.idx = @ + 1]
    IN  IF here.idx + 1 < here.max \/ here.at[1] = "root"
        THEN listing' = [step EXCEPT !.at = Next1(@)] /\ UNCHANGED trouble
        ELSE IF f = FAT12_END
        THEN listing' = [step EXCEPT !.at = Next1(@), !.fat = f] /\ UNCHANGED trouble
        ELSE \E buf \in fat12_rw_cluster(f) :
             /\ Tried(buf)
             /\ listing' = IF buf = <<>> THEN [here EXCEPT !.pc = "end", !.fail = TRUE]
                           ELSE [step EXCEPT !.fat = f, !.buf = buf, !.at = <<"cluster", 1>>,
                                             !.max = MoreEntries(@)]

(* One entry: a node and its name are allocated for each that is shown.    *)
(* If either fails nothing is left of the two: the node goes back at once. *)
ListScan ==
    LET entry == Entry(listing.at, listing.buf)
        b     == Fresh(heap)
        c     == Fresh(heap \cup {b})
        node  == [name   |-> fat12_get_file_name(Table(listing.at, listing.buf), listing.at[2]),
                  blocks |-> {b, c}]
    IN  /\ listing.pc = "scan"
        /\ IF listing.idx >= listing.max \/ entry.kind = "unused"
           THEN listing' = [listing EXCEPT !.pc = "end"] /\ UNCHANGED <<heap, trouble>>
           ELSE IF entry.kind \in {"deleted", "lfn", "dead_lfn"}
           THEN ListAdvance(listing) /\ UNCHANGED heap
           ELSE \/ listing' = ListFails /\ trouble' = TRUE /\ UNCHANGED heap
                \/ /\ heap' = heap \cup node.blocks
                   /\ ListAdvance([listing EXCEPT !.nodes = Append(@, node)])
        /\ UNCHANGED <<fixed, lost, search, caller>>

(* Faulty: the names are not freed.                                        *)
FreeNodesOnly(nodes) == {CHOOSE b \in nodes[i].blocks : TRUE : i \in DOMAIN nodes}

fat12_free_fs_list(nodes) == NodeBlocks(nodes)

ListFrees ==
    heap \ ({listing.block} \cup IF listing.fail THEN fat12_free_fs_list(listing.nodes) ELSE {})

-----------------------------------------------------------------------------
(* The callers: the calls at the end of fat12_init, which drop the lists   *)
(* they get and, if the search failed, read "file" although it was never   *)
(* set: whatever start cluster is on the stack; then anyone, with one list *)
(* at a time.                                                              *)
INT16U == 0 .. BYTE * BYTE - 1

ThisCall ==
    CASE phase = "search" -> {[op |-> "search", path |-> TestPath, dir |-> 0]}
      [] phase = "list"   -> {[op |-> "list", path |-> NoPath, dir |-> c] :
                              c \in IF last.ok THEN {last.start} ELSE INT16U}
      [] phase = "root"   -> {[op |-> "list", path |-> [NoPath EXCEPT !.abs = TRUE], dir |-> 0]}
      [] phase = "done"   -> {call \in Calls : info # NULL /\ call.dir \in DirStarts(disk) \cup {0}}
      [] OTHER            -> {}

Begin ==
    /\ Idle /\ handed = <<>>
    /\ Cardinality(lost) <= LOST_MAX
    /\ \E call \in ThisCall :
          /\ last' = [NoCall EXCEPT !.op = call.op, !.path = call.path, !.dir = call.dir]
          /\ \/ /\ call.op = "search"
                /\ search' = Searching(call.path, call.dir)
                /\ UNCHANGED listing
             \/ /\ call.op = "list"
                /\ listing' = Listing(call.path, call.dir)
                /\ UNCHANGED search
    /\ trouble' = FALSE
    /\ UNCHANGED <<fixed, heap, lost, phase, handed>>

Later == CASE phase = "search" -> "list" [] phase = "list" -> "root" [] OTHER -> "done"

SearchReturn ==
    /\ search.pc = "return" /\ listing.pc = "idle"
    /\ last' = [last EXCEPT !.ok = (search.match = 1), !.start = search.start]
    /\ search' = NoSearch
    /\ phase' = Later
    /\ UNCHANGED <<fixed, heap, lost, listing, handed, trouble>>

ListEnd ==
    LET nodes == IF listing.fail THEN <<>> ELSE listing.nodes IN
    /\ listing.pc = "end"
    /\ heap' = ListFrees
    /\ last' = [last EXCEPT !.ok = ~ listing.fail,
                            !.names = [i \in DOMAIN nodes |-> nodes[i].name]]
    /\ IF phase = "done" THEN handed' = nodes /\ UNCHANGED lost
       ELSE lost' = lost \cup NodeBlocks(nodes) /\ UNCHANGED handed
    /\ listing' = NoListing
    /\ phase' = Later
    /\ UNCHANGED <<fixed, search, trouble>>

Release ==
    /\ handed # <<>>
    /\ heap' = heap \ fat12_free_fs_list(handed)
    /\ handed' = <<>>
    /\ UNCHANGED <<fixed, lost, phase, search, listing, trouble, last>>

Proceed ==
    \/ SearchEnter \/ SearchParse \/ SearchScan \/ SearchEnd \/ SearchReturn
    \/ ListEnter \/ ListResolved \/ ListLoad \/ ListScan \/ ListEnd

Next == fat12_init \/ Begin \/ Proceed \/ Release

(* A call that has begun runs on.                                          *)
Spec == Init /\ [][Next]_vars /\ WF_vars(Proceed)

-----------------------------------------------------------------------------
(* Between calls every block in use belongs to the mounted tables, to a    *)
(* list some caller has, or to what the code is known to lose: the buffers *)
(* of lines 436 and 585 and the lists fat12_init drops.  No path gives     *)
(* back too little or, as blocks are used again, too much.                 *)
HeapAccounted ==
    Idle => /\ heap = info.blocks \cup NodeBlocks(handed) \cup lost
            /\ info.blocks \cap (NodeBlocks(handed) \cup lost) = {}
            /\ NodeBlocks(handed) \cap lost = {}

(* The tables in memory are those of the disk, wherever its root lies.     *)
TablesLoaded ==
    info # NULL => /\ info.root = disk.root
                   /\ \A c \in DOMAIN disk.fat : fat12_get_next_fat(c) = disk.fat[c]

(* The directory in which the k-th component is looked up.                 *)
Station(d, path, dir, k) == Walk(d, path, dir)[k - 1]

(* No dot but one between other characters.                                *)
Ordinary(name) ==
    \A i \in DOMAIN name :
        name[i] = "." => i \notin {1, Len(name)} /\ \A j \in DOMAIN name \ {i} : name[j] # "."

(* The entry's name and extension begin with those given, blanks included. *)
Begins(entry, name) ==
    /\ IsPrefix(Stem(name), Field(entry.name, NAME_MAX))
    /\ IsPrefix(Extension(name), Field(entry.ext, EXT_MAX))

(* What the search needs to be right.  One sector is reserved and the      *)
(* first entry of the root has no cluster.  In every directory on the way, *)
(* the name or an unused entry is in the first cluster; the name has at    *)
(* most one dot, between other characters; if it is short, no other entry  *)
(* has a name and an extension beginning with the given ones; if it is     *)
(* long, no deleted long name is left in the directory.                    *)
Searchable(d, path, dir) ==
    /\ d.resv = 1
    /\ d.root[1].start < 2
    /\ path.comps # <<>>
    /\ \A k \in DOMAIN path.comps :
          LET here    == Station(d, path, dir, k)
              name    == path.comps[k]
              entries == FirstPart(d, here)
              fits    == {i \in VisibleEntries(entries) : entries[i].kind = PathType(path, k)}
              found   == {i \in fits : Names(entries, i, name)}
          IN  \/ here = NOWHERE
              \/ name = DOT
              \/ name = DOTDOT /\ here < 2
              \/ /\ found # {} \/ UNUSED \in ToSet(entries)
                 /\ name = DOTDOT \/ Ordinary(name)
                 /\ IF IsLong(name) THEN NamesIntact(d, here)
                    ELSE {i \in fits : Begins(entries[i], name)} = found

(* Under these conditions, and unless memory or the drive fails,           *)
(* fat12_search_fdb finds what the path names by definition, if it names   *)
(* anything: through ".", "..", long names and any number of directories.  *)
SearchResolves ==
    LET start == Resolve(disk, last.path, last.dir) IN
    Idle /\ last.op = "search" /\ ~ trouble /\ Searchable(disk, last.path, last.dir) =>
        /\ last.ok <=> start # NOWHERE
        /\ last.ok => last.start = start

(* How a listing shows an entry, and where it shows a full name: a name    *)
(* without an extension has a dot at its end, and no directory has one.    *)
Displayed(entries, i) ==
    IF LongName(entries, i) = <<>> /\ entries[i].kind = "file" /\ entries[i].ext = <<>>
    THEN entries[i].name \o <<".">> ELSE FullName(entries, i)

NamesShown(d, c) ==
    /\ NamesIntact(d, c)
    /\ \A e \in ToSet(Directory(d, c)) : e.kind = "dir" => e.ext = <<>>

Shown(entries) ==
    LET upto[i \in 0 .. Len(entries)] ==
            IF i = 0 THEN <<>>
            ELSE IF Visible(entries, i) THEN Append(upto[i - 1], Displayed(entries, i))
            ELSE upto[i - 1]
    IN  upto[Len(entries)]

(* fat12_get_fs_list gives the full names of all entries of a directory,   *)
(* in order, through every cluster of its chain, under the same conditions *)
(* on the way to it.  An absolute path must be that of the root, and a     *)
(* relative one must not lead to it: there the code does something else.   *)
ListComplete ==
    LET start == Resolve(disk, last.path, last.dir)
        shown == IF last.path.comps = <<>>
                 THEN disk.resv = 1 /\ start \in DirStarts(disk) \cup {0}
                 ELSE /\ Searchable(disk, last.path, last.dir) /\ ~ last.path.abs
                      /\ start \in (DirStarts(disk) \ {0}) \cup {NOWHERE}
    IN  Idle /\ last.op = "list" /\ ~ trouble /\ shown =>
            IF start = NOWHERE THEN ~ last.ok
            ELSE /\ last.ok
                 /\ NamesShown(disk, start) => last.names = Shown(Directory(disk, start))

(* Every call returns, whatever it finds and whatever fails.               *)
CallsReturn == ~ Idle ~> Idle

=============================================================================
