---------------------------- MODULE Fat12Proofs -----------------------------
(***************************************************************************)
(* The FAT12 file system, for every disk, every call and every pattern of  *)
(* failing reads and allocations: the memory it takes is given back, kept  *)
(* by a caller, or known to be lost; the tables it works on are the disk's;*)
(* a search finds what the path means, and a list shows the whole          *)
(* directory, by the definitions of Fat12Disk.                             *)
(***************************************************************************)
EXTENDS Fat12, SequenceTheorems, FiniteSetTheorems, WellFoundedInduction, TLAPS

-----------------------------------------------------------------------------
(* Who answers for a block.                                                *)

SearchBuffer == IF search.pc = "return" THEN {} ELSE {search.block} \ {NONE}
ListBuffer   == {listing.block} \ {NONE}

(* Six owners share the heap and have nothing in common.                   *)
Parts(all, tables, given, gone, buffer, list, nodes) ==
    /\ all = tables \cup given \cup gone \cup buffer \cup list \cup nodes
    /\ tables \cap (given \cup gone \cup buffer \cup list \cup nodes) = {}
    /\ given \cap (gone \cup buffer \cup list \cup nodes) = {}
    /\ gone \cap (buffer \cup list \cup nodes) = {}
    /\ buffer \cap (list \cup nodes) = {}
    /\ list \cap nodes = {}

Owned == Parts(heap, info.blocks, NodeBlocks(handed), lost, SearchBuffer, ListBuffer,
               NodeBlocks(listing.nodes))

SearchPlaces == {"idle", "enter", "parse", "scan", "end", "return"}
ListPlaces   == {"idle", "enter", "resolve", "load", "scan", "end"}

(* The variables of a search, of which only the place and the block matter.*)
IsSearch(s, places, blocks) ==
    s \in [pc : places, path : {s.path}, next : {s.next}, at : {s.at}, idx : {s.idx},
           max : {s.max}, fat : {s.fat}, match : {s.match}, start : {s.start},
           block : blocks, buf : {s.buf}]

IsListing(l, places, blocks) ==
    l \in [pc : places, path : {l.path}, dir : {l.dir}, at : {l.at}, idx : {l.idx},
           max : {l.max}, fat : {l.fat}, nodes : {l.nodes}, fail : {l.fail},
           block : blocks, buf : {l.buf}]

IsList(nodes) == \E n \in Nat : nodes = [i \in 1 .. n |-> nodes[i]]

Places ==
    /\ IsSearch(search, SearchPlaces, Nat)
    /\ IsListing(listing, ListPlaces, Nat)
    /\ IsList(listing.nodes)
    /\ heap \in SUBSET (Nat \ {NONE}) /\ IsFiniteSet(heap)

(* Nothing is held before it is allocated, one call is in progress at a    *)
(* time, but for the search of a listing, and nobody has a list meanwhile. *)
Quiet ==
    /\ search.pc \in {"idle", "enter"} => search.block = NONE
    /\ listing.pc \in {"idle", "enter"} => listing.block = NONE /\ listing.nodes = <<>>
    /\ listing.pc = "resolve" => listing.block # NONE
    /\ search.pc # "idle" => listing.pc \in {"idle", "resolve"}
    /\ ~ Idle => handed = <<>>
    /\ phase = "off" => Idle /\ heap = {} /\ handed = <<>> /\ lost = {} /\ info = NULL

HeapInv == Places /\ Quiet /\ Owned

LEMMA FreshBlock ==
    ASSUME NEW B \in SUBSET (Nat \ {NONE}), IsFiniteSet(B)
    PROVE  Fresh(B) \in Nat \ {NONE} /\ Fresh(B) \notin B /\ IsFiniteSet(B \cup {Fresh(B)})
<1>1. Cardinality(B) \in Nat
  BY FS_CardinalityType
<1> DEFINE n == Cardinality(B) + 1
<1>2. \E b \in 1 .. n : b \notin B
  <2> SUFFICES ASSUME 1 .. n \subseteq B PROVE FALSE
    OBVIOUS
  <2>1. Cardinality(1 .. n) <= Cardinality(B)
    BY FS_Subset
  <2>2. Cardinality(1 .. n) = n
    <3>1. 1 \in Int /\ n \in Int /\ n - 1 + 1 = n /\ ~ (1 > n)
      BY <1>1
    <3> HIDE DEF n
    <3> QED BY <3>1, FS_Interval
  <2> QED BY <1>1, <2>1, <2>2
<1>3. Fresh(B) \in 1 .. n /\ Fresh(B) \notin B
  BY <1>2 DEF Fresh
<1>4. IsFiniteSet(B \cup {Fresh(B)})
  BY FS_AddElement
<1> QED BY <1>1, <1>3, <1>4 DEF NONE

LEMMA NoBlocks == NodeBlocks(<<>>) = {}
BY DEF NodeBlocks

(* A node more is so many blocks more.                                     *)
LEMMA MoreNodes ==
    ASSUME NEW nodes, IsList(nodes), NEW node
    PROVE  /\ IsList(Append(nodes, node))
           /\ NodeBlocks(Append(nodes, node)) = NodeBlocks(nodes) \cup node.blocks
<1>1. PICK n \in Nat : nodes = [i \in 1 .. n |-> nodes[i]]
  BY DEF IsList
<1> DEFINE S == {nodes[i] : i \in 1 .. n} \cup {node}
           more == Append(nodes, node)
<1>2. nodes \in Seq(S) /\ Len(nodes) = n
  BY <1>1
<1>3. /\ more = [i \in 1 .. n + 1 |-> more[i]]
      /\ \A i \in 1 .. n : more[i] = nodes[i]
      /\ more[n + 1] = node
  <2> HIDE DEF S
  <2>1. node \in S
    BY DEF S
  <2>2. more \in Seq(S) /\ Len(more) = n + 1
    BY <1>2, <2>1
  <2>3. \A i \in 1 .. n : more[i] = nodes[i]
    BY <1>2, <2>1
  <2>4. more[n + 1] = node
    BY <1>2, <2>1
  <2> HIDE DEF more
  <2>5. more = [i \in 1 .. n + 1 |-> more[i]]
    BY <2>2
  <2> QED BY <2>3, <2>4, <2>5
<1>4. DOMAIN more = 1 .. n + 1 /\ DOMAIN nodes = 1 .. n
  BY <1>1, <1>3
<1> HIDE DEF more
<1>5. 1 .. n + 1 = (1 .. n) \cup {n + 1}
  OBVIOUS
<1>6. NodeBlocks(more) = NodeBlocks(nodes) \cup node.blocks
  <2>1. \A x : x \in NodeBlocks(more) <=> \E i \in 1 .. n + 1 : x \in more[i].blocks
    BY <1>4 DEF NodeBlocks
  <2>2. \A x : x \in NodeBlocks(nodes) <=> \E i \in 1 .. n : x \in nodes[i].blocks
    BY <1>4 DEF NodeBlocks
  <2>3. \A x : x \in NodeBlocks(more) <=> x \in NodeBlocks(nodes) \/ x \in node.blocks
    BY <1>3, <1>5, <2>1, <2>2
  <2> QED BY <2>3
<1>7. IsList(more)
  <2>1. n + 1 \in Nat
    OBVIOUS
  <2> QED BY <1>3, <2>1 DEF IsList
<1> QED BY <1>6, <1>7 DEF more

-----------------------------------------------------------------------------
(* The steps of a search.                                                  *)

LEMMA SearchEnterOwned == ASSUME HeapInv, SearchEnter PROVE HeapInv'
<1> DEFINE b == Fresh(heap)
<1>1. Places /\ Quiet /\ Owned
  BY DEF HeapInv
<1>2. b \in Nat \ {NONE} /\ b \notin heap /\ IsFiniteSet(heap \cup {b})
  BY <1>1, FreshBlock DEF Places
<1>3. /\ search.pc = "enter" /\ search.block = NONE
      /\ listing.pc \in {"idle", "resolve"} /\ handed = <<>> /\ phase # "off"
      /\ UNCHANGED <<disk, info, listing, phase, handed, last>>
  BY <1>1 DEF SearchEnter, Quiet, fixed, caller, Idle
<1>4. IsSearch(search, SearchPlaces, Nat)
  BY <1>1 DEF Places
<1>5. \/ /\ IsSearch(search', {"end"}, {NONE})
         /\ UNCHANGED <<heap, lost>>
      \/ /\ IsSearch(search', {"parse"}, {b})
         /\ heap' = heap \cup {b} /\ UNCHANGED lost
      \/ /\ IsSearch(search', {"end"}, {NONE})
         /\ heap' = heap \cup {b} /\ lost' = lost \cup {b}
  <2> HIDE DEF b
  <2>2. ASSUME NEW buf, search' = [search EXCEPT !.pc = "parse", !.block = b, !.buf = buf,
                                                      !.at = <<"cluster", 1>>]
        PROVE IsSearch(search', {"parse"}, {b})
    BY <1>4, <2>2 DEF IsSearch
  <2>3. ASSUME search' = [search EXCEPT !.pc = "parse", !.block = b]
        PROVE IsSearch(search', {"parse"}, {b})
    BY <1>4, <2>3 DEF IsSearch
  <2>4. ASSUME search' = [search EXCEPT !.pc = "end", !.match = -1]
        PROVE IsSearch(search', {"end"}, {NONE})
    BY <1>3, <1>4, <2>4 DEF IsSearch
  <2> QED BY <2>2, <2>3, <2>4 DEF SearchEnter, b
<1> HIDE DEF b
<1>6. search'.pc \in {"parse", "end"} /\ IsSearch(search', SearchPlaces, Nat)
  BY <1>2, <1>5 DEF IsSearch, SearchPlaces, NONE
<1>7. Places'
  BY <1>1, <1>2, <1>3, <1>5, <1>6 DEF Places
<1>8. Quiet'
  BY <1>1, <1>3, <1>6 DEF Quiet, Idle
<1>9. Owned'
  <2>1. SearchBuffer = {}
    BY <1>3 DEF SearchBuffer
  <2>2. UNCHANGED <<info, NodeBlocks(handed), NodeBlocks(listing.nodes), ListBuffer>>
    BY <1>3 DEF ListBuffer
  <2>3. SearchBuffer' = {search'.block} \ {NONE}
    BY <1>6 DEF SearchBuffer
  <2>4. \/ SearchBuffer' = {} /\ heap' = heap /\ lost' = lost
        \/ SearchBuffer' = {b} /\ heap' = heap \cup {b} /\ lost' = lost
        \/ SearchBuffer' = {} /\ heap' = heap \cup {b} /\ lost' = lost \cup {b}
    BY <1>2, <1>5, <2>3 DEF IsSearch
  <2> QED BY <1>1, <1>2, <2>1, <2>2, <2>4 DEF Owned, Parts
<1> QED BY <1>7, <1>8, <1>9 DEF HeapInv

(* A step that keeps the buffer and allocates nothing.                     *)
LEMMA SearchMoves ==
    ASSUME HeapInv, search.pc \in {"parse", "scan"},
           IsSearch(search', {"parse", "scan", "end"}, {search.block}),
           UNCHANGED <<info, heap, lost, listing, phase, handed>>
    PROVE  HeapInv'
<1>1. Places /\ Quiet /\ Owned
  BY DEF HeapInv
<1>2. search'.pc \in {"parse", "scan", "end"} /\ search'.block = search.block
      /\ search.block \in Nat
  BY <1>1 DEF IsSearch, Places
<1>3. Places'
  <2>1. IsSearch(search', SearchPlaces, Nat)
    BY <1>2 DEF IsSearch, SearchPlaces
  <2> QED BY <1>1, <2>1 DEF Places
<1>4. Quiet'
  BY <1>1, <1>2 DEF Quiet, Idle
<1>5. Owned'
  <2>1. SearchBuffer' = SearchBuffer /\ ListBuffer' = ListBuffer
    BY <1>2 DEF SearchBuffer, ListBuffer
  <2> QED BY <1>1, <2>1 DEF Owned
<1> QED BY <1>3, <1>4, <1>5 DEF HeapInv

LEMMA SearchParseOwned == ASSUME HeapInv, SearchParse PROVE HeapInv'
<1>1. IsSearch(search, SearchPlaces, Nat)
  BY DEF HeapInv, Places
<1>2. search.pc = "parse" /\ UNCHANGED <<info, heap, lost, listing, phase, handed>>
  BY DEF SearchParse, fixed, caller
<1>3. IsSearch(search', {"parse", "scan", "end"}, {search.block})
  <2>1. ASSUME NEW match, search' = [search EXCEPT !.pc = "end", !.match = match]
        PROVE  IsSearch(search', {"parse", "scan", "end"}, {search.block})
    BY <1>1, <2>1 DEF IsSearch
  <2>2. ASSUME NEW k, search' = [search EXCEPT !.next = k, !.match = 1]
        PROVE  IsSearch(search', {"parse", "scan", "end"}, {search.block})
    BY <1>1, <1>2, <2>2 DEF IsSearch
  <2>3. ASSUME NEW at, NEW max, NEW buf, StartScan(at, max, buf)
        PROVE  IsSearch(search', {"parse", "scan", "end"}, {search.block})
    BY <1>1, <2>3 DEF IsSearch, StartScan
  <2> QED BY <2>1, <2>2, <2>3 DEF SearchParse, SearchFails
<1> QED BY <1>2, <1>3, SearchMoves

LEMMA SearchScanOwned == ASSUME HeapInv, SearchScan PROVE HeapInv'
<1>1. IsSearch(search, SearchPlaces, Nat)
  BY DEF HeapInv, Places
<1>2. search.pc = "scan" /\ UNCHANGED <<info, heap, lost, listing, phase, handed>>
  BY DEF SearchScan, fixed, caller
<1> DEFINE step == [search EXCEPT !.idx = @ + 1]
           Moved == IsSearch(search', {"parse", "scan", "end"}, {search.block})
<1>3. IsSearch(step, {"scan"}, {search.block})
  BY <1>1, <1>2 DEF IsSearch
<1>4. ASSUME search' = [search EXCEPT !.pc = "end"] PROVE Moved
  BY <1>1, <1>4 DEF IsSearch
<1>5. ASSUME SearchFails PROVE Moved
  BY <1>1, <1>5 DEF IsSearch, SearchFails
<1>6. ASSUME NEW next, search' = [search EXCEPT !.pc = "parse", !.next = next, !.match = 1] PROVE Moved
  BY <1>1, <1>6 DEF IsSearch
<1> HIDE DEF step
<1>7. ASSUME NEW at, search' = [step EXCEPT !.at = at] PROVE Moved
  BY <1>3, <1>7 DEF IsSearch
<1>8. ASSUME NEW f, search' = [step EXCEPT !.fat = f] PROVE Moved
  BY <1>3, <1>8 DEF IsSearch
<1>9. ASSUME NEW f, NEW max, NEW buf,
             search' = [step EXCEPT !.fat = f, !.max = max, !.buf = buf, !.at = <<"cluster", 1>>]
      PROVE  Moved
  BY <1>3, <1>9 DEF IsSearch
<1> DEFINE f == fat12_get_next_fat(search.fat)
           Onward(buf) == search' = [step EXCEPT !.fat = f, !.max = MoreEntries(@), !.buf = buf,
                                                 !.at = <<"cluster", 1>>]
<1>10. \/ search' = [search EXCEPT !.pc = "end"]
       \/ SearchFails
       \/ search' = [search EXCEPT !.pc = "parse", !.next = @ + 1, !.match = 1]
       \/ search' = [step EXCEPT !.at = Next1(@)]
       \/ search' = [step EXCEPT !.fat = f]
       \/ \E buf : Onward(buf)
  BY Zenon DEF SearchScan, step
<1>11. Moved
  <2> HIDE DEF Moved, f
  <2>1. ASSUME NEW buf, Onward(buf) PROVE Moved
    BY <1>9, <2>1
  <2>2. ASSUME search' = [step EXCEPT !.at = Next1(@)] PROVE Moved
    BY <1>7, <2>2
  <2>3. ASSUME search' = [search EXCEPT !.pc = "parse", !.next = @ + 1, !.match = 1] PROVE Moved
    BY <1>6, <2>3
  <2>4. ASSUME search' = [step EXCEPT !.fat = f] PROVE Moved
    BY <1>8, <2>4
  <2> HIDE DEF Onward
  <2> QED BY <1>4, <1>5, <1>10, <2>1, <2>2, <2>3, <2>4
<1> QED BY <1>2, <1>11, SearchMoves DEF Moved

LEMMA SearchEndOwned == ASSUME HeapInv, SearchEnd PROVE HeapInv'
<1>1. Places /\ Quiet /\ Owned
  BY DEF HeapInv
<1>2. /\ search.pc = "end" /\ search.block \in Nat
      /\ heap' = heap \ {search.block}
      /\ UNCHANGED <<info, lost, listing, phase, handed>>
  BY <1>1 DEF SearchEnd, fixed, caller, Places, IsSearch
<1>3. IsSearch(search', {"return"}, {search.block})
  <2>1. ASSUME NEW start, search' = [search EXCEPT !.pc = "return", !.buf = <<>>, !.start = start]
        PROVE  IsSearch(search', {"return"}, {search.block})
    BY <1>1, <2>1 DEF Places, IsSearch
  <2> QED BY <2>1 DEF SearchEnd
<1>4. search'.pc = "return" /\ search'.block = search.block
  BY <1>3 DEF IsSearch
<1>5. Places'
  <2>1. IsSearch(search', SearchPlaces, Nat)
    BY <1>2, <1>3 DEF IsSearch, SearchPlaces
  <2>2. IsFiniteSet(heap')
    BY <1>1, <1>2, FS_Difference DEF Places
  <2> QED BY <1>1, <1>2, <2>1, <2>2 DEF Places
<1>6. Quiet'
  BY <1>1, <1>2, <1>4 DEF Quiet, Idle
<1>7. Owned'
  <2>1. SearchBuffer = {search.block} \ {NONE} /\ SearchBuffer' = {} /\ ListBuffer' = ListBuffer
    BY <1>2, <1>4 DEF SearchBuffer, ListBuffer
  <2>2. heap' = heap \ SearchBuffer
    BY <1>1, <1>2, <2>1 DEF Places
  <2> QED BY <1>1, <1>2, <2>1, <2>2 DEF Owned, Parts
<1> QED BY <1>5, <1>6, <1>7 DEF HeapInv

(* After the end of a search there is none.                                *)
LEMMA NoSearchFacts ==
    /\ IsSearch(NoSearch, SearchPlaces, Nat)
    /\ NoSearch.pc = "idle" /\ NoSearch.block = NONE
BY DEF NoSearch, IsSearch, SearchPlaces, NONE

LEMMA SearchReturnOwned == ASSUME HeapInv, SearchReturn PROVE HeapInv'
<1>1. Places /\ Quiet /\ Owned
  BY DEF HeapInv
<1>2. /\ search.pc = "return" /\ listing.pc = "idle" /\ search' = NoSearch
      /\ phase' \in {"search", "list", "root", "done"} /\ phase # "off"
      /\ UNCHANGED <<info, heap, lost, listing, handed>>
  BY <1>1 DEF SearchReturn, fixed, Later, Quiet, Idle
<1>3. Places'
  BY <1>1, <1>2, NoSearchFacts DEF Places
<1>4. Quiet'
  BY <1>1, <1>2, NoSearchFacts DEF Quiet, Idle
<1>5. Owned'
  <2>1. SearchBuffer = {} /\ SearchBuffer' = {} /\ ListBuffer' = ListBuffer
    BY <1>2, NoSearchFacts DEF SearchBuffer, ListBuffer
  <2> QED BY <1>1, <1>2, <2>1 DEF Owned
<1> QED BY <1>3, <1>4, <1>5 DEF HeapInv

-----------------------------------------------------------------------------
(* The steps of a listing.                                                 *)

LEMMA ListEnterOwned == ASSUME HeapInv, ListEnter PROVE HeapInv'
<1> DEFINE b == Fresh(heap)
           open == [listing EXCEPT !.block = b]
           Opened == IsListing(listing', {"scan", "load", "resolve"}, {b})
                     /\ listing'.nodes = listing.nodes
<1>1. Places /\ Quiet /\ Owned
  BY DEF HeapInv
<1>2. b \in Nat \ {NONE} /\ b \notin heap /\ IsFiniteSet(heap \cup {b})
  BY <1>1, FreshBlock DEF Places
<1>3. /\ listing.pc = "enter" /\ listing.block = NONE /\ listing.nodes = <<>>
      /\ search.pc = "idle" /\ search.block = NONE /\ handed = <<>> /\ phase # "off"
      /\ UNCHANGED <<disk, info, lost, phase, handed, last>>
  BY <1>1 DEF ListEnter, Quiet, fixed, caller, Idle
<1>4. IsListing(listing, ListPlaces, Nat)
  BY <1>1 DEF Places
<1>5. \/ /\ listing' = ListFails
         /\ UNCHANGED <<heap, search>>
      \/ /\ heap' = heap \cup {b}
         /\ \/ listing' = [open EXCEPT !.pc = "scan", !.max = Len(info.root)] /\ UNCHANGED search
            \/ listing' = [open EXCEPT !.pc = "load"] /\ UNCHANGED search
            \/ /\ listing' = [open EXCEPT !.pc = "resolve"]
               /\ search' = Searching(listing.path, listing.dir)
  BY Zenon DEF ListEnter, open, b
<1> HIDE DEF b
<1>6. ASSUME listing' = ListFails
      PROVE  IsListing(listing', {"end"}, {NONE}) /\ listing'.nodes = listing.nodes
  BY <1>3, <1>4, <1>6 DEF IsListing, ListFails
<1>7. IsListing(open, {"enter"}, {b}) /\ open.nodes = listing.nodes
  BY <1>3, <1>4 DEF IsListing
<1> HIDE DEF open
<1>8. ASSUME NEW max, listing' = [open EXCEPT !.pc = "scan", !.max = max] PROVE Opened
  BY <1>7, <1>8 DEF IsListing
<1>9. ASSUME listing' = [open EXCEPT !.pc = "load"] PROVE Opened
  BY <1>7, <1>9 DEF IsListing
<1>10. ASSUME listing' = [open EXCEPT !.pc = "resolve"] PROVE Opened /\ listing'.pc = "resolve"
  BY <1>7, <1>10 DEF IsListing
<1> DEFINE Sought == IsSearch(search', {"enter"}, {NONE})
<1>11. ASSUME search' = Searching(listing.path, listing.dir) PROVE Sought
  BY <1>11 DEF Searching, NoSearch, IsSearch
<1>12. UNCHANGED search => IsSearch(search', {"idle"}, {NONE})
  BY <1>1, <1>3 DEF Places, IsSearch
<1> HIDE DEF Opened, Sought
<1>13. \/ /\ IsListing(listing', {"end"}, {NONE}) /\ listing'.nodes = listing.nodes
          /\ IsSearch(search', {"idle"}, {NONE}) /\ heap' = heap
       \/ /\ Opened /\ heap' = heap \cup {b}
          /\ \/ IsSearch(search', {"idle"}, {NONE})
             \/ listing'.pc = "resolve" /\ Sought
  BY <1>5, <1>6, <1>8, <1>9, <1>10, <1>11, <1>12
<1> USE DEF Opened, Sought
<1>14. /\ search'.pc \in {"idle", "enter"} /\ search'.block = NONE
       /\ search'.pc # "idle" => listing'.pc = "resolve"
       /\ listing'.pc \in {"end", "scan", "load", "resolve"} /\ listing'.nodes = <<>>
       /\ listing'.pc = "resolve" => listing'.block # NONE
       /\ \/ listing'.block = NONE /\ heap' = heap
          \/ listing'.block = b /\ heap' = heap \cup {b}
  BY <1>2, <1>3, <1>13 DEF IsSearch, IsListing
<1>15. Places'
  <2>1. IsSearch(search', SearchPlaces, Nat) /\ IsListing(listing', ListPlaces, Nat)
    BY <1>2, <1>13 DEF IsSearch, IsListing, SearchPlaces, ListPlaces, NONE
  <2> QED BY <1>1, <1>2, <1>3, <1>14, <2>1 DEF Places
<1>16. Quiet'
  BY <1>1, <1>3, <1>14 DEF Quiet, Idle
<1>17. Owned'
  <2>1. SearchBuffer = {} /\ ListBuffer = {} /\ SearchBuffer' = {}
        /\ ListBuffer' = {listing'.block} \ {NONE}
    BY <1>3, <1>14 DEF SearchBuffer, ListBuffer
  <2>2. UNCHANGED <<info, lost, NodeBlocks(handed), NodeBlocks(listing.nodes)>>
    BY <1>3, <1>14
  <2> QED BY <1>1, <1>2, <1>14, <2>1, <2>2 DEF Owned, Parts
<1> QED BY <1>15, <1>16, <1>17 DEF HeapInv

LEMMA ListResolvedOwned == ASSUME HeapInv, ListResolved PROVE HeapInv'
<1>1. Places /\ Quiet /\ Owned
  BY DEF HeapInv
<1>2. /\ listing.pc = "resolve" /\ search.pc = "return" /\ search' = NoSearch
      /\ listing.block # NONE /\ handed = <<>> /\ phase # "off"
      /\ UNCHANGED <<info, heap, phase, handed>>
  BY <1>1 DEF ListResolved, fixed, caller, Quiet, Idle
<1>3. \/ IsListing(listing', {"load"}, {listing.block}) /\ lost' = lost
      \/ IsListing(listing', {"end"}, {NONE}) /\ lost' = lost \cup {listing.block}
  <2>1. ASSUME NEW dir, listing' = [listing EXCEPT !.pc = "load", !.dir = dir]
        PROVE  IsListing(listing', {"load"}, {listing.block})
    BY <1>1, <2>1 DEF Places, IsListing
  <2>2. ASSUME listing' = [ListFails EXCEPT !.block = NONE]
        PROVE  IsListing(listing', {"end"}, {NONE})
    BY <1>1, <2>2 DEF Places, IsListing, ListFails
  <2> QED BY <2>1, <2>2 DEF ListResolved
<1>4. listing'.nodes = listing.nodes
  <2>1. ASSUME NEW dir PROVE [listing EXCEPT !.pc = "load", !.dir = dir].nodes = listing.nodes
    BY <1>1 DEF Places, IsListing
  <2>2. [ListFails EXCEPT !.block = NONE].nodes = listing.nodes
    BY <1>1 DEF Places, IsListing, ListFails
  <2> QED BY <2>1, <2>2 DEF ListResolved
<1>5. listing'.pc \in {"load", "end"}
  BY <1>3 DEF IsListing
<1>6. Places'
  <2>1. IsListing(listing', ListPlaces, Nat)
    BY <1>1, <1>3 DEF IsListing, ListPlaces, NONE, Places
  <2> QED BY <1>1, <1>2, <1>4, <2>1, NoSearchFacts DEF Places
<1>7. Quiet'
  BY <1>2, <1>5, NoSearchFacts DEF Quiet, Idle
<1>8. Owned'
  <2>1. SearchBuffer = {} /\ SearchBuffer' = {} /\ ListBuffer = {listing.block}
    BY <1>2, NoSearchFacts DEF SearchBuffer, ListBuffer
  <2>2. \/ ListBuffer' = {listing.block} /\ lost' = lost
        \/ ListBuffer' = {} /\ lost' = lost \cup {listing.block}
    BY <1>2, <1>3 DEF ListBuffer, IsListing
  <2>3. UNCHANGED <<info, heap, NodeBlocks(handed), NodeBlocks(listing.nodes)>>
    BY <1>2, <1>4
  <2> QED BY <1>1, <2>1, <2>2, <2>3 DEF Owned, Parts
<1> QED BY <1>6, <1>7, <1>8 DEF HeapInv

(* A step that keeps the buffer and gives the list the blocks "more".      *)
LEMMA ListMoves ==
    ASSUME HeapInv, listing.pc \in {"load", "scan"},
           IsListing(listing', {"scan", "end"}, {listing.block}),
           UNCHANGED <<info, lost, search, phase, handed>>,
           NEW more \in SUBSET (Nat \ {NONE}), IsFiniteSet(heap \cup more), more \cap heap = {},
           heap' = heap \cup more,
           IsList(listing'.nodes),
           NodeBlocks(listing'.nodes) = NodeBlocks(listing.nodes) \cup more
    PROVE  HeapInv'
<1>1. Places /\ Quiet /\ Owned
  BY DEF HeapInv
<1>2. listing'.pc \in {"scan", "end"} /\ listing'.block = listing.block /\ listing.block \in Nat
  BY <1>1 DEF IsListing, Places
<1>3. Places'
  <2>1. IsListing(listing', ListPlaces, Nat)
    BY <1>2 DEF IsListing, ListPlaces
  <2> QED BY <1>1, <2>1 DEF Places
<1>4. Quiet'
  BY <1>1, <1>2 DEF Quiet, Idle
<1>5. Owned'
  <2>1. SearchBuffer' = SearchBuffer /\ ListBuffer' = ListBuffer
    BY <1>2 DEF SearchBuffer, ListBuffer
  <2>2. NodeBlocks(listing.nodes)' = NodeBlocks(listing.nodes) \cup more
    OBVIOUS
  <2> QED BY <1>1, <2>1, <2>2 DEF Owned, Parts
<1> QED BY <1>3, <1>4, <1>5 DEF HeapInv

LEMMA ListLoadOwned == ASSUME HeapInv, ListLoad PROVE HeapInv'
<1>1. Places
  BY DEF HeapInv
<1>2. listing.pc = "load" /\ UNCHANGED <<info, heap, lost, search, phase, handed>>
  BY DEF ListLoad, fixed, caller
<1> DEFINE Moved == IsListing(listing', {"scan", "end"}, {listing.block})
                    /\ listing'.nodes = listing.nodes
<1>3. ASSUME listing' = ListFails PROVE Moved
  BY <1>1, <1>3 DEF Places, IsListing, ListFails
<1>4. ASSUME NEW buf, NEW max,
             listing' = [listing EXCEPT !.pc = "scan", !.at = <<"cluster", 1>>, !.buf = buf,
                                        !.fat = listing.dir, !.max = max]
      PROVE  Moved
  BY <1>1, <1>4 DEF Places, IsListing
<1> HIDE DEF Moved
<1>5. Moved
  BY <1>3, <1>4 DEF ListLoad
<1>6. HeapInv /\ IsList(listing'.nodes)
      /\ NodeBlocks(listing'.nodes) = NodeBlocks(listing.nodes) \cup {}
  BY <1>1, <1>5 DEF Places, Moved
<1>7. heap' = heap \cup {} /\ IsFiniteSet(heap \cup {}) /\ {} \cap heap = {}
      /\ {} \in SUBSET (Nat \ {NONE})
  BY <1>1, <1>2 DEF Places
<1> QED BY <1>2, <1>5, <1>6, <1>7, ListMoves DEF Moved

(* On to the next entry, from a listing that may have a node more.         *)
LEMMA ListAdvanceMoves ==
    ASSUME NEW here, IsListing(here, {"scan"}, Nat), ListAdvance(here)
    PROVE  IsListing(listing', {"scan", "end"}, {here.block}) /\ listing'.nodes = here.nodes
<1> DEFINE f == fat12_get_next_fat(here.fat)
           step == [here EXCEPT !.idx = @ + 1]
           Moved == IsListing(listing', {"scan", "end"}, {here.block})
                    /\ listing'.nodes = here.nodes
           Onward(buf) == listing' = [step EXCEPT !.fat = f, !.buf = buf, !.at = <<"cluster", 1>>,
                                                  !.max = MoreEntries(@)]
<1>1. \/ listing' = [step EXCEPT !.at = Next1(@)]
      \/ listing' = [step EXCEPT !.at = Next1(@), !.fat = f]
      \/ \E buf : listing' = [here EXCEPT !.pc = "end", !.fail = TRUE] \/ Onward(buf)
  BY Zenon DEF ListAdvance, step
<1>2. IsListing(step, {"scan"}, {here.block}) /\ step.nodes = here.nodes
  BY DEF IsListing
<1> HIDE DEF step, f
<1>3. ASSUME NEW at, listing' = [step EXCEPT !.at = at] PROVE Moved
  BY <1>2, <1>3 DEF IsListing
<1>4. ASSUME NEW at, NEW g, listing' = [step EXCEPT !.at = at, !.fat = g] PROVE Moved
  BY <1>2, <1>4 DEF IsListing
<1>5. ASSUME listing' = [here EXCEPT !.pc = "end", !.fail = TRUE] PROVE Moved
  BY <1>5 DEF IsListing
<1>6. ASSUME NEW g, NEW buf, NEW at, NEW max,
             listing' = [step EXCEPT !.fat = g, !.buf = buf, !.at = at, !.max = max]
      PROVE  Moved
  BY <1>2, <1>6 DEF IsListing
<1> HIDE DEF Moved
<1>7. ASSUME NEW buf, Onward(buf) PROVE Moved
  BY <1>6, <1>7
<1>8. ASSUME listing' = [step EXCEPT !.at = Next1(@)] PROVE Moved
  BY <1>3, <1>8
<1>9. ASSUME listing' = [step EXCEPT !.at = Next1(@), !.fat = f] PROVE Moved
  BY <1>4, <1>9
<1> HIDE DEF Onward
<1>10. Moved
  BY <1>1, <1>5, <1>7, <1>8, <1>9
<1> QED BY <1>10 DEF Moved

LEMMA ListScanOwned == ASSUME HeapInv, ListScan PROVE HeapInv'
<1> DEFINE b == Fresh(heap)
           c == Fresh(heap \cup {b})
           node == [name   |-> fat12_get_file_name(Table(listing.at, listing.buf), listing.at[2]),
                    blocks |-> {b, c}]
           grown == [listing EXCEPT !.nodes = Append(@, node)]
<1>1. Places /\ heap \in SUBSET (Nat \ {NONE}) /\ IsFiniteSet(heap)
  BY DEF HeapInv, Places
<1>2. listing.pc = "scan" /\ UNCHANGED <<info, lost, search, phase, handed>>
  BY DEF ListScan, fixed, caller
<1>3. \/ listing' = [listing EXCEPT !.pc = "end"] /\ UNCHANGED heap
      \/ ListAdvance(listing) /\ UNCHANGED heap
      \/ listing' = ListFails /\ UNCHANGED heap
      \/ heap' = heap \cup node.blocks /\ ListAdvance(grown)
  BY Zenon DEF ListScan, grown, node, b, c
<1>4. IsListing(listing, {"scan"}, Nat) /\ listing.block \in Nat
  BY <1>1, <1>2 DEF Places, IsListing
<1> DEFINE Moved == IsListing(listing', {"scan", "end"}, {listing.block})
<1>5. ASSUME listing' = [listing EXCEPT !.pc = "end"] \/ ListAdvance(listing)
             \/ listing' = ListFails, UNCHANGED heap
      PROVE  HeapInv'
  <2>1. CASE listing' = [listing EXCEPT !.pc = "end"] \/ listing' = ListFails
    <3>1. Moved /\ listing'.nodes = listing.nodes
      BY <1>4, <2>1 DEF IsListing, ListFails
    <3> HIDE DEF Moved
    <3>2. IsList(listing'.nodes)
          /\ NodeBlocks(listing'.nodes) = NodeBlocks(listing.nodes) \cup {}
      BY <1>1, <3>1 DEF Places
    <3>3. heap' = heap \cup {} /\ IsFiniteSet(heap \cup {}) /\ {} \cap heap = {}
          /\ {} \in SUBSET (Nat \ {NONE})
      BY <1>1, <1>5
    <3> QED BY <1>2, <3>1, <3>2, <3>3, ListMoves DEF Moved
  <2>2. CASE ListAdvance(listing)
    <3>1. Moved /\ listing'.nodes = listing.nodes
      BY <1>4, <2>2, ListAdvanceMoves
    <3> HIDE DEF Moved
    <3>2. IsList(listing'.nodes)
          /\ NodeBlocks(listing'.nodes) = NodeBlocks(listing.nodes) \cup {}
      BY <1>1, <3>1 DEF Places
    <3>3. heap' = heap \cup {} /\ IsFiniteSet(heap \cup {}) /\ {} \cap heap = {}
          /\ {} \in SUBSET (Nat \ {NONE})
      BY <1>1, <1>5
    <3> QED BY <1>2, <3>1, <3>2, <3>3, ListMoves DEF Moved
  <2> QED BY <1>5, <2>1, <2>2
<1>6. ASSUME heap' = heap \cup node.blocks, ListAdvance(grown) PROVE HeapInv'
  <2>1. b \in Nat \ {NONE} /\ b \notin heap /\ IsFiniteSet(heap \cup {b})
    BY <1>1, FreshBlock
  <2> HIDE DEF b
  <2>2. heap \cup {b} \in SUBSET (Nat \ {NONE})
    BY <1>1, <2>1
  <2>3. c \in Nat \ {NONE} /\ c \notin heap \cup {b} /\ IsFiniteSet((heap \cup {b}) \cup {c})
    BY <2>1, <2>2, FreshBlock
  <2> HIDE DEF c
  <2>4. node.blocks = {b, c}
    OBVIOUS
  <2> HIDE DEF node
  <2>5. IsListing(grown, {"scan"}, Nat) /\ grown.block = listing.block
        /\ grown.nodes = Append(listing.nodes, node)
    BY <1>4 DEF IsListing
  <2> HIDE DEF grown
  <2>6. Moved /\ listing'.nodes = Append(listing.nodes, node)
    BY <1>6, <2>5, ListAdvanceMoves
  <2> HIDE DEF Moved
  <2>7. IsList(listing.nodes)
    BY <1>1 DEF Places
  <2>8. IsList(listing'.nodes)
        /\ NodeBlocks(listing'.nodes) = NodeBlocks(listing.nodes) \cup {b, c}
    BY <2>4, <2>6, <2>7, MoreNodes
  <2>9. heap' = heap \cup {b, c} /\ IsFiniteSet(heap \cup {b, c}) /\ {b, c} \cap heap = {}
        /\ {b, c} \in SUBSET (Nat \ {NONE})
    <3>1. heap \cup {b, c} = (heap \cup {b}) \cup {c}
      OBVIOUS
    <3> QED BY <1>6, <2>1, <2>3, <2>4, <3>1
  <2> QED BY <1>2, <2>6, <2>8, <2>9, ListMoves DEF Moved
<1> HIDE DEF b, c, node, grown
<1> QED BY <1>3, <1>5, <1>6

LEMMA NoListingFacts ==
    /\ IsListing(NoListing, ListPlaces, Nat)
    /\ NoListing.pc = "idle" /\ NoListing.block = NONE /\ NoListing.nodes = <<>>
    /\ IsList(<<>>)
<1>1. IsListing(NoListing, ListPlaces, Nat)
  BY DEF NoListing, IsListing, ListPlaces, NONE
<1>2. IsList(<<>>)
  <2>1. 0 \in Nat /\ <<>> = [i \in 1 .. 0 |-> <<>>[i]]
    OBVIOUS
  <2> QED BY <2>1 DEF IsList
<1> QED BY <1>1, <1>2 DEF NoListing

LEMMA LaterFacts == Later # "off"
BY DEF Later

LEMMA ListEndOwned == ASSUME HeapInv, ListEnd PROVE HeapInv'
<1> DEFINE nodes == IF listing.fail THEN <<>> ELSE listing.nodes
<1>1. Places /\ Quiet /\ Owned
  BY DEF HeapInv
<1>2. /\ listing.pc = "end" /\ listing' = NoListing /\ phase' = Later
      /\ search.pc = "idle" /\ search.block = NONE /\ handed = <<>> /\ listing.block \in Nat
      /\ UNCHANGED <<info, search>>
  BY <1>1 DEF ListEnd, fixed, Quiet, Idle, Places, IsListing
<1>3. \/ handed' = nodes /\ lost' = lost
      \/ handed' = handed /\ lost' = lost \cup NodeBlocks(nodes)
  BY Zenon DEF ListEnd, nodes
<1> DEFINE gone == IF listing.fail THEN NodeBlocks(listing.nodes) ELSE {}
<1>4. heap' = heap \ (ListBuffer \cup gone)
  <2>1. heap' = heap \ ({listing.block} \cup gone)
    BY Zenon DEF ListEnd, ListFrees, fat12_free_fs_list, gone
  <2> QED BY <1>1, <2>1 DEF Places, ListBuffer
<1>5. NodeBlocks(nodes) = NodeBlocks(listing.nodes) \ gone
      /\ gone \subseteq NodeBlocks(listing.nodes)
  BY NoBlocks
<1> HIDE DEF nodes, gone
<1>6. Places'
  <2>1. IsFiniteSet(heap')
    BY <1>1, <1>4, FS_Difference DEF Places
  <2> QED BY <1>1, <1>2, <1>4, <2>1, NoListingFacts DEF Places
<1>7. Quiet'
  BY <1>1, <1>2, NoListingFacts, LaterFacts DEF Quiet, Idle
<1>8. Owned'
  <2>1. SearchBuffer = {} /\ SearchBuffer' = {} /\ ListBuffer' = {}
    BY <1>2, NoListingFacts DEF SearchBuffer, ListBuffer
  <2>2. NodeBlocks(handed) = {} /\ NodeBlocks(listing'.nodes) = {}
    BY <1>2, NoBlocks, NoListingFacts
  <2>3. \/ NodeBlocks(handed)' = NodeBlocks(nodes) /\ lost' = lost
        \/ NodeBlocks(handed)' = {} /\ lost' = lost \cup NodeBlocks(nodes)
    BY <1>3, <2>2
  <2>4. info' = info
    BY <1>2
  <2> QED BY <1>1, <1>4, <1>5, <2>1, <2>2, <2>3, <2>4 DEF Owned, Parts
<1> QED BY <1>6, <1>7, <1>8 DEF HeapInv

-----------------------------------------------------------------------------
(* The callers.                                                            *)

LEMMA BeginOwned == ASSUME HeapInv, Begin PROVE HeapInv'
<1>1. Places /\ Quiet /\ Owned
  BY DEF HeapInv
<1>2. /\ Idle /\ handed = <<>> /\ UNCHANGED <<info, heap, lost, phase, handed>>
      /\ search.block = NONE /\ listing.block = NONE /\ listing.nodes = <<>>
  BY <1>1 DEF Begin, fixed, Quiet, Idle
<1>3. phase # "off"
  BY DEF Begin, ThisCall
<1>4. PICK call \in ThisCall :
      \/ search' = Searching(call.path, call.dir) /\ UNCHANGED listing
      \/ listing' = Listing(call.path, call.dir) /\ UNCHANGED search
  BY Zenon DEF Begin
<1>5. /\ IsSearch(Searching(call.path, call.dir), SearchPlaces, Nat)
      /\ Searching(call.path, call.dir).pc = "enter"
      /\ Searching(call.path, call.dir).block = NONE
  BY DEF Searching, NoSearch, IsSearch, SearchPlaces, NONE
<1>6. /\ IsListing(Listing(call.path, call.dir), ListPlaces, Nat)
      /\ Listing(call.path, call.dir).pc = "enter"
      /\ Listing(call.path, call.dir).block = NONE
      /\ Listing(call.path, call.dir).nodes = <<>>
  BY DEF Listing, NoListing, IsListing, ListPlaces, NONE
<1>7. /\ search'.pc \in {"idle", "enter"} /\ search'.block = NONE
      /\ listing'.pc \in {"idle", "enter"} /\ listing'.block = NONE /\ listing'.nodes = <<>>
      /\ search'.pc = "idle" \/ listing'.pc = "idle"
      /\ IsSearch(search', SearchPlaces, Nat) /\ IsListing(listing', ListPlaces, Nat)
  BY <1>1, <1>2, <1>4, <1>5, <1>6 DEF Idle, Places
<1>8. Places'
  BY <1>1, <1>2, <1>7, NoListingFacts DEF Places
<1>9. Quiet'
  BY <1>1, <1>2, <1>3, <1>7 DEF Quiet, Idle
<1>10. Owned'
  <2>1. SearchBuffer = {} /\ SearchBuffer' = {} /\ ListBuffer = {} /\ ListBuffer' = {}
    BY <1>2, <1>7 DEF SearchBuffer, ListBuffer
  <2>2. UNCHANGED <<info, heap, lost, NodeBlocks(handed), NodeBlocks(listing.nodes)>>
    BY <1>2, <1>7
  <2> QED BY <1>1, <2>1, <2>2 DEF Owned
<1> QED BY <1>8, <1>9, <1>10 DEF HeapInv

LEMMA ReleaseOwned == ASSUME HeapInv, Release PROVE HeapInv'
<1>1. Places /\ Quiet /\ Owned
  BY DEF HeapInv
<1>2. /\ Idle /\ handed' = <<>> /\ heap' = heap \ NodeBlocks(handed)
      /\ UNCHANGED <<info, lost, phase, search, listing>>
  BY <1>1 DEF Release, fixed, Quiet, fat12_free_fs_list
<1>3. Places'
  <2>1. IsFiniteSet(heap')
    BY <1>1, <1>2, FS_Difference DEF Places
  <2> QED BY <1>1, <1>2, <2>1 DEF Places
<1>4. Quiet'
  <2>1. phase = "off" => heap' = {}
    BY <1>1, <1>2 DEF Quiet
  <2> QED BY <1>1, <1>2, <2>1 DEF Quiet, Idle
<1>5. Owned'
  <2>1. SearchBuffer' = SearchBuffer /\ ListBuffer' = ListBuffer
    BY <1>2 DEF SearchBuffer, ListBuffer
  <2>2. NodeBlocks(handed)' = {} /\ NodeBlocks(listing.nodes)' = NodeBlocks(listing.nodes)
    BY <1>2, NoBlocks
  <2> QED BY <1>1, <1>2, <2>1, <2>2 DEF Owned, Parts
<1> QED BY <1>3, <1>4, <1>5 DEF HeapInv

(* The tables are loaded into blocks of their own, or nothing is left.     *)
LEMMA InitOwned == ASSUME HeapInv, fat12_init PROVE HeapInv'
<1>1. Places /\ Quiet /\ Owned
  BY DEF HeapInv
<1>2. /\ phase = "off" /\ Idle /\ heap = {} /\ handed = <<>> /\ lost = {} /\ info = NULL
      /\ UNCHANGED <<lost, search, listing, handed>>
  BY <1>1 DEF fat12_init, Quiet
<1>3. \E got \in SUBSET {1, 2, 3} :
      /\ phase' \in {"done", "search"}
      /\ \/ heap' = {} /\ info'.blocks = {}
         \/ heap' = got /\ info'.blocks = got
  <2>1. PICK header \in fat12_get_info, fat12 \in fat12_check_type,
             ok \in [{"info", "fat", "fat_read", "fdb", "fdb_read"} -> BOOLEAN] :
        LET got     == {1} \cup {b \in {2, 3} : ok[<<"info", "fat", "fdb">>[b]]}
            created == \A step \in DOMAIN ok : ok[step]
        IN  IF ~ header \/ ~ fat12 \/ ~ ok["info"] THEN phase' = "done" /\ UNCHANGED <<info, heap>>
            ELSE IF ~ created THEN phase' = "done" /\ heap' = CleanUp(got) /\ UNCHANGED info
            ELSE /\ phase' = "search"
                 /\ heap' = got
                 /\ info' = [fats |-> disk.fats, spf |-> disk.spf, spc |-> disk.spc,
                             fat |-> fat12_rw_fat_table, root |-> fat12_rw_root_fdb,
                             blocks |-> got]
    BY Zenon DEF fat12_init
  <2> DEFINE got == {1} \cup {b \in {2, 3} : ok[<<"info", "fat", "fdb">>[b]]}
  <2>2. got \in SUBSET {1, 2, 3} /\ CleanUp(got) = {}
    BY DEF CleanUp
  <2>3. \/ phase' = "done" /\ UNCHANGED <<info, heap>>
        \/ phase' = "done" /\ heap' = CleanUp(got) /\ UNCHANGED info
        \/ /\ phase' = "search" /\ heap' = got
           /\ info' = [fats |-> disk.fats, spf |-> disk.spf, spc |-> disk.spc,
                       fat |-> fat12_rw_fat_table, root |-> fat12_rw_root_fdb,
                       blocks |-> got]
    BY Zenon, <2>1
  <2> HIDE DEF got
  <2>4. info.blocks = {}
    BY <1>2 DEF NULL
  <2>5. \/ heap' = {} /\ info'.blocks = {}
        \/ heap' = got /\ info'.blocks = got
    BY <1>2, <2>2, <2>3, <2>4
  <2> QED BY <2>2, <2>3, <2>5
<1>4. PICK got \in SUBSET {1, 2, 3} :
      /\ phase' \in {"done", "search"}
      /\ \/ heap' = {} /\ info'.blocks = {}
         \/ heap' = got /\ info'.blocks = got
  BY <1>3
<1>5. IsFiniteSet(got) /\ IsFiniteSet({})
  <2>1. IsFiniteSet({}) /\ IsFiniteSet({} \cup {1})
    BY FS_EmptySet, FS_AddElement
  <2>2. IsFiniteSet(({} \cup {1}) \cup {2})
    BY <2>1, FS_AddElement
  <2>3. IsFiniteSet((({} \cup {1}) \cup {2}) \cup {3})
    BY <2>2, FS_AddElement
  <2>4. got \subseteq (({} \cup {1}) \cup {2}) \cup {3}
    OBVIOUS
  <2> QED BY <2>1, <2>3, <2>4, FS_Subset
<1>6. Places'
  <2>1. heap' \in SUBSET {1, 2, 3} /\ IsFiniteSet(heap')
    BY <1>4, <1>5
  <2>2. heap' \in SUBSET (Nat \ {NONE})
    BY <2>1 DEF NONE
  <2> QED BY <1>1, <1>2, <2>1, <2>2 DEF Places
<1>7. Quiet'
  BY <1>1, <1>2, <1>4 DEF Quiet, Idle
<1>8. Owned'
  <2>1. SearchBuffer' = {} /\ ListBuffer' = {} /\ listing'.nodes = <<>>
    BY <1>1, <1>2 DEF SearchBuffer, ListBuffer, Quiet, Idle
  <2>2. NodeBlocks(handed)' = {} /\ NodeBlocks(listing.nodes)' = {} /\ lost' = {}
    BY <1>2, <2>1, NoBlocks
  <2> QED BY <1>4, <2>1, <2>2 DEF Owned, Parts
<1> QED BY <1>6, <1>7, <1>8 DEF HeapInv

LEMMA FirstOwned == Init => HeapInv
<1> SUFFICES ASSUME Init PROVE HeapInv
  OBVIOUS
<1>1. /\ search = NoSearch /\ listing = NoListing /\ heap = {} /\ lost = {} /\ handed = <<>>
      /\ info = NULL
  BY DEF Init
<1>2. Places
  BY <1>1, FS_EmptySet, NoSearchFacts, NoListingFacts DEF Places
<1>3. Quiet
  BY <1>1, NoSearchFacts, NoListingFacts DEF Quiet, Idle
<1>4. Owned
  <2>1. SearchBuffer = {} /\ ListBuffer = {} /\ info.blocks = {}
    BY <1>1, NoSearchFacts, NoListingFacts DEF SearchBuffer, ListBuffer, NULL
  <2> QED BY <1>1, <2>1, NoBlocks, NoListingFacts DEF Owned, Parts
<1> QED BY <1>2, <1>3, <1>4 DEF HeapInv

LEMMA NextOwned == HeapInv /\ [Next]_vars => HeapInv'
<1> SUFFICES ASSUME HeapInv, [Next]_vars PROVE HeapInv'
  OBVIOUS
<1>1. CASE Proceed
  BY <1>1, SearchEnterOwned, SearchParseOwned, SearchScanOwned, SearchEndOwned,
     SearchReturnOwned, ListEnterOwned, ListResolvedOwned, ListLoadOwned, ListScanOwned,
     ListEndOwned DEF Proceed
<1>2. CASE fat12_init \/ Begin \/ Release
  BY <1>2, InitOwned, BeginOwned, ReleaseOwned
<1>3. CASE UNCHANGED vars
  BY <1>3 DEF vars, fixed, caller, HeapInv, Places, Quiet, Owned, SearchBuffer, ListBuffer, Idle,
     IsSearch, IsListing
<1> QED BY <1>1, <1>2, <1>3 DEF Next

(* Between calls every block in use is the file system's, a caller's or    *)
(* known to be lost, whatever disk is in the drive, whatever is called and *)
(* wherever a read or an allocation fails.                                 *)
THEOREM BlocksAccounted == Spec => []HeapAccounted
<1>1. HeapInv => HeapAccounted
  <2> SUFFICES ASSUME HeapInv, Idle PROVE HeapAccounted
    BY DEF HeapAccounted
  <2>1. SearchBuffer = {} /\ ListBuffer = {} /\ NodeBlocks(listing.nodes) = {}
    BY NoBlocks DEF HeapInv, Quiet, Idle, SearchBuffer, ListBuffer
  <2> QED BY <2>1 DEF HeapInv, Owned, Parts, HeapAccounted
<1> QED BY <1>1, FirstOwned, NextOwned, PTL DEF Spec

-----------------------------------------------------------------------------
(* The tables.  A table read sector by sector is a sequence of parts of    *)
(* the same length, put together.                                          *)

LEMMA LeastNumber ==
    ASSUME NEW S \in SUBSET Nat, S # {}
    PROVE  \E n \in S : \A m \in S : n <= m
<1>1. IsWellFoundedOn(OpToRel(<, Nat), Nat)
  BY NatLessThanWellFounded
<1>2. PICK n \in S : \A m \in Nat : <<m, n>> \in OpToRel(<, Nat) => m \notin S
  BY <1>1, WFMin
<1>3. \A m \in S : ~ (m < n)
  BY <1>2 DEF OpToRel
<1> QED BY <1>3

Start(g, len) == [b \in 1 .. len |-> g[b]]

IsPart(part, g, i, k) == part = [j \in 1 .. k |-> g[((i - 1) * k) + j]]

(* What FlattenSeq is made of.                                             *)
Flattens(f, parts, n) ==
    f = [i \in 1 .. n |-> IF i = 1 THEN parts[i] ELSE f[i - 1] \o parts[i]]

(* A part more.                                                            *)
LEMMA OnePartMore ==
    ASSUME NEW g, NEW i \in Nat \ {0}, NEW k \in Nat, NEW part, IsPart(part, g, i, k)
    PROVE  Start(g, (i - 1) * k) \o part = Start(g, i * k)
<1> DEFINE m == (i - 1) * k
           S == {g[b] : b \in 1 .. m + k}
<1>1. m \in Nat /\ i * k = m + k
  OBVIOUS
<1> HIDE DEF m
<1>2. Start(g, m) \in Seq(S) /\ Len(Start(g, m)) = m
  <2>1. \A b \in 1 .. m : g[b] \in S
    BY <1>1
  <2> HIDE DEF S
  <2> QED BY <1>1, <2>1 DEF Start
<1>3. part \in Seq(S) /\ Len(part) = k
  <2>1. \A j \in 1 .. k : g[m + j] \in S
    BY <1>1
  <2>2. part = [j \in 1 .. k |-> g[m + j]]
    BY DEF IsPart, m
  <2> HIDE DEF S
  <2> QED BY <2>1, <2>2
<1>4. \A j \in 1 .. k : part[j] = g[m + j]
  BY DEF IsPart, m
<1> DEFINE both == Start(g, m) \o part
<1> HIDE DEF S
<1>5. both \in Seq(S) /\ Len(both) = m + k
  BY <1>2, <1>3
<1>6. \A b \in 1 .. m + k : both[b] = g[b]
  <2> SUFFICES ASSUME NEW b \in 1 .. m + k PROVE both[b] = g[b]
    OBVIOUS
  <2>1. CASE b <= m
    <3>1. both[b] = Start(g, m)[b]
      BY <1>1, <1>2, <1>3, <2>1
    <3> QED BY <1>1, <2>1, <3>1 DEF Start
  <2>2. CASE b > m
    <3>1. both[b] = part[b - m] /\ b - m \in 1 .. k /\ m + (b - m) = b
      BY <1>1, <1>2, <1>3, <2>2
    <3> QED BY <1>4, <3>1
  <2>3. b <= m \/ b > m
    BY <1>1
  <2> HIDE DEF both
  <2> QED BY <2>1, <2>2, <2>3
<1> HIDE DEF both
<1>7. both = Start(g, m + k)
  BY <1>5, <1>6 DEF Start
<1> QED BY <1>1, <1>7 DEF both, m

AreParts(parts, g, n, k) ==
    /\ parts = [i \in 1 .. n |-> parts[i]]
    /\ \A i \in 1 .. n : IsPart(parts[i], g, i, k)

LEMMA PartsFlattened ==
    ASSUME NEW n \in Nat \ {0}, NEW k \in Nat, NEW g, NEW parts, AreParts(parts, g, n, k)
    PROVE  FlattenSeq(parts) = Start(g, n * k)
<1>1. Len(parts) = n
  BY DEF AreParts
<1>2. \A i \in 1 .. n : IsPart(parts[i], g, i, k)
  BY DEF AreParts
<1> DEFINE Joined(i) == Start(g, (i - 1) * k) \o parts[i] = Start(g, i * k)
<1>3. \A i \in 1 .. n : Joined(i)
  <2> SUFFICES ASSUME NEW i \in 1 .. n PROVE Joined(i)
    OBVIOUS
  <2>1. i \in Nat \ {0} /\ IsPart(parts[i], g, i, k)
    BY <1>2
  <2> DEFINE part == parts[i]
  <2> HIDE DEF part
  <2>2. Start(g, (i - 1) * k) \o part = Start(g, i * k)
    BY <2>1, OnePartMore DEF part
  <2> QED BY <2>2 DEF part
<1> DEFINE f == CHOOSE f : Flattens(f, parts, n)
<1>4. Flattens(f, parts, n)
  <2> DEFINE h == [i \in 1 .. n |-> Start(g, i * k)]
  <2>1. ASSUME NEW i \in 1 .. n
        PROVE  h[i] = IF i = 1 THEN parts[i] ELSE h[i - 1] \o parts[i]
    <3>1. CASE i = 1
      BY <1>2, <3>1 DEF Start, IsPart
    <3>2. CASE i # 1
      <4>1. i - 1 \in 1 .. n
        BY <3>2
      <4>2. Start(g, (i - 1) * k) \o parts[i] = Start(g, i * k)
        BY <1>3
      <4>3. h[i - 1] = Start(g, (i - 1) * k) /\ h[i] = Start(g, i * k)
        BY <4>1
      <4> QED BY <3>2, <4>2, <4>3
    <3> QED BY <3>1, <3>2
  <2>2. h = [i \in 1 .. n |-> h[i]]
    OBVIOUS
  <2> HIDE DEF h
  <2>3. Flattens(h, parts, n)
    BY <2>1, <2>2 DEF Flattens
  <2> QED BY <2>3
<1>5. FlattenSeq(parts) = f[n]
  BY <1>1 DEF FlattenSeq, Flattens
<1> HIDE DEF f
<1> DEFINE Bad == {i \in 1 .. n : f[i] # Start(g, i * k)}
<1>6. Bad = {}
  <2> SUFFICES ASSUME Bad # {} PROVE FALSE
    OBVIOUS
  <2>1. Bad \in SUBSET Nat
    OBVIOUS
  <2>2. PICK i \in Bad : \A j \in Bad : i <= j
    BY <2>1, LeastNumber
  <2>3. i \in 1 .. n /\ f[i] # Start(g, i * k)
    BY <2>2
  <2>4. f[i] = IF i = 1 THEN parts[i] ELSE f[i - 1] \o parts[i]
    BY <1>4, <2>3 DEF Flattens
  <2>5. CASE i = 1
    <3>1. parts[1] = Start(g, 1 * k)
      BY <1>2, <2>3, <2>5 DEF Start, IsPart
    <3> QED BY <2>3, <2>4, <2>5, <3>1
  <2>6. CASE i # 1
    <3>1. i - 1 \in 1 .. n /\ i - 1 \notin Bad
      BY <2>2, <2>3, <2>6
    <3>2. f[i - 1] = Start(g, (i - 1) * k)
      BY <3>1
    <3>3. Start(g, (i - 1) * k) \o parts[i] = Start(g, i * k)
      BY <1>3, <2>3
    <3> QED BY <2>3, <2>4, <2>6, <3>2, <3>3
  <2> QED BY <2>5, <2>6
<1>7. n \in 1 .. n
  OBVIOUS
<1>8. f[n] = Start(g, n * k)
  <2>1. n \notin Bad
    BY <1>6
  <2> QED BY <1>7, <2>1
<1> QED BY <1>5, <1>8

(* Numbers of three nibbles in bytes of two.                               *)
LEMMA Division ==
    ASSUME NEW a \in Int, NEW n \in Nat \ {0}, NEW q \in Int, NEW r \in 0 .. n - 1,
           a = q * n + r
    PROVE  a \div n = q /\ a % n = r
BY Z3

LEMMA Divided ==
    ASSUME NEW a \in Nat, NEW n \in Nat \ {0}
    PROVE  a \div n \in Nat /\ a % n \in 0 .. n - 1 /\ a = (a \div n) * n + (a % n)
BY Z3

EvenBytes(e, o) == (e % BYTE) + (BYTE * ((e \div BYTE) + ((o % NIBBLE) * NIBBLE)))
OddBytes(e, o)  == ((e \div BYTE) + ((o % NIBBLE) * NIBBLE)) + (BYTE * (o \div NIBBLE))

LEMMA EntryRead ==
    ASSUME NEW e \in 0 .. FAT12_END, NEW o \in 0 .. FAT12_END
    PROVE  EvenBytes(e, o) % (BYTE * NIBBLE) = e /\ OddBytes(e, o) \div NIBBLE = o
<1> DEFINE N == NIBBLE
           B == BYTE
           W == BYTE * NIBBLE
           x == e \div B
           y == e % B
           p == o \div N
           q == o % N
<1>1. N \in Nat \ {0} /\ B \in Nat \ {0} /\ W \in Nat \ {0} /\ B = N * N /\ W = B * N
      /\ e \in 0 .. W - 1 /\ o \in Nat /\ e \in Nat
  BY FormatAssumption DEF BYTE, FAT12_END
<1> HIDE DEF N, B, W
<1>2. x \in Nat /\ y \in 0 .. B - 1 /\ e = x * B + y
  BY <1>1, Divided
<1>3. p \in Nat /\ q \in 0 .. N - 1 /\ o = p * N + q
  BY <1>1, Divided
<1> HIDE DEF x, y, p, q
<1>4. x \in 0 .. N - 1
  <2>1. x * B <= e /\ e < N * B
    BY <1>1, <1>2
  <2>2. x < N
    <3> SUFFICES ASSUME x >= N PROVE FALSE
      BY <1>1, <1>2
    <3>1. x * B >= N * B
      BY <1>1, <1>2
    <3> QED BY <1>1, <1>2, <2>1, <3>1
  <2> QED BY <1>1, <1>2, <2>2
<1>5. y + (B * (x + (q * N))) = q * W + e
  <2>1. B * (x + (q * N)) = (B * x) + (B * (q * N))
    BY <1>1, <1>2, <1>3
  <2>2. B * (q * N) = q * (B * N) /\ B * x = x * B
    BY <1>1, <1>2, <1>3
  <2>3. \A u, v, w \in Int : y + (u + v) = v + (u + y)
    BY <1>2
  <2> QED BY <1>1, <1>2, <1>3, <2>1, <2>2
<1>6. (x + (q * N)) + (B * p) = o * N + x
  <2>1. B * p = (p * N) * N
    BY <1>1, <1>3
  <2>2. o * N = ((p * N) * N) + (q * N)
    BY <1>1, <1>3
  <2>3. (q * N) \in Int /\ ((p * N) * N) \in Int
    BY <1>1, <1>3
  <2> QED BY <1>1, <1>2, <2>1, <2>2, <2>3
<1>7. (y + (B * (x + (q * N)))) % W = e
  <2>1. (y + (B * (x + (q * N)))) \in Int /\ q \in Int
    BY <1>1, <1>2, <1>3
  <2> QED BY <1>1, <1>5, <2>1, Division
<1>8. ((x + (q * N)) + (B * p)) \div N = o
  <2>1. ((x + (q * N)) + (B * p)) \in Int
    BY <1>1, <1>2, <1>3
  <2> QED BY <1>1, <1>4, <1>6, <2>1, Division
<1> QED BY <1>7, <1>8 DEF x, y, p, q, N, B, W, EvenBytes, OddBytes

-----------------------------------------------------------------------------
(* Where the tables lie on a disk.                                         *)

LEMMA DiskSizes ==
    ASSUME NEW d \in Disks
    PROVE  /\ {d.resv, d.fats, d.spf, d.spc} \subseteq Nat \ {0}
           /\ d.spf <= d.fats * d.spf
           /\ RootSectors(d) \in Nat /\ Len(d.root) = RootSectors(d) * FDBS
           /\ RootStart(d) = d.resv + d.fats * d.spf
           /\ RootStart(d) \in Nat
           /\ DataStart(d) = RootStart(d) + RootSectors(d)
<1>1. /\ {d.resv, d.fats, d.spf, d.spc} \subseteq Nat \ {0}
      /\ d.root \in Seq(ToSet(d.root)) /\ Len(d.root) % FDBS = 0
  BY DiskAssumption DEF IsDisk, IsTable
<1> DEFINE f == d.fats
           p == d.spf
           r == d.resv
<1>2. f \in Nat \ {0} /\ p \in Nat \ {0} /\ r \in Nat
  BY <1>1
<1> HIDE DEF f, p, r
<1>3. p <= f * p /\ f * p \in Nat /\ r + f * p \in Nat
  <2>1. f * p = (f - 1) * p + p
    BY <1>2
  <2>2. f - 1 \in Nat /\ (f - 1) * p \in Nat
    BY <1>2
  <2> QED BY <1>2, <2>1, <2>2
<1>4. Len(d.root) \in Nat /\ FDBS \in Nat \ {0}
  BY <1>1, FormatAssumption
<1> DEFINE l == Len(d.root)
<1> HIDE DEF l
<1>5. l \div FDBS \in Nat /\ l = (l \div FDBS) * FDBS + (l % FDBS)
  BY <1>4, Divided DEF l
<1>6. l = (l \div FDBS) * FDBS
  <2>1. l % FDBS = 0
    BY <1>1 DEF l
  <2>2. \A a \in Nat : a + 0 = a
    OBVIOUS
  <2>3. (l \div FDBS) * FDBS \in Nat
    BY <1>4, <1>5
  <2> QED BY <1>5, <2>1, <2>2, <2>3
<1> QED BY <1>1, <1>3, <1>5, <1>6 DEF l, f, p, r, RootSectors, RootStart, DataStart

(* In front of the clusters there is none.                                 *)
LEMMA NoClusterThere ==
    ASSUME NEW d \in Disks, NEW s \in Nat, s < DataStart(d)
    PROVE  2 + ((s - DataStart(d)) \div d.spc) \notin DOMAIN d.dirs
<1> DEFINE a == s - DataStart(d)
           n == d.spc
<1>1. a \in Int /\ a < 0 /\ n \in Nat \ {0}
  BY DiskSizes
<1>2. DOMAIN d.dirs \subseteq Nat \ {0, 1}
  BY DiskAssumption DEF IsDisk, IsTable
<1> HIDE DEF a, n
<1>3. a \div n \in Int /\ a \div n < 0
  BY <1>1, Z3
<1> QED BY <1>2, <1>3 DEF a, n

FatBytes(d) == [b \in 1 .. d.spf * SECTOR |-> FatByte(d, b - 1)]

LEMMA FatSector ==
    ASSUME NEW d \in Disks, NEW i \in 1 .. d.spf
    PROVE  IsPart(Sector(d, d.resv + i - 1), FatBytes(d), i, SECTOR)
<1> DEFINE s == d.resv + i - 1
<1>1. /\ {d.resv, d.fats, d.spf, d.spc} \subseteq Nat \ {0}
      /\ d.spf <= d.fats * d.spf
      /\ RootStart(d) = d.resv + d.fats * d.spf /\ d.fats * d.spf \in Nat
      /\ RootStart(d) \in Nat /\ RootSectors(d) \in Nat
      /\ DataStart(d) = RootStart(d) + RootSectors(d)
  BY DiskSizes
<1>2. s \in Nat /\ s \in d.resv .. RootStart(d) - 1 /\ s - d.resv = i - 1
      /\ s \notin RootStart(d) .. DataStart(d) - 1 /\ s < DataStart(d)
  BY <1>1
<1> HIDE DEF s
<1>3. Sector(d, s)
        = [j \in 1 .. SECTOR |-> FatByte(d, ((s - d.resv) % d.spf) * SECTOR + j - 1)]
  BY <1>2, NoClusterThere DEF Sector
<1>4. (i - 1) % d.spf = i - 1
  BY <1>1
<1>5. ASSUME NEW j \in 1 .. SECTOR
      PROVE  FatByte(d, ((s - d.resv) % d.spf) * SECTOR + j - 1)
               = FatBytes(d)[((i - 1) * SECTOR) + j]
  <2> DEFINE b == ((i - 1) * SECTOR) + j
             p == d.spf
  <2>1. p \in Nat /\ i \in 1 .. p /\ SECTOR \in Nat
    BY <1>1, FormatAssumption
  <2> HIDE DEF p
  <2>2. ((i - 1) * SECTOR) \in Nat /\ ((i - 1) * SECTOR) + SECTOR <= p * SECTOR
    <3>1. i - 1 \in Nat /\ p - i \in Nat
      BY <2>1
    <3>2. ((i - 1) * SECTOR) \in Nat /\ ((p - i) * SECTOR) \in Nat
      BY <2>1, <3>1
    <3>3. p * SECTOR = (((i - 1) * SECTOR) + SECTOR) + ((p - i) * SECTOR)
      BY <2>1
    <3>4. p * SECTOR \in Nat
      BY <2>1
    <3> QED BY <2>1, <3>2, <3>3, <3>4
  <2>3. b \in 1 .. p * SECTOR /\ ((i - 1) * SECTOR) + j - 1 = b - 1
    <3> DEFINE m == (i - 1) * SECTOR
    <3>1. m \in Nat /\ m + SECTOR <= p * SECTOR
      BY <2>2
    <3>2. p * SECTOR \in Nat
      BY <2>1
    <3> HIDE DEF m
    <3>3. m + j \in 1 .. p * SECTOR /\ m + j - 1 = (m + j) - 1
      BY <2>1, <3>1, <3>2
    <3> QED BY <3>3 DEF m
  <2> HIDE DEF b
  <2>4. FatBytes(d)[b] = FatByte(d, b - 1)
    BY <2>3 DEF FatBytes, p
  <2>5. ((s - d.resv) % d.spf) * SECTOR + j - 1 = b - 1
    BY <1>2, <1>4, <2>3
  <2> QED BY <2>4, <2>5 DEF b
<1> QED BY <1>3, <1>5 DEF IsPart, s

LEMMA FatRead ==
    ASSUME NEW d \in Disks PROVE Sectors(d, d.resv, d.spf) = FatBytes(d)
<1> DEFINE parts == [i \in 1 .. d.spf |-> Sector(d, d.resv + i - 1)]
<1>1. d.spf \in Nat \ {0} /\ SECTOR \in Nat /\ d.spf * SECTOR \in Nat
  <2>1. d.spf \in Nat \ {0} /\ SECTOR \in Nat
    BY DiskSizes, FormatAssumption
  <2> QED BY <2>1
<1>2. parts = [i \in 1 .. d.spf |-> parts[i]] /\ \A i \in 1 .. d.spf : parts[i] = Sector(d, d.resv + i - 1)
  OBVIOUS
<1> HIDE DEF parts
<1>3. AreParts(parts, FatBytes(d), d.spf, SECTOR)
  BY <1>2, FatSector DEF AreParts
<1>4. FlattenSeq(parts) = Start(FatBytes(d), d.spf * SECTOR)
  BY <1>1, <1>3, PartsFlattened
<1>5. Start(FatBytes(d), d.spf * SECTOR) = FatBytes(d)
  BY DEF Start, FatBytes
<1> QED BY <1>4, <1>5 DEF Sectors, parts

LEMMA PartIs == ASSUME NEW t, NEW i \in Nat \ {0} PROVE IsPart(Part(t, i - 1), t, i, FDBS)
<1> DEFINE m == (i - 1) * FDBS
<1>1. m \in Int /\ FDBS \in Nat /\ (i - 1 + 1) * FDBS = m + FDBS
  BY FormatAssumption
<1> HIDE DEF m
<1>2. (m + FDBS) - (m + 1) + 1 = FDBS /\ \A j \in 1 .. FDBS : (m + 1) + j - 1 = m + j
  BY <1>1
<1>3. SubSeq(t, m + 1, m + FDBS) = [j \in 1 .. FDBS |-> t[m + j]]
  BY <1>1, <1>2
<1>4. Part(t, i - 1) = SubSeq(t, m + 1, m + FDBS)
  BY <1>1 DEF Part, m
<1> QED BY <1>3, <1>4 DEF m, IsPart

LEMMA RootSector ==
    ASSUME NEW d \in Disks, NEW i \in 1 .. RootSectors(d)
    PROVE  IsPart(Sector(d, RootStart(d) + i - 1), d.root, i, FDBS)
<1> DEFINE s == RootStart(d) + i - 1
<1>1. /\ RootStart(d) = d.resv + d.fats * d.spf
      /\ RootStart(d) \in Nat /\ RootSectors(d) \in Nat /\ d.resv \in Nat
      /\ DataStart(d) = RootStart(d) + RootSectors(d)
  BY DiskSizes
<1>2. s \in Nat /\ s \notin d.resv .. RootStart(d) - 1 /\ s - RootStart(d) = i - 1
      /\ s \in RootStart(d) .. DataStart(d) - 1 /\ s < DataStart(d)
  BY <1>1
<1> HIDE DEF s
<1>3. Sector(d, s) = Part(d.root, i - 1)
  BY <1>2, NoClusterThere DEF Sector
<1>4. IsPart(Part(d.root, i - 1), d.root, i, FDBS)
  <2>1. i \in Nat \ {0}
    BY <1>1
  <2> QED BY <2>1, PartIs
<1> QED BY <1>3, <1>4 DEF s

LEMMA RootRead ==
    ASSUME NEW d \in Disks PROVE Sectors(d, RootStart(d), RootSectors(d)) = d.root
<1> DEFINE n == RootSectors(d)
           parts == [i \in 1 .. n |-> Sector(d, RootStart(d) + i - 1)]
<1>1. n \in Nat /\ FDBS \in Nat /\ Len(d.root) = n * FDBS
      /\ d.root = [b \in 1 .. Len(d.root) |-> d.root[b]]
  <2>1. d.root \in Seq(ToSet(d.root))
    BY DiskAssumption DEF IsDisk, IsTable
  <2>2. n \in Nat /\ FDBS \in Nat /\ Len(d.root) = n * FDBS
    BY DiskSizes, FormatAssumption
  <2>3. d.root = [b \in 1 .. Len(d.root) |-> d.root[b]]
    BY <2>1
  <2> QED BY <2>2, <2>3
<1>2. parts = [i \in 1 .. n |-> parts[i]]
      /\ \A i \in 1 .. n : parts[i] = Sector(d, RootStart(d) + i - 1)
  OBVIOUS
<1>3. \A i \in 1 .. n : IsPart(Sector(d, RootStart(d) + i - 1), d.root, i, FDBS)
  BY RootSector
<1>4. Sectors(d, RootStart(d), n) = FlattenSeq(parts)
  BY DEF Sectors
<1> HIDE DEF parts, n
<1>5. CASE n = 0
  <2>1. Len(parts) = 0
    BY <1>2, <1>5
  <2>2. FlattenSeq(parts) = parts
    BY <2>1 DEF FlattenSeq
  <2>3. d.root = [b \in 1 .. 0 |-> d.root[b]] /\ parts = [b \in 1 .. 0 |-> parts[b]]
    BY <1>1, <1>2, <1>5
  <2>4. d.root = parts
    BY <2>3
  <2> QED BY <1>4, <2>2, <2>4 DEF n
<1>6. CASE n # 0
  <2>1. AreParts(parts, d.root, n, FDBS)
    BY <1>2, <1>3 DEF AreParts
  <2>2. FlattenSeq(parts) = Start(d.root, n * FDBS)
    BY <1>1, <1>6, <2>1, PartsFlattened
  <2>3. Start(d.root, n * FDBS) = d.root
    BY <1>1 DEF Start
  <2> QED BY <1>4, <2>2, <2>3 DEF n
<1> QED BY <1>5, <1>6

-----------------------------------------------------------------------------
(* A link that is followed in a table loaded from the disk.                *)
LEMMA LinkFollowed ==
    ASSUME disk \in Disks, info.fat = FatBytes(disk), NEW c \in DOMAIN disk.fat
    PROVE  fat12_get_next_fat(c) = disk.fat[c]
<1> DEFINE h == c \div 2
           w == disk.spf * SECTOR
           e == FatEntry(disk, 2 * h)
           o == FatEntry(disk, 2 * h + 1)
<1>1. /\ DOMAIN disk.fat \subseteq Nat /\ disk.fat \in [DOMAIN disk.fat -> 0 .. FAT12_END]
      /\ 3 * h + 2 + (c % 2) <= w
  BY DiskAssumption DEF IsDisk, IsTable
<1>2. w \in Nat
  <2>1. disk.spf \in Nat /\ SECTOR \in Nat
    BY DiskSizes, FormatAssumption
  <2> QED BY <2>1
<1>3. c \in Nat /\ h \in Nat /\ c % 2 \in {0, 1} /\ c = 2 * h + (c % 2)
  BY <1>1
<1>4. e \in 0 .. FAT12_END /\ o \in 0 .. FAT12_END
  <2>1. 0 \in 0 .. FAT12_END
    BY FormatAssumption DEF FAT12_END, BYTE
  <2> QED BY <1>1, <2>1 DEF FatEntry
<1>5. /\ FatByte(disk, 3 * h) = e % BYTE
      /\ FatByte(disk, 3 * h + 1) = (e \div BYTE) + ((o % NIBBLE) * NIBBLE)
      /\ FatByte(disk, 3 * h + 2) = o \div NIBBLE
  <2> HIDE DEF h
  <2>1. /\ (3 * h) % 3 = 0 /\ (3 * h) \div 3 = h
        /\ (3 * h + 1) % 3 = 1 /\ (3 * h + 1) \div 3 = h
        /\ (3 * h + 2) % 3 = 2 /\ (3 * h + 2) \div 3 = h
    BY <1>3
  <2> QED BY <2>1 DEF FatByte
<1> HIDE DEF e, o, w, h
<1>6. Len(info.fat) = w /\ \A b \in 1 .. w : info.fat[b] = FatByte(disk, b - 1)
  BY <1>2 DEF FatBytes, w
<1>7. EvenBytes(e, o) % (BYTE * NIBBLE) = e /\ OddBytes(e, o) \div NIBBLE = o
  BY <1>4, EntryRead
<1>8. info.fat[3 * h + 1] = e % BYTE
      /\ info.fat[3 * h + 2] = (e \div BYTE) + ((o % NIBBLE) * NIBBLE)
  <2>1. 3 * h + 1 \in 1 .. w /\ 3 * h + 2 \in 1 .. w
        /\ (3 * h + 1) - 1 = 3 * h /\ (3 * h + 2) - 1 = 3 * h + 1
    BY <1>1, <1>2, <1>3
  <2> QED BY <1>5, <1>6, <2>1
<1>9. c % 2 = 1 => info.fat[3 * h + 3] = o \div NIBBLE
  <2>1. c % 2 = 1 => 3 * h + 3 \in 1 .. w
    BY <1>1, <1>2, <1>3
  <2>2. (3 * h + 3) - 1 = 3 * h + 2
    BY <1>3
  <2> QED BY <1>5, <1>6, <2>1, <2>2
<1>10. ~ (c < 0 \/ 3 * h + 1 > Len(info.fat))
  BY <1>1, <1>2, <1>3, <1>6
<1>11. CASE c % 2 = 0
  <2>1. fat12_get_next_fat(c)
          = (info.fat[3 * h + 1] + (BYTE * info.fat[3 * h + 2])) % (BYTE * NIBBLE)
    BY <1>10, <1>11 DEF fat12_get_next_fat, h
  <2>2. fat12_get_next_fat(c) = e
    BY <1>7, <1>8, <2>1 DEF EvenBytes
  <2>3. e = disk.fat[c]
    BY <1>3, <1>11 DEF e, FatEntry
  <2> QED BY <2>2, <2>3
<1>12. CASE c % 2 = 1
  <2>1. fat12_get_next_fat(c)
          = (info.fat[3 * h + 2] + (BYTE * info.fat[3 * h + 3])) \div NIBBLE
    BY <1>10, <1>12 DEF fat12_get_next_fat, h
  <2>2. fat12_get_next_fat(c) = o
    BY <1>7, <1>8, <1>9, <1>12, <2>1 DEF OddBytes
  <2>3. o = disk.fat[c]
    BY <1>3, <1>12 DEF o, FatEntry
  <2> QED BY <2>2, <2>3
<1> QED BY <1>3, <1>11, <1>12

(* A mounted disk stays, and its tables are what was read at the start.    *)
Mounted ==
    /\ disk \in Disks
    /\ info # NULL => /\ info.fat = fat12_rw_fat_table /\ info.root = fat12_rw_root_fdb
                      /\ info.fats = disk.fats /\ info.spf = disk.spf /\ info.spc = disk.spc

LEMMA NextMounted == Mounted /\ [Next]_vars => Mounted'
<1> SUFFICES ASSUME Mounted, [Next]_vars PROVE Mounted'
  OBVIOUS
<1>1. CASE fat12_init
  <2>1. disk' = disk
    BY <1>1 DEF fat12_init
  <2>2. \/ info' = info
        \/ /\ info'.fat = fat12_rw_fat_table /\ info'.root = fat12_rw_root_fdb
           /\ info'.fats = disk.fats /\ info'.spf = disk.spf /\ info'.spc = disk.spc
    BY <1>1 DEF fat12_init
  <2> QED BY <2>1, <2>2 DEF Mounted, fat12_rw_fat_table, fat12_rw_root_fdb
<1>2. CASE UNCHANGED fixed
  BY <1>2 DEF Mounted, fixed, fat12_rw_fat_table, fat12_rw_root_fdb
<1>3. Proceed \/ Begin \/ Release \/ UNCHANGED vars => UNCHANGED fixed
  BY DEF Proceed, Begin, Release, vars, fixed, SearchEnter, SearchParse, SearchScan, SearchEnd,
     SearchReturn, ListEnter, ListResolved, ListLoad, ListScan, ListEnd
<1> QED BY <1>1, <1>2, <1>3 DEF Next

LEMMA MountedTables ==
    ASSUME Mounted, info # NULL
    PROVE  /\ disk \in Disks /\ info.fat = FatBytes(disk) /\ info.root = disk.root
           /\ info.fats = disk.fats /\ info.spf = disk.spf /\ info.spc = disk.spc
<1>1. disk \in Disks /\ info.fat = fat12_rw_fat_table /\ info.root = fat12_rw_root_fdb
  BY DEF Mounted
<1>2. info.fat = FatBytes(disk)
  BY <1>1, FatRead DEF fat12_rw_fat_table
<1>3. fdb_start_sector(disk) = RootStart(disk)
  BY DEF fdb_start_sector, RootStart
<1>4. info.root = disk.root
  BY <1>1, <1>3, RootRead DEF fat12_rw_root_fdb
<1> QED BY <1>1, <1>2, <1>4 DEF Mounted

(* The FAT and the root in memory are the disk's, entry by entry, for any  *)
(* geometry: the sectors are put together in order and the three bytes of  *)
(* two FAT entries are taken apart as the format puts them together.       *)
THEOREM MountedTablesLoaded == Spec => []TablesLoaded
<1>1. Init => Mounted
  BY DEF Init, Mounted
<1>2. Mounted => TablesLoaded
  <2> SUFFICES ASSUME Mounted, info # NULL PROVE TablesLoaded
    BY DEF TablesLoaded
  <2>1. disk \in Disks /\ info.fat = FatBytes(disk) /\ info.root = disk.root
    BY MountedTables
  <2>2. \A c \in DOMAIN disk.fat : fat12_get_next_fat(c) = disk.fat[c]
    BY <2>1, LinkFollowed
  <2> QED BY <2>1, <2>2 DEF TablesLoaded
<1> QED BY <1>1, <1>2, NextMounted, PTL DEF Spec

-----------------------------------------------------------------------------
(* What a path means.  A walk is defined by recursion, and such a function *)
(* has first to be shown to exist.                                         *)

WalksUpTo(d, path, c, n, f) ==
    f = [k \in 0 .. n |-> IF k = 0 THEN IF path.abs \/ c < 2 THEN 0 ELSE c
                          ELSE Follow(d, f[k - 1], path.comps[k], PathType(path, k))]

LEMMA WalkExists ==
    ASSUME NEW d, NEW path, NEW c, NEW n \in Nat PROVE \E f : WalksUpTo(d, path, c, n, f)
<1> DEFINE Bad == {m \in Nat : ~ \E f : WalksUpTo(d, path, c, m, f)}
           start == IF path.abs \/ c < 2 THEN 0 ELSE c
           Onward(at, k) == Follow(d, at, path.comps[k], PathType(path, k))
<1> SUFFICES ASSUME Bad # {} PROVE FALSE
  OBVIOUS
<1>1. PICK m \in Bad : \A k \in Bad : m <= k
  BY LeastNumber
<1>2. m # 0
  <2>1. WalksUpTo(d, path, c, 0, [k \in 0 .. 0 |-> start])
    BY DEF WalksUpTo
  <2> QED BY <1>1, <2>1
<1>3. m - 1 \in Nat /\ m - 1 \notin Bad
  BY <1>1, <1>2
<1>4. PICK f : WalksUpTo(d, path, c, m - 1, f)
  BY <1>3
<1>5. /\ \A k \in 0 .. m - 1 : f[k] = IF k = 0 THEN start ELSE Onward(f[k - 1], k)
  BY <1>4 DEF WalksUpTo
<1> HIDE DEF start, Onward
<1> DEFINE e == [k \in 0 .. m |-> IF k = m THEN Onward(f[m - 1], m) ELSE f[k]]
<1>6. \A k \in 0 .. m - 1 : e[k] = f[k]
  BY <1>1, <1>3
<1>7. ASSUME NEW k \in 0 .. m PROVE e[k] = IF k = 0 THEN start ELSE Onward(e[k - 1], k)
  <2>1. CASE k = m
    BY <1>2, <1>3, <1>6, <2>1
  <2>2. CASE k \in 0 .. m - 1
    <3>1. f[k] = IF k = 0 THEN start ELSE Onward(f[k - 1], k)
      BY <1>5, <2>2
    <3>2. k # 0 => k - 1 \in 0 .. m - 1
      BY <1>3, <2>2
    <3> QED BY <1>6, <2>2, <3>1, <3>2
  <2> QED BY <1>1, <2>1, <2>2
<1>8. e = [k \in 0 .. m |-> e[k]]
  OBVIOUS
<1> HIDE DEF e
<1>9. WalksUpTo(d, path, c, m, e)
  BY <1>7, <1>8 DEF WalksUpTo, start, Onward
<1> QED BY <1>1, <1>9

(* Where a walk is after each of the components.                           *)
IsWalk(d, path, c, f) ==
    /\ f[0] = IF path.abs \/ c < 2 THEN 0 ELSE c
    /\ \A k \in 1 .. Len(path.comps) :
          f[k] = Follow(d, f[k - 1], path.comps[k], PathType(path, k))

LEMMA WalkIs ==
    ASSUME NEW d, NEW path, NEW c, Len(path.comps) \in Nat
    PROVE  IsWalk(d, path, c, Walk(d, path, c))
<1> DEFINE n == Len(path.comps)
           f == CHOOSE f : WalksUpTo(d, path, c, n, f)
<1>1. WalksUpTo(d, path, c, n, f)
  <2> HIDE DEF n
  <2>1. n \in Nat
    BY DEF n
  <2> QED BY <2>1, WalkExists
<1>2. Walk(d, path, c) = f
  BY DEF Walk, WalksUpTo
<1> HIDE DEF f, n
<1>3. n \in Nat
  BY DEF n
<1>4. \A k \in 0 .. n : f[k] = IF k = 0 THEN IF path.abs \/ c < 2 THEN 0 ELSE c
                               ELSE Follow(d, f[k - 1], path.comps[k], PathType(path, k))
  BY <1>1 DEF WalksUpTo
<1>5. f[0] = IF path.abs \/ c < 2 THEN 0 ELSE c
  BY <1>3, <1>4
<1>6. \A k \in 1 .. n : f[k] = Follow(d, f[k - 1], path.comps[k], PathType(path, k))
  BY <1>3, <1>4
<1> QED BY <1>2, <1>5, <1>6 DEF IsWalk, n

(* What leads nowhere does not come back.                                  *)
LEMMA NowhereStays ==
    ASSUME NEW d, NEW path, NEW c, NEW f, IsWalk(d, path, c, f), NEW n \in Nat,
           n = Len(path.comps), NEW k \in 0 .. n, f[k] = NOWHERE
    PROVE  f[n] = NOWHERE
<1> DEFINE Bad == {m \in Nat : m >= k /\ m <= n /\ f[m] # NOWHERE}
<1>1. Bad = {}
  <2> SUFFICES ASSUME Bad # {} PROVE FALSE
    OBVIOUS
  <2>1. PICK m \in Bad : \A j \in Bad : m <= j
    BY LeastNumber
  <2>2. m # k /\ m - 1 \notin Bad /\ m \in 1 .. n
    BY <2>1
  <2>3. f[m - 1] = NOWHERE
    BY <2>1, <2>2
  <2>4. f[m] = Follow(d, f[m - 1], path.comps[m], PathType(path, m))
    BY <2>2 DEF IsWalk
  <2>5. f[m] = NOWHERE
    BY <2>3, <2>4 DEF Follow
  <2> QED BY <2>1, <2>5
<1>2. n \notin Bad
  BY <1>1
<1> QED BY <1>2

-----------------------------------------------------------------------------
(* Long names.  j is the first of the entries in front of entry i whose    *)
(* kind is one of these.                                                   *)

IsRun(entries, i, kinds, j) ==
    /\ j \in 1 .. i
    /\ \A k \in j .. i - 1 : entries[k].kind \in kinds
    /\ j = 1 \/ entries[j - 1].kind \notin kinds

RunName(entries, i, j) == Reverse([k \in 1 .. i - j |-> entries[j + k - 1].name])

LEMMA RunExists ==
    ASSUME NEW entries, NEW i \in Nat \ {0}, NEW kinds
    PROVE  \E j : IsRun(entries, i, kinds, j)
<1> DEFINE S == {j \in Nat : j \in 1 .. i /\ \A k \in j .. i - 1 : entries[k].kind \in kinds}
<1>1. i \in S
  OBVIOUS
<1>2. PICK j \in S : \A m \in S : j <= m
  BY <1>1, LeastNumber
<1>3. j = 1 \/ entries[j - 1].kind \notin kinds
  <2> SUFFICES ASSUME j # 1, entries[j - 1].kind \in kinds PROVE FALSE
    OBVIOUS
  <2>1. j - 1 \in 1 .. i /\ j \in 1 .. i
    BY <1>2
  <2>2. \A k \in j - 1 .. i - 1 : k = j - 1 \/ k \in j .. i - 1
    BY <2>1
  <2>3. \A k \in j - 1 .. i - 1 : entries[k].kind \in kinds
    BY <1>2, <2>2
  <2>4. j - 1 \in S
    BY <2>1, <2>3
  <2> QED BY <1>2, <2>1, <2>4
<1> QED BY <1>2, <1>3 DEF IsRun

LEMMA RunUnique ==
    ASSUME NEW entries, NEW i \in Nat \ {0}, NEW kinds, NEW j, NEW m,
           IsRun(entries, i, kinds, j), IsRun(entries, i, kinds, m)
    PROVE  j = m
<1>1. j \in 1 .. i /\ m \in 1 .. i
  BY DEF IsRun
<1>2. ~ (j < m)
  <2> SUFFICES ASSUME j < m PROVE FALSE
    OBVIOUS
  <2>1. m # 1 /\ m - 1 \in j .. i - 1
    BY <1>1
  <2> QED BY <2>1 DEF IsRun
<1>3. ~ (m < j)
  <2> SUFFICES ASSUME m < j PROVE FALSE
    OBVIOUS
  <2>1. j # 1 /\ j - 1 \in m .. i - 1
    BY <1>1
  <2> QED BY <2>1 DEF IsRun
<1> QED BY <1>1, <1>2, <1>3

LEMMA LongNameIs ==
    ASSUME NEW entries, NEW i \in Nat \ {0}, NEW j, IsRun(entries, i, {"lfn"}, j)
    PROVE  LongName(entries, i) = RunName(entries, i, j)
<1> DEFINE first == CHOOSE m \in 1 .. i :
                       /\ \A k \in m .. i - 1 : entries[k].kind = "lfn"
                       /\ m = 1 \/ entries[m - 1].kind # "lfn"
<1>1. j \in 1 .. i /\ (\A k \in j .. i - 1 : entries[k].kind = "lfn")
      /\ (j = 1 \/ entries[j - 1].kind # "lfn")
  BY DEF IsRun
<1>2. first \in 1 .. i /\ (\A k \in first .. i - 1 : entries[k].kind = "lfn")
      /\ (first = 1 \/ entries[first - 1].kind # "lfn")
  BY <1>1
<1>3. LongName(entries, i) = RunName(entries, i, first)
  BY DEF LongName, RunName
<1> HIDE DEF first
<1>4. IsRun(entries, i, {"lfn"}, first)
  BY <1>2 DEF IsRun
<1> QED BY <1>3, <1>4, RunUnique

LEMMA LongBlocksAre ==
    ASSUME NEW entries, NEW i \in Nat \ {0}, NEW j, IsRun(entries, i, {"lfn", "dead_lfn"}, j)
    PROVE  LongBlocks(entries, i) = RunName(entries, i, j)
<1> DEFINE first == CHOOSE m \in 1 .. i :
                       /\ \A k \in m .. i - 1 : entries[k].kind \in {"lfn", "dead_lfn"}
                       /\ m = 1 \/ ~ (entries[m - 1].kind \in {"lfn", "dead_lfn"})
<1>1. j \in 1 .. i /\ (\A k \in j .. i - 1 : entries[k].kind \in {"lfn", "dead_lfn"})
      /\ (j = 1 \/ ~ (entries[j - 1].kind \in {"lfn", "dead_lfn"}))
  BY DEF IsRun
<1>2. first \in 1 .. i /\ (\A k \in first .. i - 1 : entries[k].kind \in {"lfn", "dead_lfn"})
      /\ (first = 1 \/ ~ (entries[first - 1].kind \in {"lfn", "dead_lfn"}))
  BY <1>1
<1>3. LongBlocks(entries, i) = RunName(entries, i, first)
  BY DEF LongBlocks, RunName
<1> HIDE DEF first
<1>4. IsRun(entries, i, {"lfn", "dead_lfn"}, first)
  BY <1>2 DEF IsRun
<1> QED BY <1>3, <1>4, RunUnique

(* e is what lies behind the first m entries of t.                         *)
Shifted(e, t, m, i) == \A k \in 1 .. i : e[k] = t[m + k]

(* A name has the same blocks wherever it lies.                            *)
LEMMA ShiftedName ==
    ASSUME NEW e, NEW t, NEW m \in Nat, NEW i \in Nat \ {0}, Shifted(e, t, m, i),
           m = 0 \/ t[m].kind # "lfn"
    PROVE  LongName(t, m + i) = LongName(e, i)
<1>1. PICK j : IsRun(e, i, {"lfn"}, j)
  BY RunExists
<1>2. j \in 1 .. i /\ m + j \in 1 .. m + i /\ m + i \in Nat \ {0}
  BY <1>1 DEF IsRun
<1>3. IsRun(t, m + i, {"lfn"}, m + j)
  <2>1. ASSUME NEW k \in m + j .. m + i - 1 PROVE t[k].kind = "lfn"
    <3>1. k - m \in j .. i - 1 /\ k - m \in 1 .. i /\ m + (k - m) = k
      BY <1>2
    <3>2. e[k - m] = t[k]
      BY <3>1 DEF Shifted
    <3> QED BY <1>1, <3>1, <3>2 DEF IsRun
  <2>2. m + j = 1 \/ t[(m + j) - 1].kind # "lfn"
    <3>1. CASE j = 1
      BY <3>1, <1>2
    <3>2. CASE j # 1
      <4>1. j - 1 \in 1 .. i /\ m + (j - 1) = (m + j) - 1
        BY <1>2, <3>2
      <4>2. e[j - 1] = t[(m + j) - 1]
        BY <4>1 DEF Shifted
      <4>3. e[j - 1].kind # "lfn"
        BY <1>1, <3>2 DEF IsRun
      <4> QED BY <4>2, <4>3
    <3> QED BY <3>1, <3>2
  <2> QED BY <1>2, <2>1, <2>2 DEF IsRun
<1>4. RunName(t, m + i, m + j) = RunName(e, i, j)
  <2>1. (m + i) - (m + j) = i - j
    BY <1>2
  <2>2. \A k \in 1 .. i - j : t[(m + j) + k - 1].name = e[j + k - 1].name
    <3> SUFFICES ASSUME NEW k \in 1 .. i - j
                 PROVE  t[(m + j) + k - 1].name = e[j + k - 1].name
      OBVIOUS
    <3>1. j + k - 1 \in 1 .. i /\ m + (j + k - 1) = (m + j) + k - 1
      BY <1>2
    <3> QED BY <3>1 DEF Shifted
  <2>3. [k \in 1 .. (m + i) - (m + j) |-> t[(m + j) + k - 1].name]
          = [k \in 1 .. i - j |-> e[j + k - 1].name]
    BY <2>1, <2>2
  <2> QED BY <2>3 DEF RunName
<1>5. LongName(e, i) = RunName(e, i, j)
  BY <1>1, LongNameIs
<1>6. LongName(t, m + i) = RunName(t, m + i, m + j)
  BY <1>2, <1>3, LongNameIs
<1> QED BY <1>4, <1>5, <1>6

DeadApart(e, i) ==
    \A k \in 1 .. i - 1 : e[k].kind = "dead_lfn" => e[k + 1].kind \in {"dead_lfn", "deleted"}

(* Where deleted names touch no other, the code reads the name there is.   *)
LEMMA IntactName ==
    ASSUME NEW e, NEW i \in Nat \ {0}, DeadApart(e, i), e[i].kind \in {"file", "dir"}
    PROVE  LongBlocks(e, i) = LongName(e, i)
<1>1. PICK j : IsRun(e, i, {"lfn", "dead_lfn"}, j)
  BY RunExists
<1>2. j \in 1 .. i
  BY <1>1 DEF IsRun
<1> DEFINE Bad == {n \in Nat : \E k \in j .. i - 1 : n = i - k /\ e[k].kind # "lfn"}
<1>3. Bad = {}
  <2> SUFFICES ASSUME Bad # {} PROVE FALSE
    OBVIOUS
  <2>1. PICK n \in Bad : \A m \in Bad : n <= m
    BY LeastNumber
  <2>2. PICK k \in j .. i - 1 : n = i - k /\ e[k].kind # "lfn"
    BY <2>1
  <2>3. e[k].kind = "dead_lfn"
    BY <1>1, <2>2 DEF IsRun
  <2>4. e[k + 1].kind \in {"dead_lfn", "deleted"}
    <3>1. k \in 1 .. i - 1
      BY <1>2, <2>2
    <3> QED BY <2>3, <3>1 DEF DeadApart
  <2>5. CASE k + 1 = i
    BY <2>4, <2>5
  <2>6. CASE k + 1 # i
    <3>1. k + 1 \in j .. i - 1 /\ i - (k + 1) \in Nat /\ i - (k + 1) < n
      BY <1>2, <2>2, <2>6
    <3>2. e[k + 1].kind # "lfn"
      BY <2>4
    <3>3. i - (k + 1) \in Bad
      BY <3>1, <3>2
    <3> QED BY <2>1, <3>1, <3>3
  <2> QED BY <2>5, <2>6
<1>4. ASSUME NEW k \in j .. i - 1 PROVE e[k].kind = "lfn"
  <2> SUFFICES ASSUME e[k].kind # "lfn" PROVE FALSE
    OBVIOUS
  <2>1. i - k \in Nat
    BY <1>2
  <2>2. i - k \in Bad
    BY <2>1
  <2> HIDE DEF Bad
  <2> QED BY <1>3, <2>2
<1>5. IsRun(e, i, {"lfn"}, j)
  BY <1>1, <1>2, <1>4 DEF IsRun
<1> QED BY <1>1, <1>5, LongNameIs, LongBlocksAre

-----------------------------------------------------------------------------
(* What a directory contains.                                              *)

LEMMA InTable ==
    ASSUME NEW n \in Nat, NEW k \in Nat, NEW i \in 1 .. n, NEW j \in 1 .. k
    PROVE  /\ ((i - 1) * k) + j \in 1 .. n * k
           /\ (i - 1) * k \in Nat /\ n * k \in Nat
<1> DEFINE a == (i - 1) * k
           b == (n - i) * k
<1>1. i - 1 \in Nat /\ n - i \in Nat
  OBVIOUS
<1>2. a \in Nat /\ b \in Nat
  BY <1>1
<1>3. n * k = (a + k) + b
  OBVIOUS
<1>4. n * k \in Nat
  OBVIOUS
<1> HIDE DEF a, b
<1>5. a + j \in 1 .. n * k
  BY <1>2, <1>3, <1>4
<1> QED BY <1>2, <1>4, <1>5 DEF a

(* A directory is the clusters of its chain one after the other.           *)
InClusters(d, entries, chain, k) ==
    /\ entries = [b \in 1 .. Len(chain) * k |-> entries[b]]
    /\ \A i \in 1 .. Len(chain) : \A j \in 1 .. k :
          entries[((i - 1) * k) + j] = d.dirs[chain[i]][j]

LEMMA DirectoryIs ==
    ASSUME NEW d \in Disks, NEW c \in DirStarts(d) \ {0}
    PROVE  InClusters(d, Directory(d, c), Chain(d, c), d.spc * FDBS)
<1> DEFINE K == d.spc * FDBS
           chain == Chain(d, c)
           n == Len(chain)
           S == DOMAIN d.dirs
<1>1. K \in Nat \ {0}
  <2>1. d.spc \in Nat \ {0} /\ FDBS \in Nat \ {0}
    BY DiskSizes, FormatAssumption
  <2> QED BY <2>1
<1>2. chain \in Seq(S) /\ chain # <<>>
  BY DiskAssumption DEF IsDisk, IsChain
<1>3. \A x \in S : d.dirs[x] = [j \in 1 .. K |-> d.dirs[x][j]]
  <2> SUFFICES ASSUME NEW x \in S PROVE d.dirs[x] = [j \in 1 .. K |-> d.dirs[x][j]]
    OBVIOUS
  <2> DEFINE t == d.dirs[x]
             T == ToSet(t)
  <2>1. t \in Seq(T) /\ Len(t) = K
    BY DiskAssumption DEF IsDisk, IsTable
  <2> HIDE DEF t, T, K
  <2>2. t = [j \in 1 .. K |-> t[j]]
    BY <2>1
  <2> QED BY <2>2 DEF t
<1>4. ~ (c < 2)
  <2>1. \A e \in Entries(d) : e.start \in Nat \ {1}
    BY DiskAssumption DEF IsDisk
  <2> QED BY <2>1 DEF DirStarts
<1>5. Directory(d, c) = FlattenSeq([i \in DOMAIN chain |-> d.dirs[chain[i]]])
  BY <1>4 DEF Directory
<1> HIDE DEF K, S, chain
<1>6. n \in Nat \ {0} /\ DOMAIN chain = 1 .. n /\ \A i \in 1 .. n : chain[i] \in S
  BY <1>2
<1> HIDE DEF n
<1> DEFINE g == [b \in 1 .. n * K |-> d.dirs[chain[((b - 1) \div K) + 1]][((b - 1) % K) + 1]]
           parts == [i \in 1 .. n |-> d.dirs[chain[i]]]
<1>7. ASSUME NEW i \in 1 .. n, NEW j \in 1 .. K
      PROVE  g[((i - 1) * K) + j] = d.dirs[chain[i]][j]
  <2> DEFINE b == ((i - 1) * K) + j
  <2>1. b \in 1 .. n * K
    BY <1>1, <1>6, InTable
  <2>2. b - 1 \in Int /\ i - 1 \in Int /\ j - 1 \in 0 .. K - 1 /\ b - 1 = (i - 1) * K + (j - 1)
    <3> DEFINE a == (i - 1) * K
    <3>1. a \in Int
      BY <1>1
    <3> HIDE DEF a
    <3> QED BY <1>1, <3>1 DEF a
  <2> HIDE DEF b
  <2>3. (b - 1) \div K = i - 1 /\ (b - 1) % K = j - 1
    BY <1>1, <2>2, Division
  <2>4. (i - 1) + 1 = i /\ (j - 1) + 1 = j
    OBVIOUS
  <2>5. g[b] = d.dirs[chain[((b - 1) \div K) + 1]][((b - 1) % K) + 1]
    BY <2>1
  <2> HIDE DEF g
  <2> QED BY <2>3, <2>4, <2>5 DEF b
<1>8. AreParts(parts, g, n, K)
  <2>1. parts = [i \in 1 .. n |-> parts[i]]
    OBVIOUS
  <2>2. ASSUME NEW i \in 1 .. n PROVE IsPart(parts[i], g, i, K)
    <3>1. parts[i] = d.dirs[chain[i]] /\ chain[i] \in S
      BY <1>6
    <3> HIDE DEF parts, g
    <3>2. parts[i] = [j \in 1 .. K |-> parts[i][j]]
      BY <1>3, <3>1
    <3>3. \A j \in 1 .. K : parts[i][j] = g[((i - 1) * K) + j]
      BY <1>7, <3>1
    <3> QED BY <3>2, <3>3 DEF IsPart
  <2> HIDE DEF parts, g
  <2> QED BY <2>1, <2>2 DEF AreParts
<1>9. FlattenSeq(parts) = Start(g, n * K)
  <2> HIDE DEF parts, g
  <2> QED BY <1>1, <1>6, <1>8, PartsFlattened
<1>10. Start(g, n * K) = g
  BY DEF Start
<1>11. Directory(d, c) = g
  BY <1>5, <1>6, <1>9, <1>10
<1>12. g = [b \in 1 .. n * K |-> g[b]]
  OBVIOUS
<1> HIDE DEF g
<1>13. InClusters(d, g, chain, K)
  BY <1>7, <1>12 DEF InClusters, n
<1> QED BY <1>11, <1>13 DEF chain, K

(* A directory begins with its first part.                                 *)
BeginsWith(entries, part, all) ==
    /\ Len(part) \in Nat \ {0} /\ DOMAIN part = 1 .. Len(part)
    /\ Len(entries) \in Nat /\ DOMAIN entries = 1 .. Len(entries)
    /\ Len(part) <= Len(entries)
    /\ \A i \in 1 .. Len(part) : entries[i] = part[i]
    /\ \A i \in 1 .. Len(entries) : entries[i] \in all

LEMMA StartsAreClusters ==
    ASSUME NEW d \in Disks
    PROVE  /\ \A e \in Entries(d) : e.start \in Nat \ {1}
           /\ DirStarts(d) \subseteq Nat \ {1}
           /\ \A c \in DirStarts(d) \ {0} : c \in DOMAIN d.dirs /\ c >= 2
<1>1. \A e \in Entries(d) : e.start \in Nat \ {1}
  BY DiskAssumption DEF IsDisk
<1>2. DirStarts(d) \subseteq Nat \ {1}
  BY <1>1 DEF DirStarts
<1>3. \A c \in DirStarts(d) \ {0} : c \in DOMAIN d.dirs /\ c >= 2
  <2>1. \A c \in DirStarts(d) \ {0} : c \in DOMAIN d.dirs
    BY DiskAssumption DEF IsDisk
  <2> QED BY <1>2, <2>1
<1> QED BY <1>1, <1>2, <1>3

LEMMA TableDomain ==
    ASSUME NEW t, NEW n, IsTable(t, n)
    PROVE  /\ Len(t) = n /\ n \in Nat /\ DOMAIN t = 1 .. n
           /\ t = [i \in 1 .. n |-> t[i]]
<1> DEFINE T == ToSet(t)
<1>1. t \in Seq(T) /\ Len(t) = n
  BY DEF IsTable
<1> HIDE DEF T
<1> QED BY <1>1

LEMMA ClusterSize == ASSUME NEW d \in Disks PROVE d.spc * FDBS \in Nat \ {0}
<1>1. d.spc \in Nat \ {0} /\ FDBS \in Nat \ {0}
  BY DiskSizes, FormatAssumption
<1> QED BY <1>1

LEMMA DirectoryBegins ==
    ASSUME NEW d \in Disks, NEW c \in DirStarts(d) \cup {0}
    PROVE  BeginsWith(Directory(d, c), FirstPart(d, c), Entries(d))
<1>1. CASE c = 0
  <2>1. Directory(d, c) = d.root /\ FirstPart(d, c) = d.root
    BY <1>1 DEF Directory, FirstPart
  <2>2. IsTable(d.root, Len(d.root)) /\ Len(d.root) > 0
    BY DiskAssumption DEF IsDisk
  <2>3. Len(d.root) \in Nat /\ DOMAIN d.root = 1 .. Len(d.root)
    BY <2>2, TableDomain
  <2>4. \A i \in DOMAIN d.root : d.root[i] \in Entries(d)
    BY DEF Entries, ToSet
  <2> QED BY <2>1, <2>2, <2>3, <2>4 DEF BeginsWith
<1>2. CASE c \in DirStarts(d) \ {0}
  <2> DEFINE K == d.spc * FDBS
             chain == Chain(d, c)
             n == Len(chain)
             all == Directory(d, c)
             part == FirstPart(d, c)
             S == DOMAIN d.dirs
  <2>1. c \in S /\ c >= 2 /\ K \in Nat \ {0}
    BY <1>2, StartsAreClusters, ClusterSize
  <2>2. chain \in Seq(S) /\ chain # <<>> /\ chain[1] = c
    BY <1>2, DiskAssumption DEF IsDisk, IsChain
  <2>3. part = d.dirs[c]
    <3>1. c \in Nat /\ ~ (c < 2)
      BY <1>2, <2>1, StartsAreClusters
    <3> QED BY <3>1 DEF FirstPart
  <2>4. \A x \in S : Len(d.dirs[x]) = K /\ DOMAIN d.dirs[x] = 1 .. K
    <3>1. \A x \in S : IsTable(d.dirs[x], K)
      BY DiskAssumption DEF IsDisk
    <3> QED BY <3>1, TableDomain
  <2>5. \A x \in S : \A j \in 1 .. K : d.dirs[x][j] \in Entries(d)
    BY <2>4 DEF Entries, ToSet
  <2>6. InClusters(d, all, chain, K)
    BY <1>2, DirectoryIs
  <2> HIDE DEF K, chain, all, part, S
  <2>7. n \in Nat \ {0} /\ \A i \in 1 .. n : chain[i] \in S
    BY <2>2
  <2> HIDE DEF n
  <2>8. n * K \in Nat /\ K <= n * K /\ all = [b \in 1 .. n * K |-> all[b]]
    <3>1. n * K = (n - 1) * K + K /\ (n - 1) * K \in Nat
      BY <2>1, <2>7
    <3> QED BY <2>1, <2>6, <3>1 DEF InClusters, n
  <2>9. Len(all) = n * K /\ DOMAIN all = 1 .. n * K
    <3> DEFINE m == n * K
    <3>1. m \in Nat /\ all = [b \in 1 .. m |-> all[b]]
      BY <2>8
    <3> HIDE DEF m
    <3> QED BY <3>1 DEF m
  <2>10. \A i \in 1 .. n : \A j \in 1 .. K : all[((i - 1) * K) + j] = d.dirs[chain[i]][j]
    BY <2>6 DEF InClusters, n
  <2>11. \A j \in 1 .. K : all[j] = part[j]
    <3> SUFFICES ASSUME NEW j \in 1 .. K PROVE all[j] = part[j]
      OBVIOUS
    <3>1. 1 \in 1 .. n /\ ((1 - 1) * K) + j = j
      BY <2>1, <2>7
    <3> QED BY <2>2, <2>3, <2>10, <3>1
  <2>12. ASSUME NEW b \in 1 .. n * K PROVE all[b] \in Entries(d)
    <3> DEFINE q == (b - 1) \div K
               r == (b - 1) % K
    <3>1. b - 1 \in Nat
      OBVIOUS
    <3>2. q \in Nat /\ r \in 0 .. K - 1 /\ b - 1 = q * K + r
      BY <2>1, <3>1, Divided
    <3> HIDE DEF q, r
    <3>3. q < n
      <4> SUFFICES ASSUME q >= n PROVE FALSE
        BY <2>7, <3>2
      <4>1. q * K >= n * K
        BY <2>1, <2>7, <3>2
      <4> DEFINE m == n * K
                 l == q * K
      <4>2. m \in Nat /\ l \in Nat /\ l >= m /\ b - 1 = l + r /\ b \in 1 .. m
        BY <2>1, <2>7, <3>2, <4>1
      <4> HIDE DEF m, l
      <4> QED BY <3>2, <4>2
    <3>4. q + 1 \in 1 .. n /\ r + 1 \in 1 .. K /\ (((q + 1) - 1) * K) + (r + 1) = b
      <4>1. (q + 1) - 1 = q /\ q * K \in Nat
        BY <2>1, <3>2
      <4> QED BY <2>1, <2>7, <3>2, <3>3, <4>1
    <3>5. all[b] = d.dirs[chain[q + 1]][r + 1] /\ chain[q + 1] \in S
      BY <2>7, <2>10, <3>4
    <3> QED BY <2>5, <3>4, <3>5
  <2>13. Len(part) = K /\ DOMAIN part = 1 .. K
    BY <2>1, <2>3, <2>4
  <2>14. BeginsWith(all, part, Entries(d))
    BY <2>1, <2>8, <2>9, <2>11, <2>12, <2>13 DEF BeginsWith
  <2> QED BY <2>14 DEF all, part
<1> QED BY <1>1, <1>2

(* An entry answers to a component.                                        *)
IsHere(entries, comp, type, i) ==
    Visible(entries, i) /\ entries[i].kind = type /\ Names(entries, i, comp)

LEMMA SameEntry ==
    ASSUME NEW entries, NEW part, NEW all, BeginsWith(entries, part, all),
           NEW i \in 1 .. Len(part), NEW comp, NEW type
    PROVE  /\ entries[i] = part[i]
           /\ LongName(entries, i) = LongName(part, i)
           /\ Visible(entries, i) <=> Visible(part, i)
           /\ IsHere(entries, comp, type, i) <=> IsHere(part, comp, type, i)
<1>1. Len(part) \in Nat /\ \A j \in 1 .. Len(part) : entries[j] = part[j]
  BY DEF BeginsWith
<1>2. i \in Nat \ {0} /\ \A j \in 1 .. i : j \in 1 .. Len(part)
  BY <1>1
<1>3. Shifted(part, entries, 0, i)
  <2>1. \A j \in 1 .. i : 0 + j = j
    OBVIOUS
  <2> QED BY <1>1, <1>2, <2>1 DEF Shifted
<1>4. LongName(entries, 0 + i) = LongName(part, i) /\ 0 + i = i
  BY <1>2, <1>3, ShiftedName
<1>5. entries[i] = part[i]
  BY <1>1
<1>6. Visible(entries, i) <=> Visible(part, i)
  BY <1>1, <1>2, <1>5 DEF Visible
<1>7. Names(entries, i, comp) <=> Names(part, i, comp)
  BY <1>4, <1>5 DEF Names, EntryNames, FullName
<1> QED BY <1>4, <1>5, <1>6, <1>7 DEF IsHere

LEMMA LookupFinds ==
    ASSUME NEW d \in Disks, NEW c \in DirStarts(d) \cup {0}, NEW comp, NEW type,
           NEW i \in 1 .. Len(FirstPart(d, c)), IsHere(FirstPart(d, c), comp, type, i)
    PROVE  /\ Lookup(d, c, comp, type) = FirstPart(d, c)[i].start
           /\ type = "dir" => Lookup(d, c, comp, type) \in DirStarts(d)
<1> DEFINE all == Directory(d, c)
           part == FirstPart(d, c)
           found == {m \in VisibleEntries(all) : all[m].kind = type /\ Names(all, m, comp)}
           x == CHOOSE m \in found : TRUE
<1>1. BeginsWith(all, part, Entries(d)) /\ NamesUnique(all)
  BY DirectoryBegins, DiskAssumption DEF IsDisk
<1>2. Lookup(d, c, comp, type) = IF found = {} THEN NOWHERE ELSE all[x].start
  BY DEF Lookup
<1> HIDE DEF all, part
<1>3. all[i] = part[i] /\ IsHere(all, comp, type, i) /\ i \in DOMAIN all
  <2>1. i \in 1 .. Len(part) /\ IsHere(part, comp, type, i)
    BY DEF part
  <2>2. all[i] = part[i] /\ IsHere(all, comp, type, i)
    BY <1>1, <2>1, SameEntry
  <2>3. i \in DOMAIN all
    BY <1>1, <2>1 DEF BeginsWith
  <2> QED BY <2>2, <2>3
<1>4. i \in found
  BY <1>3 DEF IsHere, VisibleEntries
<1>5. x \in found
  BY <1>4
<1> HIDE DEF x
<1>6. x = i
  <2>1. x \in VisibleEntries(all) /\ i \in VisibleEntries(all)
        /\ all[x].kind = all[i].kind /\ Names(all, x, comp) /\ Names(all, i, comp)
    BY <1>4, <1>5
  <2>2. EntryNames(all, x) \cap EntryNames(all, i) # {}
    BY <2>1 DEF Names
  <2> QED BY <1>1, <2>1, <2>2 DEF NamesUnique
<1>7. Lookup(d, c, comp, type) = part[i].start
  BY <1>2, <1>3, <1>4, <1>6
<1>8. type = "dir" => part[i].start \in DirStarts(d)
  <2>1. all[i] \in Entries(d) /\ all[i].kind = type
    BY <1>1, <1>3 DEF BeginsWith, IsHere
  <2> QED BY <1>3, <2>1 DEF DirStarts
<1> QED BY <1>7, <1>8 DEF part

LEMMA LookupIsDir ==
    ASSUME NEW d \in Disks, NEW c \in DirStarts(d) \cup {0}, NEW comp
    PROVE  Lookup(d, c, comp, "dir") \in DirStarts(d) \cup {NOWHERE}
<1> DEFINE all == Directory(d, c)
           found == {m \in VisibleEntries(all) : all[m].kind = "dir" /\ Names(all, m, comp)}
           x == CHOOSE m \in found : TRUE
<1>1. BeginsWith(all, FirstPart(d, c), Entries(d))
  BY DirectoryBegins
<1>2. Lookup(d, c, comp, "dir") = IF found = {} THEN NOWHERE ELSE all[x].start
  BY DEF Lookup
<1> HIDE DEF all
<1>3. ASSUME found # {} PROVE all[x].start \in DirStarts(d)
  <2>1. x \in found
    BY <1>3
  <2> HIDE DEF x
  <2>2. x \in DOMAIN all /\ all[x].kind = "dir"
    BY <2>1 DEF VisibleEntries
  <2>3. all[x] \in Entries(d)
    BY <1>1, <2>2 DEF BeginsWith
  <2> QED BY <2>2, <2>3 DEF DirStarts
<1> HIDE DEF x, found
<1> QED BY <1>2, <1>3

LEMMA LookupFails ==
    ASSUME NEW d \in Disks, NEW c \in DirStarts(d) \cup {0}, NEW comp, NEW type,
           NEW u \in 1 .. Len(FirstPart(d, c)), FirstPart(d, c)[u].kind = "unused",
           \A i \in 1 .. u - 1 : ~ IsHere(FirstPart(d, c), comp, type, i)
    PROVE  Lookup(d, c, comp, type) = NOWHERE
<1> DEFINE all == Directory(d, c)
           part == FirstPart(d, c)
           found == {m \in VisibleEntries(all) : all[m].kind = type /\ Names(all, m, comp)}
<1>1. BeginsWith(all, part, Entries(d))
  BY DirectoryBegins
<1>2. found = {} => Lookup(d, c, comp, type) = NOWHERE
  BY DEF Lookup
<1>3. u \in 1 .. Len(part) /\ part[u].kind = "unused"
      /\ \A i \in 1 .. u - 1 : ~ IsHere(part, comp, type, i)
  OBVIOUS
<1> HIDE DEF all, part
<1>4. ASSUME NEW m \in found PROVE FALSE
  <2>1. m \in DOMAIN all /\ Visible(all, m) /\ IsHere(all, comp, type, m)
    BY <1>4 DEF VisibleEntries, IsHere
  <2>2. m \in 1 .. Len(all) /\ Len(all) \in Nat /\ Len(part) \in Nat
    BY <1>1, <2>1 DEF BeginsWith
  <2>3. ~ (u <= m)
    <3>1. all[u].kind = "unused"
      BY <1>1, <1>3 DEF BeginsWith
    <3> QED BY <1>3, <2>1, <2>2, <3>1 DEF Visible
  <2>4. m \in 1 .. u - 1 /\ m \in 1 .. Len(part)
    BY <1>3, <2>2, <2>3
  <2>5. IsHere(part, comp, type, m)
    BY <1>1, <2>1, <2>4, SameEntry
  <2> QED BY <1>3, <2>4, <2>5
<1> QED BY <1>2, <1>4

-----------------------------------------------------------------------------
(* What a search meets on its way.                                         *)

Passed(comp, c) == comp = DOT \/ (comp = DOTDOT /\ c < 2)

LEMMA WalkStays ==
    ASSUME NEW d \in Disks, NEW path, NEW c \in DirStarts(d) \cup {0}, NEW f,
           IsWalk(d, path, c, f), NEW n \in Nat, n = Len(path.comps), NEW k \in 0 .. n, k < n
    PROVE  f[k] \in (DirStarts(d) \cup {0}) \cup {NOWHERE}
<1> DEFINE T == (DirStarts(d) \cup {0}) \cup {NOWHERE}
           Bad == {m \in Nat : m < n /\ f[m] \notin T}
<1>1. Bad = {}
  <2> SUFFICES ASSUME Bad # {} PROVE FALSE
    OBVIOUS
  <2>1. PICK m \in Bad : \A j \in Bad : m <= j
    BY LeastNumber
  <2>2. m \in Nat /\ m < n /\ f[m] \notin T
    BY <2>1
  <2>3. m # 0
    BY <2>2 DEF IsWalk
  <2>4. m - 1 \in Nat /\ m - 1 < n /\ m - 1 \notin Bad /\ m \in 1 .. n
    BY <2>1, <2>2, <2>3
  <2>5. f[m - 1] \in T
    BY <2>4
  <2>6. f[m] = Follow(d, f[m - 1], path.comps[m], "dir")
    BY <2>2, <2>4 DEF IsWalk, PathType
  <2>7. CASE f[m] = f[m - 1]
    BY <2>2, <2>5, <2>7
  <2>8. CASE f[m - 1] # NOWHERE /\ f[m] = Lookup(d, f[m - 1], path.comps[m], "dir")
    BY <2>2, <2>5, <2>8, LookupIsDir
  <2> HIDE DEF T, Bad
  <2> QED BY <2>6, <2>7, <2>8 DEF Follow
<1>2. k \notin Bad
  BY <1>1
<1> QED BY <1>2

(* The names.  The first dot of a text is where there is one and none in   *)
(* front of it.                                                            *)
LEMMA FirstDotIs ==
    ASSUME NEW text, IsText(text), NEW i \in 1 .. Len(text) + 1,
           i <= Len(text) => text[i] = ".", \A j \in 1 .. i - 1 : text[j] # "."
    PROVE  FirstDot(text) = i
<1> DEFINE n == Len(text)
           Dot(x) == (x <= n => text[x] = ".") /\ \A j \in 1 .. x - 1 : text[j] # "."
           x == CHOOSE y \in 1 .. n + 1 : Dot(y)
<1>1. n \in Nat
  BY DEF IsText
<1>2. Dot(i) /\ i \in 1 .. n + 1
  OBVIOUS
<1>3. FirstDot(text) = x
  BY DEF FirstDot
<1> HIDE DEF n
<1>4. x \in 1 .. n + 1 /\ Dot(x)
  <2> HIDE DEF Dot
  <2> QED BY <1>2
<1> HIDE DEF x
<1>5. ~ (x < i) /\ ~ (i < x)
  <2>1. x < i => x \in 1 .. i - 1 /\ x <= n
    BY <1>1, <1>2, <1>4
  <2>2. i < x => i \in 1 .. x - 1 /\ i <= n
    BY <1>1, <1>2, <1>4
  <2> QED BY <1>2, <1>4, <2>1, <2>2
<1> QED BY <1>1, <1>2, <1>3, <1>4, <1>5

(* With one dot at most, the lengths are those of the two parts.           *)
LEMMA PartLengths ==
    ASSUME NEW text, IsText(text), text \notin {DOT, DOTDOT},
           NEW i \in 1 .. Len(text) + 1, i <= Len(text) => text[i] = ".",
           \A j \in (1 .. Len(text)) \ {i} : text[j] # "."
    PROVE  /\ FirstDot(text) = i
           /\ fat12_get_filename_len(text).name = i - 1
           /\ fat12_get_filename_len(text).ext = IF i > Len(text) THEN 0 ELSE Len(text) - i
<1> DEFINE n == Len(text)
           behind == {j \in i .. n : text[j] # "."}
<1>1. n \in Nat /\ i \in 1 .. n + 1
  BY DEF IsText
<1>2. \A j \in 1 .. i - 1 : j \in (1 .. n) \ {i}
  BY <1>1
<1>3. FirstDot(text) = i
  BY <1>2, FirstDotIs
<1>4. /\ fat12_get_filename_len(text).name = i - 1
      /\ fat12_get_filename_len(text).ext = Cardinality(behind)
  BY <1>3 DEF fat12_get_filename_len
<1>5. behind = i + 1 .. n
  <2>1. ASSUME NEW j \in i .. n PROVE text[j] # "." <=> j \in i + 1 .. n
    <3>1. j = i => text[j] = "." /\ j \notin i + 1 .. n
      BY <1>1
    <3>2. j # i => j \in (1 .. n) \ {i} /\ j \in i + 1 .. n
      BY <1>1
    <3>3. j # i => text[j] # "."
      BY <3>2
    <3> QED BY <3>1, <3>2, <3>3
  <2>2. \A j \in i + 1 .. n : j \in i .. n
    BY <1>1
  <2> QED BY <2>1, <2>2
<1> HIDE DEF n
<1>6. Cardinality(i + 1 .. n) = IF i + 1 > n THEN 0 ELSE n - (i + 1) + 1
  BY <1>1, FS_Interval
<1>7. Cardinality(i + 1 .. n) = IF i > n THEN 0 ELSE n - i
  BY <1>1, <1>6
<1> HIDE DEF behind
<1> QED BY <1>3, <1>4, <1>5, <1>7 DEF n

(* What is compared of an ordinary name is all of it.                      *)
LEMMA OrdinaryLengths ==
    ASSUME NEW name, IsText(name), name # <<>>, Ordinary(name) \/ name = DOTDOT
    PROVE  LET len == fat12_get_filename_len(name) IN
           /\ len.name > 0
           /\ SubSeq(name, 1, len.name) = Stem(name)
           /\ ExtensionGiven(name, len) = Extension(name)
           /\ SubSeq(name, 1, LongLength(name)) = name
<1> DEFINE len == fat12_get_filename_len(name)
           n == Len(name)
           S == ToSet(name)
<1>1. name \in Seq(S) /\ n \in Nat \ {0} /\ DOMAIN name = 1 .. n
  BY DEF IsText
<1>2. SubSeq(name, 1, n) = name
  BY <1>1, SubSeqFull
<1>3. CASE name = DOTDOT
  <2>1. len.name = 2 /\ len.ext = 0 /\ n = 2
    BY <1>3 DEF fat12_get_filename_len, DOTDOT
  <2>2. LongLength(name) = 2
    BY <2>1 DEF LongLength
  <2>3. Stem(name) = name /\ Extension(name) = <<>>
    BY <1>3 DEF Stem, Extension
  <2>4. ExtensionGiven(name, len) = <<>>
    <3>1. ExtensionGiven(name, len) = SubSeq(name, 4, 3)
      <4> HIDE DEF len
      <4> QED BY <2>1 DEF ExtensionGiven
    <3> QED BY <1>1, <3>1, SubSeqEmpty
  <2> HIDE DEF n, len
  <2> QED BY <1>2, <2>1, <2>2, <2>3, <2>4 DEF len
<1>4. CASE Ordinary(name) /\ name # DOTDOT
  <2>1. name # DOT
    BY <1>4 DEF DOT, Ordinary
  <2> DEFINE Dot(i) == /\ i \in 1 .. n + 1 /\ (i <= n => name[i] = "." /\ i \notin {1, n})
                       /\ \A j \in (1 .. n) \ {i} : name[j] # "."
  <2>2. \E i : Dot(i) /\ i # 1
    <3>1. CASE \E i \in 1 .. n : name[i] = "."
      <4>1. PICK i \in 1 .. n : name[i] = "."
        BY <3>1
      <4>2. i \notin {1, n} /\ \A j \in (1 .. n) \ {i} : name[j] # "."
        BY <1>1, <1>4, <4>1 DEF Ordinary
      <4> HIDE DEF n
      <4> QED BY <1>1, <4>1, <4>2
    <3>2. CASE \A i \in 1 .. n : name[i] # "."
      <4> HIDE DEF n
      <4>1. n + 1 \in 1 .. n + 1 /\ ~ (n + 1 <= n) /\ n + 1 # 1
        BY <1>1
      <4> QED BY <3>2, <4>1
    <3> QED BY <3>1, <3>2
  <2>3. PICK i : Dot(i) /\ i # 1
    BY <2>2
  <2>4. /\ FirstDot(name) = i /\ len.name = i - 1
        /\ len.ext = IF i > n THEN 0 ELSE n - i
    BY <1>4, <2>1, <2>3, PartLengths
  <2>5. /\ Stem(name) = SubSeq(name, 1, i - 1)
        /\ Extension(name) = SubSeq(name, i + 1, n)
    BY <1>4, <2>1, <2>4 DEF Stem, Extension
  <2>6. i \in Nat /\ i > 1 /\ (i = n + 1 \/ i < n)
    <3>1. i \in 1 .. n + 1 /\ i # 1 /\ (i <= n => i # n)
      BY <2>3
    <3> HIDE DEF n, Dot
    <3> QED BY <1>1, <3>1
  <2> HIDE DEF n, len, Dot
  <2>7. LongLength(name) = n
    <3>1. LongLength(name) = IF len.ext = 0 THEN len.name ELSE len.name + 1 + len.ext
      BY DEF LongLength, len
    <3>2. CASE i = n + 1
      BY <1>1, <2>4, <3>1, <3>2
    <3>3. CASE i < n
      <4>1. len.ext = n - i /\ len.name = i - 1 /\ n - i # 0
        BY <1>1, <2>4, <2>6, <3>3
      <4> QED BY <1>1, <2>6, <3>1, <4>1
    <3> QED BY <2>6, <3>2, <3>3
  <2>8. ExtensionGiven(name, len) = SubSeq(name, i + 1, n)
    <3>1. ExtensionGiven(name, len) = SubSeq(name, i + 1, i + len.ext)
      <4>1. (i - 1) + 2 = i + 1 /\ (i - 1) + 1 + len.ext = i + len.ext
        <5>1. len.ext \in Int
          BY <1>1, <2>4, <2>6
        <5> QED BY <2>6, <5>1
      <4> QED BY <2>4, <4>1 DEF ExtensionGiven
    <3>2. CASE i < n
      <4>1. i + len.ext = n
        BY <1>1, <2>4, <2>6, <3>2
      <4> QED BY <3>1, <4>1
    <3>3. CASE i = n + 1
      <4>1. i + len.ext = i /\ i + 1 > i /\ i + 1 > n
        BY <1>1, <2>4, <2>6, <3>3
      <4>2. SubSeq(name, i + 1, i) = <<>> /\ SubSeq(name, i + 1, n) = <<>>
        BY <1>1, <2>6, <4>1, SubSeqEmpty
      <4> QED BY <3>1, <4>1, <4>2
    <3> QED BY <2>6, <3>2, <3>3
  <2>9. len.name > 0
    BY <2>4, <2>6
  <2> QED BY <1>2, <2>4, <2>5, <2>7, <2>8, <2>9 DEF len
<1> QED BY <1>3, <1>4

(* Every sequence is a text.                                               *)
LEMMA SeqIsText ==
    ASSUME NEW S, NEW text \in Seq(S) PROVE IsText(text)
<1> DEFINE n == Len(text)
           T == ToSet(text)
<1>1. n \in Nat /\ DOMAIN text = 1 .. n /\ text \in [1 .. n -> S]
  BY LenProperties
<1> HIDE DEF n
<1>2. \A i \in 1 .. n : text[i] \in T
  BY <1>1 DEF ToSet
<1> HIDE DEF T
<1>3. text \in [1 .. n -> T]
  BY <1>1, <1>2
<1>4. text \in Seq(T)
  BY <1>1, <1>3, SeqDef
<1> QED BY <1>4 DEF IsText, T

(* The short name of an entry is never taken for a long one.               *)
LEMMA ShortIsNotLong ==
    ASSUME NEW e, NameFits(e) PROVE ~ IsLong(ShortName(e))
<1> DEFINE text == ShortName(e)
           len == fat12_get_filename_len(text)
           a == Len(e.name)
           b == Len(e.ext)
<1>1. /\ IsText(e.name) /\ IsText(e.ext) /\ a \in 1 .. NAME_MAX /\ b \in Nat /\ b <= EXT_MAX
      /\ NAME_MAX \in Nat /\ EXT_MAX \in Nat
  BY FormatAssumption DEF NameFits, IsText
<1>2. SUFFICES len.name <= NAME_MAX /\ len.ext <= EXT_MAX /\ len.name \in Nat /\ len.ext \in Nat
  BY <1>1 DEF IsLong
<1>3. CASE text \in {DOT, DOTDOT}
  <2>1. len.name = Len(text) /\ len.ext = 0
    BY <1>3 DEF fat12_get_filename_len
  <2>2. e.ext = <<>>
    <3> SUFFICES ASSUME e.ext # <<>> PROVE FALSE
      OBVIOUS
    <3>1. text = e.name \o <<".">> \o e.ext
      BY DEF ShortName
    <3>2. b \in Nat \ {0}
      BY <1>1 DEF IsText
    <3>3. Len(text) = a + 1 + b
      BY <1>1, <3>1 DEF IsText
    <3>4. Len(text) \in {1, 2}
      BY <1>3 DEF DOT, DOTDOT
    <3> HIDE DEF text, a, b
    <3> QED BY <1>1, <3>2, <3>3, <3>4
  <2>3. Len(text) = a
    BY <2>2 DEF ShortName
  <2> HIDE DEF len, text, a
  <2> QED BY <1>1, <2>1, <2>3
<1>4. CASE text \notin {DOT, DOTDOT}
  <2>1. "." \notin ToSet(e.name) /\ "." \notin ToSet(e.ext)
    BY <1>4 DEF NameFits
  <2>2. \A j \in 1 .. a : e.name[j] # "."
    BY <1>1, <2>1 DEF IsText, ToSet
  <2>3. \A j \in 1 .. b : e.ext[j] # "."
    BY <1>1, <2>1 DEF IsText, ToSet
  <2>4. CASE e.ext = <<>>
    <3>1. text = e.name /\ IsText(text)
      BY <1>1, <2>4 DEF ShortName
    <3> HIDE DEF text
    <3>2. Len(text) = a
      BY <3>1
    <3> HIDE DEF a, b
    <3>3. a + 1 \in 1 .. a + 1 /\ ~ (a + 1 <= a) /\ (a + 1) - 1 = a /\ a + 1 > a
      BY <1>1
    <3>4. \A j \in (1 .. a) \ {a + 1} : text[j] # "."
      BY <2>2, <3>1
    <3>5. len.name = a /\ len.ext = 0
      BY <1>4, <3>1, <3>2, <3>3, <3>4, PartLengths
    <3> QED BY <1>1, <3>5
  <2>5. CASE e.ext # <<>>
    <3>1. text = e.name \o <<".">> \o e.ext
      BY <2>5 DEF ShortName
    <3> DEFINE T == (ToSet(e.name) \cup {"."}) \cup ToSet(e.ext)
    <3>2. e.name \in Seq(T) /\ <<".">> \in Seq(T) /\ e.ext \in Seq(T)
      BY <1>1 DEF IsText
    <3>3. text \in Seq(T) /\ Len(text) = a + 1 + b
      BY <3>1, <3>2
    <3>4. IsText(text)
      BY <3>3, SeqIsText
    <3>5. text[a + 1] = "."
      BY <3>1, <3>2
    <3>6. ASSUME NEW j \in (1 .. a + 1 + b) \ {a + 1} PROVE text[j] # "."
      <4>1. CASE j \in 1 .. a
        <5>1. text[j] = e.name[j]
          BY <3>1, <3>2, <4>1
        <5> QED BY <2>2, <4>1, <5>1
      <4>2. CASE j \in a + 2 .. a + 1 + b
        <5>1. text[j] = e.ext[j - (a + 1)]
          BY <1>1, <3>1, <3>2, <4>2
        <5>2. j - (a + 1) \in 1 .. b
          <6> HIDE DEF a, b
          <6> QED BY <1>1, <4>2
        <5> QED BY <2>3, <5>1, <5>2
      <4>3. j \in 1 .. a \/ j \in a + 2 .. a + 1 + b
        <5> HIDE DEF a, b
        <5> QED BY <1>1
      <4> QED BY <4>1, <4>2, <4>3
    <3> HIDE DEF text, a, b, T
    <3>7. a + 1 \in 1 .. Len(text) + 1 /\ ~ (a + 1 > Len(text)) /\ (a + 1) - 1 = a
          /\ Len(text) - (a + 1) = b
      BY <1>1, <3>3
    <3>8. len.name = a /\ len.ext = b
      BY <1>4, <3>3, <3>4, <3>5, <3>6, <3>7, PartLengths
    <3> QED BY <1>1, <3>8
  <2> QED BY <2>4, <2>5
<1> QED BY <1>3, <1>4

(* A scan of the first part of a directory finds an entry or the end, and  *)
(* the entry that matches is the one.                                      *)
Telling(part, comp, type) ==
    /\ \E i \in 1 .. Len(part) : IsHere(part, comp, type, i) \/ part[i].kind = "unused"
    /\ \A i \in 1 .. Len(part) :
          Visible(part, i) =>
             ((part[i].kind = type /\ fat12_cmp_filename(part, i, comp))
              <=> IsHere(part, comp, type, i))

LEMMA AtComponent ==
    ASSUME NEW d \in Disks, NEW path, NEW c, Searchable(d, path, c), NEW k \in DOMAIN path.comps,
           NEW here, here = Walk(d, path, c)[k - 1], here \in DirStarts(d) \cup {0},
           ~ Passed(path.comps[k], here), IsText(path.comps[k]), path.comps[k] # <<>>
    PROVE  Telling(FirstPart(d, here), path.comps[k], PathType(path, k))
<1> DEFINE name == path.comps[k]
           type == PathType(path, k)
           part == FirstPart(d, here)
           all == Directory(d, here)
           fits == {i \in VisibleEntries(part) : part[i].kind = type}
           found == {i \in fits : Names(part, i, name)}
<1>1. BeginsWith(all, part, Entries(d))
  BY DirectoryBegins
<1>2. here # NOWHERE
  BY StartsAreClusters DEF NOWHERE
<1>3. /\ found # {} \/ UNUSED \in ToSet(part)
      /\ name = DOTDOT \/ Ordinary(name)
      /\ IF IsLong(name) THEN NamesIntact(d, here)
         ELSE {i \in fits : Begins(part[i], name)} = found
  BY <1>2 DEF Searchable, Station, Passed
<1> DEFINE len == fat12_get_filename_len(name)
<1>9. /\ len.name > 0
      /\ SubSeq(name, 1, len.name) = Stem(name) /\ ExtensionGiven(name, len) = Extension(name)
      /\ SubSeq(name, 1, LongLength(name)) = name
  BY <1>3, OrdinaryLengths
<1> HIDE DEF len
<1> HIDE DEF name, type, part, all
<1>4. Len(part) \in Nat /\ DOMAIN part = 1 .. Len(part) /\ Len(part) <= Len(all)
      /\ DOMAIN all = 1 .. Len(all) /\ Len(all) \in Nat
  BY <1>1 DEF BeginsWith
<1>5. \E i \in 1 .. Len(part) : IsHere(part, name, type, i) \/ part[i].kind = "unused"
  <2>1. CASE found # {}
    <3>1. PICK i : i \in found
      BY <2>1
    <3> QED BY <1>4, <3>1 DEF VisibleEntries, IsHere
  <2>2. CASE UNUSED \in ToSet(part)
    <3>1. UNUSED.kind = "unused"
      BY DEF UNUSED
    <3> QED BY <1>4, <2>2, <3>1 DEF ToSet
  <2> QED BY <1>3, <2>1, <2>2
<1>6. ASSUME NEW i \in 1 .. Len(part), Visible(part, i), part[i].kind = type
      PROVE  fat12_cmp_filename(part, i, name) <=> Names(part, i, name)
  <2>1. CASE IsLong(name)
    <3>1. NamesIntact(d, here)
      BY <1>3, <2>1
    <3>2. DeadApart(part, i)
      <4> SUFFICES ASSUME NEW j \in 1 .. i - 1, part[j].kind = "dead_lfn"
                   PROVE  part[j + 1].kind \in {"dead_lfn", "deleted"}
        BY DEF DeadApart
      <4> DEFINE l == Len(part)
                 m == Len(all)
      <4>1. l \in Nat /\ m \in Nat /\ l <= m /\ DOMAIN all = 1 .. m /\ i \in 1 .. l
        BY <1>4
      <4> HIDE DEF l, m
      <4>2. j \in 1 .. l /\ j + 1 \in 1 .. l /\ j \in 1 .. m /\ j # m
        BY <4>1
      <4>3. j \in 1 .. Len(part) /\ j + 1 \in 1 .. Len(part) /\ j \in DOMAIN all \ {Len(all)}
        BY <4>1, <4>2 DEF l, m
      <4>4. all[j] = part[j] /\ all[j + 1] = part[j + 1]
        BY <1>1, <4>3 DEF BeginsWith
      <4> QED BY <3>1, <4>3, <4>4 DEF NamesIntact, all
    <3>3. part[i].kind \in {"file", "dir"} /\ i \in Nat \ {0}
      BY <1>4, <1>6 DEF Visible
    <3>4. LongBlocks(part, i) = LongName(part, i)
      BY <3>2, <3>3, IntactName
    <3>5. name # ShortName(part[i])
      <4>1. part[i] \in Entries(d)
        BY <1>1, <1>4 DEF BeginsWith
      <4>2. NameFits(part[i])
        BY <3>3, <4>1, DiskAssumption DEF IsDisk
      <4> QED BY <2>1, <4>2, ShortIsNotLong
    <3>6. fat12_cmp_filename(part, i, name)
            <=> LongName(part, i) # <<>> /\ FlattenSeq(LongName(part, i)) = name
      BY <1>9, <2>1, <3>4 DEF fat12_cmp_filename, len
    <3>7. Names(part, i, name)
            <=> LongName(part, i) # <<>> /\ FlattenSeq(LongName(part, i)) = name
      BY <3>5 DEF Names, EntryNames, FullName
    <3> QED BY <3>6, <3>7
  <2>2. CASE ~ IsLong(name)
    <3>1. i \in fits
      BY <1>4, <1>6 DEF VisibleEntries
    <3>2. Begins(part[i], name) <=> i \in found
      BY <1>3, <2>2, <3>1
    <3>3. i \in found <=> Names(part, i, name)
      BY <3>1
    <3>4. fat12_cmp_filename(part, i, name) <=> Begins(part[i], name)
      BY <1>9, <2>2 DEF fat12_cmp_filename, Begins, len
    <3> QED BY <3>2, <3>3, <3>4
  <2> QED BY <2>1, <2>2
<1>7. \A i \in 1 .. Len(part) :
         Visible(part, i) => ((part[i].kind = type /\ fat12_cmp_filename(part, i, name))
                              <=> IsHere(part, name, type, i))
  BY <1>6 DEF IsHere
<1>8. Telling(part, name, type)
  BY <1>5, <1>7 DEF Telling
<1> QED BY <1>8 DEF name, type, part

-----------------------------------------------------------------------------
(* A cluster of a directory is read from where it lies.                    *)
LEMMA ClusterSector ==
    ASSUME NEW d \in Disks, NEW c \in DOMAIN d.dirs, NEW i \in 1 .. d.spc
    PROVE  IsPart(Sector(d, DataStart(d) + (c - 2) * d.spc + i - 1), d.dirs[c], i, FDBS)
<1> DEFINE n == d.spc
           a == (c - 2) * n
           s == DataStart(d) + a + i - 1
           D == DataStart(d)
<1>1. /\ RootStart(d) = d.resv + d.fats * d.spf
      /\ RootStart(d) \in Nat /\ RootSectors(d) \in Nat /\ d.resv \in Nat
      /\ D = RootStart(d) + RootSectors(d) /\ n \in Nat \ {0}
  BY DiskSizes
<1>2. c \in Nat /\ c >= 2
  <2>1. DOMAIN d.dirs \subseteq DOMAIN d.fat \ {0, 1} /\ DOMAIN d.fat \subseteq 0 .. FAT12_END - 1
    BY DiskAssumption DEF IsDisk
  <2>2. FAT12_END \in Int
    BY FormatAssumption DEF FAT12_END, BYTE
  <2> QED BY <2>1, <2>2
<1>3. D \in Nat
  BY <1>1
<1> HIDE DEF D
<1>4. a \in Nat
  <2>1. c - 2 \in Nat
    BY <1>2
  <2> QED BY <1>1, <2>1
<1>5. a + i - 1 = (c - 2) * n + (i - 1) /\ a + i - 1 \in Nat
  BY <1>1, <1>4
<1>6. s - D = a + i - 1
  <2> HIDE DEF a
  <2> QED BY <1>1, <1>3, <1>4 DEF D
<1>7. (s - D) \div n = c - 2 /\ (s - D) % n = i - 1
  <2>1. c - 2 \in Int /\ i - 1 \in 0 .. n - 1 /\ a + i - 1 \in Int
    BY <1>1, <1>2, <1>5
  <2> HIDE DEF n, a
  <2> DEFINE x == s - D
             q == c - 2
             r == i - 1
  <2>2. x = q * n + r /\ x \in Int
    BY <1>5, <1>6, <2>1
  <2>3. n \in Nat \ {0} /\ q \in Int /\ r \in 0 .. n - 1
    BY <1>1, <2>1
  <2> HIDE DEF x, q, r
  <2>4. x \div n = q /\ x % n = r
    BY <2>2, <2>3, Division
  <2> QED BY <2>4 DEF x, q, r
<1>8. s \in Nat /\ s >= D
  <2> HIDE DEF a
  <2> QED BY <1>1, <1>3, <1>4 DEF D
<1> HIDE DEF a, s, n
<1>9. s \notin d.resv .. RootStart(d) - 1 /\ s \notin RootStart(d) .. DataStart(d) - 1
  <2>1. D = RootStart(d) + RootSectors(d) /\ DataStart(d) = D
    BY <1>1 DEF D
  <2> QED BY <1>1, <1>8, <2>1
<1>10. 2 + ((s - DataStart(d)) \div d.spc) = c /\ (s - DataStart(d)) % d.spc = i - 1
  <2>1. 2 + (c - 2) = c
    BY <1>2
  <2> QED BY <1>7, <2>1 DEF D, n
<1>11. Sector(d, s) = Part(d.dirs[c], i - 1)
  BY <1>9, <1>10 DEF Sector
<1>12. IsPart(Part(d.dirs[c], i - 1), d.dirs[c], i, FDBS)
  <2>1. i \in Nat \ {0}
    BY <1>1 DEF n
  <2> QED BY <2>1, PartIs
<1> QED BY <1>11, <1>12 DEF s, a, n

LEMMA ClusterRead ==
    ASSUME Mounted, info # NULL, disk.resv = 1, NEW c \in DOMAIN disk.dirs,
           NEW buf \in fat12_rw_cluster(c), buf # <<>>
    PROVE  buf = disk.dirs[c]
<1> DEFINE n == disk.spc
           t == disk.dirs[c]
           s == DataStart(disk) + (c - 2) * n
           parts == [i \in 1 .. n |-> Sector(disk, s + i - 1)]
<1>1. /\ disk \in Disks /\ info.root = disk.root
      /\ info.fats = disk.fats /\ info.spf = disk.spf /\ info.spc = disk.spc
  BY MountedTables
<1>2. n \in Nat \ {0} /\ FDBS \in Nat \ {0} /\ IsTable(t, n * FDBS)
  BY <1>1, DiskSizes, FormatAssumption, DiskAssumption DEF IsDisk
<1>3. FAT12_CLUSTER_TO_SECTOR(c) = s
  BY <1>1 DEF FAT12_CLUSTER_TO_SECTOR, DataStart, RootStart, RootSectors
<1>4. buf = Sectors(disk, s, n)
  BY <1>1, <1>3 DEF fat12_rw_cluster, floppy_read
<1>5. buf = FlattenSeq(parts)
  BY <1>4 DEF Sectors
<1>6. AreParts(parts, t, n, FDBS)
  <2>1. parts = [i \in 1 .. n |-> parts[i]]
    OBVIOUS
  <2>2. \A i \in 1 .. n : IsPart(Sector(disk, s + i - 1), t, i, FDBS)
    BY <1>1, ClusterSector
  <2> HIDE DEF s, t, n
  <2>3. \A i \in 1 .. n : IsPart(parts[i], t, i, FDBS)
    BY <2>2
  <2> HIDE DEF parts
  <2> QED BY <2>1, <2>3 DEF AreParts
<1> HIDE DEF parts, s, n, t
<1>7. buf = Start(t, n * FDBS)
  BY <1>2, <1>5, <1>6, PartsFlattened
<1>8. t = [b \in 1 .. n * FDBS |-> t[b]]
  BY <1>2, TableDomain
<1> QED BY <1>7, <1>8 DEF Start, t

-----------------------------------------------------------------------------
(* The search finds what the path means.  At each of its steps it is where *)
(* the walk is after the components it has passed.                         *)

Here(k)   == Walk(disk, last.path, last.dir)[k]
Comps     == last.path.comps
Reached   == Entry(search.at, search.buf).start
Sound     == ~ trouble /\ Searchable(disk, last.path, last.dir)

Leads == Reached = Here(search.next - 1) /\ Reached \in Nat \ {1}

(* The entries scanned so far are not what is looked for.                  *)
NotYet(part, comp, type, n) ==
    \A i \in 1 .. n : part[i].kind # "unused" /\ ~ IsHere(part, comp, type, i)

Scans(part, here) ==
    /\ here \in DirStarts(disk) \cup {0}
    /\ ~ Passed(Comps[search.next], here)
    /\ Table(search.at, search.buf) = part
    /\ search.max = Len(part) /\ search.idx \in 0 .. Len(part) /\ search.at[2] = search.idx + 1
    /\ NotYet(part, Comps[search.next], PathType(last.path, search.next), search.idx)

EndsAt(start) ==
    IF search.match = 1 THEN start = Here(Len(Comps)) /\ start \in Nat \ {1}
                        ELSE Here(Len(Comps)) = NOWHERE

Enters == search.fat = last.dir /\ search.next = 1 /\ search.at = <<"root", 1>>

Parses ==
    /\ search.next \in 1 .. Len(Comps) + 1
    /\ search.next > 1 => search.match = 1
    /\ Leads

ScansHere ==
    /\ search.next \in 1 .. Len(Comps) /\ search.match = 0
    /\ Scans(FirstPart(disk, Here(search.next - 1)), Here(search.next - 1))

OnTheWay ==
    /\ search.pc = "enter" => Enters
    /\ search.pc = "parse" => Parses
    /\ search.pc = "scan" => ScansHere
    /\ search.pc = "end" => EndsAt(Reached)
    /\ search.pc = "return" => EndsAt(search.start)

(* What is known of the call in progress.                                  *)
Called ==
    /\ phase \in {"search", "list", "root"} => info # NULL
    /\ ~ Idle => info # NULL /\ IsPath(last.path)
    /\ search.pc # "idle" => search.path = last.path /\ last.dir \in DirStarts(disk) \cup {0}
    /\ DOMAIN last = DOMAIN NoCall
    /\ listing.pc # "idle" => last.op = "list"
    /\ listing.pc = "enter" =>
          /\ listing.path = last.path /\ listing.dir = last.dir
          /\ Comps # <<>> => last.dir \in DirStarts(disk) \cup {0}

SearchInv == Called /\ (search.pc # "idle" /\ Sound => OnTheWay) /\ SearchResolves

(* A step of a search that goes on.                                        *)
LEMMA SearchGoesOn ==
    ASSUME HeapInv, SearchInv, search.pc # "idle", search'.pc # "idle", search'.path = search.path,
           UNCHANGED <<disk, info, last, listing, phase>>, trouble => trouble',
           Sound /\ Sound' => OnTheWay'
    PROVE  SearchInv'
<1>1. Called /\ (Sound => OnTheWay) /\ ~ Idle /\ ~ Idle'
  BY DEF SearchInv, Idle
<1>2. listing.pc # "enter"
  BY DEF HeapInv, Quiet
<1>3. Called'
  BY <1>1, <1>2 DEF Called, Comps
<1>4. SearchResolves'
  BY <1>1 DEF SearchResolves
<1>5. Sound' => Sound
  BY DEF Sound
<1> QED BY <1>3, <1>4, <1>5 DEF SearchInv

(* What is known of a search as it goes on.                                *)
LEMMA SearchFacts ==
    ASSUME HeapInv, Mounted, SearchInv, search.pc # "idle", Sound
    PROVE  /\ IsSearch(search, SearchPlaces, Nat)
           /\ OnTheWay /\ search.path = last.path
           /\ info # NULL /\ disk \in Disks /\ disk.resv = 1 /\ disk.root[1].start < 2
           /\ info.root = disk.root /\ info.spc = disk.spc
           /\ last.dir \in DirStarts(disk) \cup {0}
           /\ Len(Comps) \in Nat \ {0} /\ DOMAIN Comps = 1 .. Len(Comps)
           /\ \A k \in 1 .. Len(Comps) : IsText(Comps[k]) /\ Comps[k] # <<>>
           /\ IsWalk(disk, last.path, last.dir, Walk(disk, last.path, last.dir))
           /\ Searchable(disk, last.path, last.dir)
<1>1. /\ IsSearch(search, SearchPlaces, Nat)
      /\ OnTheWay /\ search.path = last.path /\ info # NULL /\ IsPath(last.path)
      /\ last.dir \in DirStarts(disk) \cup {0}
  BY DEF HeapInv, Places, SearchInv, Called, Idle
<1>2. disk \in Disks /\ info.root = disk.root /\ info.spc = disk.spc
  BY <1>1, MountedTables
<1>3. /\ disk.resv = 1 /\ disk.root[1].start < 2 /\ Comps # <<>>
      /\ Searchable(disk, last.path, last.dir)
  BY DEF Sound, Searchable, Comps
<1> DEFINE S == ToSet(last.path.comps)
<1>4. /\ Comps \in Seq(S)
      /\ \A k \in DOMAIN Comps : IsText(Comps[k]) /\ Comps[k] # <<>>
  BY <1>1 DEF IsPath, Comps
<1> HIDE DEF S
<1>5. Len(Comps) \in Nat \ {0} /\ DOMAIN Comps = 1 .. Len(Comps)
  BY <1>3, <1>4
<1>6. IsWalk(disk, last.path, last.dir, Walk(disk, last.path, last.dir))
  BY <1>5, WalkIs DEF Comps
<1> QED BY <1>1, <1>2, <1>3, <1>4, <1>5, <1>6

(* Where a component is looked up there is a directory.                    *)
LEMMA WalkedTo ==
    ASSUME HeapInv, Mounted, SearchInv, search.pc # "idle", Sound,
           NEW k \in 1 .. Len(Comps)
    PROVE  /\ Here(k - 1) \in (DirStarts(disk) \cup {0}) \cup {NOWHERE}
           /\ Here(k) = Follow(disk, Here(k - 1), Comps[k], PathType(last.path, k))
<1> DEFINE n == Len(Comps)
           f == Walk(disk, last.path, last.dir)
<1>1. /\ disk \in Disks /\ last.dir \in DirStarts(disk) \cup {0} /\ n \in Nat \ {0}
      /\ IsWalk(disk, last.path, last.dir, f)
  BY SearchFacts
<1>2. n = Len(last.path.comps) /\ Here(k) = f[k] /\ Here(k - 1) = f[k - 1] /\ k \in 1 .. n
  BY DEF Comps, Here
<1> HIDE DEF f, n
<1>3. k - 1 \in 0 .. n /\ k - 1 < n /\ n \in Nat
  BY <1>1, <1>2
<1>4. f[k - 1] \in (DirStarts(disk) \cup {0}) \cup {NOWHERE}
  BY <1>1, <1>2, <1>3, WalkStays
<1>5. f[k] = Follow(disk, f[k - 1], Comps[k], PathType(last.path, k))
  BY <1>1, <1>2 DEF IsWalk, Comps
<1> QED BY <1>2, <1>4, <1>5

(* The scan of a directory begins with its first part.                     *)
LEMMA ScanBegins ==
    ASSUME HeapInv, Mounted, SearchInv, search.pc = "parse", Sound, search.next \in 1 .. Len(Comps),
           UNCHANGED <<disk, info, last>>, ~ Passed(Comps[search.next], Reached),
           NEW at, NEW max, NEW buf, StartScan(at, max, buf), at[2] = 1,
           Table(at, buf) = FirstPart(disk, Reached), max = Len(FirstPart(disk, Reached))
    PROVE  OnTheWay' /\ search'.pc = "scan" /\ search'.path = search.path
<1> DEFINE k == search.next
           here == Here(k - 1)
           part == FirstPart(disk, here)
<1>1. /\ IsSearch(search, SearchPlaces, Nat) /\ OnTheWay /\ disk \in Disks
  BY SearchFacts
<1>2. Reached = here /\ Reached \in Nat
  BY <1>1 DEF OnTheWay, Parses, Leads
<1>3. here \in DirStarts(disk) \cup {0}
  BY <1>2, WalkedTo DEF NOWHERE
<1>4. Len(part) \in Nat
  BY <1>1, <1>3, DirectoryBegins DEF BeginsWith
<1>5. /\ search'.pc = "scan" /\ search'.at = at /\ search'.idx = 0 /\ search'.max = max
      /\ search'.match = 0 /\ search'.buf = buf /\ search'.next = k /\ search'.path = search.path
  BY <1>1 DEF StartScan, IsSearch
<1>6. Table(search.at, search.buf)' = part
  BY <1>2, <1>5 DEF Table
<1>7. UNCHANGED <<Comps, last, disk>>
  BY DEF Comps
<1>8. search'.next \in 1 .. Len(Comps)' /\ search'.match = 0
  BY <1>5, <1>7
<1>9. /\ search'.max = Len(part) /\ search'.idx \in 0 .. Len(part)
      /\ search'.at[2] = search'.idx + 1
  BY <1>2, <1>4, <1>5
<1>10. NotYet(part, Comps[search.next]', PathType(last.path, search.next)', search'.idx)
  BY <1>5 DEF NotYet
<1>11. Here(search.next - 1)' = here /\ Comps[search.next]' = Comps[k] /\ DirStarts(disk)' = DirStarts(disk)
       /\ FirstPart(disk, Here(search.next - 1))' = part
  BY <1>5, <1>7 DEF Here
<1>12. ~ Passed(Comps[k], here)
  BY <1>2
<1> HIDE DEF k, here, part
<1>13. ScansHere'
  BY <1>3, <1>6, <1>8, <1>9, <1>10, <1>11, <1>12 DEF ScansHere, Scans
<1> QED BY <1>5, <1>13 DEF OnTheWay

LEMMA SearchParseWay == ASSUME HeapInv, Mounted, SearchInv, SearchParse PROVE SearchInv'
<1> DEFINE k == search.next
           n == Len(Comps)
           name == search.path.comps[k]
           Ends(m) == search' = [search EXCEPT !.pc = "end", !.match = m]
           Passes == search' = [search EXCEPT !.next = PassOver(@), !.match = 1]
<1>1. /\ search.pc = "parse" /\ UNCHANGED <<disk, info, last, listing, phase>>
  BY DEF SearchParse, fixed, caller
<1>2. trouble => trouble'
  BY DEF SearchParse, Tried
<1>3. IsSearch(search, SearchPlaces, Nat)
  BY DEF HeapInv, Places
<1>4. search'.pc \in {"parse", "scan", "end"} /\ search'.path = search.path
  <2>1. ASSUME NEW m, Ends(m) PROVE search'.pc = "end" /\ search'.path = search.path
    BY <1>3, <2>1 DEF IsSearch
  <2>2. ASSUME NEW l, search' = [search EXCEPT !.next = l, !.match = 1]
        PROVE  search'.pc = "parse" /\ search'.path = search.path
    BY <1>1, <1>3, <2>2 DEF IsSearch
  <2>3. ASSUME NEW at, NEW max, NEW buf, StartScan(at, max, buf)
        PROVE  search'.pc = "scan" /\ search'.path = search.path
    BY <1>3, <2>3 DEF IsSearch, StartScan
  <2> QED BY <2>1, <2>2, <2>3 DEF SearchParse, SearchFails
<1>5. ASSUME Sound, Sound' PROVE OnTheWay'
  <2>1. /\ OnTheWay /\ search.path = last.path /\ disk \in Disks
        /\ info.root = disk.root /\ info.spc = disk.spc /\ info # NULL /\ disk.resv = 1
        /\ n \in Nat \ {0}
    BY <1>1, <1>5, SearchFacts
  <2>2. /\ k \in 1 .. n + 1 /\ (k > 1 => search.match = 1)
        /\ Reached = Here(k - 1) /\ Reached \in Nat \ {1}
    BY <1>1, <2>1 DEF OnTheWay, Parses, Leads
  <2>3. name = Comps[k] /\ n = Len(search.path.comps) /\ UNCHANGED <<Comps, last, disk>>
    BY <1>1, <2>1 DEF Comps
  <2>4. ~ trouble'
    BY <1>5 DEF Sound
  <2>5. CASE k > n
    <3>1. Ends(search.match)
      BY <2>1, <2>3, <2>5 DEF SearchParse
    <3>2. /\ search'.pc = "end" /\ search'.match = 1 /\ search'.at = search.at
          /\ search'.buf = search.buf /\ k = n + 1
      BY <1>3, <2>1, <2>2, <2>5, <3>1 DEF IsSearch
    <3>3. Reached' = Reached
      BY <1>1, <3>2 DEF Reached, Entry, Table
    <3>4. Here(k - 1) = Here(n)
      <4>1. k - 1 = n
        BY <2>1, <3>2
      <4> QED BY <4>1
    <3> HIDE DEF n, k
    <3>6. Here(Len(Comps))' = Here(n)
      BY <2>3 DEF Here, n
    <3>5. EndsAt(Reached)'
      BY <2>2, <3>2, <3>3, <3>4, <3>6 DEF EndsAt
    <3> QED BY <3>2, <3>5 DEF OnTheWay
  <2>6. ASSUME k <= n
        PROVE  IF name = DOT \/ (name = DOTDOT /\ Reached < 2) THEN Passes
               ELSE IF Reached < 2 THEN StartScan(<<"root", 1>>, Len(info.root), search.buf)
               ELSE \E buf \in fat12_rw_cluster(Reached) :
                       Tried(buf) /\ (IF buf = <<>> THEN SearchFails
                                      ELSE StartScan(<<"cluster", 1>>, ClusterEntries, buf))
    <3>1. ~ (k > Len(search.path.comps))
      <4> HIDE DEF n, k
      <4> QED BY <2>1, <2>2, <2>3, <2>6
    <3> QED BY Zenon, <3>1 DEF SearchParse, Reached
  <2>7. CASE k <= n /\ Passed(Comps[k], Reached)
    <3>1. Passes
      BY <2>3, <2>6, <2>7 DEF Passed
    <3>2. /\ search'.pc = "parse" /\ search'.match = 1 /\ search'.next = k + 1
          /\ search'.at = search.at /\ search'.buf = search.buf
      BY <1>1, <1>3, <3>1 DEF IsSearch, PassOver
    <3>3. Reached' = Reached
      BY <1>1, <3>2 DEF Reached, Entry, Table
    <3>4. Here(k) = Here(k - 1)
      <4>1. k \in 1 .. n
        BY <2>1, <2>2, <2>7
      <4>2. Here(k) = Follow(disk, Here(k - 1), Comps[k], PathType(last.path, k))
        BY <1>1, <1>5, <4>1, WalkedTo
      <4> QED BY <2>2, <2>7, <4>2 DEF Follow, Passed
    <3>5. (search'.next - 1) = k /\ search'.next \in 1 .. n + 1
      <4> HIDE DEF n
      <4> QED BY <2>1, <2>2, <2>7, <3>2
    <3> HIDE DEF n, k
    <3>6. Here(search.next - 1)' = Here(k)
      BY <2>3, <3>5 DEF Here
    <3>7. Parses'
      BY <2>2, <2>3, <3>2, <3>3, <3>4, <3>5, <3>6 DEF Parses, Leads, n
    <3> QED BY <3>2, <3>7 DEF OnTheWay
  <2>8. CASE k <= n /\ ~ Passed(Comps[k], Reached)
    <3>1. k \in 1 .. n /\ ~ (name = DOT \/ (name = DOTDOT /\ Reached < 2))
      BY <2>1, <2>2, <2>3, <2>8 DEF Passed
    <3>2. Reached \in DirStarts(disk) \cup {0}
      BY <1>1, <1>5, <2>2, <3>1, WalkedTo DEF NOWHERE
    <3>3. CASE Reached < 2
      <4>1. StartScan(<<"root", 1>>, Len(info.root), search.buf)
        BY <2>6, <2>8, <3>1, <3>3
      <4>2. FirstPart(disk, Reached) = disk.root
        BY <3>3 DEF FirstPart
      <4> DEFINE at == <<"root", 1>>
                 max == Len(info.root)
      <4>3. /\ at[2] = 1 /\ Table(at, search.buf) = FirstPart(disk, Reached)
            /\ max = Len(FirstPart(disk, Reached)) /\ StartScan(at, max, search.buf)
        BY <2>1, <4>1, <4>2 DEF Table
      <4> HIDE DEF at, max
      <4> QED BY <1>1, <1>5, <2>8, <3>1, <4>3, ScanBegins
    <3>4. CASE ~ (Reached < 2)
      <4>1. PICK buf \in fat12_rw_cluster(Reached) :
               Tried(buf) /\ (IF buf = <<>> THEN SearchFails
                              ELSE StartScan(<<"cluster", 1>>, ClusterEntries, buf))
        BY <2>6, <2>8, <3>1, <3>4
      <4>2. buf # <<>> /\ StartScan(<<"cluster", 1>>, ClusterEntries, buf)
        BY <2>4, <4>1 DEF Tried
      <4>3. Reached \in DOMAIN disk.dirs
        BY <2>1, <3>2, <3>4, StartsAreClusters
      <4>4. buf = disk.dirs[Reached] /\ FirstPart(disk, Reached) = disk.dirs[Reached]
        BY <2>1, <3>4, <4>2, <4>3, ClusterRead DEF FirstPart
      <4>5. ClusterEntries = Len(disk.dirs[Reached])
        <5>1. Len(disk.dirs[Reached]) = disk.spc * FDBS
          BY <2>1, <4>3, DiskAssumption DEF IsDisk, IsTable
        <5>2. disk.spc \in Nat /\ FDBS \in Nat
          BY <2>1, DiskSizes, FormatAssumption
        <5>3. disk.spc * FDBS = FDBS * disk.spc
          BY <5>2
        <5> QED BY <2>1, <5>1, <5>3 DEF ClusterEntries
      <4> DEFINE at == <<"cluster", 1>>
                 max == ClusterEntries
      <4>6. /\ at[2] = 1 /\ Table(at, buf) = FirstPart(disk, Reached)
            /\ max = Len(FirstPart(disk, Reached)) /\ StartScan(at, max, buf)
        BY <4>2, <4>4, <4>5 DEF Table
      <4> HIDE DEF at, max
      <4> QED BY <1>1, <1>5, <2>8, <3>1, <4>6, ScanBegins
    <3> QED BY <3>3, <3>4
  <2>9. k > n \/ k <= n
    <3> HIDE DEF n, k
    <3> QED BY <2>1, <2>2
  <2> QED BY <2>5, <2>7, <2>8, <2>9
<1> QED BY <1>1, <1>2, <1>4, <1>5, SearchGoesOn

(* One entry more is not what is looked for.                               *)
LEMMA OneMorePassed ==
    ASSUME HeapInv, Mounted, SearchInv, search.pc = "scan", Sound,
           search.idx < search.max, Entry(search.at, search.buf).kind # "unused",
           ~ Matches(search.at, search.buf)
    PROVE  /\ search.idx + 1 < search.max
           /\ NotYet(Table(search.at, search.buf), Comps[search.next],
                     PathType(last.path, search.next), search.idx + 1)
<1> DEFINE k == search.next
           here == Here(k - 1)
           part == FirstPart(disk, here)
           i == search.idx + 1
           comp == Comps[k]
           type == PathType(last.path, k)
<1>1. /\ OnTheWay /\ search.path = last.path /\ disk \in Disks /\ DOMAIN Comps = 1 .. Len(Comps)
      /\ Searchable(disk, last.path, last.dir)
      /\ \A m \in 1 .. Len(Comps) : IsText(Comps[m]) /\ Comps[m] # <<>>
  BY SearchFacts
<1>2. /\ k \in 1 .. Len(Comps) /\ here \in DirStarts(disk) \cup {0} /\ ~ Passed(comp, here)
      /\ Table(search.at, search.buf) = part
      /\ search.max = Len(part) /\ search.idx \in 0 .. Len(part) /\ search.at[2] = i
      /\ NotYet(part, comp, type, search.idx)
  BY <1>1 DEF OnTheWay, ScansHere, Scans
<1>3. Len(part) \in Nat
  BY <1>1, <1>2, DirectoryBegins DEF BeginsWith
<1>4. here = Walk(disk, last.path, last.dir)[k - 1] /\ comp = last.path.comps[k]
      /\ k \in DOMAIN last.path.comps
  BY <1>1, <1>2 DEF Here, Comps
<1>5. Telling(part, comp, type)
  <2>1. /\ ~ Passed(last.path.comps[k], here)
        /\ IsText(last.path.comps[k]) /\ last.path.comps[k] # <<>>
    BY <1>1, <1>2, <1>4
  <2> HIDE DEF k, here
  <2>2. Telling(part, last.path.comps[k], type)
    BY <1>1, <1>2, <1>4, <2>1, AtComponent
  <2> QED BY <1>4, <2>2
<1>6. part[i].kind # "unused" /\ ~ (part[i].kind = type /\ fat12_cmp_filename(part, i, comp))
  <2>1. path_type(search.path, k) = type /\ search.path.comps[k] = comp
    BY <1>1, <1>4 DEF path_type, PathType
  <2>2. Entry(search.at, search.buf) = part[i]
    BY <1>2 DEF Entry
  <2> HIDE DEF part, i, comp, type
  <2> QED BY <1>2, <2>1, <2>2 DEF Matches
<1> HIDE DEF part, comp, type, here, k
<1>7. i \in 1 .. Len(part)
  BY <1>2, <1>3
<1>8. ~ IsHere(part, comp, type, i)
  <2>1. IsHere(part, comp, type, i) => Visible(part, i)
    BY DEF IsHere
  <2> QED BY <1>5, <1>6, <1>7, <2>1 DEF Telling
<1>9. NotYet(part, comp, type, i)
  <2>1. ASSUME NEW m \in 1 .. i
        PROVE  part[m].kind # "unused" /\ ~ IsHere(part, comp, type, m)
    <3>1. m = i \/ m \in 1 .. search.idx
      BY <1>2, <1>3
    <3> HIDE DEF i
    <3> QED BY <1>2, <1>6, <1>8, <3>1 DEF NotYet
  <2> QED BY <2>1 DEF NotYet
<1>10. i < Len(part)
  <2> SUFFICES ASSUME ~ (i < Len(part)) PROVE FALSE
    OBVIOUS
  <2>1. i = Len(part)
    BY <1>2, <1>3, <1>7
  <2> HIDE DEF i
  <2> QED BY <1>5, <1>9, <2>1 DEF NotYet, Telling
<1> QED BY <1>2, <1>9, <1>10 DEF comp, type, k

(* The scan ends where there is nothing to be found.                       *)
LEMMA NothingThere ==
    ASSUME HeapInv, Mounted, SearchInv, search.pc = "scan", Sound,
           search.idx >= search.max \/ Entry(search.at, search.buf).kind = "unused"
    PROVE  Here(Len(Comps)) = NOWHERE
<1> DEFINE k == search.next
           here == Here(k - 1)
           part == FirstPart(disk, here)
           i == search.idx + 1
           comp == Comps[k]
           type == PathType(last.path, k)
           n == Len(Comps)
<1>1. /\ OnTheWay /\ disk \in Disks /\ DOMAIN Comps = 1 .. n /\ n \in Nat
      /\ Searchable(disk, last.path, last.dir)
      /\ IsWalk(disk, last.path, last.dir, Walk(disk, last.path, last.dir))
      /\ \A m \in 1 .. n : IsText(Comps[m]) /\ Comps[m] # <<>>
  BY SearchFacts
<1>2. /\ k \in 1 .. n /\ here \in DirStarts(disk) \cup {0} /\ ~ Passed(comp, here)
      /\ Table(search.at, search.buf) = part
      /\ search.max = Len(part) /\ search.idx \in 0 .. Len(part) /\ search.at[2] = i
      /\ NotYet(part, comp, type, search.idx)
  BY <1>1 DEF OnTheWay, ScansHere, Scans
<1>3. Len(part) \in Nat
  BY <1>1, <1>2, DirectoryBegins DEF BeginsWith
<1>4. here = Walk(disk, last.path, last.dir)[k - 1] /\ comp = last.path.comps[k]
      /\ k \in DOMAIN last.path.comps
  BY <1>1, <1>2 DEF Here, Comps
<1>5. \E m \in 1 .. Len(part) : IsHere(part, comp, type, m) \/ part[m].kind = "unused"
  <2>1. /\ ~ Passed(last.path.comps[k], here)
        /\ IsText(last.path.comps[k]) /\ last.path.comps[k] # <<>>
    BY <1>1, <1>2, <1>4
  <2> HIDE DEF k, here
  <2>2. Telling(part, last.path.comps[k], type)
    BY <1>1, <1>2, <1>4, <2>1, AtComponent
  <2> QED BY <1>4, <2>2 DEF Telling
<1>6. Here(k) = Follow(disk, here, comp, type)
  BY <1>2, WalkedTo
<1>7. Entry(search.at, search.buf) = part[i]
  BY <1>2 DEF Entry
<1>8. Lookup(disk, here, comp, type) = NOWHERE
  <2> HIDE DEF k, here, comp, type, n
  <2>1. search.idx < Len(part)
    <3> SUFFICES ASSUME ~ (search.idx < Len(part)) PROVE FALSE
      OBVIOUS
    <3>1. search.idx = Len(part)
      BY <1>2, <1>3
    <3> QED BY <1>2, <1>5, <3>1 DEF NotYet
  <2>2. i \in 1 .. Len(part) /\ i - 1 = search.idx /\ ~ (search.idx >= search.max)
    BY <1>2, <1>3, <2>1
  <2>3. part[i].kind = "unused"
    BY <1>7, <2>2
  <2>4. \A m \in 1 .. i - 1 : ~ IsHere(part, comp, type, m)
    BY <1>2, <2>2 DEF NotYet
  <2> HIDE DEF i
  <2> QED BY <1>1, <1>2, <2>2, <2>3, <2>4, LookupFails
<1>9. here # NOWHERE
  BY <1>1, <1>2, StartsAreClusters DEF NOWHERE
<1>10. Here(k) = NOWHERE
  <2> HIDE DEF here, comp, type
  <2> QED BY <1>2, <1>6, <1>8, <1>9 DEF Follow, Passed
<1> DEFINE f == Walk(disk, last.path, last.dir)
<1>11. f[k] = NOWHERE /\ k \in 0 .. n /\ n = Len(last.path.comps)
  BY <1>1, <1>2, <1>10 DEF Here, Comps
<1> HIDE DEF f, n, k
<1>12. f[n] = NOWHERE
  BY <1>1, <1>11, NowhereStays DEF f
<1> QED BY <1>12 DEF Here, f, n

(* A match is where the path leads.                                        *)
LEMMA FoundThere ==
    ASSUME HeapInv, Mounted, SearchInv, search.pc = "scan", Sound,
           search.idx < search.max, Matches(search.at, search.buf)
    PROVE  Reached = Here(search.next) /\ Reached \in Nat \ {1}
<1> DEFINE k == search.next
           here == Here(k - 1)
           part == FirstPart(disk, here)
           i == search.idx + 1
           comp == Comps[k]
           type == PathType(last.path, k)
<1>1. /\ OnTheWay /\ search.path = last.path /\ disk \in Disks /\ DOMAIN Comps = 1 .. Len(Comps)
      /\ Searchable(disk, last.path, last.dir)
      /\ \A m \in 1 .. Len(Comps) : IsText(Comps[m]) /\ Comps[m] # <<>>
  BY SearchFacts
<1>2. /\ k \in 1 .. Len(Comps) /\ here \in DirStarts(disk) \cup {0} /\ ~ Passed(comp, here)
      /\ Table(search.at, search.buf) = part
      /\ search.max = Len(part) /\ search.idx \in 0 .. Len(part) /\ search.at[2] = i
      /\ NotYet(part, comp, type, search.idx)
  BY <1>1 DEF OnTheWay, ScansHere, Scans
<1>3. BeginsWith(Directory(disk, here), part, Entries(disk))
  BY <1>1, <1>2, DirectoryBegins
<1>4. here = Walk(disk, last.path, last.dir)[k - 1] /\ comp = last.path.comps[k]
      /\ k \in DOMAIN last.path.comps
  BY <1>1, <1>2 DEF Here, Comps
<1>5. Telling(part, comp, type)
  <2>1. /\ ~ Passed(last.path.comps[k], here)
        /\ IsText(last.path.comps[k]) /\ last.path.comps[k] # <<>>
    BY <1>1, <1>2, <1>4
  <2> HIDE DEF k, here
  <2>2. Telling(part, last.path.comps[k], type)
    BY <1>1, <1>2, <1>4, <2>1, AtComponent
  <2> QED BY <1>4, <2>2
<1>6. Here(k) = Follow(disk, here, comp, type)
  BY <1>2, WalkedTo
<1>7. Reached = part[i].start /\ part[i].kind = type /\ fat12_cmp_filename(part, i, comp)
  <2>1. path_type(search.path, k) = type /\ search.path.comps[k] = comp
    BY <1>1, <1>4 DEF path_type, PathType
  <2>2. Entry(search.at, search.buf) = part[i]
    BY <1>2 DEF Entry
  <2> HIDE DEF part, i, comp, type
  <2> QED BY <1>2, <2>1, <2>2 DEF Matches, Reached
<1>8. type \in {"file", "dir"}
  BY DEF PathType
<1>10. here # NOWHERE
  BY <1>1, <1>2, StartsAreClusters DEF NOWHERE
<1> HIDE DEF part, comp, type, here, k
<1>11. i \in 1 .. Len(part) /\ \A m \in 1 .. i : m = i \/ m \in 1 .. search.idx
  BY <1>2, <1>3 DEF BeginsWith
<1> HIDE DEF i
<1>12. Visible(part, i)
  BY <1>2, <1>7, <1>8, <1>11 DEF Visible, NotYet
<1>13. IsHere(part, comp, type, i)
  BY <1>5, <1>7, <1>11, <1>12 DEF Telling
<1>14. Lookup(disk, here, comp, type) = part[i].start
  BY <1>1, <1>2, <1>11, <1>13, LookupFinds DEF part
<1>15. Here(k) = part[i].start
  BY <1>2, <1>6, <1>10, <1>14 DEF Follow, Passed
<1>16. part[i].start \in Nat \ {1}
  <2>1. part[i] \in Entries(disk)
    BY <1>3, <1>11 DEF BeginsWith
  <2> QED BY <1>1, <2>1, StartsAreClusters
<1> QED BY <1>7, <1>15, <1>16 DEF k

LEMMA SearchScanWay == ASSUME HeapInv, Mounted, SearchInv, SearchScan PROVE SearchInv'
<1> DEFINE f == fat12_get_next_fat(search.fat)
           step == [search EXCEPT !.idx = @ + 1]
           Ends == search' = [search EXCEPT !.pc = "end"]
           Finds == search' = [search EXCEPT !.pc = "parse", !.next = @ + 1, !.match = 1]
           Advances == search' = [step EXCEPT !.at = Next1(@)]
           Onward(buf) == search' = [step EXCEPT !.fat = f, !.max = MoreEntries(@), !.buf = buf,
                                                 !.at = <<"cluster", 1>>]
           entry == Entry(search.at, search.buf)
           over == search.idx >= search.max \/ entry.kind = "unused"
           behind == ~ (search.idx + 1 < search.max \/ entry.start < 2)
<1>1. /\ search.pc = "scan" /\ UNCHANGED <<disk, info, last, listing, phase>>
  BY DEF SearchScan, fixed, caller
<1>2. trouble => trouble'
  BY DEF SearchScan, Tried
<1>3. IsSearch(search, SearchPlaces, Nat)
  BY DEF HeapInv, Places
<1>4. \/ over /\ Ends
      \/ ~ over /\ Matches(search.at, search.buf) /\ Finds
      \/ ~ over /\ ~ Matches(search.at, search.buf) /\ Advances
      \/ /\ ~ over /\ ~ Matches(search.at, search.buf) /\ behind
         /\ \/ search' = [step EXCEPT !.fat = f]
            \/ SearchFails
            \/ \E buf : Onward(buf)
  BY Zenon DEF SearchScan, step
<1>5. /\ Ends => /\ search'.pc = "end" /\ search'.path = search.path /\ search'.match = search.match
                 /\ search'.at = search.at /\ search'.buf = search.buf
      /\ Finds => /\ search'.pc = "parse" /\ search'.path = search.path /\ search'.match = 1
                  /\ search'.next = search.next + 1
                  /\ search'.at = search.at /\ search'.buf = search.buf
      /\ SearchFails => search'.pc = "end" /\ search'.path = search.path
  BY <1>1, <1>3 DEF IsSearch, SearchFails
<1>6. step.pc = "scan" /\ step.path = search.path /\ step.idx = search.idx + 1
      /\ step.next = search.next /\ step.max = search.max /\ step.match = search.match
      /\ step.buf = search.buf /\ step.at = search.at
      /\ DOMAIN step = DOMAIN search
      /\ {"at", "fat", "max", "buf", "idx", "next", "pc", "path", "match"} \subseteq DOMAIN search
  BY <1>1, <1>3 DEF IsSearch
<1> HIDE DEF step
<1>7. Advances => /\ search'.pc = "scan" /\ search'.path = search.path
                  /\ search'.idx = search.idx + 1 /\ search'.next = search.next
                  /\ search'.max = search.max /\ search'.match = search.match
                  /\ search'.buf = search.buf /\ search'.at = Next1(search.at)
  BY <1>6
<1>8. /\ search' = [step EXCEPT !.fat = f] => search'.pc = "scan" /\ search'.path = search.path
      /\ \A buf : Onward(buf) => search'.pc = "scan" /\ search'.path = search.path
  BY <1>6
<1>9. search'.pc \in {"parse", "scan", "end"} /\ search'.path = search.path
  <2> HIDE DEF Ends, Finds, Advances, Onward
  <2> QED BY <1>4, <1>5, <1>7, <1>8
<1> HIDE DEF Ends, Finds, Advances, Onward
<1>10. ASSUME Sound, Sound' PROVE OnTheWay'
  <2> DEFINE k == search.next
             here == Here(k - 1)
             part == FirstPart(disk, here)
             comp == Comps[k]
             type == PathType(last.path, k)
  <2>1. OnTheWay /\ Len(Comps) \in Nat \ {0} /\ UNCHANGED <<Comps, last, disk>>
    BY <1>1, <1>10, SearchFacts DEF Comps
  <2>2. /\ k \in 1 .. Len(Comps) /\ search.match = 0
        /\ here \in DirStarts(disk) \cup {0} /\ ~ Passed(comp, here)
        /\ Table(search.at, search.buf) = part
        /\ search.max = Len(part) /\ search.idx \in 0 .. Len(part)
        /\ search.at[2] = search.idx + 1
    BY <1>1, <2>1 DEF OnTheWay, ScansHere, Scans
  <2>3. Len(part) \in Nat
    <3>1. disk \in Disks
      BY DEF Mounted
    <3> QED BY <2>2, <3>1, DirectoryBegins DEF BeginsWith
  <2>4. CASE over /\ Ends
    <3>1. Here(Len(Comps)) = NOWHERE
      BY <1>1, <1>10, <2>4, NothingThere
    <3>2. Here(Len(Comps))' = Here(Len(Comps))
      BY <2>1 DEF Here
    <3>3. EndsAt(Reached)'
      BY <1>5, <2>2, <2>4, <3>1, <3>2 DEF EndsAt
    <3> QED BY <1>5, <2>4, <3>3 DEF OnTheWay
  <2>5. CASE ~ over /\ Matches(search.at, search.buf) /\ Finds
    <3>1. search.idx < search.max
      BY <2>2, <2>5, <2>3
    <3>2. Reached = Here(k) /\ Reached \in Nat \ {1}
      BY <1>1, <1>10, <2>5, <3>1, FoundThere
    <3>3. Reached' = Reached
      BY <1>1, <1>5, <2>5 DEF Reached, Entry, Table
    <3>4. search'.next - 1 = k /\ search'.next \in 1 .. Len(Comps) + 1
      BY <1>5, <2>1, <2>2, <2>5
    <3> HIDE DEF k
    <3>5. Here(search.next - 1)' = Here(k)
      BY <2>1, <3>4 DEF Here
    <3>6. Parses'
      BY <1>5, <2>1, <2>5, <3>2, <3>3, <3>4, <3>5 DEF Parses, Leads
    <3> QED BY <1>5, <2>5, <3>6 DEF OnTheWay
  <2>6. ASSUME ~ over, ~ Matches(search.at, search.buf)
        PROVE  search.idx + 1 < search.max /\ NotYet(part, comp, type, search.idx + 1)
    <3>1. search.idx < search.max
      BY <2>2, <2>6, <2>3
    <3> QED BY <1>1, <1>10, <2>2, <2>6, <3>1, OneMorePassed
  <2>7. CASE ~ over /\ ~ Matches(search.at, search.buf) /\ Advances
    <3>1. search.idx + 1 < search.max /\ NotYet(part, comp, type, search.idx + 1)
      BY <2>6, <2>7
    <3>2. search'.at[2] = search'.idx + 1 /\ Table(search.at, search.buf)' = Table(search.at, search.buf)
      BY <1>1, <1>7, <2>2, <2>7 DEF Next1, Table
    <3>3. Here(search.next - 1)' = here /\ Comps[search.next]' = comp
          /\ FirstPart(disk, Here(search.next - 1))' = part /\ DirStarts(disk)' = DirStarts(disk)
          /\ PathType(last.path, search.next)' = type
      BY <1>7, <2>1, <2>7 DEF Here
    <3>4. search'.idx \in 0 .. Len(part)
      <4> HIDE DEF part
      <4> QED BY <1>7, <2>2, <2>7, <2>3, <3>1
    <3>5. search'.next = k /\ search'.max = search.max /\ search'.match = 0
          /\ search'.idx = search.idx + 1
      BY <1>7, <2>2, <2>7
    <3> HIDE DEF k, here, part, comp, type
    <3>6. NotYet(part, comp, type, search'.idx)
      BY <3>1, <3>5
    <3>7. ScansHere'
      BY <2>1, <2>2, <3>2, <3>3, <3>4, <3>5, <3>6 DEF ScansHere, Scans, k
    <3> QED BY <1>7, <2>7, <3>7 DEF OnTheWay
  <2>8. ~ (~ over /\ ~ Matches(search.at, search.buf) /\ behind)
    BY <2>6
  <2> HIDE DEF over, behind
  <2> QED BY <1>4, <2>4, <2>5, <2>7, <2>8
<1> QED BY <1>1, <1>2, <1>9, <1>10, SearchGoesOn

LEMMA SearchEnterWay == ASSUME HeapInv, Mounted, SearchInv, SearchEnter PROVE SearchInv'
<1> DEFINE b == Fresh(heap)
           dir == search.fat
           Loaded(buf) == search' = [search EXCEPT !.pc = "parse", !.block = b, !.buf = buf,
                                                   !.at = <<"cluster", 1>>]
<1>1. /\ search.pc = "enter" /\ UNCHANGED <<disk, info, last, listing, phase>>
  BY DEF SearchEnter, fixed, caller
<1>2. trouble => trouble'
  BY DEF SearchEnter, Tried
<1>3. IsSearch(search, SearchPlaces, Nat)
  BY DEF HeapInv, Places
<1>4. \/ SearchFails /\ trouble'
      \/ /\ dir < 2 \/ search.path.abs
         /\ search' = [search EXCEPT !.pc = "parse", !.block = b]
      \/ /\ ~ (dir < 2 \/ search.path.abs)
         /\ \E buf \in fat12_rw_cluster(dir) : buf # <<>> /\ Loaded(buf)
  BY Zenon DEF SearchEnter, SearchFails, Tried
<1> HIDE DEF b
<1>5. /\ SearchFails => search'.pc = "end" /\ search'.path = search.path
      /\ search' = [search EXCEPT !.pc = "parse", !.block = b] =>
            /\ search'.pc = "parse" /\ search'.path = search.path /\ search'.next = search.next
            /\ search'.at = search.at /\ search'.match = search.match
      /\ \A buf : Loaded(buf) =>
            /\ search'.pc = "parse" /\ search'.path = search.path /\ search'.next = search.next
            /\ search'.at = <<"cluster", 1>> /\ search'.buf = buf /\ search'.match = search.match
  BY <1>1, <1>3 DEF IsSearch, SearchFails
<1>6. search'.pc \in {"parse", "end"} /\ search'.path = search.path
  <2> HIDE DEF Loaded
  <2> QED BY <1>4, <1>5
<1>7. ASSUME Sound, Sound' PROVE OnTheWay'
  <2>1. /\ OnTheWay /\ search.path = last.path /\ disk \in Disks /\ info # NULL
        /\ info.root = disk.root /\ disk.resv = 1 /\ disk.root[1].start < 2
        /\ last.dir \in DirStarts(disk) \cup {0} /\ Len(Comps) \in Nat \ {0}
        /\ IsWalk(disk, last.path, last.dir, Walk(disk, last.path, last.dir))
        /\ UNCHANGED <<Comps, last, disk>>
    BY <1>1, <1>7, SearchFacts DEF Comps
  <2>2. dir = last.dir /\ search.next = 1 /\ search.at = <<"root", 1>>
    BY <1>1, <2>1 DEF OnTheWay, Enters
  <2>3. Here(0) = IF last.path.abs \/ last.dir < 2 THEN 0 ELSE last.dir
    BY <2>1 DEF IsWalk, Here
  <2>4. ASSUME search'.pc = "parse", search'.next = 1, Reached' = Here(0), Here(0) \in Nat \ {1}
        PROVE  OnTheWay'
    <3>1. 1 \in 1 .. Len(Comps) + 1 /\ 1 - 1 = 0 /\ ~ (1 > 1)
      BY <2>1
    <3>2. Here(search.next - 1)' = Here(0)
      BY <2>1, <2>4, <3>1 DEF Here
    <3>3. Parses'
      BY <2>1, <2>4, <3>1, <3>2 DEF Parses, Leads
    <3> QED BY <2>4, <3>3 DEF OnTheWay
  <2>5. CASE /\ dir < 2 \/ search.path.abs
             /\ search' = [search EXCEPT !.pc = "parse", !.block = b]
    <3>1. Here(0) = 0
      BY <2>1, <2>2, <2>3, <2>5
    <3>2. search'.pc = "parse" /\ search'.next = 1 /\ search'.at = <<"root", 1>>
      BY <1>5, <2>2, <2>5
    <3>3. Reached' = disk.root[1].start
      <4>1. info'.root = disk.root
        BY <1>1, <2>1
      <4> QED BY <3>2, <4>1 DEF Reached, Entry, Table
    <3>4. disk.root[1] \in Entries(disk)
      <4>1. Len(disk.root) > 0 /\ IsTable(disk.root, Len(disk.root))
        BY <2>1, DiskAssumption DEF IsDisk
      <4>2. 1 \in DOMAIN disk.root
        BY <4>1, TableDomain
      <4> QED BY <4>2 DEF Entries, ToSet
    <3>5. disk.root[1].start = 0
      <4>1. disk.root[1].start \in Nat \ {1}
        BY <2>1, <3>4, StartsAreClusters
      <4> QED BY <2>1, <4>1
    <3>6. Reached' = Here(0) /\ Here(0) \in Nat \ {1}
      BY <3>1, <3>3, <3>5
    <3> QED BY <2>4, <3>2, <3>6
  <2>6. CASE /\ ~ (dir < 2 \/ search.path.abs)
             /\ \E buf \in fat12_rw_cluster(dir) : buf # <<>> /\ Loaded(buf)
    <3>1. PICK buf \in fat12_rw_cluster(dir) : buf # <<>> /\ Loaded(buf)
      BY <2>6
    <3>2. Here(0) = dir /\ dir \in DirStarts(disk) \ {0}
      BY <2>1, <2>2, <2>3, <2>6
    <3>3. dir \in DOMAIN disk.dirs /\ dir \in Nat \ {1} /\ disk.dirs[dir][1].start = dir
      BY <2>1, <3>2, StartsAreClusters, DiskAssumption DEF IsDisk
    <3>4. buf = disk.dirs[dir]
      BY <2>1, <3>1, <3>3, ClusterRead
    <3>5. /\ search'.pc = "parse" /\ search'.next = 1
          /\ search'.at = <<"cluster", 1>> /\ search'.buf = buf
      BY <1>5, <2>2, <3>1
    <3> HIDE DEF dir, Loaded
    <3>6. Reached' = dir
      BY <3>3, <3>4, <3>5 DEF Reached, Entry, Table
    <3>7. Reached' = Here(0) /\ Here(0) \in Nat \ {1}
      BY <3>2, <3>3, <3>6
    <3> QED BY <2>4, <3>5, <3>7
  <2>7. ~ trouble'
    BY <1>7 DEF Sound
  <2> HIDE DEF Loaded, dir
  <2> QED BY <1>4, <2>5, <2>6, <2>7
<1> QED BY <1>1, <1>2, <1>6, <1>7, SearchGoesOn

LEMMA SearchEndWay == ASSUME HeapInv, Mounted, SearchInv, SearchEnd PROVE SearchInv'
<1>1. /\ search.pc = "end" /\ UNCHANGED <<disk, info, last, listing, phase, trouble>>
  BY DEF SearchEnd, fixed, caller
<1>2. /\ search'.pc = "return" /\ search'.path = search.path /\ search'.match = search.match
      /\ search.match = 1 => search'.start = Reached
  <2> DEFINE start == IF search.match = 1 THEN Entry(search.at, search.buf).start ELSE 0
  <2>1. search' = [search EXCEPT !.pc = "return", !.buf = <<>>, !.start = start]
    BY Zenon DEF SearchEnd
  <2>2. search.match = 1 => start = Reached
    BY DEF Reached
  <2>3. IsSearch(search, SearchPlaces, Nat)
    BY DEF HeapInv, Places
  <2> HIDE DEF start
  <2> QED BY <2>1, <2>2, <2>3 DEF IsSearch
<1>3. ASSUME Sound, Sound' PROVE OnTheWay'
  <2>1. EndsAt(Reached)
    BY <1>1, <1>3, SearchFacts DEF OnTheWay
  <2>2. Here(Len(Comps))' = Here(Len(Comps))
    BY <1>1 DEF Here, Comps
  <2>3. EndsAt(search.start)'
    BY <1>2, <2>1, <2>2 DEF EndsAt
  <2> QED BY <1>2, <2>3 DEF OnTheWay
<1> QED BY <1>1, <1>2, <1>3, SearchGoesOn

(* The call that ends answers what the search has found.                   *)
LEMMA SearchReturnWay == ASSUME HeapInv, Mounted, SearchInv, SearchReturn PROVE SearchInv'
<1>1. /\ search.pc = "return" /\ listing.pc = "idle"
      /\ last' = [last EXCEPT !.ok = (search.match = 1), !.start = search.start]
      /\ search' = NoSearch /\ phase' = Later /\ UNCHANGED <<disk, info, listing, trouble>>
  BY DEF SearchReturn, fixed
<1>2. Called /\ DOMAIN last = {"op", "path", "dir", "ok", "start", "names"}
  BY DEF SearchInv, Called, NoCall
<1>3. last'.path = last.path /\ last'.dir = last.dir /\ last'.start = search.start
      /\ (last'.ok <=> search.match = 1) /\ DOMAIN last' = DOMAIN last
  BY <1>1, <1>2
<1>4. Called'
  <2>1. info # NULL
    BY <1>1, <1>2 DEF Called, Idle
  <2> QED BY <1>1, <1>2, <1>3, <2>1, NoSearchFacts DEF Called, Idle
<1>5. ASSUME (~ trouble /\ Searchable(disk, last.path, last.dir))'
      PROVE  LET start == Resolve(disk, last.path, last.dir)
             IN  (last.ok <=> start # NOWHERE)' /\ (last.ok => last.start = start)'
  <2>1. Sound
    BY <1>1, <1>3, <1>5 DEF Sound
  <2>2. EndsAt(search.start)
    BY <1>1, <2>1, SearchFacts DEF OnTheWay
  <2>3. Resolve(disk, last.path, last.dir)' = Here(Len(Comps))
    BY <1>1, <1>3 DEF Resolve, Here, Comps
  <2>4. Here(Len(Comps)) \in Nat => Here(Len(Comps)) # NOWHERE
    BY DEF NOWHERE
  <2>5. (Resolve(disk, last.path, last.dir) # NOWHERE)' <=> search.match = 1
    BY <2>2, <2>3, <2>4 DEF EndsAt
  <2>6. search.match = 1 => Resolve(disk, last.path, last.dir)' = search.start
    BY <2>2, <2>3 DEF EndsAt
  <2> QED BY <1>3, <2>5, <2>6
<1> QED BY <1>1, <1>4, <1>5, NoSearchFacts DEF SearchInv, SearchResolves

(* The other steps leave no search in progress or begin one.               *)
LEMMA ListPlace ==
    ASSUME HeapInv, ListLoad \/ ListScan
    PROVE  listing'.pc \in {"scan", "end"}
<1>1. IsListing(listing, ListPlaces, Nat)
  BY DEF HeapInv, Places
<1>2. ASSUME listing' = ListFails PROVE listing'.pc = "end"
  BY <1>1, <1>2 DEF ListFails, IsListing
<1>3. ASSUME ListLoad PROVE listing'.pc \in {"scan", "end"}
  <2>1. ASSUME NEW buf, listing' = [listing EXCEPT !.pc = "scan", !.at = <<"cluster", 1>>, !.buf = buf,
                                                   !.fat = listing.dir, !.max = ClusterEntries]
        PROVE  listing'.pc = "scan"
    BY <1>1, <2>1 DEF IsListing
  <2> QED BY <1>2, <1>3, <2>1 DEF ListLoad
<1>4. ASSUME ListScan PROVE listing'.pc \in {"scan", "end"}
  <2> DEFINE Grown(nodes) == [listing EXCEPT !.nodes = Append(@, nodes)]
  <2>1. \/ listing' = [listing EXCEPT !.pc = "end"]
        \/ listing' = ListFails
        \/ ListAdvance(listing)
        \/ \E node : ListAdvance(Grown(node))
    BY <1>4, Zenon DEF ListScan
  <2>2. IsListing(listing, {"scan"}, Nat)
    BY <1>1, <1>4 DEF ListScan, IsListing
  <2>3. \A node : IsListing(Grown(node), {"scan"}, Nat)
    BY <2>2 DEF IsListing
  <2> HIDE DEF Grown
  <2>4. ASSUME NEW here, IsListing(here, {"scan"}, Nat), ListAdvance(here)
        PROVE  listing'.pc \in {"scan", "end"}
    <3>1. IsListing(listing', {"scan", "end"}, {here.block})
      BY <2>4, ListAdvanceMoves
    <3> QED BY <3>1 DEF IsListing
  <2>5. ASSUME listing' = [listing EXCEPT !.pc = "end"] PROVE listing'.pc = "end"
    BY <2>2, <2>5 DEF IsListing
  <2> QED BY <1>2, <2>1, <2>2, <2>3, <2>4, <2>5
<1> QED BY <1>3, <1>4

LEMMA ListStepWay ==
    ASSUME HeapInv, SearchInv, ListLoad \/ ListScan
    PROVE  SearchInv'
<1>1. listing'.pc \in {"scan", "end"}
  BY ListPlace
<1>2. listing.pc \in {"load", "scan"} /\ UNCHANGED <<disk, info, phase, last, search>>
  BY DEF ListLoad, ListScan, fixed, caller
<1>3. search.pc = "idle"
  BY <1>2 DEF HeapInv, Quiet
<1>4. Called'
  BY <1>1, <1>2, <1>3 DEF SearchInv, Called, Idle, Comps
<1> QED BY <1>1, <1>2, <1>3, <1>4 DEF SearchInv, SearchResolves, Idle

LEMMA SearchBegins ==
    ASSUME NEW path, NEW dir
    PROVE  /\ Searching(path, dir).pc = "enter" /\ Searching(path, dir).path = path
           /\ Searching(path, dir).fat = dir /\ Searching(path, dir).next = 1
           /\ Searching(path, dir).at = <<"root", 1>>
BY DEF Searching, NoSearch

LEMMA ListEnterWay == ASSUME HeapInv, SearchInv, ListEnter PROVE SearchInv'
<1> DEFINE open == [listing EXCEPT !.block = Fresh(heap)]
<1>1. listing.pc = "enter" /\ UNCHANGED <<disk, info, phase, last>>
  BY DEF ListEnter, fixed, caller
<1>2. search.pc = "idle" /\ IsListing(listing, ListPlaces, Nat)
  BY <1>1 DEF HeapInv, Quiet, Places
<1>3. Called /\ info # NULL /\ IsPath(last.path) /\ last.op = "list"
      /\ listing.path = last.path /\ listing.dir = last.dir
      /\ (Comps # <<>> => last.dir \in DirStarts(disk) \cup {0})
  BY <1>1 DEF SearchInv, Called, Idle
<1>4. \/ listing' = ListFails /\ UNCHANGED search
      \/ listing' = [open EXCEPT !.pc = "scan", !.max = Len(info.root)] /\ UNCHANGED search
      \/ listing' = [open EXCEPT !.pc = "load"] /\ UNCHANGED search
      \/ /\ listing.path.comps # <<>>
         /\ listing' = [open EXCEPT !.pc = "resolve"]
         /\ search' = Searching(listing.path, listing.dir)
  BY Zenon DEF ListEnter, open
<1>5. open.pc = listing.pc /\ DOMAIN open = DOMAIN listing /\ {"pc", "max"} \subseteq DOMAIN listing
      /\ (listing' = ListFails => listing'.pc = "end")
  BY <1>2 DEF IsListing, ListFails
<1> HIDE DEF open
<1>6. listing'.pc \in {"end", "scan", "load", "resolve"}
  BY <1>4, <1>5
<1>7. \/ UNCHANGED search
      \/ /\ Comps # <<>> /\ search'.path = last.path /\ search'.pc = "enter"
         /\ search'.fat = last.dir /\ search'.next = 1 /\ search'.at = <<"root", 1>>
  BY <1>3, <1>4, SearchBegins DEF Comps
<1>8. Called'
  BY <1>1, <1>2, <1>3, <1>6, <1>7 DEF Called, Idle, Comps
<1>9. search'.pc # "idle" => OnTheWay'
  BY <1>1, <1>2, <1>7 DEF OnTheWay, Enters
<1>10. SearchResolves'
  BY <1>6 DEF SearchResolves, Idle
<1> QED BY <1>8, <1>9, <1>10 DEF SearchInv

LEMMA ListResolvedWay == ASSUME HeapInv, SearchInv, ListResolved PROVE SearchInv'
<1>1. listing.pc = "resolve" /\ search' = NoSearch /\ UNCHANGED <<disk, info, phase, last>>
  BY DEF ListResolved, fixed, caller
<1>2. IsListing(listing, ListPlaces, Nat)
  BY DEF HeapInv, Places
<1>3. listing'.pc \in {"load", "end"}
  <2>1. ASSUME NEW dir, listing' = [listing EXCEPT !.pc = "load", !.dir = dir]
        PROVE  listing'.pc = "load"
    BY <1>2, <2>1 DEF IsListing
  <2>2. ASSUME listing' = [ListFails EXCEPT !.block = NONE] PROVE listing'.pc = "end"
    BY <1>2, <2>2 DEF IsListing, ListFails
  <2> QED BY <2>1, <2>2 DEF ListResolved
<1>4. Called'
  BY <1>1, <1>3, NoSearchFacts DEF SearchInv, Called, Idle, Comps
<1> QED BY <1>1, <1>3, <1>4, NoSearchFacts DEF SearchInv, SearchResolves, Idle

LEMMA ListEndWay == ASSUME HeapInv, SearchInv, ListEnd PROVE SearchInv'
<1> DEFINE nodes == IF listing.fail THEN <<>> ELSE listing.nodes
           ok == ~ listing.fail
           names == [i \in DOMAIN nodes |-> nodes[i].name]
<1>1. listing.pc = "end" /\ listing' = NoListing /\ phase' = Later
      /\ last' = [last EXCEPT !.ok = ok, !.names = names]
      /\ UNCHANGED <<disk, info, search>>
  BY DEF ListEnd, fixed
<1>2. search.pc = "idle"
  BY <1>1 DEF HeapInv, Quiet
<1>3. Called /\ info # NULL /\ last.op = "list" /\ DOMAIN last = {"op", "path", "dir", "ok", "start", "names"}
  BY <1>1 DEF SearchInv, Called, Idle, NoCall
<1> HIDE DEF ok, names
<1>4. last'.op = "list" /\ DOMAIN last' = DOMAIN last
  BY <1>1, <1>3
<1>5. Called'
  BY <1>1, <1>2, <1>3, <1>4, NoListingFacts DEF Called, Idle
<1> QED BY <1>1, <1>2, <1>4, <1>5 DEF SearchInv, SearchResolves

LEMMA BeginWay == ASSUME HeapInv, Mounted, SearchInv, Begin PROVE SearchInv'
<1>1. Idle /\ UNCHANGED <<disk, info, phase>>
  BY DEF Begin, fixed
<1>2. PICK call \in ThisCall :
      /\ last' = [NoCall EXCEPT !.op = call.op, !.path = call.path, !.dir = call.dir]
      /\ \/ /\ search' = Searching(call.path, call.dir)
            /\ UNCHANGED listing
            /\ call.op = "search"
         \/ /\ call.op = "list"
            /\ listing' = Listing(call.path, call.dir)
            /\ UNCHANGED search
  BY DEF Begin
<1>3. last'.op = call.op /\ last'.path = call.path /\ last'.dir = call.dir
      /\ DOMAIN last' = DOMAIN NoCall
  BY <1>2 DEF NoCall
<1>4. Called
  BY DEF SearchInv
<1>5. IsPath(NoPath) /\ NoPath.comps = <<>> /\ [NoPath EXCEPT !.abs = TRUE].comps = <<>>
      /\ IsPath([NoPath EXCEPT !.abs = TRUE])
  <2>1. NoPath.comps = <<>> /\ [NoPath EXCEPT !.abs = TRUE].comps = <<>>
    BY DEF NoPath
  <2>2. ASSUME NEW path, path.comps = <<>> PROVE IsPath(path)
    <3>1. <<>> \in Seq(ToSet(<<>>)) /\ DOMAIN <<>> = {}
      OBVIOUS
    <3> QED BY <2>2, <3>1 DEF IsPath
  <2> QED BY <2>1, <2>2
<1>6. /\ info # NULL /\ IsPath(call.path)
      /\ call.op = "search" => call.dir \in DirStarts(disk) \cup {0}
      /\ call.path.comps # <<>> => call.dir \in DirStarts(disk) \cup {0}
  <2>1. CASE phase = "search"
    <3>1. call = [op |-> "search", path |-> TestPath, dir |-> 0]
      BY <2>1 DEF ThisCall
    <3> QED BY <1>4, <2>1, <3>1, CallAssumption DEF Called
  <2>2. CASE phase = "list"
    <3>1. call.op = "list" /\ call.path = NoPath
      BY <2>2 DEF ThisCall
    <3> QED BY <1>4, <1>5, <2>2, <3>1 DEF Called
  <2>3. CASE phase = "root"
    <3>1. call.op = "list" /\ call.path = [NoPath EXCEPT !.abs = TRUE]
      BY <2>3 DEF ThisCall
    <3> QED BY <1>4, <1>5, <2>3, <3>1 DEF Called
  <2>4. CASE phase = "done"
    <3>1. call \in Calls /\ info # NULL /\ call.dir \in DirStarts(disk) \cup {0}
      BY <2>4 DEF ThisCall
    <3> QED BY <3>1, CallAssumption
  <2> QED BY <2>1, <2>2, <2>3, <2>4 DEF ThisCall
<1>7. /\ Listing(call.path, call.dir).pc = "enter"
      /\ Listing(call.path, call.dir).path = call.path /\ Listing(call.path, call.dir).dir = call.dir
  BY DEF Listing, NoListing
<1>8. \/ /\ search'.path = last'.path /\ search'.pc = "enter" /\ listing'.pc = "idle"
         /\ search'.fat = last'.dir /\ search'.next = 1 /\ search'.at = <<"root", 1>>
         /\ last'.dir \in DirStarts(disk) \cup {0}
      \/ /\ search'.pc = "idle" /\ listing'.pc = "enter" /\ last'.op = "list"
         /\ listing'.path = last'.path /\ listing'.dir = last'.dir
  BY <1>1, <1>2, <1>3, <1>6, <1>7, SearchBegins DEF Idle
<1>9. Called'
  BY <1>1, <1>3, <1>4, <1>6, <1>8 DEF Called, Idle, Comps
<1>10. search'.pc # "idle" => OnTheWay'
  BY <1>8 DEF OnTheWay, Enters
<1>11. SearchResolves'
  BY <1>8 DEF SearchResolves, Idle
<1> QED BY <1>9, <1>10, <1>11 DEF SearchInv

LEMMA InitWay == ASSUME HeapInv, SearchInv, fat12_init PROVE SearchInv'
<1>1. phase = "off" /\ UNCHANGED <<disk, search, listing, trouble, last>>
  BY DEF fat12_init
<1>2. Idle /\ Idle'
  BY <1>1 DEF HeapInv, Quiet, Idle
<1>3. phase' = "done" \/ (phase' = "search" /\ info' # NULL)
  <2>1. ASSUME NEW got, NEW fat, NEW root,
               info' = [fats |-> disk.fats, spf |-> disk.spf, spc |-> disk.spc,
                        fat |-> fat, root |-> root, blocks |-> got]
        PROVE  info' # NULL
    <3>1. "fat" \in DOMAIN info' /\ "fat" \notin DOMAIN NULL
      BY <2>1 DEF NULL
    <3> QED BY <3>1
  <2> DEFINE Loaded(got) == info' = [fats |-> disk.fats, spf |-> disk.spf, spc |-> disk.spc,
                                     fat |-> fat12_rw_fat_table, root |-> fat12_rw_root_fdb,
                                     blocks |-> got]
  <2>2. phase' = "done" \/ (phase' = "search" /\ \E got : Loaded(got))
    BY Zenon DEF fat12_init
  <2>3. \A got : Loaded(got) => info' # NULL
    BY <2>1
  <2> HIDE DEF Loaded
  <2> QED BY <2>2, <2>3
<1>4. Called'
  BY <1>1, <1>2, <1>3 DEF SearchInv, Called, Idle
<1> QED BY <1>1, <1>2, <1>4 DEF SearchInv, SearchResolves, Idle

LEMMA NextWay == HeapInv /\ Mounted /\ SearchInv /\ [Next]_vars => SearchInv'
<1> SUFFICES ASSUME HeapInv, Mounted, SearchInv, [Next]_vars PROVE SearchInv'
  OBVIOUS
<1>1. CASE Proceed
  <2>1. ListLoad \/ ListScan => SearchInv'
    BY ListStepWay
  <2> QED BY <1>1, <2>1, SearchEnterWay, SearchParseWay, SearchScanWay, SearchEndWay, SearchReturnWay,
          ListEnterWay, ListResolvedWay, ListEndWay DEF Proceed
<1>2. CASE Release \/ UNCHANGED vars
  <2>1. UNCHANGED <<disk, info, phase, search, listing, trouble, last>>
    BY <1>2 DEF Release, vars, fixed
  <2>2. Called'
    BY <2>1 DEF SearchInv, Called, Idle, Comps
  <2>3. SearchResolves'
    BY <2>1 DEF SearchInv, SearchResolves, Idle
  <2>4. search'.pc # "idle" /\ Sound' => OnTheWay'
    BY <2>1 DEF SearchInv, Sound, OnTheWay, Enters, Parses, ScansHere, EndsAt, Leads, Scans,
       Reached, Here, Comps, Entry, Table
  <2> QED BY <2>2, <2>3, <2>4 DEF SearchInv
<1> QED BY <1>1, <1>2, BeginWay, InitWay DEF Next

(* Wherever nothing fails and the conditions of Searchable hold,           *)
(* fat12_search_fdb answers what the path means by the definition of the   *)
(* format: for every disk and every path with any number of components,    *)
(* each of which it looks up where the components before it lead.          *)
THEOREM SearchesResolve == Spec => []SearchResolves
<1>1. Init => HeapInv /\ Mounted /\ SearchInv
  <2> SUFFICES ASSUME Init PROVE Mounted /\ SearchInv
    BY FirstOwned
  <2>1. Mounted
    BY DEF Init, Mounted
  <2>2. /\ search.pc = "idle" /\ listing.pc = "idle" /\ last = NoCall /\ phase = "off"
    BY NoSearchFacts, NoListingFacts DEF Init
  <2>3. last.op # "search"
    BY <2>2 DEF NoCall
  <2> QED BY <2>1, <2>2, <2>3 DEF SearchInv, Called, Idle, SearchResolves
<1>2. HeapInv /\ Mounted /\ SearchInv /\ [Next]_vars => (HeapInv /\ Mounted /\ SearchInv)'
  BY NextOwned, NextMounted, NextWay
<1>3. SearchInv => SearchResolves
  BY DEF SearchInv
<1> QED BY <1>1, <1>2, <1>3, PTL DEF Spec

-----------------------------------------------------------------------------
(* What a list shows of a directory: again a function by recursion.        *)

ShowsUpTo(entries, n, f) ==
    f = [i \in 0 .. n |-> IF i = 0 THEN <<>>
                          ELSE IF Visible(entries, i) THEN Append(f[i - 1], Displayed(entries, i))
                          ELSE f[i - 1]]

LEMMA ShownExists ==
    ASSUME NEW entries, NEW n \in Nat PROVE \E f : ShowsUpTo(entries, n, f)
<1> DEFINE Bad == {m \in Nat : ~ \E f : ShowsUpTo(entries, m, f)}
           Onward(names, i) == IF Visible(entries, i) THEN Append(names, Displayed(entries, i))
                               ELSE names
<1> SUFFICES ASSUME Bad # {} PROVE FALSE
  OBVIOUS
<1>1. PICK m \in Bad : \A k \in Bad : m <= k
  BY LeastNumber
<1>2. m # 0
  <2>1. ShowsUpTo(entries, 0, [k \in 0 .. 0 |-> <<>>])
    BY DEF ShowsUpTo
  <2> QED BY <1>1, <2>1
<1>3. m - 1 \in Nat /\ m - 1 \notin Bad
  BY <1>1, <1>2
<1>4. PICK f : ShowsUpTo(entries, m - 1, f)
  BY <1>3
<1>5. \A k \in 0 .. m - 1 : f[k] = IF k = 0 THEN <<>> ELSE Onward(f[k - 1], k)
  BY <1>4 DEF ShowsUpTo
<1> HIDE DEF Onward
<1> DEFINE e == [k \in 0 .. m |-> IF k = m THEN Onward(f[m - 1], m) ELSE f[k]]
<1>6. \A k \in 0 .. m - 1 : e[k] = f[k]
  BY <1>1, <1>3
<1>7. ASSUME NEW k \in 0 .. m PROVE e[k] = IF k = 0 THEN <<>> ELSE Onward(e[k - 1], k)
  <2>1. CASE k = m
    BY <1>2, <1>3, <1>6, <2>1
  <2>2. CASE k \in 0 .. m - 1
    <3>1. f[k] = IF k = 0 THEN <<>> ELSE Onward(f[k - 1], k)
      BY <1>5, <2>2
    <3>2. k # 0 => k - 1 \in 0 .. m - 1
      BY <1>3, <2>2
    <3> QED BY <1>6, <2>2, <3>1, <3>2
  <2> QED BY <1>1, <2>1, <2>2
<1>8. e = [k \in 0 .. m |-> e[k]]
  OBVIOUS
<1> HIDE DEF e
<1>9. ShowsUpTo(entries, m, e)
  BY <1>7, <1>8 DEF ShowsUpTo, Onward
<1> QED BY <1>1, <1>9

(* The names of the visible entries among the first so many.               *)
Upto(entries) == CHOOSE f : ShowsUpTo(entries, Len(entries), f)

LEMMA UptoIs ==
    ASSUME NEW entries, Len(entries) \in Nat
    PROVE  /\ Shown(entries) = Upto(entries)[Len(entries)]
           /\ Upto(entries)[0] = <<>>
           /\ \A i \in 1 .. Len(entries) :
                 Upto(entries)[i] = IF Visible(entries, i)
                                    THEN Append(Upto(entries)[i - 1], Displayed(entries, i))
                                    ELSE Upto(entries)[i - 1]
<1> DEFINE n == Len(entries)
           f == Upto(entries)
<1>1. ShowsUpTo(entries, n, f)
  <2> HIDE DEF n
  <2>1. \E g : ShowsUpTo(entries, n, g)
    BY ShownExists DEF n
  <2> QED BY <2>1 DEF Upto, n
<1>2. Shown(entries) = f[n]
  BY DEF Shown, Upto, ShowsUpTo
<1> HIDE DEF f, n
<1>3. n \in Nat
  BY DEF n
<1>4. \A i \in 0 .. n : f[i] = IF i = 0 THEN <<>>
                               ELSE IF Visible(entries, i)
                               THEN Append(f[i - 1], Displayed(entries, i)) ELSE f[i - 1]
  BY <1>1 DEF ShowsUpTo
<1>5. f[0] = <<>>
  BY <1>3, <1>4
<1>6. \A i \in 1 .. n : f[i] = IF Visible(entries, i)
                               THEN Append(f[i - 1], Displayed(entries, i)) ELSE f[i - 1]
  BY <1>3, <1>4
<1> QED BY <1>2, <1>5, <1>6 DEF f, n

(* Behind the last visible entry nothing is added.                         *)
LEMMA NothingMore ==
    ASSUME NEW entries, NEW n \in Nat, n = Len(entries), NEW i \in 0 .. n,
           \A j \in i + 1 .. n : ~ Visible(entries, j)
    PROVE  Upto(entries)[i] = Shown(entries)
<1> DEFINE f == Upto(entries)
           Bad == {m \in Nat : m >= i /\ m <= n /\ f[m] # f[i]}
<1>1. Bad = {}
  <2> SUFFICES ASSUME Bad # {} PROVE FALSE
    OBVIOUS
  <2>1. PICK m \in Bad : \A j \in Bad : m <= j
    BY LeastNumber
  <2>2. m # i /\ m - 1 \notin Bad /\ m \in i + 1 .. n /\ m \in 1 .. n
    BY <2>1
  <2>3. f[m - 1] = f[i]
    BY <2>1, <2>2
  <2>4. f[m] = f[m - 1]
    BY <2>2, UptoIs
  <2> QED BY <2>1, <2>3, <2>4
<1>2. n \notin Bad
  BY <1>1
<1>3. f[n] = f[i]
  BY <1>2
<1> QED BY <1>3, UptoIs

NamesOf(nodes) == [i \in DOMAIN nodes |-> nodes[i].name]

LEMMA NamesMore ==
    ASSUME NEW nodes, IsList(nodes), NEW node
    PROVE  NamesOf(Append(nodes, node)) = Append(NamesOf(nodes), node.name)
<1>1. PICK n \in Nat : nodes = [i \in 1 .. n |-> nodes[i]]
  BY DEF IsList
<1> DEFINE S == {nodes[i] : i \in 1 .. n} \cup {node}
           T == {nodes[i].name : i \in 1 .. n} \cup {node.name}
           more == Append(nodes, node)
           names == NamesOf(nodes)
           named == Append(names, node.name)
<1>2. nodes \in Seq(S) /\ Len(nodes) = n /\ node \in S
  BY <1>1
<1>3. names = [i \in 1 .. n |-> nodes[i].name]
  BY <1>2 DEF NamesOf
<1>4. names \in Seq(T) /\ Len(names) = n /\ node.name \in T
  BY <1>3
<1>5. /\ DOMAIN more = 1 .. n + 1 /\ more[n + 1] = node
      /\ \A i \in 1 .. n : more[i] = nodes[i]
  <2> HIDE DEF S
  <2> QED BY <1>2
<1>6. named = [i \in 1 .. n + 1 |-> named[i]] /\ named[n + 1] = node.name
      /\ \A i \in 1 .. n : named[i] = names[i]
  <2> HIDE DEF T, names
  <2>1. named \in Seq(T) /\ Len(named) = n + 1
    BY <1>4
  <2>2. named[n + 1] = node.name /\ \A i \in 1 .. n : named[i] = names[i]
    BY <1>4
  <2> HIDE DEF named
  <2> QED BY <2>1, <2>2
<1> HIDE DEF more, named, names
<1>7. NamesOf(more) = [i \in 1 .. n + 1 |-> more[i].name]
  BY <1>5 DEF NamesOf
<1>8. \A i \in 1 .. n + 1 : more[i].name = named[i]
  <2>1. \A i \in 1 .. n + 1 : i = n + 1 \/ i \in 1 .. n
    OBVIOUS
  <2> QED BY <1>3, <1>5, <1>6, <2>1
<1> QED BY <1>6, <1>7, <1>8 DEF more, named, names

-----------------------------------------------------------------------------
(* Where a listing is in a directory: in the root, or in the m-th cluster  *)
(* of a chain.                                                             *)

InRoot(l, d) ==
    /\ l.max = Len(d.root) /\ l.idx \in 0 .. l.max
    /\ l.at = <<"root", l.idx + 1>>

InCluster(l, d, chain, m, k) ==
    /\ m \in 1 .. Len(chain)
    /\ l.max = m * k /\ l.idx \in (m - 1) * k .. m * k
    /\ l.at = <<"cluster", l.idx - ((m - 1) * k) + 1>>
    /\ l.buf = d.dirs[chain[m]]
    /\ IF l.idx < l.max THEN l.fat = chain[m] ELSE m = Len(chain)

At(l, d, c) ==
    IF c = 0 THEN InRoot(l, d)
    ELSE \E m \in 1 .. Len(Chain(d, c)) : InCluster(l, d, Chain(d, c), m, d.spc * FDBS)

(* Entry i of a table is entry j of the directory, and so is its name.     *)
SameName(d, c, t, i, j) ==
    /\ t[i] = Directory(d, c)[j] /\ i \in Nat \ {0}
    /\ NamesIntact(d, c) => DeadApart(t, i) /\ LongName(t, i) = LongName(Directory(d, c), j)

LEMMA InChain ==
    ASSUME NEW d \in Disks, NEW c \in DirStarts(d) \ {0}
    PROVE  /\ Len(Chain(d, c)) \in Nat \ {0}
           /\ \A i \in 1 .. Len(Chain(d, c)) : Chain(d, c)[i] \in DOMAIN d.dirs
           /\ Chain(d, c)[1] = c
           /\ \A i \in 2 .. Len(Chain(d, c)) : Chain(d, c)[i] = d.fat[Chain(d, c)[i - 1]]
           /\ d.fat[Chain(d, c)[Len(Chain(d, c))]] = FAT12_END
           /\ Len(Directory(d, c)) = Len(Chain(d, c)) * (d.spc * FDBS)
           /\ Len(Directory(d, c)) \in Nat
<1> DEFINE S == DOMAIN d.dirs
           chain == Chain(d, c)
           n == Len(chain)
           K == d.spc * FDBS
           all == Directory(d, c)
<1>1. chain \in Seq(S) /\ chain # <<>> /\ chain[1] = c
      /\ (\A i \in DOMAIN chain \ {1} : chain[i] = d.fat[chain[i - 1]])
      /\ d.fat[chain[n]] = FAT12_END
  BY DiskAssumption DEF IsDisk, IsChain
<1>2. InClusters(d, all, chain, K) /\ K \in Nat \ {0}
  BY DirectoryIs, ClusterSize
<1> HIDE DEF S, chain, all, K
<1>3. n \in Nat \ {0} /\ DOMAIN chain = 1 .. n /\ \A i \in 1 .. n : chain[i] \in S
  BY <1>1
<1>4. ASSUME NEW i \in 2 .. n PROVE chain[i] = d.fat[chain[i - 1]]
  <2>1. i \in 1 .. n /\ i # 1
    BY <1>3
  <2> QED BY <1>1, <1>3, <2>1
<1>5. Len(all) = n * K /\ n * K \in Nat
  <2> DEFINE b == n * K
  <2>1. b \in Nat /\ all = [j \in 1 .. b |-> all[j]]
    BY <1>2, <1>3 DEF InClusters
  <2> HIDE DEF b
  <2>2. Len(all) = b
    BY <2>1
  <2> QED BY <2>1, <2>2 DEF b
<1> QED BY <1>1, <1>3, <1>4, <1>5 DEF chain, n, S, all, K

LEMMA RootEntry ==
    ASSUME NEW d \in Disks, NEW l, InRoot(l, d), l.idx < l.max, l.max \in Nat
    PROVE  SameName(d, 0, d.root, l.at[2], l.idx + 1)
<1> DEFINE i == l.idx + 1
           n == Len(d.root)
<1>1. Directory(d, 0) = d.root
  BY DEF Directory
<1>2. l.at[2] = i /\ n \in Nat /\ i \in 1 .. n /\ i \in Nat \ {0}
  BY DEF InRoot
<1>3. DOMAIN d.root = 1 .. n
  <2>1. IsTable(d.root, n)
    BY DiskAssumption DEF IsDisk
  <2> QED BY <2>1, TableDomain
<1> HIDE DEF i, n
<1>4. ASSUME NamesIntact(d, 0) PROVE DeadApart(d.root, i)
  <2>1. ASSUME NEW j \in 1 .. i - 1 PROVE j \in DOMAIN d.root \ {Len(d.root)}
    <3>1. j \in 1 .. n /\ j # n
      BY <1>2
    <3> QED BY <1>3, <3>1 DEF n
  <2> QED BY <1>1, <1>4, <2>1 DEF NamesIntact, DeadApart
<1> QED BY <1>1, <1>2, <1>4 DEF SameName, i

LEMMA ClusterEntry ==
    ASSUME NEW d \in Disks, NEW c \in DirStarts(d) \ {0}, NEW l, NEW m,
           InCluster(l, d, Chain(d, c), m, d.spc * FDBS), l.idx < l.max
    PROVE  SameName(d, c, l.buf, l.at[2], l.idx + 1) /\ l.idx + 1 \in 1 .. Len(Directory(d, c))
<1> DEFINE K == d.spc * FDBS
           chain == Chain(d, c)
           n == Len(chain)
           all == Directory(d, c)
           a == (m - 1) * K
           i == l.idx - a + 1
           t == l.buf
<1>1. /\ n \in Nat \ {0} /\ K \in Nat \ {0} /\ InClusters(d, all, chain, K) /\ c >= 2
      /\ Len(all) = n * K /\ n * K \in Nat
  BY InChain, ClusterSize, DirectoryIs, StartsAreClusters
<1>2. /\ m \in 1 .. n /\ l.max = m * K /\ l.idx \in a .. m * K /\ l.at[2] = i
      /\ t = d.dirs[chain[m]]
  BY DEF InCluster
<1> HIDE DEF K, chain, all, n, t
<1>3. m * K = a + K /\ a \in Nat
  <2>1. m - 1 \in Nat
    BY <1>1, <1>2
  <2>2. a \in Nat
    BY <1>1, <2>1
  <2> QED BY <1>1, <1>2, <2>2
<1> HIDE DEF a
<1>4. i \in 1 .. K /\ a + i = l.idx + 1 /\ i \in Nat \ {0}
  <2> DEFINE top == m * K
  <2>1. l.idx \in a .. top /\ l.idx < top /\ top = a + K
    BY <1>2, <1>3
  <2> HIDE DEF top
  <2> QED BY <1>1, <1>3, <2>1
<1>5. \A j \in 1 .. K : all[a + j] = t[j]
  BY <1>1, <1>2 DEF InClusters, a, n
<1>6. \A j \in 1 .. K : a + j \in 1 .. Len(all)
  <2> SUFFICES ASSUME NEW j \in 1 .. K PROVE a + j \in 1 .. n * K
    BY <1>1
  <2> QED BY <1>1, <1>2, InTable DEF a
<1>7. DOMAIN all = 1 .. Len(all)
  <2>1. all = [b \in 1 .. n * K |-> all[b]]
    BY <1>1 DEF InClusters, n
  <2> QED BY <1>1, <2>1
<1> HIDE DEF i
<1>8. ASSUME NamesIntact(d, c) PROVE DeadApart(t, i)
  <2> SUFFICES ASSUME NEW j \in 1 .. i - 1, t[j].kind = "dead_lfn"
               PROVE  t[j + 1].kind \in {"dead_lfn", "deleted"}
    BY DEF DeadApart
  <2>1. j \in 1 .. K /\ j + 1 \in 1 .. K /\ a + (j + 1) = (a + j) + 1
    BY <1>1, <1>3, <1>4
  <2>2. a + j \in DOMAIN all \ {Len(all)}
    <3>1. a + j \in 1 .. Len(all) /\ (a + j) + 1 \in 1 .. Len(all)
      BY <1>6, <2>1
    <3>2. a + j # Len(all)
      BY <1>1, <1>3, <3>1
    <3> QED BY <1>7, <3>1, <3>2
  <2>3. all[a + j] = t[j] /\ all[(a + j) + 1] = t[j + 1]
    BY <1>5, <2>1
  <2> QED BY <1>8, <2>2, <2>3 DEF NamesIntact, all
<1>9. ASSUME NamesIntact(d, c) PROVE a = 0 \/ all[a].kind # "lfn"
  <2> SUFFICES ASSUME a # 0 PROVE all[a].kind # "lfn"
    OBVIOUS
  <2>1. a \in 1 .. Len(all)
    <3>1. a + 1 \in 1 .. Len(all)
      BY <1>1, <1>6
    <3> QED BY <1>1, <1>3, <3>1
  <2>2. a % K = 0
    <3>1. a \in Int /\ m - 1 \in Int /\ 0 \in 0 .. K - 1 /\ a = (m - 1) * K + 0
      <4>1. a = (m - 1) * K
        BY DEF a
      <4> QED BY <1>1, <1>2, <1>3, <4>1
    <3> QED BY <1>1, <3>1, Division
  <2> QED BY <1>1, <1>7, <1>9, <2>1, <2>2 DEF NamesIntact, all, K
<1>10. NamesIntact(d, c) => LongName(t, i) = LongName(all, a + i)
  <2>1. Shifted(t, all, a, i)
    <3>1. \A j \in 1 .. i : j \in 1 .. K
      BY <1>1, <1>4
    <3> QED BY <1>5, <3>1 DEF Shifted
  <2> QED BY <1>3, <1>4, <1>9, <2>1, ShiftedName
<1>11. t[i] = all[a + i] /\ a + i \in 1 .. Len(all)
  BY <1>4, <1>5, <1>6
<1> QED BY <1>2, <1>4, <1>8, <1>10, <1>11 DEF SameName, t, all, i

(* The name that is listed is the name by the definition of the format.    *)
LEMMA FileName ==
    ASSUME NEW d, NEW c, NEW t, NEW i, NEW j, SameName(d, c, t, i, j), NamesShown(d, c),
           j \in DOMAIN Directory(d, c), t[i].kind \in {"file", "dir"}
    PROVE  fat12_get_file_name(t, i) = Displayed(Directory(d, c), j)
<1> DEFINE all == Directory(d, c)
           e == all[j]
<1>1. NamesIntact(d, c) /\ (e.kind = "dir" => e.ext = <<>>)
  BY DEF NamesShown, ToSet
<1>2. DeadApart(t, i) /\ LongName(t, i) = LongName(all, j) /\ t[i] = e /\ i \in Nat \ {0}
  BY <1>1 DEF SameName
<1>3. LongBlocks(t, i) = LongName(all, j)
  BY <1>2, IntactName
<1> SUFFICES fat12_get_file_name(t, i) = Displayed(all, j)
  OBVIOUS
<1> HIDE DEF all
<1>4. CASE LongName(all, j) # <<>>
  BY <1>3, <1>4 DEF fat12_get_file_name, Displayed, FullName
<1>5. CASE LongName(all, j) = <<>> /\ e.kind = "dir"
  BY <1>1, <1>2, <1>3, <1>5 DEF fat12_get_file_name, Displayed, FullName, ShortName
<1>6. CASE LongName(all, j) = <<>> /\ e.kind = "file" /\ e.ext # <<>>
  BY <1>2, <1>3, <1>6 DEF fat12_get_file_name, Displayed, FullName, ShortName
<1>7. CASE LongName(all, j) = <<>> /\ e.kind = "file" /\ e.ext = <<>>
  <2>1. e.name \o <<".">> \o e.ext = e.name \o <<".">>
    BY <1>7 DEF all
  <2> QED BY <1>2, <1>3, <1>7, <2>1 DEF fat12_get_file_name, Displayed
<1> QED BY <1>2, <1>4, <1>5, <1>6, <1>7

(* On to the next entry, from a listing that may have a node more.         *)
LEMMA RootAdvance ==
    ASSUME NEW d, Len(d.root) \in Nat, NEW here, IsListing(here, {"scan"}, Nat), InRoot(here, d),
           here.idx < here.max, ListAdvance(here)
    PROVE  /\ listing'.pc = "scan" /\ listing'.idx = here.idx + 1
           /\ listing'.nodes = here.nodes /\ listing'.fail = here.fail
           /\ InRoot(listing', d)
<1> DEFINE step == [here EXCEPT !.idx = @ + 1]
<1>1. here.at[1] = "root" /\ here.at = <<"root", here.idx + 1>>
      /\ here.max = Len(d.root) /\ here.idx \in 0 .. here.max
  BY DEF InRoot
<1>2. listing' = [step EXCEPT !.at = Next1(@)]
  BY <1>1 DEF ListAdvance
<1>3. step.idx = here.idx + 1 /\ step.at = here.at /\ step.pc = "scan" /\ step.max = here.max
      /\ step.nodes = here.nodes /\ step.fail = here.fail /\ DOMAIN step = DOMAIN here
      /\ "at" \in DOMAIN here
  BY DEF IsListing
<1> HIDE DEF step
<1>4. listing'.idx = here.idx + 1 /\ listing'.at = Next1(here.at) /\ listing'.pc = "scan"
      /\ listing'.max = here.max /\ listing'.nodes = here.nodes /\ listing'.fail = here.fail
  BY <1>2, <1>3
<1>5. InRoot(listing', d)
  <2>1. here.idx + 1 \in 0 .. here.max
    BY <1>1
  <2>2. Next1(here.at) = <<"root", (here.idx + 1) + 1>>
    BY <1>1 DEF Next1
  <2> QED BY <1>1, <1>4, <2>1, <2>2 DEF InRoot
<1> QED BY <1>4, <1>5

LEMMA NextMultiple ==
    ASSUME NEW m \in Nat \ {0}, NEW k \in Nat
    PROVE  /\ (m - 1) * k \in Nat /\ m * k \in Nat
           /\ m * k = (m - 1) * k + k /\ (m + 1) * k = m * k + k
<1>1. m - 1 \in Nat
  OBVIOUS
<1>2. (m - 1) * k \in Nat /\ m * k \in Nat
  BY <1>1
<1>3. m * k = (m - 1) * k + k
  OBVIOUS
<1>4. (m + 1) * k = m * k + k
  OBVIOUS
<1> QED BY <1>2, <1>3, <1>4

LEMMA ClusterAdvance ==
    ASSUME Mounted, info # NULL, disk.resv = 1, NEW c \in DirStarts(disk) \ {0}, NEW here,
           IsListing(here, {"scan"}, Nat), here.idx < here.max, ListAdvance(here), ~ trouble',
           NEW m, InCluster(here, disk, Chain(disk, c), m, disk.spc * FDBS)
    PROVE  /\ listing'.pc = "scan" /\ listing'.idx = here.idx + 1
           /\ listing'.nodes = here.nodes /\ listing'.fail = here.fail
           /\ \E q \in 1 .. Len(Chain(disk, c)) :
                 InCluster(listing', disk, Chain(disk, c), q, disk.spc * FDBS)
<1> DEFINE K == disk.spc * FDBS
           chain == Chain(disk, c)
           n == Len(chain)
           a == (m - 1) * K
           f == fat12_get_next_fat(here.fat)
           step == [here EXCEPT !.idx = @ + 1]
           Same == listing' = [step EXCEPT !.at = Next1(@)]
           Over == listing' = [step EXCEPT !.at = Next1(@), !.fat = f]
           Onward(buf) == listing' = [step EXCEPT !.fat = f, !.buf = buf, !.at = <<"cluster", 1>>,
                                                  !.max = MoreEntries(@)]
<1>1. disk \in Disks /\ info.spc = disk.spc /\ info.fat = FatBytes(disk)
  BY MountedTables
<1>2. /\ n \in Nat \ {0} /\ K \in Nat \ {0}
      /\ \A i \in 1 .. n : chain[i] \in DOMAIN disk.dirs
      /\ \A i \in 2 .. n : chain[i] = disk.fat[chain[i - 1]]
      /\ disk.fat[chain[n]] = FAT12_END
  BY <1>1, InChain, ClusterSize
<1>3. /\ m \in 1 .. n /\ here.max = m * K /\ here.idx \in a .. m * K
      /\ here.at = <<"cluster", here.idx - a + 1>> /\ here.buf = disk.dirs[chain[m]]
      /\ here.fat = chain[m]
  BY DEF InCluster
<1>4. here.at[1] # "root"
  BY <1>3
<1>5. \/ here.idx + 1 < here.max /\ Same
      \/ /\ ~ (here.idx + 1 < here.max) /\ f = FAT12_END /\ Over
      \/ /\ ~ (here.idx + 1 < here.max) /\ f # FAT12_END
         /\ \E buf \in fat12_rw_cluster(f) :
               Tried(buf) /\ (buf = <<>> \/ Onward(buf))
  BY <1>4, Zenon DEF ListAdvance, step
<1>6. step.idx = here.idx + 1 /\ step.at = here.at /\ step.pc = "scan" /\ step.max = here.max
      /\ step.nodes = here.nodes /\ step.fail = here.fail /\ step.buf = here.buf
      /\ step.fat = here.fat /\ DOMAIN step = DOMAIN here
      /\ {"at", "fat", "buf", "max", "pc", "idx", "nodes", "fail"} \subseteq DOMAIN here
  BY DEF IsListing
<1> HIDE DEF step, f
<1> DEFINE Moved == listing'.pc = "scan" /\ listing'.idx = here.idx + 1
                    /\ listing'.nodes = here.nodes /\ listing'.fail = here.fail
<1>7. /\ Same => /\ Moved /\ listing'.at = Next1(here.at) /\ listing'.buf = here.buf
                 /\ listing'.max = here.max /\ listing'.fat = here.fat
      /\ Over => /\ Moved /\ listing'.at = Next1(here.at) /\ listing'.buf = here.buf
                 /\ listing'.max = here.max
      /\ \A buf : Onward(buf) =>
                 /\ Moved /\ listing'.at = <<"cluster", 1>> /\ listing'.buf = buf
                 /\ listing'.max = MoreEntries(here.max) /\ listing'.fat = f
  <2>1. Same => /\ Moved /\ listing'.at = Next1(here.at) /\ listing'.buf = here.buf
                /\ listing'.max = here.max /\ listing'.fat = here.fat
    BY <1>6
  <2>2. Over => /\ Moved /\ listing'.at = Next1(here.at) /\ listing'.buf = here.buf
                /\ listing'.max = here.max
    BY <1>6
  <2>3. ASSUME NEW buf, Onward(buf)
        PROVE  /\ Moved /\ listing'.at = <<"cluster", 1>> /\ listing'.buf = buf
               /\ listing'.max = MoreEntries(here.max) /\ listing'.fat = f
    BY <1>6, <2>3
  <2> QED BY <2>1, <2>2, <2>3
<1> HIDE DEF Same, Over, Onward, Moved
<1>8. m * K = a + K /\ a \in Nat /\ (m + 1) * K = m * K + K /\ ((m + 1) - 1) * K = m * K
      /\ m * K \in Nat
  <2>1. m \in Nat \ {0} /\ (m + 1) - 1 = m /\ K \in Nat
    BY <1>2, <1>3
  <2> HIDE DEF K
  <2> QED BY <2>1, NextMultiple
<1>9. f = disk.fat[chain[m]]
  <2>1. chain[m] \in DOMAIN disk.fat
    BY <1>1, <1>2, <1>3, DiskAssumption DEF IsDisk
  <2> QED BY <1>1, <1>3, <2>1, LinkFollowed DEF f
<1>10. Next1(here.at) = <<"cluster", (here.idx + 1) - a + 1>>
  <2> HIDE DEF a
  <2>1. (here.idx - a + 1) + 1 = (here.idx + 1) - a + 1
    BY <1>2, <1>3, <1>8
  <2> QED BY <1>3, <2>1 DEF Next1
<1> HIDE DEF a, K, chain, n
<1> DEFINE In(q) == InCluster(listing', disk, chain, q, K)
<1>11. ASSUME here.idx + 1 < here.max, Same
       PROVE  Moved /\ \E q \in 1 .. n : In(q)
  <2>1. here.idx + 1 \in a .. m * K
    BY <1>3, <1>8, <1>11
  <2>2. In(m)
    BY <1>3, <1>7, <1>10, <1>11, <2>1 DEF InCluster, Moved, a, n
  <2> QED BY <1>3, <1>7, <1>11, <2>2
<1>12. ASSUME ~ (here.idx + 1 < here.max), f = FAT12_END, Over
       PROVE  Moved /\ \E q \in 1 .. n : In(q)
  <2>1. here.idx + 1 = m * K /\ here.idx + 1 \in a .. m * K
    BY <1>2, <1>3, <1>8, <1>12
  <2>2. m = n
    <3> SUFFICES ASSUME m # n PROVE FALSE
      OBVIOUS
    <3>1. m + 1 \in 2 .. n /\ m + 1 \in 1 .. n /\ (m + 1) - 1 = m
      BY <1>2, <1>3
    <3>2. chain[m + 1] = disk.fat[chain[(m + 1) - 1]] /\ chain[m + 1] \in DOMAIN disk.dirs
      BY <1>2, <3>1
    <3>3. FAT12_END \in DOMAIN disk.dirs
      BY <1>9, <1>12, <3>1, <3>2
    <3>4. DOMAIN disk.dirs \subseteq 0 .. FAT12_END - 1 /\ FAT12_END \in Int
      <4>1. FAT12_END \in Int
        BY FormatAssumption DEF FAT12_END, BYTE
      <4> QED BY <1>1, <4>1, DiskAssumption DEF IsDisk
    <3> HIDE DEF FAT12_END
    <3> QED BY <3>3, <3>4
  <2>3. In(m)
    <3>1. ~ (here.idx + 1 < m * K)
      BY <1>8, <2>1
    <3> QED BY <1>3, <1>7, <1>10, <1>12, <2>1, <2>2, <3>1 DEF InCluster, Moved, a, n
  <2> QED BY <1>3, <1>7, <1>12, <2>3
<1>13. ASSUME ~ (here.idx + 1 < here.max), f # FAT12_END,
              NEW buf \in fat12_rw_cluster(f), buf # <<>>, Onward(buf)
       PROVE  Moved /\ \E q \in 1 .. n : In(q)
  <2>1. here.idx + 1 = m * K
    <3> HIDE DEF In
    <3> DEFINE top == m * K
    <3>1. top \in Nat /\ a \in Nat /\ here.max = top /\ here.idx \in a .. top
      BY <1>3, <1>8
    <3> HIDE DEF top
    <3> QED BY <1>13, <3>1 DEF top
  <2>2. m # n
    BY <1>2, <1>9, <1>13
  <2>3. m + 1 \in 2 .. n /\ m + 1 \in 1 .. n /\ (m + 1) - 1 = m
    BY <1>2, <1>3, <2>2
  <2>4. chain[m + 1] = f /\ f \in DOMAIN disk.dirs
    <3>1. chain[m + 1] = disk.fat[chain[(m + 1) - 1]] /\ chain[m + 1] \in DOMAIN disk.dirs
      BY <1>2, <2>3
    <3> QED BY <1>9, <2>3, <3>1
  <2>5. buf = disk.dirs[f]
    BY <1>13, <2>4, ClusterRead
  <2>6. MoreEntries(here.max) = (m + 1) * K
    <3>1. ClusterEntries = K
      <4>1. disk.spc \in Nat /\ FDBS \in Nat
        BY <1>1, DiskSizes, FormatAssumption
      <4>2. disk.spc * FDBS = FDBS * disk.spc
        BY <4>1
      <4> QED BY <1>1, <4>2 DEF ClusterEntries, K
    <3> QED BY <1>3, <1>8, <3>1 DEF MoreEntries
  <2> DEFINE b == ((m + 1) - 1) * K
             e == (m + 1) * K
  <2>7. b = here.idx + 1 /\ e = b + K /\ b \in Nat
    BY <1>8, <2>1
  <2> HIDE DEF b, e
  <2>8. here.idx + 1 \in b .. e /\ (here.idx + 1) - b + 1 = 1 /\ here.idx + 1 < e
    BY <1>2, <2>7
  <2>9. In(m + 1)
    BY <1>7, <1>13, <2>3, <2>4, <2>5, <2>6, <2>8 DEF InCluster, Moved, b, e, n
  <2> QED BY <1>7, <1>13, <2>3, <2>9
<1>14. \A buf : Tried(buf) => buf # <<>>
  BY DEF Tried
<1>15. Moved /\ \E q \in 1 .. n : In(q)
  <2> HIDE DEF In
  <2> QED BY <1>5, <1>11, <1>12, <1>13, <1>14
<1> QED BY <1>15 DEF Moved, n, chain, K

(* What a listing is about, and when it is bound to be right.              *)
Begun    == Resolve(disk, last.path, last.dir)
Contents == Directory(disk, Begun)

Shows ==
    ~ trouble /\ IF Comps = <<>> THEN disk.resv = 1 /\ Begun \in DirStarts(disk) \cup {0}
                 ELSE /\ Searchable(disk, last.path, last.dir) /\ ~ last.path.abs
                      /\ Begun \in (DirStarts(disk) \ {0}) \cup {NOWHERE}

(* The list has the names of the entries that were passed, none of which   *)
(* ends the directory.                                                     *)
Lists(l) ==
    /\ \A j \in 1 .. l.idx : Contents[j].kind # "unused"
    /\ NamesShown(disk, Begun) => NamesOf(l.nodes) = Upto(Contents)[l.idx]

Scanned ==
    /\ Begun \in DirStarts(disk) \cup {0} /\ ~ listing.fail
    /\ At(listing, disk, Begun) /\ Lists(listing)

NothingListed == listing.idx = 0 /\ listing.nodes = <<>> /\ ~ listing.fail

EndsWith ==
    IF listing.fail THEN Begun = NOWHERE
    ELSE Begun # NOWHERE /\ (NamesShown(disk, Begun) => NamesOf(listing.nodes) = Shown(Contents))

Listed ==
    /\ listing.pc = "enter" => NothingListed /\ listing.at = <<"root", 1>>
    /\ listing.pc = "resolve" => NothingListed /\ Comps # <<>>
    /\ listing.pc = "load" =>
          NothingListed /\ listing.dir = Begun /\ Begun \in DirStarts(disk) \ {0}
    /\ listing.pc = "scan" => Scanned
    /\ listing.pc = "end" => EndsWith

ListInv ==
    /\ search.pc # "idle" /\ listing.pc = "idle" => last.op = "search"
    /\ listing.pc # "idle" /\ Shows => Listed
    /\ ListComplete

(* The entry a listing has come to, or the end of the directory.           *)
LEMMA EntryThere ==
    ASSUME NEW d \in Disks, NEW c \in DirStarts(d) \cup {0}, NEW l, At(l, d, c),
           NEW t, t = IF l.at[1] = "root" THEN d.root ELSE l.buf
    PROVE  /\ l.max \in Nat /\ l.idx \in 0 .. l.max /\ Len(Directory(d, c)) \in Nat
           /\ l.idx \in 0 .. Len(Directory(d, c))
           /\ l.idx < l.max => /\ SameName(d, c, t, l.at[2], l.idx + 1)
                               /\ l.idx + 1 \in 1 .. Len(Directory(d, c))
           /\ ~ (l.idx < l.max) => l.idx = Len(Directory(d, c))
<1>1. CASE c = 0
  <2>1. InRoot(l, d) /\ Directory(d, c) = d.root
    BY <1>1 DEF At, Directory
  <2>2. Len(d.root) \in Nat
    <3>1. IsTable(d.root, Len(d.root))
      BY DiskAssumption DEF IsDisk
    <3> QED BY <3>1, TableDomain
  <2>3. l.max = Len(d.root) /\ l.idx \in 0 .. l.max /\ t = d.root
    BY <2>1 DEF InRoot
  <2>4. ASSUME l.idx < l.max PROVE SameName(d, c, t, l.at[2], l.idx + 1)
    BY <1>1, <2>1, <2>2, <2>3, <2>4, RootEntry
  <2> QED BY <2>1, <2>2, <2>3, <2>4
<1>2. CASE c # 0
  <2> DEFINE chain == Chain(d, c)
             n == Len(chain)
             K == d.spc * FDBS
             all == Directory(d, c)
  <2>1. /\ n \in Nat \ {0} /\ K \in Nat \ {0} /\ Len(all) = n * K /\ Len(all) \in Nat
    BY <1>2, InChain, ClusterSize
  <2>2. PICK m \in 1 .. n : InCluster(l, d, chain, m, K)
    BY <1>2 DEF At
  <2>3. /\ l.max = m * K /\ l.idx \in (m - 1) * K .. m * K /\ t = l.buf
        /\ ~ (l.idx < l.max) => m = n
    BY <2>2 DEF InCluster
  <2>4. ASSUME l.idx < l.max
        PROVE  SameName(d, c, t, l.at[2], l.idx + 1) /\ l.idx + 1 \in 1 .. Len(all)
    BY <1>2, <2>2, <2>3, <2>4, ClusterEntry
  <2> HIDE DEF chain, n, K, all
  <2> DEFINE low == (m - 1) * K
             top == m * K
  <2>5. low \in Nat /\ top \in Nat
    <3>1. m - 1 \in Nat /\ m \in Nat
      BY <2>1
    <3> QED BY <2>1, <3>1
  <2> HIDE DEF low
  <2>6. l.max \in Nat /\ l.idx \in 0 .. l.max
    <3> HIDE DEF top
    <3>1. l.max = top /\ l.idx \in low .. top
      BY <2>3 DEF low, top
    <3> QED BY <2>5, <3>1
  <2>7. ASSUME ~ (l.idx < l.max) PROVE l.idx = Len(all)
    <3>1. l.idx = l.max
      BY <2>6, <2>7
    <3>2. m = n
      BY <2>3, <2>7
    <3> QED BY <2>1, <2>3, <3>1, <3>2
  <2>8. l.idx \in 0 .. Len(all)
    <3>1. CASE l.idx < l.max
      BY <2>1, <2>4, <2>6, <3>1
    <3>2. CASE ~ (l.idx < l.max)
      BY <2>1, <2>7, <3>2
    <3> QED BY <3>1, <3>2
  <2> QED BY <2>1, <2>4, <2>6, <2>7, <2>8 DEF all
<1> QED BY <1>1, <1>2

(* With the last entry, or before one that is unused, the list is whole.   *)
LEMMA ListWhole ==
    ASSUME NEW d \in Disks, NEW c \in DirStarts(d) \cup {0}, NEW i \in 0 .. Len(Directory(d, c)),
           Len(Directory(d, c)) \in Nat,
           i = Len(Directory(d, c)) \/ Directory(d, c)[i + 1].kind = "unused"
    PROVE  Upto(Directory(d, c))[i] = Shown(Directory(d, c))
<1> DEFINE all == Directory(d, c)
           n == Len(all)
<1> HIDE DEF all
<1> SUFFICES ASSUME NEW j \in i + 1 .. n PROVE ~ Visible(all, j)
  BY NothingMore DEF all
<1>1. all[i + 1].kind = "unused" /\ i + 1 \in 1 .. j
  BY DEF all
<1> QED BY <1>1 DEF Visible

(* One more entry: one that is shown has added its name.                   *)
Skipped(entry) == entry.kind \in {"deleted", "lfn", "dead_lfn"}

NameAdded(d, c, t, k, i) ==
    NamesShown(d, c) => Upto(Directory(d, c))[i + 1] =
                           Append(Upto(Directory(d, c))[i], fat12_get_file_name(t, k))

LEMMA OneMoreName ==
    ASSUME NEW d \in Disks, NEW c \in DirStarts(d) \cup {0}, NEW i \in Nat,
           i + 1 \in 1 .. Len(Directory(d, c)), Len(Directory(d, c)) \in Nat,
           \A j \in 1 .. i : Directory(d, c)[j].kind # "unused",
           NEW t, NEW k, SameName(d, c, t, k, i + 1), t[k].kind # "unused"
    PROVE  /\ \A j \in 1 .. i + 1 : Directory(d, c)[j].kind # "unused"
           /\ Skipped(t[k]) => Upto(Directory(d, c))[i + 1] = Upto(Directory(d, c))[i]
           /\ ~ Skipped(t[k]) => NameAdded(d, c, t, k, i)
<1> DEFINE all == Directory(d, c)
           upto == Upto(all)
           name == fat12_get_file_name(t, k)
<1>1. t[k] = all[i + 1] /\ t[k].kind \in Kinds
  <2>1. t[k] = all[i + 1]
    BY DEF SameName
  <2>2. all[i + 1] \in Entries(d)
    BY DirectoryBegins DEF BeginsWith
  <2> QED BY <2>1, <2>2, DiskAssumption DEF IsDisk
<1>2. upto[i + 1] = IF Visible(all, i + 1) THEN Append(upto[i], Displayed(all, i + 1)) ELSE upto[i]
  <2>1. (i + 1) - 1 = i
    OBVIOUS
  <2> QED BY <2>1, UptoIs
<1> HIDE DEF all, upto
<1>3. ASSUME NEW j \in 1 .. i + 1 PROVE all[j].kind # "unused"
  <2>1. CASE j = i + 1
    BY <1>1, <2>1
  <2>2. CASE j \in 1 .. i
    BY <2>2 DEF all
  <2> QED BY <2>1, <2>2
<1>4. ASSUME Skipped(t[k]) PROVE upto[i + 1] = upto[i]
  BY <1>1, <1>2, <1>4 DEF Visible, Skipped
<1>5. ASSUME ~ Skipped(t[k]), NamesShown(d, c)
      PROVE  upto[i + 1] = Append(upto[i], name)
  <2>1. t[k].kind \in {"file", "dir"}
    BY <1>1, <1>5 DEF Kinds, Skipped
  <2>2. Visible(all, i + 1)
    BY <1>1, <1>3, <2>1 DEF Visible
  <2>3. name = Displayed(all, i + 1)
    BY <1>5, <2>1, FileName DEF all
  <2> QED BY <1>2, <2>2, <2>3
<1>6. ~ Skipped(t[k]) => NameAdded(d, c, t, k, i)
  BY <1>5 DEF NameAdded, all, upto
<1> QED BY <1>3, <1>4, <1>6 DEF all, upto

LEMMA Advanced ==
    ASSUME Mounted, info # NULL, disk.resv = 1, NEW c \in DirStarts(disk) \cup {0}, NEW here,
           IsListing(here, {"scan"}, Nat), At(here, disk, c), here.idx < here.max,
           ListAdvance(here), ~ trouble'
    PROVE  /\ listing'.pc = "scan" /\ listing'.idx = here.idx + 1
           /\ listing'.nodes = here.nodes /\ listing'.fail = here.fail
           /\ At(listing', disk, c)
<1>1. disk \in Disks
  BY DEF Mounted
<1>2. CASE c = 0
  <2>1. InRoot(here, disk)
    BY <1>2 DEF At
  <2>2. Len(disk.root) \in Nat
    <3>1. IsTable(disk.root, Len(disk.root))
      BY <1>1, DiskAssumption DEF IsDisk
    <3> QED BY <3>1, TableDomain
  <2> QED BY <1>2, <2>1, <2>2, RootAdvance DEF At
<1>3. CASE c # 0
  <2>1. PICK m \in 1 .. Len(Chain(disk, c)) : InCluster(here, disk, Chain(disk, c), m, disk.spc * FDBS)
    BY <1>3 DEF At
  <2>2. /\ listing'.pc = "scan" /\ listing'.idx = here.idx + 1
        /\ listing'.nodes = here.nodes /\ listing'.fail = here.fail
        /\ \E q \in 1 .. Len(Chain(disk, c)) :
              InCluster(listing', disk, Chain(disk, c), q, disk.spc * FDBS)
    BY <1>3, <2>1, ClusterAdvance
  <2> QED BY <1>3, <2>2 DEF At
<1> QED BY <1>2, <1>3

(* What is known of a listing as it goes on.                               *)
LEMMA ListGoesOn ==
    ASSUME ListInv, listing.pc # "idle", listing'.pc # "idle", UNCHANGED <<disk, last>>,
           trouble => trouble', Shows /\ Shows' => Listed'
    PROVE  ListInv'
<1>1. Shows' => Shows
  BY DEF Shows, Comps, Begun
<1> QED BY <1>1 DEF ListInv, ListComplete, Idle

LEMMA ListFacts ==
    ASSUME HeapInv, Mounted, SearchInv, ListInv, listing.pc # "idle", Shows
    PROVE  /\ IsListing(listing, ListPlaces, Nat) /\ IsList(listing.nodes)
           /\ Listed /\ info # NULL /\ disk \in Disks /\ disk.resv = 1
           /\ info.root = disk.root /\ info.spc = disk.spc
<1>1. /\ IsListing(listing, ListPlaces, Nat) /\ IsList(listing.nodes) /\ Listed /\ info # NULL
  BY DEF HeapInv, Places, SearchInv, Called, Idle, ListInv
<1>2. disk \in Disks /\ info.root = disk.root /\ info.spc = disk.spc
  BY <1>1, MountedTables
<1>3. disk.resv = 1
  BY DEF Shows, Searchable
<1> QED BY <1>1, <1>2, <1>3

(* With nothing listed yet a scan may begin.                               *)
LEMMA NothingYet ==
    ASSUME NEW d \in Disks, NEW c \in DirStarts(d) \cup {0}
    PROVE  NamesOf(<<>>) = Upto(Directory(d, c))[0]
<1>1. Len(Directory(d, c)) \in Nat
  BY DirectoryBegins DEF BeginsWith
<1>2. Upto(Directory(d, c))[0] = <<>>
  BY <1>1, UptoIs
<1>3. NamesOf(<<>>) = <<>>
  BY DEF NamesOf
<1> QED BY <1>2, <1>3

LEMMA ScanStarts ==
    ASSUME Begun \in DirStarts(disk) \cup {0}, disk \in Disks, UNCHANGED <<disk, last>>,
           NothingListed', At(listing', disk, Begun), listing'.pc = "scan"
    PROVE  Listed'
<1>1. Begun' = Begun /\ Contents' = Contents
  BY DEF Begun, Contents
<1>2. NamesOf(listing'.nodes) = Upto(Contents)[0] /\ listing'.idx = 0 /\ ~ listing'.fail
  BY NothingYet DEF NothingListed, Contents
<1>3. Lists(listing)'
  BY <1>1, <1>2 DEF Lists
<1> QED BY <1>1, <1>2, <1>3 DEF Listed, Scanned

LEMMA LoadLists == ASSUME HeapInv, Mounted, SearchInv, ListInv, ListLoad PROVE ListInv'
<1>1. listing.pc = "load" /\ UNCHANGED <<disk, info, last, search>>
  BY DEF ListLoad, fixed, caller
<1>2. PICK buf \in fat12_rw_cluster(listing.dir) :
         /\ trouble' = (trouble \/ buf = <<>>)
         /\ buf # <<>> => listing' = [listing EXCEPT !.pc = "scan", !.at = <<"cluster", 1>>, !.buf = buf,
                                                     !.fat = listing.dir, !.max = ClusterEntries]
  BY DEF ListLoad, Tried
<1>3. ASSUME Shows, Shows' PROVE Listed'
  <2> DEFINE c == listing.dir
             chain == Chain(disk, c)
             K == disk.spc * FDBS
  <2>1. /\ IsListing(listing, ListPlaces, Nat) /\ Listed /\ info # NULL /\ disk \in Disks
        /\ disk.resv = 1 /\ info.spc = disk.spc
    BY <1>1, <1>3, ListFacts
  <2>2. NothingListed /\ c = Begun /\ c \in DirStarts(disk) \ {0}
    BY <1>1, <2>1 DEF Listed
  <2>3. buf # <<>>
    BY <1>2, <1>3 DEF Shows
  <2>4. c \in DOMAIN disk.dirs /\ Len(chain) \in Nat \ {0} /\ chain[1] = c /\ K \in Nat \ {0}
    BY <2>1, <2>2, StartsAreClusters, InChain, ClusterSize
  <2>5. buf = disk.dirs[c]
    BY <2>1, <2>3, <2>4, ClusterRead
  <2>6. ClusterEntries = K
    <3>1. disk.spc \in Nat /\ FDBS \in Nat
      BY <2>1, DiskSizes, FormatAssumption
    <3>2. disk.spc * FDBS = FDBS * disk.spc
      BY <3>1
    <3> QED BY <2>1, <3>2 DEF ClusterEntries
  <2>7. /\ listing'.pc = "scan" /\ listing'.at = <<"cluster", 1>> /\ listing'.buf = buf
        /\ listing'.fat = c /\ listing'.max = K /\ listing'.idx = listing.idx
        /\ listing'.nodes = listing.nodes /\ listing'.fail = listing.fail
    BY <1>2, <2>1, <2>3, <2>6 DEF IsListing
  <2> HIDE DEF c, chain, K
  <2>8. InCluster(listing', disk, chain, 1, K)
    <3>1. listing'.idx = 0
      BY <2>2, <2>7 DEF NothingListed
    <3>2. (1 - 1) * K = 0 /\ 1 * K = K
      BY <2>4
    <3>3. listing'.idx - (1 - 1) * K + 1 = 1
      BY <3>1, <3>2
    <3> QED BY <2>4, <2>5, <2>7, <3>1, <3>2, <3>3 DEF InCluster
  <2>9. At(listing', disk, Begun)
    BY <2>2, <2>4, <2>8 DEF At, chain, K
  <2>10. NothingListed'
    BY <2>2, <2>7 DEF NothingListed
  <2> QED BY <1>1, <2>1, <2>2, <2>7, <2>9, <2>10, ScanStarts
<1>4. listing'.pc # "idle" /\ (trouble => trouble')
  BY <1>2, ListPlace
<1> QED BY <1>1, <1>3, <1>4, ListGoesOn

LEMMA ResolvedLists == ASSUME HeapInv, Mounted, SearchInv, ListInv, ListResolved PROVE ListInv'
<1>1. /\ listing.pc = "resolve" /\ search.pc = "return" /\ UNCHANGED <<disk, info, last, trouble>>
      /\ IF search.match = 1
         THEN listing' = [listing EXCEPT !.pc = "load", !.dir = search.start]
         ELSE listing' = [ListFails EXCEPT !.block = NONE]
  BY DEF ListResolved, fixed, caller
<1>2. IsListing(listing, ListPlaces, Nat)
  BY DEF HeapInv, Places
<1>3. /\ search.match = 1 => /\ listing'.pc = "load" /\ listing'.dir = search.start
                             /\ listing'.idx = listing.idx /\ listing'.nodes = listing.nodes
                             /\ listing'.fail = listing.fail
      /\ search.match # 1 => listing'.pc = "end" /\ listing'.fail = TRUE
  <2>1. CASE search.match = 1
    BY <1>1, <1>2, <2>1 DEF IsListing
  <2>2. CASE search.match # 1
    BY <1>1, <1>2, <2>2 DEF IsListing, ListFails
  <2> QED BY <2>1, <2>2
<1>4. ASSUME Shows, Shows' PROVE Listed'
  <2>1. NothingListed /\ Comps # <<>>
    BY <1>1, <1>4, ListFacts DEF Listed
  <2>2. Sound /\ Begun \in (DirStarts(disk) \ {0}) \cup {NOWHERE}
    BY <1>4, <2>1 DEF Shows, Sound
  <2>3. EndsAt(search.start)
    BY <1>1, <2>2, SearchFacts DEF OnTheWay
  <2>4. Begun = Here(Len(Comps)) /\ Begun' = Begun
    BY <1>1 DEF Begun, Resolve, Here, Comps
  <2>5. CASE search.match = 1
    <3>1. search.start = Begun /\ Begun \in DirStarts(disk) \ {0}
      BY <2>2, <2>3, <2>4, <2>5 DEF EndsAt, NOWHERE
    <3>2. NothingListed'
      BY <1>3, <2>1, <2>5 DEF NothingListed
    <3> QED BY <1>1, <1>3, <2>4, <2>5, <3>1, <3>2 DEF Listed
  <2>6. CASE search.match # 1
    BY <1>3, <2>3, <2>4, <2>6 DEF Listed, EndsAt, EndsWith
  <2> QED BY <2>5, <2>6
<1>5. listing'.pc # "idle"
  BY <1>3
<1> QED BY <1>1, <1>4, <1>5, ListGoesOn

LEMMA EnterLists == ASSUME HeapInv, Mounted, SearchInv, ListInv, ListEnter PROVE ListInv'
<1> DEFINE open == [listing EXCEPT !.block = Fresh(heap)]
           empty == listing.path.comps = <<>>
           root == listing.path.abs \/ (empty /\ listing.dir < 2)
<1>1. listing.pc = "enter" /\ UNCHANGED <<disk, info, last>>
  BY DEF ListEnter, fixed, caller
<1>2. \/ listing' = ListFails /\ trouble' = TRUE
      \/ root /\ listing' = [open EXCEPT !.pc = "scan", !.max = Len(info.root)] /\ UNCHANGED trouble
      \/ ~ root /\ empty /\ listing' = [open EXCEPT !.pc = "load"] /\ UNCHANGED trouble
      \/ ~ empty /\ listing' = [open EXCEPT !.pc = "resolve"] /\ UNCHANGED trouble
  BY Zenon DEF ListEnter, open, root, empty
<1>3. IsListing(listing, ListPlaces, Nat)
  BY DEF HeapInv, Places
<1>4. /\ open.idx = listing.idx /\ open.nodes = listing.nodes /\ open.fail = listing.fail
      /\ open.at = listing.at /\ open.dir = listing.dir
      /\ DOMAIN open = DOMAIN listing /\ {"pc", "max"} \subseteq DOMAIN listing
      /\ (listing' = ListFails => listing'.pc = "end")
  BY <1>3 DEF IsListing, ListFails
<1> HIDE DEF open
<1> DEFINE Kept == listing'.idx = listing.idx /\ listing'.nodes = listing.nodes
                   /\ listing'.fail = listing.fail /\ listing'.at = listing.at
                   /\ listing'.dir = listing.dir
<1>5. \/ listing'.pc = "end" /\ trouble' = TRUE
      \/ root /\ listing'.pc = "scan" /\ listing'.max = Len(info.root) /\ Kept /\ UNCHANGED trouble
      \/ ~ root /\ empty /\ listing'.pc = "load" /\ Kept /\ UNCHANGED trouble
      \/ ~ empty /\ listing'.pc = "resolve" /\ Kept /\ UNCHANGED trouble
  <2> HIDE DEF root, empty
  <2> DEFINE n == Len(info.root)
  <2> HIDE DEF n
  <2>1. listing' = [open EXCEPT !.pc = "scan", !.max = n] =>
           listing'.pc = "scan" /\ listing'.max = n /\ Kept
    BY <1>4
  <2>2. listing' = [open EXCEPT !.pc = "load"] => listing'.pc = "load" /\ Kept
    BY <1>4
  <2>3. listing' = [open EXCEPT !.pc = "resolve"] => listing'.pc = "resolve" /\ Kept
    BY <1>4
  <2> HIDE DEF Kept
  <2> QED BY <1>2, <1>4, <2>1, <2>2, <2>3 DEF n
<1>6. listing.path = last.path /\ listing.dir = last.dir /\ IsPath(last.path)
  BY <1>1 DEF SearchInv, Called, Idle
<1>7. empty <=> Comps = <<>>
  BY <1>6 DEF Comps
<1>8. empty => Begun = IF root THEN 0 ELSE listing.dir
  <2> SUFFICES ASSUME empty PROVE Begun = IF root THEN 0 ELSE listing.dir
    OBVIOUS
  <2>1. Len(last.path.comps) = 0
    BY <1>6
  <2>2. Begun = Walk(disk, last.path, last.dir)[0]
    BY <2>1 DEF Begun, Resolve
  <2>3. Walk(disk, last.path, last.dir)[0] = IF last.path.abs \/ last.dir < 2 THEN 0 ELSE last.dir
    BY <2>1, WalkIs DEF IsWalk
  <2> QED BY <1>6, <2>2, <2>3
<1>9. ASSUME Shows, Shows' PROVE Listed'
  <2>1. /\ NothingListed /\ listing.at = <<"root", 1>> /\ disk \in Disks /\ info.root = disk.root
    BY <1>1, <1>9, ListFacts DEF Listed
  <2>2. ~ trouble' /\ (~ empty => ~ listing.path.abs)
        /\ (empty => Begun \in DirStarts(disk) \cup {0})
    BY <1>6, <1>7, <1>9 DEF Shows
  <2>3. Begun' = Begun /\ Comps' = Comps
    BY <1>1 DEF Begun, Comps
  <2>4. Kept => NothingListed'
    BY <2>1 DEF NothingListed
  <2>5. ASSUME root, listing'.pc = "scan", listing'.max = Len(info.root), Kept PROVE Listed'
    <3>1. empty /\ Begun = 0
      BY <1>8, <2>2, <2>5
    <3>2. Len(disk.root) \in Nat
      <4>1. IsTable(disk.root, Len(disk.root))
        BY <2>1, DiskAssumption DEF IsDisk
      <4> QED BY <4>1, TableDomain
    <3>3. listing'.idx = 0 /\ listing'.at = <<"root", 1>> /\ listing'.max = Len(disk.root)
      BY <2>1, <2>5 DEF NothingListed
    <3>4. InRoot(listing', disk)
      BY <3>2, <3>3 DEF InRoot
    <3>5. At(listing', disk, Begun)
      BY <3>1, <3>4 DEF At
    <3> QED BY <1>1, <2>1, <2>2, <2>4, <2>5, <3>1, <3>5, ScanStarts
  <2>6. ASSUME ~ root, empty, listing'.pc = "load", Kept PROVE Listed'
    <3>1. Begun = listing.dir /\ ~ (listing.dir < 2)
      BY <1>8, <2>6
    <3>2. Begun \in DirStarts(disk) \ {0}
      BY <2>2, <2>6, <3>1
    <3> QED BY <1>1, <2>3, <2>4, <2>6, <3>1, <3>2 DEF Listed
  <2>7. ASSUME ~ empty, listing'.pc = "resolve", Kept PROVE Listed'
    BY <1>7, <2>3, <2>4, <2>7 DEF Listed
  <2> HIDE DEF root, empty, Kept
  <2> QED BY <1>5, <2>2, <2>5, <2>6, <2>7
<1>10. listing'.pc # "idle" /\ (trouble => trouble')
  <2> HIDE DEF root, empty, Kept
  <2> QED BY <1>5
<1> QED BY <1>1, <1>9, <1>10, ListGoesOn

LEMMA ScanLists == ASSUME HeapInv, Mounted, SearchInv, ListInv, ListScan PROVE ListInv'
<1> DEFINE t == Table(listing.at, listing.buf)
           k == listing.at[2]
           i == listing.idx
           b == Fresh(heap)
           node == [name |-> fat12_get_file_name(t, k), blocks |-> {b, Fresh(heap \cup {b})}]
           more == [listing EXCEPT !.nodes = Append(@, node)]
           Ends == i >= listing.max \/ t[k].kind = "unused"
<1>1. listing.pc = "scan" /\ UNCHANGED <<disk, info, last, search>>
  BY DEF ListScan, fixed, caller
<1>2. \/ Ends /\ listing' = [listing EXCEPT !.pc = "end"] /\ UNCHANGED trouble
      \/ ~ Ends /\ Skipped(t[k]) /\ ListAdvance(listing)
      \/ ~ Ends /\ listing' = ListFails /\ trouble' = TRUE
      \/ ~ Ends /\ ~ Skipped(t[k]) /\ ListAdvance(more)
  BY Zenon DEF ListScan, Ends, Skipped, t, k, i, b, node, more, Entry
<1>3. trouble => trouble'
  <2>1. \A here : ListAdvance(here) => (trouble => trouble')
    BY DEF ListAdvance, Tried
  <2> HIDE DEF Ends, more
  <2> QED BY <1>2, <2>1
<1>4. IsListing(listing, {"scan"}, Nat)
  BY <1>1 DEF HeapInv, Places, IsListing
<1>5. /\ IsListing(more, {"scan"}, Nat) /\ more.idx = i /\ more.max = listing.max
      /\ more.at = listing.at /\ more.buf = listing.buf /\ more.fat = listing.fat
      /\ more.nodes = Append(listing.nodes, node) /\ more.fail = listing.fail
  <2> HIDE DEF node
  <2> QED BY <1>4 DEF IsListing
<1>6. node.name = fat12_get_file_name(t, k)
  OBVIOUS
<1> HIDE DEF more, node
<1>7. ASSUME Shows, Shows' PROVE Listed'
  <2> DEFINE c == Begun
             all == Directory(disk, c)
             upto == Upto(all)
  <2>1. /\ Scanned /\ IsList(listing.nodes) /\ info # NULL /\ disk \in Disks /\ disk.resv = 1
        /\ info.root = disk.root
    BY <1>1, <1>7, ListFacts DEF Listed
  <2>2. /\ c \in DirStarts(disk) \cup {0} /\ ~ listing.fail /\ At(listing, disk, c)
        /\ \A j \in 1 .. i : all[j].kind # "unused"
        /\ NamesShown(disk, c) => NamesOf(listing.nodes) = upto[i]
    BY <2>1 DEF Scanned, Lists, Contents
  <2>3. ~ trouble' /\ Begun' = c /\ Contents' = all /\ Contents = all
    BY <1>1, <1>7 DEF Shows, Begun, Contents
  <2>4. /\ listing.max \in Nat /\ i \in 0 .. listing.max /\ Len(all) \in Nat /\ i \in 0 .. Len(all)
        /\ i < listing.max => SameName(disk, c, t, k, i + 1) /\ i + 1 \in 1 .. Len(all)
        /\ ~ (i < listing.max) => i = Len(all)
    BY <2>1, <2>2, EntryThere DEF Table
  <2>5. c # NOWHERE
    BY <2>1, <2>2, StartsAreClusters DEF NOWHERE
  <2> HIDE DEF c, all, upto, i, t, k
  <2>6. ASSUME Ends, listing' = [listing EXCEPT !.pc = "end"] PROVE Listed'
    <3>1. i = Len(all) \/ all[i + 1].kind = "unused"
      <4>1. CASE i < listing.max
        <5>1. t[k].kind = "unused"
          BY <2>4, <2>6, <4>1
        <5> QED BY <2>4, <4>1, <5>1 DEF SameName, all
      <4> QED BY <2>4, <4>1
    <3>2. upto[i] = Shown(all)
      BY <2>1, <2>2, <2>4, <3>1, ListWhole DEF all, upto
    <3>3. listing'.pc = "end" /\ listing'.nodes = listing.nodes /\ listing'.fail = listing.fail
      BY <1>4, <2>6 DEF IsListing
    <3>4. NamesShown(disk, c) => NamesOf(listing'.nodes) = Shown(all)
      BY <2>2, <3>2, <3>3
    <3>5. EndsWith'
      BY <1>1, <2>2, <2>3, <2>5, <3>3, <3>4 DEF EndsWith
    <3> QED BY <3>3, <3>5 DEF Listed
  <2>7. ASSUME NEW here, IsListing(here, {"scan"}, Nat), here.idx = i, here.max = listing.max,
               At(here, disk, c), ListAdvance(here), ~ here.fail, ~ Ends,
               NamesShown(disk, c) => NamesOf(here.nodes) = upto[i + 1]
        PROVE  Listed'
    <3>1. i < listing.max /\ t[k].kind # "unused" /\ i \in Nat
      BY <2>4, <2>7
    <3>2. /\ listing'.pc = "scan" /\ listing'.idx = i + 1
          /\ listing'.nodes = here.nodes /\ listing'.fail = here.fail
          /\ At(listing', disk, c)
      BY <2>1, <2>2, <2>3, <2>7, <3>1, Advanced
    <3>3. ASSUME NEW j \in 1 .. i + 1 PROVE all[j].kind # "unused"
      <4>1. CASE j \in 1 .. i
        BY <2>2, <4>1 DEF all
      <4>2. CASE j = i + 1
        BY <2>4, <3>1, <4>2 DEF SameName, all
      <4> QED BY <3>1, <4>1, <4>2
    <3>4. Lists(listing)'
      BY <1>1, <2>3, <2>7, <3>2, <3>3 DEF Lists, upto
    <3>5. Scanned'
      BY <1>1, <2>2, <2>3, <2>7, <3>2, <3>4 DEF Scanned
    <3> QED BY <3>2, <3>5 DEF Listed
  <2>8. ASSUME ~ Ends, Skipped(t[k]), ListAdvance(listing) PROVE Listed'
    <3>1. i < listing.max /\ t[k].kind # "unused" /\ i \in Nat
      BY <2>4, <2>8
    <3>2. upto[i + 1] = upto[i]
      BY <2>1, <2>2, <2>4, <2>8, <3>1, OneMoreName DEF all, upto
    <3> QED BY <1>4, <2>2, <2>7, <2>8, <3>2 DEF i
  <2>9. ASSUME ~ Ends, ~ Skipped(t[k]), ListAdvance(more) PROVE Listed'
    <3>1. i < listing.max /\ t[k].kind # "unused" /\ i \in Nat
      BY <2>4, <2>9
    <3>2. NamesShown(disk, c) => upto[i + 1] = Append(upto[i], fat12_get_file_name(t, k))
      <4>1. NameAdded(disk, c, t, k, i)
        BY <2>1, <2>2, <2>4, <2>9, <3>1, OneMoreName DEF all
      <4> QED BY <4>1 DEF NameAdded, all, upto
    <3>3. NamesOf(more.nodes) = Append(NamesOf(listing.nodes), fat12_get_file_name(t, k))
      BY <1>5, <1>6, <2>1, NamesMore
    <3>4. At(more, disk, c)
      BY <1>5, <2>2 DEF At, InRoot, InCluster, i
    <3> QED BY <1>5, <2>2, <2>7, <2>9, <3>2, <3>3, <3>4
  <2> HIDE DEF Ends
  <2> QED BY <1>2, <2>3, <2>6, <2>8, <2>9
<1>8. listing'.pc # "idle"
  BY ListPlace
<1> QED BY <1>1, <1>3, <1>7, <1>8, ListGoesOn

(* The names that are handed over, or that there is no such directory.     *)
LEMMA EndLists == ASSUME HeapInv, Mounted, SearchInv, ListInv, ListEnd PROVE ListInv'
<1> DEFINE nodes == IF listing.fail THEN <<>> ELSE listing.nodes
           ok == ~ listing.fail
<1>1. /\ listing.pc = "end" /\ listing' = NoListing /\ UNCHANGED <<disk, search, trouble>>
      /\ last' = [last EXCEPT !.ok = ok, !.names = NamesOf(nodes)]
  BY DEF ListEnd, fixed, NamesOf
<1>2. search.pc = "idle"
  BY <1>1 DEF HeapInv, Quiet
<1>3. DOMAIN last = {"op", "path", "dir", "ok", "start", "names"}
  BY DEF SearchInv, Called, NoCall
<1> HIDE DEF ok, nodes
<1>4. last'.op = last.op /\ last'.path = last.path /\ last'.dir = last.dir
      /\ last'.ok = ok /\ last'.names = NamesOf(nodes)
  BY <1>1, <1>3
<1>5. Begun' = Begun /\ Contents' = Contents /\ Comps' = Comps /\ (Shows' => Shows)
  BY <1>1, <1>4 DEF Begun, Contents, Comps, Shows
<1>6. ASSUME Shows'
      PROVE  IF Begun = NOWHERE THEN ~ last'.ok
             ELSE /\ last'.ok
                  /\ NamesShown(disk, Begun) => last'.names = Shown(Contents)
  <2>1. EndsWith
    BY <1>1, <1>5, <1>6, ListFacts DEF Listed
  <2> QED BY <1>4, <2>1 DEF EndsWith, ok, nodes
<1>7. ListComplete'
  BY <1>1, <1>5, <1>6 DEF ListComplete, Shows, Begun, Contents, Comps
<1> QED BY <1>1, <1>2, <1>7, NoListingFacts DEF ListInv

(* A search leaves a listing where it is.                                  *)
LEMMA SearchStepLists ==
    ASSUME ListInv, SearchEnter \/ SearchParse \/ SearchScan \/ SearchEnd PROVE ListInv'
<1>1. search.pc # "idle" /\ UNCHANGED <<disk, last, listing>>
  BY DEF SearchEnter, SearchParse, SearchScan, SearchEnd, fixed, caller
<1>2. trouble => trouble'
  BY DEF SearchEnter, SearchParse, SearchScan, SearchEnd, Tried
<1>3. Shows' => Shows
  BY <1>1, <1>2 DEF Shows, Comps, Begun
<1>4. Listed <=> Listed'
  BY <1>1 DEF Listed, NothingListed, Scanned, EndsWith, Lists, Contents, Begun, Comps, At, InRoot, InCluster
<1>5. ListComplete'
  BY <1>1 DEF ListInv, ListComplete, Idle
<1> QED BY <1>1, <1>3, <1>4, <1>5 DEF ListInv

LEMMA ReturnLists == ASSUME SearchInv, ListInv, SearchReturn PROVE ListInv'
<1>1. /\ search.pc = "return" /\ listing.pc = "idle" /\ search' = NoSearch
      /\ last' = [last EXCEPT !.ok = (search.match = 1), !.start = search.start]
      /\ UNCHANGED listing
  BY DEF SearchReturn
<1>2. last'.op = "search"
  <2>1. "op" \in DOMAIN last /\ last.op = "search"
    BY <1>1 DEF SearchInv, Called, NoCall, ListInv
  <2> QED BY <1>1, <2>1
<1> QED BY <1>1, <1>2, NoSearchFacts DEF ListInv, ListComplete

LEMMA BeginLists == ASSUME SearchInv, Begin PROVE ListInv'
<1>1. search.pc = "idle" /\ listing.pc = "idle"
  BY DEF Begin, Idle
<1>2. PICK call :
      /\ last' = [NoCall EXCEPT !.op = call.op, !.path = call.path, !.dir = call.dir]
      /\ \/ /\ search' = Searching(call.path, call.dir)
            /\ UNCHANGED listing
            /\ call.op = "search"
         \/ /\ listing' = Listing(call.path, call.dir)
            /\ UNCHANGED search
  BY DEF Begin
<1>3. last'.op = call.op
  BY <1>2 DEF NoCall
<1>4. CASE search' = Searching(call.path, call.dir) /\ UNCHANGED listing /\ call.op = "search"
  BY <1>1, <1>3, <1>4, SearchBegins DEF ListInv, ListComplete
<1>5. CASE listing' = Listing(call.path, call.dir) /\ UNCHANGED search
  <2>1. listing'.pc = "enter" /\ listing'.at = <<"root", 1>> /\ NothingListed'
    BY <1>5 DEF Listing, NoListing, NothingListed
  <2> QED BY <1>1, <1>5, <2>1 DEF ListInv, ListComplete, Idle, Listed
<1> QED BY <1>2, <1>4, <1>5

LEMMA NextLists == HeapInv /\ Mounted /\ SearchInv /\ ListInv /\ [Next]_vars => ListInv'
<1> SUFFICES ASSUME HeapInv, Mounted, SearchInv, ListInv, [Next]_vars PROVE ListInv'
  OBVIOUS
<1>1. CASE Proceed
  BY <1>1, SearchStepLists, ReturnLists, EnterLists, ResolvedLists, LoadLists, ScanLists, EndLists
     DEF Proceed
<1>2. CASE fat12_init \/ Release \/ UNCHANGED vars
  <2>1. UNCHANGED <<disk, search, listing, trouble, last>>
    BY <1>2 DEF fat12_init, Release, vars, fixed
  <2>2. Listed <=> Listed'
    BY <2>1 DEF Listed, NothingListed, Scanned, EndsWith, Lists, Contents, Begun, Comps, At,
       InRoot, InCluster
  <2>3. ListComplete'
    BY <2>1 DEF ListInv, ListComplete, Idle
  <2>4. Shows' => Shows
    BY <2>1 DEF Shows, Comps, Begun
  <2> QED BY <2>1, <2>2, <2>3, <2>4 DEF ListInv
<1>3. CASE Begin
  BY <1>3, BeginLists
<1> QED BY <1>1, <1>2, <1>3 DEF Next

(* Wherever nothing fails, fat12_get_fs_list hands over the names of all   *)
(* visible entries of the directory, in the order of the disk and through  *)
(* every cluster of its chain: for every disk, and for every directory     *)
(* that is named by its cluster or by a path that can be searched for.     *)
THEOREM ListsAreComplete == Spec => []ListComplete
<1>1. Init => HeapInv /\ Mounted /\ SearchInv /\ ListInv
  <2> SUFFICES ASSUME Init PROVE Mounted /\ SearchInv /\ ListInv
    BY FirstOwned
  <2>1. Mounted
    BY DEF Init, Mounted
  <2>2. /\ search.pc = "idle" /\ listing.pc = "idle" /\ last = NoCall /\ phase = "off"
    BY NoSearchFacts, NoListingFacts DEF Init
  <2>3. last.op = "none"
    BY <2>2 DEF NoCall
  <2>4. SearchInv
    BY <2>2, <2>3 DEF SearchInv, Called, Idle, SearchResolves
  <2> QED BY <2>1, <2>2, <2>3, <2>4 DEF ListInv, ListComplete
<1>2. HeapInv /\ Mounted /\ SearchInv /\ ListInv /\ [Next]_vars
      => (HeapInv /\ Mounted /\ SearchInv /\ ListInv)'
  BY NextOwned, NextMounted, NextWay, NextLists
<1>3. ListInv => ListComplete
  BY DEF ListInv
<1> QED BY <1>1, <1>2, <1>3, PTL DEF Spec

=============================================================================
