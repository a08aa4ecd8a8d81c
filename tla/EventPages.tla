------------------------------- MODULE EventPages -------------------------------
(***************************************************************************)
(* Pages of the recordings' event list: the list is frozen by the request  *)
(* for the first page, under a token, in a store of bounded size, and the  *)
(* other pages are cut from the frozen list while events come and go.      *)
(***************************************************************************)
EXTENDS Integers, Sequences, SequencesExt

CONSTANTS
    PageReaders, ListedEvents,
    Follower,  \* the reader whose pages are followed
    PageSize, MaxItems,
    PageTTL, MaxEntries, MaxOwnerEntries, MaxBytes, MaxBuilds,
    ItemBytes, ListBytes,    \* of an item, and of a list besides its items
    NoBuild, NoWalk

ASSUME PageAssumption ==
    /\ IsFiniteSet(PageReaders) /\ Follower \in PageReaders
    /\ {PageSize, PageTTL, MaxEntries, MaxOwnerEntries, MaxBytes} \subseteq Nat \ {0}
    /\ {MaxItems, MaxBuilds, ItemBytes, ListBytes} \subseteq Nat
    /\ NoBuild \notin [read : BOOLEAN, items : Seq(ListedEvents)]
    /\ NoWalk \notin [list : Seq(ListedEvents), got : Seq(ListedEvents), page : Nat]

VARIABLES
    table,     \* the rows a query finds now, newest first
    entries,   \* OrderedDict: [followed, owner, items, left], oldest first; of the tokens
               \* that they are found by, one matters: the one being followed
    bytes,     \* EventPageStore.size
    builds,    \* EventPageStore.builds
    building,  \* reader -> the list its request has read, not read yet (<<>>), or NoBuild
    walk       \* history: [list, got, page], what the follower was given of which list up
               \* to which page, or NoWalk

pageVars == <<table, entries, bytes, builds, building, walk>>

Bytes(items) == ListBytes + ItemBytes * Len(items)

TotalOf(sizes) ==
    LET upTo[n \in 0 .. Len(sizes)] == IF n = 0 THEN 0 ELSE upTo[n - 1] + sizes[n]
    IN  upTo[Len(sizes)]

BytesOf(s) == TotalOf([i \in DOMAIN s |-> Bytes(s[i].items)])

(* _drop, for every entry that is not at one of the places. *)
Kept(s, places) ==
    [k \in 1 .. Cardinality(places) |->
        s[CHOOSE i \in places : Cardinality({j \in places : j < i}) = k - 1]]

Pruned == Kept(entries, {i \in DOMAIN entries : entries[i].left > 0})

(* Wrong on purpose: entries that ran out go without being subtracted. *)
AfterPruneUncounted == bytes

AfterPrune == bytes - (BytesOf(entries) - BytesOf(Pruned))

(* put: the oldest list of the owner makes place for its new one, then the *)
(* oldest of all until the store has place.                                *)
Owned(s, o) == {i \in DOMAIN s : s[i].owner = o}

OwnMadeRoom(s, o) ==
    LET later(i) == Cardinality({j \in Owned(s, o) : j > i})
    IN  Kept(s, {i \in DOMAIN s : s[i].owner = o => later(i) < MaxOwnerEntries - 1})

(* Wrong on purpose: one list is dropped, whatever the new one takes. *)
RoomOfOne(s, items) ==
    IF Len(s) >= MaxEntries \/ BytesOf(s) + Bytes(items) > MaxBytes THEN Tail(s) ELSE s

RoomFor(s, items) ==
    LET fits(n) == LET rest == SubSeq(s, n + 1, Len(s)) IN
                   Len(rest) < MaxEntries /\ BytesOf(rest) + Bytes(items) <= MaxBytes
        n == CHOOSE k \in 0 .. Len(s) : fits(k) /\ \A l \in 0 .. k - 1 : ~fits(l)
    IN  SubSeq(s, n + 1, Len(s))

Page(items, n) == SubSeq(items, (n - 1) * PageSize + 1,
                         IF n * PageSize < Len(items) THEN n * PageSize ELSE Len(items))

-----------------------------------------------------------------------------
(* A request without a token: begin; one SELECT; put; end. *)

BeginBuild(o) ==
    /\ building[o] = NoBuild /\ builds < MaxBuilds
    /\ builds' = builds + 1
    /\ building' = [building EXCEPT ![o] = [read |-> FALSE, items |-> <<>>]]
    /\ UNCHANGED <<table, entries, bytes, walk>>

ReadTable(o) ==
    /\ building[o] # NoBuild /\ ~building[o].read /\ Len(table) <= MaxItems
    /\ building' = [building EXCEPT ![o] = [read |-> TRUE, items |-> table]]
    /\ UNCHANGED <<table, entries, bytes, builds, walk>>

(* Wrong on purpose: a request that fails does not give its turn back. *)
TurnKept == builds

TurnGivenBack == builds - 1

(* Too many rows, a time-out, a failure of the storage or, for the put,    *)
(* more bytes than the store may hold.                                     *)
BuildFails(o) ==
    /\ building[o] # NoBuild
    /\ ~building[o].read \/ Bytes(building[o].items) > MaxBytes
    /\ builds' = TurnGivenBack
    /\ building' = [building EXCEPT ![o] = NoBuild]
    /\ UNCHANGED <<table, entries, bytes, walk>>

(* The list that pages are cut from.  Wrong on purpose: the table of now. *)
ItemsOfNow(entry) == table

ItemsOf(entry) == entry.items

PutList(o) ==
    /\ building[o] # NoBuild /\ building[o].read /\ Bytes(building[o].items) <= MaxBytes
    /\ LET own   == OwnMadeRoom(Pruned, o)
           room  == RoomFor(own, building[o].items)
           entry == [followed |-> o = Follower, owner |-> o,
                     items |-> building[o].items, left |-> PageTTL]
       IN  /\ entries' = Append([i \in DOMAIN room |->
                                  [room[i] EXCEPT !.followed = @ /\ o # Follower]], entry)
           /\ bytes' = AfterPrune - (BytesOf(Pruned) - BytesOf(room)) + Bytes(entry.items)
           /\ walk' = IF o # Follower THEN walk
                      ELSE [list |-> entry.items, got |-> Page(ItemsOf(entry), 1), page |-> 1]
    /\ builds' = builds - 1
    /\ building' = [building EXCEPT ![o] = NoBuild]
    /\ UNCHANGED table

(* A request with a token, for the next page; EVENT_LIST_SNAPSHOT_GONE     *)
(* ends the walk.                                                          *)
TurnPage ==
    /\ walk # NoWalk
    /\ entries' = Pruned /\ bytes' = AfterPrune
    /\ LET found == {i \in DOMAIN Pruned : Pruned[i].followed} IN
       IF found = {} THEN walk' = NoWalk
       ELSE LET entry == Pruned[CHOOSE i \in found : TRUE]
                n     == walk.page + 1
            IN  /\ walk.page * PageSize < Len(entry.items)
                /\ walk' = [walk EXCEPT !.got = @ \o Page(ItemsOf(entry), n), !.page = n]
    /\ UNCHANGED <<table, builds, building>>

(* Events are committed late, out of the order of their times, and are     *)
(* deleted when they are too old.                                          *)
TableChanges ==
    /\ \/ \E e \in ListedEvents \ ToSet(table), i \in 1 .. Len(table) + 1 :
            table' = SubSeq(table, 1, i - 1) \o <<e>> \o SubSeq(table, i, Len(table))
       \/ table # <<>> /\ table' = Front(table)
    /\ UNCHANGED <<entries, bytes, builds, building, walk>>

PageTick ==
    /\ \E i \in DOMAIN entries : entries[i].left > 0
    /\ entries' = [i \in DOMAIN entries |->
                     [entries[i] EXCEPT !.left = IF @ = 0 THEN 0 ELSE @ - 1]]
    /\ UNCHANGED <<table, bytes, builds, building, walk>>

(* The store lives in the process. *)
PagesRestart ==
    /\ entries' = <<>> /\ bytes' = 0 /\ builds' = 0
    /\ building' = [o \in PageReaders |-> NoBuild]
    /\ UNCHANGED <<table, walk>>

PageInit ==
    /\ table = <<>> /\ entries = <<>> /\ bytes = 0 /\ builds = 0
    /\ building = [o \in PageReaders |-> NoBuild]
    /\ walk = NoWalk

PageNext ==
    \/ \E o \in PageReaders :
         BeginBuild(o) \/ ReadTable(o) \/ BuildFails(o) \/ PutList(o)
    \/ TurnPage \/ TableChanges \/ PageTick \/ PagesRestart

PageSpec == PageInit /\ [][PageNext]_pageVars

-----------------------------------------------------------------------------
(* Properties.                                                             *)

(* "Freeze event metadata once, then page without consulting mutable event *)
(* rows again": whoever turns pages is given one list, that of one moment, *)
(* in its order, without a gap or a repetition, whatever is evicted, added *)
(* or deleted in the meantime.                                             *)
PagesAreOfOneList ==
    walk # NoWalk => IsPrefix(walk.got, walk.list)

(* The limits of the store hold together and its counters tell the truth,  *)
(* whatever fails, expires or is evicted: a counter that drifts would end  *)
(* in a store that refuses, or evicts, everything for good.                *)
StoreIsBounded ==
    /\ bytes = BytesOf(entries) /\ bytes <= MaxBytes
    /\ Len(entries) <= MaxEntries
    /\ \A o \in PageReaders : Cardinality(Owned(entries, o)) <= MaxOwnerEntries
    /\ builds = Cardinality({o \in PageReaders : building[o] # NoBuild})

PagesAreServed == PagesAreOfOneList /\ StoreIsBounded
=============================================================================
