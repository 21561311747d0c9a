---------------------------- MODULE ReadingProofs ----------------------------
(***************************************************************************)
(* Proofs about what is read while it changes: the pages of a collection,  *)
(* of any size and with any changes, and the pieces of a table with any    *)
(* keys.                                                                   *)
(***************************************************************************)
EXTENDS MCServices, FiniteSetTheorems, SequenceTheorems, WellFoundedInduction, TLAPS

-----------------------------------------------------------------------------
(***************************************************************************)
(* Pages of a collection.  Ids grow along the collection and along what is *)
(* yielded: what is at a position behind the page comes after what is in   *)
(* it, whatever is deleted, because a deletion only moves ids forward.     *)
(* While nothing is deleted the id at a position is the position.          *)
(***************************************************************************)
Increasing(s) == \A i, j \in 1..Len(s) : i < j => s[i] < s[j]
UpTo(s, n) == \A i \in 1..Len(s) : 1 <= s[i] /\ s[i] <= n

\* The position before the first item of a page.
PageStart(from) == IF pages.api = "manager" THEN (from - 1) * pages.size ELSE from
Start == PageStart(pages.page.from)
PageEnd == Start + Len(pages.page.items)

PageRecords == [items : Seq(Nat), from : Nat, last : BOOLEAN]
PagingRecords ==
    /\ pages \in [state : {"new", "fetch", "next", "stopped", "indexError"}, api : Apis,
                  size : Nat \ {0}, page : PageRecords, index : Nat, yielded : Seq(Nat)]
    /\ collection \in Seq(Nat)
    /\ changes \in [created : Nat, appended : Nat, deleted : Nat]
    /\ changes.created <= MaxItems /\ changes.appended <= changes.created
    /\ pages.index <= Len(pages.page.items)
    /\ pages.state # "new" /\ pages.api = "manager" => pages.page.from >= 1

IdsInOrder ==
    /\ Increasing(collection) /\ Increasing(pages.yielded) /\ Increasing(pages.page.items)
    /\ UpTo(collection, changes.created) /\ UpTo(pages.yielded, changes.created)
    /\ UpTo(pages.page.items, changes.created)
    /\ \A i \in 1..Len(pages.yielded), k \in (pages.index + 1)..Len(pages.page.items) :
          pages.yielded[i] < pages.page.items[k]

\* What is behind the page comes after all that was seen.
BehindThePage ==
    pages.state = "next" =>
        \A j \in 1..Len(collection) : j > PageEnd =>
            /\ \A i \in 1..Len(pages.yielded) : pages.yielded[i] < collection[j]
            /\ \A k \in 1..Len(pages.page.items) : pages.page.items[k] < collection[j]

\* The next page starts where this one ends.
PagesAreFull ==
    pages.state = "next" /\ pages.api = "manager" /\ ~pages.page.last =>
        Len(pages.page.items) = pages.size

FreshIterator ==
    pages.state \in {"new", "fetch"} =>
        /\ pages.yielded = <<>> /\ pages.page.items = <<>> /\ pages.index = 0
        /\ changes.appended = 0
        /\ pages.state = "fetch" => Start = 0

\* While nothing is deleted ids are positions.
IdsArePositions ==
    changes.deleted = 0 =>
        /\ Len(collection) = changes.created /\ \A i \in 1..Len(collection) : collection[i] = i
        /\ \A i \in 1..Len(pages.yielded) : pages.yielded[i] = i
        /\ \A k \in 1..Len(pages.page.items) : pages.page.items[k] = Start + k
        /\ pages.state \in {"next", "stopped"} =>
              /\ Len(pages.yielded) = Start + pages.index /\ PageEnd <= changes.created
              /\ pages.page.last =>
                    IF pages.api = "manager"
                    THEN changes.created <= PageEnd + pages.size + changes.appended
                    ELSE changes.created <= PageEnd + changes.appended
        /\ pages.state = "next" /\ ~pages.page.last => PageEnd < changes.created
        /\ pages.state # "indexError"

StopsAtTheLast ==
    pages.state = "stopped" => pages.page.last /\ pages.index = Len(pages.page.items)

PagingInv ==
    /\ PagingRecords /\ IdsInOrder /\ BehindThePage /\ PagesAreFull /\ FreshIterator
    /\ IdsArePositions /\ StopsAtTheLast

LEMMA PageProducts == ASSUME NEW a \in Nat \ {0}, NEW b \in Nat
                      PROVE  (a - 1) * b \in Nat /\ a * b = (a - 1) * b + b
<1>1. a - 1 \in Nat
  OBVIOUS
<1>2. (a - 1) * b \in Nat
  BY <1>1
<1> QED
  BY <1>2

\* The items behind an offset, and where they are in the collection.
LEMMA ServerItemsAre ==
    ASSUME NEW start \in Nat, PagingRecords
    PROVE  /\ ServerItems(start) \in Seq(Nat) /\ Len(ServerItems(start)) <= pages.size
           /\ \A k \in 1..Len(ServerItems(start)) :
                 /\ start + k <= Len(collection) /\ ServerItems(start)[k] = collection[start + k]
           /\ start <= Len(collection) => start + Len(ServerItems(start)) <= Len(collection)
           /\ start < Len(collection) => Len(ServerItems(start)) >= 1
           /\ start + pages.size <= Len(collection) => Len(ServerItems(start)) = pages.size
           /\ start + pages.size >= Len(collection) =>
                 start + Len(ServerItems(start)) >= Len(collection)
<1>1. collection \in Seq(Nat) /\ Len(collection) \in Nat /\ pages.size \in Nat \ {0}
  BY DEF PagingRecords
<1> DEFINE n == IF start + pages.size < Len(collection) THEN start + pages.size
                ELSE Len(collection)
<1>2. /\ n \in Nat /\ n <= Len(collection) /\ n <= start + pages.size
      /\ n = start + pages.size \/ n = Len(collection)
  BY <1>1
<1>3. ServerItems(start) = SubSeq(collection, start + 1, n)
  BY DEF ServerItems
<1>4. \A i \in (start + 1)..n : collection[i] \in Nat
  <2> TAKE i \in (start + 1)..n
  <2>1. i \in 1..Len(collection)
    BY <1>1, <1>2
  <2> QED
    BY <1>1, <2>1, ElementOfSeq
<1> HIDE DEF n
<1> DEFINE s == SubSeq(collection, start + 1, n)
<1>5. /\ s \in Seq(Nat) /\ Len(s) = IF start + 1 <= n THEN n - (start + 1) + 1 ELSE 0
      /\ \A i \in 1 .. n - (start + 1) + 1 : s[i] = collection[(start + 1) + i - 1]
  <2>1. start + 1 \in Int /\ n \in Int
    BY <1>2
  <2> QED
    BY <1>4, <2>1, SubSeqProperties
<1>6. ServerItems(start) = s
  BY <1>3
<1> HIDE DEF s
<1>7. Len(s) = IF start < n THEN n - start ELSE 0
  BY <1>2, <1>5
<1>8. ASSUME NEW k \in 1..Len(s) PROVE start + k <= Len(collection) /\ s[k] = collection[start + k]
  <2>1. k \in 1 .. n - (start + 1) + 1 /\ (start + 1) + k - 1 = start + k /\ start + k <= n
    BY <1>2, <1>7
  <2>2. s[k] = collection[(start + 1) + k - 1]
    BY <1>5, <2>1
  <2> QED
    BY <1>1, <1>2, <2>1, <2>2
<1>9. Len(s) <= pages.size /\ (start <= Len(collection) => start + Len(s) <= Len(collection))
  BY <1>1, <1>2, <1>7
<1>10. /\ start < Len(collection) => Len(s) >= 1
       /\ start + pages.size <= Len(collection) => Len(s) = pages.size
       /\ start + pages.size >= Len(collection) => start + Len(s) >= Len(collection)
  BY <1>1, <1>2, <1>7
<1> QED
  BY <1>5, <1>6, <1>8, <1>9, <1>10

\* A page, and what its end and its `last` say of the collection.
LEMMA PageFromIs ==
    ASSUME PagingRecords, NEW from \in Nat, pages.api = "manager" => from >= 1
    PROVE  /\ PageFrom(from) \in PageRecords /\ PageStart(from) \in Nat
           /\ PageFrom(from).from = from
           /\ PageFrom(from).items = ServerItems(PageStart(from))
           /\ ~PageFrom(from).last =>
                 /\ PageStart(from) + Len(ServerItems(PageStart(from))) < Len(collection)
                 /\ pages.api = "manager" => Len(ServerItems(PageStart(from))) = pages.size
           /\ PageFrom(from).last =>
                 IF pages.api = "manager"
                 THEN Len(collection) <= PageStart(from) + Len(ServerItems(PageStart(from))) + pages.size
                 ELSE Len(collection) <= PageStart(from) + Len(ServerItems(PageStart(from)))
<1> DEFINE s == PageStart(from)
           items == ServerItems(s)
<1>1. /\ pages.api \in {"manager", "offset", "zephyr"} /\ pages.size \in Nat \ {0}
      /\ Len(collection) \in Nat
  BY DEF PagingRecords, Apis
<1>2. s \in Nat /\ (pages.api = "manager" => from * pages.size = s + pages.size)
  <2>1. CASE pages.api = "manager"
    <3>1. from \in Nat \ {0}
      BY <2>1
    <3>2. (from - 1) * pages.size \in Nat
          /\ from * pages.size = (from - 1) * pages.size + pages.size
      BY <1>1, <3>1, PageProducts
    <3> QED
      BY <2>1, <3>2 DEF PageStart
  <2>2. CASE pages.api # "manager"
    BY <2>2 DEF PageStart
  <2> QED
    BY <2>1, <2>2
<1> HIDE DEF s
<1>3. items \in Seq(Nat) /\ Len(items) \in Nat /\ Len(items) <= pages.size
      /\ (s + pages.size <= Len(collection) => Len(items) = pages.size)
      /\ (s + pages.size >= Len(collection) => s + Len(items) >= Len(collection))
  BY <1>2, ServerItemsAre
<1>4. CASE pages.api = "manager"
  <2> DEFINE top == from * pages.size
  <2>1. PageFrom(from) = [items |-> items, from |-> from,
                          last |-> top + Len(items) >= Len(collection)]
    BY <1>4 DEF PageFrom, ManagerPage, s, PageStart
  <2>2. top = s + pages.size
    BY <1>2, <1>4
  <2> HIDE DEF top, items
  <2>3. PageFrom(from) \in PageRecords /\ PageFrom(from).from = from /\ PageFrom(from).items = items
        /\ PageFrom(from).last = (top + Len(items) >= Len(collection))
    BY <1>3, <2>1 DEF PageRecords
  <2>4. top + Len(items) < Len(collection) => s + Len(items) < Len(collection) /\ Len(items) = pages.size
    BY <1>1, <1>2, <1>3, <2>2
  <2>5. top + Len(items) >= Len(collection) => Len(collection) <= s + Len(items) + pages.size
    BY <1>1, <1>2, <1>3, <2>2
  <2>6. top + Len(items) < Len(collection) \/ top + Len(items) >= Len(collection)
    BY <1>1, <1>2, <1>3, <2>2
  <2> QED
    BY <1>2, <1>4, <2>3, <2>4, <2>5, <2>6 DEF s, items
<1>5. CASE pages.api = "offset"
  <2>1. PageFrom(from) = [items |-> items, from |-> from,
                          last |-> s + Len(items) >= Len(collection)]
    BY <1>5 DEF PageFrom, OffsetPage, s, PageStart
  <2> HIDE DEF items
  <2>3. PageFrom(from) \in PageRecords /\ PageFrom(from).from = from /\ PageFrom(from).items = items
        /\ PageFrom(from).last = (s + Len(items) >= Len(collection))
    BY <1>3, <2>1 DEF PageRecords
  <2>4. s + Len(items) < Len(collection) <=> ~(s + Len(items) >= Len(collection))
    BY <1>1, <1>2, <1>3
  <2> QED
    BY <1>1, <1>2, <1>3, <1>5, <2>3, <2>4 DEF s, items
<1>6. CASE pages.api = "zephyr"
  <2>1. PageFrom(from) = [items |-> items, from |-> from,
                          last |-> s + pages.size >= Len(collection)]
    BY <1>6 DEF PageFrom, ZephyrPage, s, PageStart
  <2> HIDE DEF items
  <2>3. PageFrom(from) \in PageRecords /\ PageFrom(from).from = from /\ PageFrom(from).items = items
        /\ PageFrom(from).last = (s + pages.size >= Len(collection))
    BY <1>3, <2>1 DEF PageRecords
  <2>4. ~(s + pages.size >= Len(collection)) => s + Len(items) < Len(collection)
    BY <1>1, <1>2, <1>3
  <2> QED
    BY <1>1, <1>2, <1>3, <1>6, <2>3, <2>4 DEF s, items
<1> QED
  BY <1>1, <1>4, <1>5, <1>6

\* The items of any page, from a position on, follow those before it.
LEMMA ItemsAreOrdered ==
    ASSUME PagingRecords, IdsInOrder, NEW start \in Nat
    PROVE  /\ Increasing(ServerItems(start)) /\ UpTo(ServerItems(start), changes.created)
           /\ \A j \in 1..Len(collection), k \in 1..Len(ServerItems(start)) :
                 j > start + Len(ServerItems(start)) => ServerItems(start)[k] < collection[j]
<1> DEFINE s == ServerItems(start)
<1>1. /\ Len(s) \in Nat /\ Len(collection) \in Nat
      /\ \A k \in 1..Len(s) : start + k \in 1..Len(collection) /\ s[k] = collection[start + k]
  <2>1. Len(collection) \in Nat
    BY DEF PagingRecords
  <2>2. /\ s \in Seq(Nat)
        /\ \A k \in 1..Len(s) : start + k <= Len(collection) /\ s[k] = collection[start + k]
    BY ServerItemsAre
  <2> HIDE DEF s
  <2> QED
    BY <2>1, <2>2
<1>2. Increasing(collection) /\ UpTo(collection, changes.created)
  BY DEF IdsInOrder
<1> HIDE DEF s
<1>3. Increasing(s)
  BY <1>1, <1>2 DEF Increasing
<1>4. UpTo(s, changes.created)
  BY <1>1, <1>2 DEF UpTo
<1>5. \A j \in 1..Len(collection), k \in 1..Len(s) : j > start + Len(s) => s[k] < collection[j]
  <2> TAKE j \in 1..Len(collection), k \in 1..Len(s)
  <2> HAVE j > start + Len(s)
  <2>1. start + k \in 1..Len(collection) /\ start + k < j /\ s[k] = collection[start + k]
    BY <1>1
  <2> QED
    BY <1>2, <2>1 DEF Increasing
<1> QED
  BY <1>3, <1>4, <1>5 DEF s

LEMMA PagingInitial == PagingInit => PagingInv
<1> SUFFICES ASSUME PagingInit PROVE PagingInv
  OBVIOUS
<1>1. /\ pages = [state |-> "new", api |-> "manager", size |-> 1,
                  page |-> [items |-> <<>>, from |-> 0, last |-> FALSE], index |-> 0, yielded |-> <<>>]
      /\ collection = <<>> /\ changes = [created |-> 0, appended |-> 0, deleted |-> 0]
  BY DEF PagingInit, NoPage
<1>2. <<>> \in Seq(Nat) /\ Len(<<>>) = 0
  OBVIOUS
<1>3. PagingRecords
  <2>1. pages.page \in PageRecords
    BY <1>1, <1>2 DEF PageRecords
  <2> QED
    BY <1>1, <1>2, <2>1, PagingAssumption DEF PagingRecords, Apis
<1>4. IdsInOrder /\ BehindThePage /\ PagesAreFull
  BY <1>1, <1>2 DEF IdsInOrder, BehindThePage, PagesAreFull, Increasing, UpTo
<1>5. FreshIterator /\ IdsArePositions /\ StopsAtTheLast
  BY <1>1, <1>2 DEF FreshIterator, IdsArePositions, StopsAtTheLast
<1> QED
  BY <1>3, <1>4, <1>5 DEF PagingInv

LEMMA NewIteratorKeeps ==
    ASSUME NEW service \in Apis, NEW size \in PageSizes, NEW n \in 0..MaxItems
    PROVE  PagingInv /\ NewIterator(service, size, n) => PagingInv'
<1> SUFFICES ASSUME PagingInv, NewIterator(service, size, n) PROVE PagingInv'
  OBVIOUS
<1>0. PagingRecords /\ IdsInOrder /\ FreshIterator /\ IdsArePositions
  BY DEF PagingInv
<1>1. /\ pages.state = "new"
      /\ pages' = [pages EXCEPT !.state = "fetch", !.api = service, !.size = size,
                                !.page.from = IF service = "manager" THEN 1 ELSE 0]
      /\ collection' = [i \in 1..n |-> i]
      /\ changes' = [changes EXCEPT !.created = n]
  BY DEF NewIterator
<1> DEFINE from == IF service = "manager" THEN 1 ELSE 0
<1>2. pages.page \in PageRecords /\ pages.page.items = <<>> /\ pages.yielded = <<>> /\ pages.index = 0
      /\ changes.appended = 0
  BY <1>0, <1>1 DEF FreshIterator, PagingRecords
<1>3. /\ pages'.state = "fetch" /\ pages'.api = service /\ pages'.size = size
      /\ pages'.page = [pages.page EXCEPT !.from = from]
      /\ pages'.index = 0 /\ pages'.yielded = <<>>
  BY <1>0, <1>1, <1>2 DEF PagingRecords
<1>4. /\ pages'.page.items = <<>> /\ pages'.page.from = from /\ pages'.page \in PageRecords
  BY <1>2, <1>3 DEF PageRecords
<1>5. /\ changes' \in [created : Nat, appended : Nat, deleted : Nat]
      /\ changes'.created = n /\ changes'.appended = 0 /\ changes'.deleted = changes.deleted
      /\ n \in Nat
  BY <1>0, <1>1, <1>2, PagingAssumption DEF PagingRecords
<1>6. collection' \in Seq(Nat) /\ Len(collection') = n /\ \A i \in 1..n : collection'[i] = i
  <2>1. \A i \in 1..n : i \in Nat
    OBVIOUS
  <2> QED
    BY <1>1, <1>5, <2>1
<1>7. size \in Nat \ {0}
  BY PagingAssumption
<1>8. PagingRecords'
  <2>1. pages' \in [state : {"new", "fetch", "next", "stopped", "indexError"}, api : Apis,
                    size : Nat \ {0}, page : PageRecords, index : Nat, yielded : Seq(Nat)]
    <3>1. pages' = [state |-> "fetch", api |-> service, size |-> size, page |-> pages'.page,
                    index |-> 0, yielded |-> <<>>]
      BY <1>0, <1>1, <1>2, <1>3 DEF PagingRecords
    <3>2. <<>> \in Seq(Nat)
      OBVIOUS
    <3> QED
      BY <1>0, <1>1, <1>4, <1>7, <3>1, <3>2 DEF PagingRecords
  <2>2. pages'.api = "manager" => pages'.page.from >= 1
    BY <1>3, <1>4
  <2>3. pages'.index <= Len(pages'.page.items)
    BY <1>3, <1>4
  <2>4. changes'.created <= MaxItems /\ changes'.appended <= changes'.created
    BY <1>5, PagingAssumption
  <2> QED
    BY <1>5, <1>6, <2>1, <2>2, <2>3, <2>4 DEF PagingRecords
<1>9. IdsInOrder'
  BY <1>3, <1>4, <1>5, <1>6 DEF IdsInOrder, Increasing, UpTo
<1>10. Start' = 0
  BY <1>3, <1>4, <1>7 DEF Start, PageStart
<1>11. BehindThePage' /\ PagesAreFull' /\ StopsAtTheLast'
  BY <1>3 DEF BehindThePage, PagesAreFull, StopsAtTheLast
<1>12. FreshIterator'
  BY <1>3, <1>4, <1>5, <1>10 DEF FreshIterator
<1>13. IdsArePositions'
  BY <1>3, <1>4, <1>5, <1>6 DEF IdsArePositions
<1> QED
  BY <1>8, <1>9, <1>11, <1>12, <1>13 DEF PagingInv

LEMMA StopKeeps == PagingInv /\ StopIteration => PagingInv'
<1> SUFFICES ASSUME PagingInv, StopIteration PROVE PagingInv'
  OBVIOUS
<1>0. PagingRecords /\ IdsInOrder /\ IdsArePositions
  BY DEF PagingInv
<1>1. /\ pages.state = "next" /\ pages.index >= Len(pages.page.items) /\ pages.page.last
      /\ pages' = [pages EXCEPT !.state = "stopped"] /\ UNCHANGED <<collection, changes>>
  BY DEF StopIteration
<1>2. /\ pages'.state = "stopped" /\ pages'.api = pages.api /\ pages'.size = pages.size
      /\ pages'.page = pages.page /\ pages'.index = pages.index /\ pages'.yielded = pages.yielded
  BY <1>0, <1>1 DEF PagingRecords
<1>3. PagingRecords'
  <2>1. pages' \in [state : {"new", "fetch", "next", "stopped", "indexError"}, api : Apis,
                    size : Nat \ {0}, page : PageRecords, index : Nat, yielded : Seq(Nat)]
    BY <1>0, <1>1 DEF PagingRecords
  <2> QED
    BY <1>0, <1>1, <1>2, <2>1 DEF PagingRecords
<1>4. IdsInOrder'
  BY <1>0, <1>1, <1>2 DEF IdsInOrder
<1>5. Start' = Start /\ PageEnd' = PageEnd
  BY <1>2 DEF Start, PageStart, PageEnd
<1>6. BehindThePage' /\ PagesAreFull' /\ FreshIterator'
  BY <1>2 DEF BehindThePage, PagesAreFull, FreshIterator
<1>7. IdsArePositions'
  BY <1>0, <1>1, <1>2, <1>5 DEF IdsArePositions
<1>8. StopsAtTheLast'
  <2>1. pages.index \in Nat /\ Len(pages.page.items) \in Nat
        /\ pages.index <= Len(pages.page.items)
    BY <1>0 DEF PagingRecords, PageRecords
  <2> QED
    BY <1>1, <1>2, <2>1 DEF StopsAtTheLast
<1> QED
  BY <1>3, <1>4, <1>6, <1>7, <1>8 DEF PagingInv

LEMMA YieldItemKeeps == PagingInv /\ YieldItem => PagingInv'
<1> SUFFICES ASSUME PagingInv, YieldItem PROVE PagingInv'
  OBVIOUS
<1>0. PagingRecords /\ IdsInOrder /\ IdsArePositions /\ BehindThePage /\ PagesAreFull
  BY DEF PagingInv
<1> DEFINE item == pages.page.items[pages.index + 1]
           n == Len(pages.yielded)
<1>1. /\ pages.state = "next" /\ pages.index < Len(pages.page.items)
      /\ pages' = [pages EXCEPT !.index = @ + 1, !.yielded = Append(@, item)]
      /\ UNCHANGED <<collection, changes>>
  BY DEF YieldItem
<1>2. /\ pages'.state = "next" /\ pages'.api = pages.api /\ pages'.size = pages.size
      /\ pages'.page = pages.page /\ pages'.index = pages.index + 1
      /\ pages'.yielded = Append(pages.yielded, item)
  BY <1>0, <1>1 DEF PagingRecords
<1>3. /\ pages.yielded \in Seq(Nat) /\ pages.page.items \in Seq(Nat) /\ pages.index \in Nat
      /\ Len(pages.page.items) \in Nat /\ n \in Nat
  BY <1>0 DEF PagingRecords, PageRecords
<1>4. pages.index + 1 \in 1..Len(pages.page.items) /\ item \in Nat
  <2>1. pages.index + 1 \in 1..Len(pages.page.items)
    BY <1>1, <1>3
  <2> QED
    BY <1>3, <2>1, ElementOfSeq
<1>5. /\ pages'.yielded \in Seq(Nat) /\ Len(pages'.yielded) = n + 1
      /\ pages'.yielded[n + 1] = item /\ \A i \in 1..n : pages'.yielded[i] = pages.yielded[i]
  BY <1>2, <1>3, <1>4, AppendProperties
<1>6. PagingRecords'
  <2>1. pages' \in [state : {"new", "fetch", "next", "stopped", "indexError"}, api : Apis,
                    size : Nat \ {0}, page : PageRecords, index : Nat, yielded : Seq(Nat)]
    <3>1. pages.index + 1 \in Nat /\ Append(pages.yielded, item) \in Seq(Nat)
      BY <1>2, <1>3, <1>5
    <3> HIDE DEF item
    <3> QED
      BY <1>0, <1>1, <3>1 DEF PagingRecords
  <2>2. pages'.index <= Len(pages'.page.items)
    BY <1>1, <1>2, <1>3
  <2> QED
    BY <1>0, <1>1, <1>2, <2>1, <2>2 DEF PagingRecords
<1>7. \A i \in 1..n : pages.yielded[i] < item
  <2>1. pages.index + 1 \in (pages.index + 1)..Len(pages.page.items)
    BY <1>3, <1>4
  <2> QED
    BY <1>0, <2>1 DEF IdsInOrder
<1>8. \A k \in (pages.index + 2)..Len(pages.page.items) : item < pages.page.items[k]
  <2> TAKE k \in (pages.index + 2)..Len(pages.page.items)
  <2>1. k \in 1..Len(pages.page.items) /\ pages.index + 1 < k
    BY <1>3
  <2> QED
    BY <1>0, <1>4, <2>1 DEF IdsInOrder, Increasing
<1>14. \A i \in 1..(n + 1) : i = n + 1 \/ i \in 1..n
  BY <1>3
<1>15. \A i \in 1..n : pages.yielded[i] < item /\ pages.yielded[i] \in Nat
  BY <1>3, <1>7, ElementOfSeq
<1>16. \A i, j \in 1..n : i < j => pages.yielded[i] < pages.yielded[j]
  BY <1>0 DEF IdsInOrder, Increasing
<1>17. \A i \in 1..n, k \in (pages.index + 1)..Len(pages.page.items) :
           pages.yielded[i] < pages.page.items[k]
  BY <1>0 DEF IdsInOrder
<1>18. \A i \in 1..n : 1 <= pages.yielded[i] /\ pages.yielded[i] <= changes.created
  BY <1>0 DEF IdsInOrder, UpTo
<1>19. item = pages.page.items[pages.index + 1] /\ 1 <= item /\ item <= changes.created
  BY <1>0, <1>4 DEF IdsInOrder, UpTo
<1>20. changes.deleted = 0 => n = Start + pages.index /\ \A i \in 1..n : pages.yielded[i] = i
  BY <1>0, <1>1 DEF IdsArePositions
<1>21. \A j \in 1..Len(collection) : j > PageEnd => \A i \in 1..n : pages.yielded[i] < collection[j]
  BY <1>0, <1>1 DEF BehindThePage
<1> HIDE DEF item, n
<1>9. IdsInOrder'
  <2>1. Increasing(pages'.yielded)
    <3> SUFFICES ASSUME NEW i \in 1..(n + 1), NEW j \in 1..(n + 1), i < j
                 PROVE  pages'.yielded[i] < pages'.yielded[j]
      BY <1>5 DEF Increasing
    <3>1. i \in 1..n
      BY <1>3
    <3>2. CASE j = n + 1
      BY <1>5, <1>7, <3>1, <3>2
    <3>3. CASE j \in 1..n
      BY <1>5, <1>16, <3>1, <3>3
    <3> QED
      BY <1>14, <3>2, <3>3
  <2>2. UpTo(pages'.yielded, changes.created)
    <3> SUFFICES ASSUME NEW i \in 1..(n + 1)
                 PROVE  1 <= pages'.yielded[i] /\ pages'.yielded[i] <= changes.created
      BY <1>5 DEF UpTo
    <3>2. CASE i = n + 1
      BY <1>5, <1>19, <3>2
    <3>3. CASE i \in 1..n
      BY <1>5, <1>18, <3>3
    <3> QED
      BY <1>14, <3>2, <3>3
  <2>3. ASSUME NEW i \in 1..(n + 1), NEW k \in (pages.index + 2)..Len(pages.page.items)
        PROVE  pages'.yielded[i] < pages.page.items[k]
    <3>1. CASE i = n + 1
      BY <1>5, <1>8, <3>1
    <3>2. CASE i \in 1..n
      <4>1. k \in (pages.index + 1)..Len(pages.page.items)
        BY <1>3
      <4> QED
        BY <1>5, <1>17, <3>2, <4>1
    <3> QED
      BY <1>14, <3>1, <3>2
  <2>4. \A k : k \in (pages'.index + 1)..Len(pages'.page.items) =>
                  k \in (pages.index + 2)..Len(pages.page.items)
    BY <1>2, <1>3
  <2>5. \A i \in 1..Len(pages'.yielded), k \in (pages'.index + 1)..Len(pages'.page.items) :
            pages'.yielded[i] < pages'.page.items[k]
    BY <1>2, <1>5, <2>3, <2>4
  <2> QED
    BY <1>0, <1>1, <1>2, <2>1, <2>2, <2>5 DEF IdsInOrder
<1>10. Start' = Start /\ PageEnd' = PageEnd
  BY <1>2 DEF Start, PageStart, PageEnd
<1>11. BehindThePage'
  <2> SUFFICES ASSUME NEW j \in 1..Len(collection), j > PageEnd
               PROVE  /\ \A i \in 1..(n + 1) : pages'.yielded[i] < collection[j]
                      /\ \A k \in 1..Len(pages.page.items) : pages.page.items[k] < collection[j]
    BY <1>1, <1>2, <1>5, <1>10 DEF BehindThePage
  <2>1. \A k \in 1..Len(pages.page.items) : pages.page.items[k] < collection[j]
    BY <1>0, <1>1 DEF BehindThePage
  <2>2. item < collection[j]
    BY <1>4, <1>19, <2>1
  <2>3. ASSUME NEW i \in 1..(n + 1) PROVE pages'.yielded[i] < collection[j]
    <3>1. CASE i = n + 1
      BY <1>5, <2>2, <3>1
    <3>2. CASE i \in 1..n
      BY <1>5, <1>21, <3>2
    <3> QED
      BY <1>14, <3>1, <3>2
  <2> QED
    BY <2>1, <2>3
<1>12. PagesAreFull' /\ FreshIterator' /\ StopsAtTheLast'
  BY <1>0, <1>1, <1>2 DEF PagesAreFull, FreshIterator, StopsAtTheLast
<1>13. IdsArePositions'
  <2> SUFFICES ASSUME changes.deleted = 0
               PROVE  /\ \A i \in 1..(n + 1) : pages'.yielded[i] = i
                      /\ n + 1 = Start + (pages.index + 1)
    BY <1>0, <1>1, <1>2, <1>5, <1>10 DEF IdsArePositions
  <2>1. /\ n = Start + pages.index
        /\ \A k \in 1..Len(pages.page.items) : pages.page.items[k] = Start + k
    BY <1>0, <1>20 DEF IdsArePositions
  <2>2. Start \in Int
    BY <1>0 DEF Start, PageStart, PagingRecords, PageRecords
  <2>3. item = Start + (pages.index + 1)
    BY <1>4, <1>19, <2>1
  <2>4. item = n + 1 /\ n + 1 = Start + (pages.index + 1)
    BY <1>3, <2>1, <2>2, <2>3
  <2>5. ASSUME NEW i \in 1..(n + 1) PROVE pages'.yielded[i] = i
    <3>1. CASE i = n + 1
      BY <1>5, <2>4, <3>1
    <3>2. CASE i \in 1..n
      BY <1>5, <1>20, <3>2
    <3> QED
      BY <1>14, <3>1, <3>2
  <2> QED
    BY <2>4, <2>5
<1> QED
  BY <1>6, <1>9, <1>11, <1>12, <1>13 DEF PagingInv

LEMMA FetchPageKeeps == PagingInv /\ FetchPage => PagingInv'
<1> SUFFICES ASSUME PagingInv, FetchPage PROVE PagingInv'
  OBVIOUS
<1>0. PagingRecords /\ IdsInOrder /\ FreshIterator /\ IdsArePositions
  BY DEF PagingInv
<1> DEFINE from == pages.page.from
           page == PageFrom(from)
<1>1. /\ pages.state = "fetch"
      /\ pages' = [pages EXCEPT !.state = "next", !.index = 0, !.page = page]
      /\ UNCHANGED <<collection, changes>>
  BY DEF FetchPage
<1>2. /\ from \in Nat /\ (pages.api = "manager" => from >= 1) /\ pages.yielded = <<>>
      /\ changes.appended = 0 /\ PageStart(from) = 0
  BY <1>0, <1>1 DEF PagingRecords, PageRecords, FreshIterator, Start
<1>3. /\ page \in PageRecords /\ page.from = from /\ page.items = ServerItems(0)
      /\ ~page.last =>
            /\ Len(page.items) < Len(collection)
            /\ pages.api = "manager" => Len(page.items) = pages.size
      /\ page.last => IF pages.api = "manager" THEN Len(collection) <= Len(page.items) + pages.size
                      ELSE Len(collection) <= Len(page.items)
  <2>1. /\ page \in PageRecords /\ page.from = from
        /\ page.items = ServerItems(PageStart(from))
        /\ ~page.last =>
              /\ PageStart(from) + Len(ServerItems(PageStart(from))) < Len(collection)
              /\ pages.api = "manager" => Len(ServerItems(PageStart(from))) = pages.size
        /\ page.last =>
                 IF pages.api = "manager"
                 THEN Len(collection) <= PageStart(from) + Len(ServerItems(PageStart(from))) + pages.size
                 ELSE Len(collection) <= PageStart(from) + Len(ServerItems(PageStart(from)))
    BY <1>0, <1>2, PageFromIs
  <2>2. Len(page.items) \in Nat /\ 0 + Len(page.items) = Len(page.items)
    BY <2>1 DEF PageRecords
  <2> HIDE DEF page, from
  <2> QED
    BY <1>2, <2>1, <2>2
<1> HIDE DEF page
<1>4. /\ pages'.state = "next" /\ pages'.api = pages.api /\ pages'.size = pages.size
      /\ pages'.page = page /\ pages'.index = 0 /\ pages'.yielded = <<>>
  BY <1>0, <1>1, <1>2 DEF PagingRecords
<1>5. /\ Len(page.items) \in Nat /\ Len(page.items) <= Len(collection)
      /\ \A k \in 1..Len(page.items) : k <= Len(collection) /\ page.items[k] = collection[k]
  <2>1. /\ 0 <= Len(collection) => 0 + Len(ServerItems(0)) <= Len(collection)
        /\ \A k \in 1..Len(ServerItems(0)) : 0 + k <= Len(collection) /\ ServerItems(0)[k] = collection[0 + k]
    BY <1>0, ServerItemsAre
  <2>2. Len(collection) \in Nat /\ Len(page.items) \in Nat
    BY <1>0, <1>3 DEF PagingRecords, PageRecords
  <2> QED
    BY <1>3, <2>1, <2>2
<1>6. /\ Increasing(page.items) /\ UpTo(page.items, changes.created)
      /\ \A j \in 1..Len(collection), k \in 1..Len(page.items) :
             j > 0 + Len(page.items) => page.items[k] < collection[j]
  BY <1>0, <1>3, ItemsAreOrdered
<1>7. Start' = 0 /\ PageEnd' = Len(page.items)
  <2>1. pages'.page.from = from
    BY <1>3, <1>4
  <2> HIDE DEF from
  <2>2. Start' = PageStart(from)
    BY <1>4, <2>1 DEF Start, PageStart
  <2> QED
    BY <1>2, <1>4, <1>5, <2>2 DEF PageEnd
<1>8. PagingRecords'
  <2>1. pages' \in [state : {"new", "fetch", "next", "stopped", "indexError"}, api : Apis,
                    size : Nat \ {0}, page : PageRecords, index : Nat, yielded : Seq(Nat)]
    BY <1>0, <1>1, <1>3 DEF PagingRecords
  <2>2. pages'.index <= Len(pages'.page.items)
    BY <1>4, <1>5
  <2> QED
    BY <1>0, <1>1, <1>2, <1>3, <1>4, <2>1, <2>2 DEF PagingRecords
<1>9. IdsInOrder'
  BY <1>0, <1>1, <1>4, <1>6 DEF IdsInOrder, Increasing, UpTo
<1>10. BehindThePage'
  <2> SUFFICES ASSUME NEW j \in 1..Len(collection), j > Len(page.items)
               PROVE  \A k \in 1..Len(page.items) : page.items[k] < collection[j]
    BY <1>1, <1>4, <1>7 DEF BehindThePage
  <2> QED
    BY <1>5, <1>6
<1>11. PagesAreFull'
  BY <1>3, <1>4 DEF PagesAreFull
<1>12. FreshIterator' /\ StopsAtTheLast'
  BY <1>4 DEF FreshIterator, StopsAtTheLast
<1>13. IdsArePositions'
  <2> SUFFICES ASSUME changes.deleted = 0
               PROVE  /\ \A k \in 1..Len(page.items) : page.items[k] = 0 + k
                      /\ Len(<<>>) = 0 + 0 /\ Len(page.items) <= changes.created
                      /\ page.last => IF pages.api = "manager"
                                      THEN changes.created <= Len(page.items) + pages.size + changes.appended
                                      ELSE changes.created <= Len(page.items) + changes.appended
                      /\ ~page.last => Len(page.items) < changes.created
    BY <1>0, <1>1, <1>4, <1>7 DEF IdsArePositions
  <2>1. Len(collection) = changes.created /\ \A i \in 1..Len(collection) : collection[i] = i
    BY <1>0 DEF IdsArePositions
  <2>2. Len(collection) \in Nat /\ pages.size \in Nat
    BY <1>0 DEF PagingRecords
  <2>3. ASSUME NEW k \in 1..Len(page.items) PROVE page.items[k] = 0 + k
    <3>1. k \in 1..Len(collection)
      BY <1>5, <2>2
    <3> QED
      BY <1>5, <2>1, <3>1
  <2> QED
    BY <1>2, <1>3, <1>5, <2>1, <2>2, <2>3
<1> QED
  BY <1>8, <1>9, <1>10, <1>11, <1>12, <1>13 DEF PagingInv

LEMMA TurnPageKeeps == PagingInv /\ TurnPage => PagingInv'
<1> SUFFICES ASSUME PagingInv, TurnPage PROVE PagingInv'
  OBVIOUS
<1>0. /\ PagingRecords /\ IdsInOrder /\ BehindThePage /\ PagesAreFull /\ IdsArePositions
  BY DEF PagingInv
<1> DEFINE from == IF pages.api = "manager" THEN pages.page.from + 1
                   ELSE pages.page.from + Len(pages.page.items)
           page == PageFrom(from)
           empty == page.items = <<>>
           n == Len(pages.yielded)
<1>1. /\ pages.state = "next" /\ pages.index >= Len(pages.page.items) /\ ~pages.page.last
      /\ pages' = [pages EXCEPT !.page = page, !.state = IF empty THEN "indexError" ELSE "next",
                                !.index = IF empty THEN 0 ELSE 1,
                                !.yielded = IF empty THEN @ ELSE Append(@, Head(page.items))]
      /\ UNCHANGED <<collection, changes>>
  BY DEF TurnPage
<1>2. /\ pages.page.from \in Nat /\ pages.page.items \in Seq(Nat) /\ Len(pages.page.items) \in Nat
      /\ pages.index = Len(pages.page.items) /\ pages.yielded \in Seq(Nat) /\ n \in Nat
      /\ pages.size \in Nat \ {0} /\ (pages.api = "manager" => pages.page.from >= 1)
      /\ Len(collection) \in Nat
  BY <1>0, <1>1 DEF PagingRecords, PageRecords
<1>3. from \in Nat /\ (pages.api = "manager" => from >= 1)
  BY <1>2
<1>4. PageStart(from) = PageEnd /\ PageEnd \in Nat
  <2>1. CASE pages.api = "manager"
    <3>1. /\ (pages.page.from - 1) * pages.size \in Nat
          /\ pages.page.from * pages.size = (pages.page.from - 1) * pages.size + pages.size
      <4>1. pages.page.from \in Nat \ {0} /\ pages.size \in Nat
        BY <1>2, <2>1
      <4> QED
        BY <4>1, PageProducts
    <3>2. Len(pages.page.items) = pages.size
      BY <1>0, <1>1, <2>1 DEF PagesAreFull
    <3>3. from - 1 = pages.page.from
      BY <1>2, <2>1
    <3>4. PageStart(from) = pages.page.from * pages.size
      BY <2>1, <3>3 DEF PageStart
    <3>5. PageEnd = (pages.page.from - 1) * pages.size + pages.size
      BY <2>1, <3>2 DEF PageEnd, Start, PageStart
    <3> QED
      BY <1>2, <3>1, <3>4, <3>5
  <2>2. CASE pages.api # "manager"
    BY <1>2, <2>2 DEF PageStart, PageEnd, Start
  <2> QED
    BY <2>1, <2>2
<1>5. /\ page \in PageRecords /\ page.from = from /\ page.items = ServerItems(PageEnd)
      /\ ~page.last =>
            /\ PageEnd + Len(page.items) < Len(collection)
            /\ pages.api = "manager" => Len(page.items) = pages.size
      /\ page.last =>
            IF pages.api = "manager"
            THEN Len(collection) <= PageEnd + Len(page.items) + pages.size
            ELSE Len(collection) <= PageEnd + Len(page.items)
  BY <1>0, <1>3, <1>4, PageFromIs
<1>6. from = page.from /\ (empty <=> page.items = <<>>)
  BY <1>5
<1> HIDE DEF page, from
<1>7. /\ pages'.api = pages.api /\ pages'.size = pages.size /\ pages'.page = page
      /\ pages'.state = (IF empty THEN "indexError" ELSE "next")
      /\ pages'.index = (IF empty THEN 0 ELSE 1)
      /\ pages'.yielded = IF empty THEN pages.yielded ELSE Append(pages.yielded, Head(page.items))
  BY <1>0, <1>1 DEF PagingRecords
<1>8. /\ page.items \in Seq(Nat) /\ Len(page.items) \in Nat
      /\ \A k \in 1..Len(page.items) :
            PageEnd + k <= Len(collection) /\ page.items[k] = collection[PageEnd + k]
      /\ PageEnd <= Len(collection) => PageEnd + Len(page.items) <= Len(collection)
      /\ PageEnd < Len(collection) => Len(page.items) >= 1
  <2>1. /\ ServerItems(PageEnd) \in Seq(Nat)
        /\ \A k \in 1..Len(ServerItems(PageEnd)) :
               PageEnd + k <= Len(collection) /\ ServerItems(PageEnd)[k] = collection[PageEnd + k]
        /\ PageEnd <= Len(collection) => PageEnd + Len(ServerItems(PageEnd)) <= Len(collection)
        /\ PageEnd < Len(collection) => Len(ServerItems(PageEnd)) >= 1
    BY <1>0, <1>4, ServerItemsAre
  <2> QED
    BY <1>5, <2>1
<1>9. /\ Increasing(page.items) /\ UpTo(page.items, changes.created)
      /\ \A j \in 1..Len(collection), k \in 1..Len(page.items) :
             j > PageEnd + Len(page.items) => page.items[k] < collection[j]
  BY <1>0, <1>4, <1>5, ItemsAreOrdered
<1>10. Start' = PageEnd /\ PageEnd' = PageEnd + Len(page.items)
  BY <1>4, <1>6, <1>7 DEF Start, PageEnd, PageStart
<1>11. \A i \in 1..n, k \in 1..Len(page.items) : pages.yielded[i] < page.items[k]
  <2> TAKE i \in 1..n, k \in 1..Len(page.items)
  <2>1. PageEnd + k \in 1..Len(collection) /\ PageEnd + k > PageEnd
        /\ page.items[k] = collection[PageEnd + k]
    BY <1>2, <1>4, <1>8
  <2> QED
    BY <1>0, <1>1, <2>1 DEF BehindThePage
<1>12. CASE empty
  <2>1. Len(page.items) = 0
    BY <1>12
  <2>2. PagingRecords'
    <3>1. pages' \in [state : {"new", "fetch", "next", "stopped", "indexError"}, api : Apis,
                      size : Nat \ {0}, page : PageRecords, index : Nat, yielded : Seq(Nat)]
      <4>1. pages' = [pages EXCEPT !.page = page, !.state = "indexError", !.index = 0, !.yielded = @]
        BY <1>1, <1>12
      <4> HIDE DEF empty
      <4> QED
        BY <1>0, <1>5, <4>1 DEF PagingRecords
    <3> QED
      BY <1>0, <1>1, <1>3, <1>6, <1>7, <1>12, <2>1, <3>1 DEF PagingRecords
  <2>3. IdsInOrder'
    BY <1>0, <1>1, <1>7, <1>9, <1>12, <2>1 DEF IdsInOrder
  <2>4. BehindThePage' /\ PagesAreFull' /\ FreshIterator' /\ StopsAtTheLast'
    BY <1>7, <1>12 DEF BehindThePage, PagesAreFull, FreshIterator, StopsAtTheLast
  <2>5. changes.deleted # 0
    <3>1. changes.deleted = 0 => PageEnd < Len(collection)
      BY <1>0, <1>1 DEF IdsArePositions
    <3> QED
      BY <1>8, <2>1, <3>1
  <2>6. IdsArePositions'
    BY <1>1, <2>5 DEF IdsArePositions
  <2> QED
    BY <2>2, <2>3, <2>4, <2>6 DEF PagingInv
<1>13. CASE ~empty
  <2> DEFINE item == page.items[1]
  <2>1. Len(page.items) >= 1 /\ Head(page.items) = item /\ item \in Nat
    <3>1. Len(page.items) \in Nat \ {0}
      BY <1>8, <1>13, EmptySeq
    <3>2. 1 \in 1..Len(page.items)
      BY <3>1
    <3> QED
      BY <1>8, <1>13, <3>1, <3>2, ElementOfSeq
  <2>2. /\ pages'.state = "next" /\ pages'.index = 1
        /\ pages'.yielded = Append(pages.yielded, item)
    BY <1>7, <1>13, <2>1
  <2>3. /\ pages'.yielded \in Seq(Nat) /\ Len(pages'.yielded) = n + 1
        /\ pages'.yielded[n + 1] = item /\ \A i \in 1..n : pages'.yielded[i] = pages.yielded[i]
    BY <1>2, <2>1, <2>2, AppendProperties
  <2>4. PagingRecords'
    <3>1. pages' \in [state : {"new", "fetch", "next", "stopped", "indexError"}, api : Apis,
                      size : Nat \ {0}, page : PageRecords, index : Nat, yielded : Seq(Nat)]
      <4>1. pages' = [pages EXCEPT !.page = page, !.state = "next", !.index = 1,
                                  !.yielded = Append(@, item)]
        BY <1>1, <1>13, <2>1
      <4>2. Append(pages.yielded, item) \in Seq(Nat)
        BY <2>2, <2>3
      <4> HIDE DEF empty, item
      <4> QED
        BY <1>0, <1>5, <4>1, <4>2 DEF PagingRecords
    <3> QED
      BY <1>0, <1>1, <1>3, <1>6, <1>7, <2>1, <2>2, <3>1 DEF PagingRecords
  <2>5. \A i \in 1..(n + 1) : i = n + 1 \/ i \in 1..n
    BY <1>2
  <2>6. 1 \in 1..Len(page.items)
    BY <1>8, <2>1
  <2>7. \A i \in 1..n : pages.yielded[i] < item
    BY <1>11, <2>6
  <2>8. 1 <= item /\ item <= changes.created
    BY <1>9, <2>6 DEF UpTo
  <2>9. \A k \in 2..Len(page.items) : item < page.items[k]
    <3> TAKE k \in 2..Len(page.items)
    <3>1. k \in 1..Len(page.items) /\ 1 < k
      BY <1>8
    <3> QED
      BY <1>9, <2>6, <3>1 DEF Increasing
  <2>10. \A i, j \in 1..n : i < j => pages.yielded[i] < pages.yielded[j]
    BY <1>0 DEF IdsInOrder, Increasing
  <2>11. \A i \in 1..n : 1 <= pages.yielded[i] /\ pages.yielded[i] <= changes.created
    BY <1>0 DEF IdsInOrder, UpTo
  <2>12. item = collection[PageEnd + 1] /\ PageEnd + 1 \in 1..Len(collection)
    BY <1>2, <1>4, <1>8, <2>6
  <2>13. changes.deleted = 0 =>
            /\ n = PageEnd /\ \A i \in 1..n : pages.yielded[i] = i
            /\ Len(collection) = changes.created /\ \A i \in 1..Len(collection) : collection[i] = i
            /\ PageEnd < Len(collection)
    BY <1>0, <1>1, <1>2 DEF IdsArePositions, PageEnd
  <2>14. \A j \in 1..Len(collection) : j > PageEnd => \A i \in 1..n : pages.yielded[i] < collection[j]
    BY <1>0, <1>1 DEF BehindThePage
  <2> HIDE DEF item, n, empty
  <2>15. Increasing(pages'.yielded)
    <3> SUFFICES ASSUME NEW i \in 1..(n + 1), NEW j \in 1..(n + 1), i < j
                 PROVE  pages'.yielded[i] < pages'.yielded[j]
      BY <2>3 DEF Increasing
    <3>1. i \in 1..n
      BY <1>2 DEF n
    <3>2. CASE j = n + 1
      BY <2>3, <2>7, <3>1, <3>2
    <3>3. CASE j \in 1..n
      BY <2>3, <2>10, <3>1, <3>3
    <3> QED
      BY <2>5, <3>2, <3>3
  <2>16. UpTo(pages'.yielded, changes.created)
    <3> SUFFICES ASSUME NEW i \in 1..(n + 1)
                 PROVE  1 <= pages'.yielded[i] /\ pages'.yielded[i] <= changes.created
      BY <2>3 DEF UpTo
    <3>2. CASE i = n + 1
      BY <2>3, <2>8, <3>2
    <3>3. CASE i \in 1..n
      BY <2>3, <2>11, <3>3
    <3> QED
      BY <2>5, <3>2, <3>3
  <2>17. ASSUME NEW i \in 1..(n + 1), NEW k \in 2..Len(page.items)
         PROVE  pages'.yielded[i] < page.items[k]
    <3>1. CASE i = n + 1
      BY <2>3, <2>9, <3>1
    <3>2. CASE i \in 1..n
      <4>1. k \in 1..Len(page.items)
        BY <1>8
      <4> QED
        BY <1>11, <2>3, <3>2, <4>1 DEF n
    <3> QED
      BY <2>5, <3>1, <3>2
  <2>18. IdsInOrder'
    BY <1>0, <1>1, <1>7, <1>9, <2>2, <2>3, <2>15, <2>16, <2>17, SMTT(20) DEF IdsInOrder
  <2>19. BehindThePage'
    <3> SUFFICES ASSUME NEW j \in 1..Len(collection), j > PageEnd + Len(page.items)
                 PROVE  /\ \A i \in 1..(n + 1) : pages'.yielded[i] < collection[j]
                        /\ \A k \in 1..Len(page.items) : page.items[k] < collection[j]
      BY <1>1, <1>7, <1>10, <2>2, <2>3 DEF BehindThePage
    <3>1. \A k \in 1..Len(page.items) : page.items[k] < collection[j]
      BY <1>9
    <3>2. item < collection[j]
      BY <2>6, <3>1 DEF item
    <3>3. j > PageEnd
      BY <1>4, <1>8
    <3>4. ASSUME NEW i \in 1..(n + 1) PROVE pages'.yielded[i] < collection[j]
      <4>1. CASE i = n + 1
        BY <2>3, <3>2, <4>1
      <4>2. CASE i \in 1..n
        BY <2>3, <2>14, <3>3, <4>2
      <4> QED
        BY <2>5, <4>1, <4>2
    <3> QED
      BY <3>1, <3>4
  <2>20. PagesAreFull'
    BY <1>5, <1>7 DEF PagesAreFull
  <2>21. FreshIterator' /\ StopsAtTheLast'
    BY <2>2 DEF FreshIterator, StopsAtTheLast
  <2>22. IdsArePositions'
    <3> SUFFICES ASSUME changes.deleted = 0
                 PROVE  /\ \A i \in 1..(n + 1) : pages'.yielded[i] = i
                        /\ \A k \in 1..Len(page.items) : page.items[k] = PageEnd + k
                        /\ n + 1 = PageEnd + 1 /\ PageEnd + Len(page.items) <= changes.created
                        /\ page.last =>
                              IF pages.api = "manager"
                              THEN changes.created <= PageEnd + Len(page.items) + pages.size + changes.appended
                              ELSE changes.created <= PageEnd + Len(page.items) + changes.appended
                        /\ ~page.last => PageEnd + Len(page.items) < changes.created
      BY <1>0, <1>1, <1>7, <1>10, <2>2, <2>3 DEF IdsArePositions
    <3>1. /\ n = PageEnd /\ \A i \in 1..n : pages.yielded[i] = i
          /\ Len(collection) = changes.created /\ \A i \in 1..Len(collection) : collection[i] = i
          /\ PageEnd < Len(collection)
      BY <2>13
    <3>2. ASSUME NEW k \in 1..Len(page.items) PROVE page.items[k] = PageEnd + k
      <4>1. PageEnd + k \in 1..Len(collection)
        BY <1>2, <1>4, <1>8
      <4> QED
        BY <1>8, <3>1, <4>1
    <3>3. item = n + 1
      BY <2>12, <3>1
    <3>4. ASSUME NEW i \in 1..(n + 1) PROVE pages'.yielded[i] = i
      <4>1. CASE i = n + 1
        BY <2>3, <3>3, <4>1
      <4>2. CASE i \in 1..n
        BY <2>3, <3>1, <4>2
      <4> QED
        BY <2>5, <4>1, <4>2
    <3>5. changes.appended \in Nat
      BY <1>0 DEF PagingRecords
    <3>6. PageEnd + Len(page.items) <= changes.created
      BY <1>2, <1>4, <1>8, <3>1
    <3>7. page.last =>
            IF pages.api = "manager"
            THEN changes.created <= PageEnd + Len(page.items) + pages.size + changes.appended
            ELSE changes.created <= PageEnd + Len(page.items) + changes.appended
      BY <1>2, <1>4, <1>5, <1>8, <3>1, <3>5, SMTT(20)
    <3> QED
      BY <1>5, <3>1, <3>2, <3>4, <3>6, <3>7
  <2> QED
    BY <2>4, <2>18, <2>19, <2>20, <2>21, <2>22 DEF PagingInv
<1> QED
  BY <1>12, <1>13

LEMMA AppendItemKeeps == PagingInv /\ AppendItem => PagingInv'
<1> SUFFICES ASSUME PagingInv, AppendItem PROVE PagingInv'
  OBVIOUS
<1>0. /\ PagingRecords /\ IdsInOrder /\ BehindThePage /\ PagesAreFull /\ IdsArePositions
  BY DEF PagingInv
<1> DEFINE n == Len(collection)
           id == changes.created + 1
<1>1. /\ pages.state = "next" /\ changes.created < MaxItems
      /\ collection' = Append(collection, id)
      /\ changes' = [changes EXCEPT !.created = @ + 1, !.appended = @ + 1]
      /\ UNCHANGED pages
  BY DEF AppendItem
<1>2. /\ changes.created \in Nat /\ changes.appended \in Nat /\ changes.deleted \in Nat
      /\ changes'.created = id /\ changes'.appended = changes.appended + 1
      /\ changes'.deleted = changes.deleted
      /\ changes' \in [created : Nat, appended : Nat, deleted : Nat]
  <2>1. changes \in [created : Nat, appended : Nat, deleted : Nat]
    BY <1>0 DEF PagingRecords
  <2>2. changes' = [created |-> changes.created + 1, appended |-> changes.appended + 1,
                    deleted |-> changes.deleted]
    BY <1>1, <2>1
  <2> QED
    BY <2>1, <2>2
<1>3. /\ collection \in Seq(Nat) /\ id \in Nat /\ n \in Nat
      /\ collection' \in Seq(Nat) /\ Len(collection') = n + 1
      /\ collection'[n + 1] = id /\ \A i \in 1..n : collection'[i] = collection[i]
  BY <1>0, <1>1, <1>2, AppendProperties DEF PagingRecords
<1>4. /\ pages.yielded \in Seq(Nat) /\ pages.page.items \in Seq(Nat) /\ pages.index \in Nat
      /\ Len(pages.page.items) \in Nat /\ Len(pages.yielded) \in Nat /\ pages.size \in Nat
  BY <1>0 DEF PagingRecords, PageRecords
<1>5. PagingRecords'
  <2>1. changes'.created <= MaxItems /\ changes'.appended <= changes'.created
    BY <1>0, <1>1, <1>2, PagingAssumption DEF PagingRecords
  <2> QED
    BY <1>0, <1>1, <1>2, <1>3, <2>1 DEF PagingRecords
<1>6. /\ \A i \in 1..n : 1 <= collection[i] /\ collection[i] < id /\ collection[i] \in Nat
      /\ \A i \in 1..Len(pages.yielded) :
             1 <= pages.yielded[i] /\ pages.yielded[i] < id /\ pages.yielded[i] \in Nat
      /\ \A i \in 1..Len(pages.page.items) :
             1 <= pages.page.items[i] /\ pages.page.items[i] < id /\ pages.page.items[i] \in Nat
  <2>1. /\ \A i \in 1..n : collection[i] \in Nat
        /\ \A i \in 1..Len(pages.yielded) : pages.yielded[i] \in Nat
        /\ \A i \in 1..Len(pages.page.items) : pages.page.items[i] \in Nat
    BY <1>3, <1>4, ElementOfSeq
  <2>2. \A x \in Nat : x <= changes.created => x < id
    BY <1>2
  <2>3. /\ \A i \in 1..n : 1 <= collection[i] /\ collection[i] <= changes.created
        /\ \A i \in 1..Len(pages.yielded) :
               1 <= pages.yielded[i] /\ pages.yielded[i] <= changes.created
        /\ \A i \in 1..Len(pages.page.items) :
               1 <= pages.page.items[i] /\ pages.page.items[i] <= changes.created
    BY <1>0 DEF IdsInOrder, UpTo
  <2> HIDE DEF id
  <2> QED
    BY <2>1, <2>2, <2>3
<1>7. \A i \in 1..(n + 1) : i = n + 1 \/ i \in 1..n
  BY <1>3
<1>8. \A i, j \in 1..n : i < j => collection[i] < collection[j]
  BY <1>0 DEF IdsInOrder, Increasing
<1>9. \A j \in 1..n : j > PageEnd =>
          /\ \A i \in 1..Len(pages.yielded) : pages.yielded[i] < collection[j]
          /\ \A k \in 1..Len(pages.page.items) : pages.page.items[k] < collection[j]
  BY <1>0, <1>1 DEF BehindThePage
<1>10. changes.deleted = 0 => n = changes.created /\ \A i \in 1..n : collection[i] = i
  BY <1>0 DEF IdsArePositions
<1>11. id = changes.created + 1
  OBVIOUS
<1>12. Start' = Start /\ PageEnd' = PageEnd
  BY <1>1 DEF Start, PageStart, PageEnd
<1> HIDE DEF n, id
<1>13. IdsInOrder'
  <2>1. Increasing(collection')
    <3> SUFFICES ASSUME NEW i \in 1..(n + 1), NEW j \in 1..(n + 1), i < j
                 PROVE  collection'[i] < collection'[j]
      BY <1>3 DEF Increasing
    <3>1. i \in 1..n
      BY <1>3
    <3>2. CASE j = n + 1
      BY <1>3, <1>6, <3>1, <3>2
    <3>3. CASE j \in 1..n
      BY <1>3, <1>8, <3>1, <3>3
    <3> QED
      BY <1>7, <3>2, <3>3
  <2>2. UpTo(collection', id)
    <3> SUFFICES ASSUME NEW i \in 1..(n + 1) PROVE 1 <= collection'[i] /\ collection'[i] <= id
      BY <1>3 DEF UpTo
    <3>1. CASE i = n + 1
      BY <1>2, <1>3, <1>11, <3>1
    <3>2. CASE i \in 1..n
      <4>1. 1 <= collection[i] /\ collection[i] < id /\ collection[i] \in Nat
        BY <1>6, <3>2
      <4> QED
        BY <1>3, <3>2, <4>1
    <3> QED
      BY <1>7, <3>1, <3>2
  <2>3. UpTo(pages.yielded, id) /\ UpTo(pages.page.items, id)
    BY <1>3, <1>6 DEF UpTo
  <2> QED
    BY <1>0, <1>1, <1>2, <2>1, <2>2, <2>3 DEF IdsInOrder
<1>14. BehindThePage'
  <2> SUFFICES ASSUME NEW j \in 1..(n + 1), j > PageEnd
               PROVE  /\ \A i \in 1..Len(pages.yielded) : pages.yielded[i] < collection'[j]
                      /\ \A k \in 1..Len(pages.page.items) : pages.page.items[k] < collection'[j]
    BY <1>1, <1>3, <1>12 DEF BehindThePage
  <2>1. CASE j = n + 1
    BY <1>3, <1>6, <2>1
  <2>2. CASE j \in 1..n
    BY <1>3, <1>9, <2>2
  <2> QED
    BY <1>7, <2>1, <2>2
<1>15. PagesAreFull' /\ FreshIterator' /\ StopsAtTheLast'
  BY <1>0, <1>1 DEF PagesAreFull, FreshIterator, StopsAtTheLast
<1>16. IdsArePositions'
  <2> SUFFICES ASSUME changes.deleted = 0
               PROVE  /\ n + 1 = id /\ \A i \in 1..(n + 1) : collection'[i] = i
                      /\ \A i \in 1..Len(pages.yielded) : pages.yielded[i] = i
                      /\ \A k \in 1..Len(pages.page.items) : pages.page.items[k] = Start + k
                      /\ Len(pages.yielded) = Start + pages.index /\ PageEnd <= id
                      /\ pages.page.last =>
                            IF pages.api = "manager"
                            THEN id <= PageEnd + pages.size + (changes.appended + 1)
                            ELSE id <= PageEnd + (changes.appended + 1)
                      /\ ~pages.page.last => PageEnd < id
    BY <1>1, <1>2, <1>3, <1>12 DEF IdsArePositions
  <2>1. /\ \A i \in 1..Len(pages.yielded) : pages.yielded[i] = i
        /\ \A k \in 1..Len(pages.page.items) : pages.page.items[k] = Start + k
        /\ Len(pages.yielded) = Start + pages.index /\ PageEnd <= changes.created
        /\ pages.page.last =>
              IF pages.api = "manager"
              THEN changes.created <= PageEnd + pages.size + changes.appended
              ELSE changes.created <= PageEnd + changes.appended
        /\ ~pages.page.last => PageEnd < changes.created
    BY <1>0, <1>1 DEF IdsArePositions
  <2>2. PageEnd \in Int
    BY <1>0, <1>4 DEF PageEnd, Start, PageStart, PagingRecords, PageRecords
  <2>3. n + 1 = id
    BY <1>10, <1>11
  <2>4. ASSUME NEW i \in 1..(n + 1) PROVE collection'[i] = i
    <3>1. CASE i = n + 1
      BY <1>3, <2>3, <3>1
    <3>2. CASE i \in 1..n
      BY <1>3, <1>10, <3>2
    <3> QED
      BY <1>7, <3>1, <3>2
  <2>5. PageEnd <= id /\ (~pages.page.last => PageEnd < id)
    BY <1>2, <1>11, <2>1, <2>2
  <2>6. pages.page.last =>
            IF pages.api = "manager"
            THEN id <= PageEnd + pages.size + (changes.appended + 1)
            ELSE id <= PageEnd + (changes.appended + 1)
    BY <1>2, <1>4, <1>11, <2>1, <2>2, SMTT(20)
  <2> QED
    BY <2>1, <2>3, <2>4, <2>5, <2>6
<1> QED
  BY <1>5, <1>13, <1>14, <1>15, <1>16 DEF PagingInv

\* What is behind a removed item moves forward by one.
LEMMA RemoveAtIs == ASSUME NEW s \in Seq(Nat), NEW i \in 1..Len(s)
                    PROVE  /\ RemoveAt(s, i) \in Seq(Nat) /\ Len(RemoveAt(s, i)) = Len(s) - 1
                           /\ \A j \in 1..(Len(s) - 1) :
                                 RemoveAt(s, i)[j] = IF j < i THEN s[j] ELSE s[j + 1]
<1> DEFINE a == SubSeq(s, 1, i - 1)
           b == SubSeq(s, i + 1, Len(s))
           n == Len(s)
<1>1. n \in Nat /\ i \in Int /\ \A k \in 1..n : s[k] \in Nat
  BY ElementOfSeq
<1>2. /\ a \in Seq(Nat) /\ Len(a) = (IF 1 <= i - 1 THEN i - 1 - 1 + 1 ELSE 0)
      /\ \A k \in 1..(i - 1 - 1 + 1) : a[k] = s[1 + k - 1]
  <2>1. \A k \in 1..(i - 1) : s[k] \in Nat
    BY <1>1
  <2>2. 1 \in Int /\ i - 1 \in Int
    OBVIOUS
  <2> QED
    BY <2>1, <2>2, SubSeqProperties
<1>3. /\ b \in Seq(Nat) /\ Len(b) = (IF i + 1 <= n THEN n - (i + 1) + 1 ELSE 0)
      /\ \A k \in 1..(n - (i + 1) + 1) : b[k] = s[(i + 1) + k - 1]
  <2>1. \A k \in (i + 1)..n : s[k] \in Nat
    BY <1>1
  <2>2. i + 1 \in Int /\ n \in Int
    BY <1>1
  <2> QED
    BY <2>1, <2>2, SubSeqProperties
<1>4. RemoveAt(s, i) = a \o b
  BY DEF RemoveAt
<1>5. i \in 1..n
  OBVIOUS
<1> HIDE DEF a, b, n
<1>6. Len(a) = i - 1 /\ Len(b) = n - i
  BY <1>1, <1>2, <1>3, <1>5
<1>7. /\ a \o b \in Seq(Nat) /\ Len(a \o b) = Len(a) + Len(b)
      /\ \A k \in 1 .. Len(a) + Len(b) : (a \o b)[k] = IF k <= Len(a) THEN a[k] ELSE b[k - Len(a)]
  BY <1>2, <1>3, ConcatProperties
<1>8. ASSUME NEW j \in 1..(n - 1) PROVE (a \o b)[j] = IF j < i THEN s[j] ELSE s[j + 1]
  <2>1. CASE j < i
    <3>1. j \in 1 .. Len(a) + Len(b) /\ j <= Len(a) /\ j \in 1..(i - 1 - 1 + 1) /\ 1 + j - 1 = j
      BY <1>1, <1>5, <1>6, <2>1
    <3> QED
      BY <1>2, <1>7, <2>1, <3>1
  <2>2. CASE ~(j < i)
    <3>1. /\ j \in 1 .. Len(a) + Len(b) /\ ~(j <= Len(a))
          /\ j - Len(a) \in 1..(n - (i + 1) + 1) /\ (i + 1) + (j - Len(a)) - 1 = j + 1
      BY <1>1, <1>5, <1>6, <2>2
    <3>2. b[j - Len(a)] = s[j + 1]
      BY <1>3, <3>1
    <3> QED
      BY <1>7, <2>2, <3>1, <3>2
  <2> QED
    BY <2>1, <2>2
<1>9. Len(a) + Len(b) = n - 1
  BY <1>1, <1>5, <1>6
<1> QED
  BY <1>4, <1>7, <1>8, <1>9 DEF n

LEMMA DeleteItemKeeps == PagingInv /\ DeleteItem => PagingInv'
<1> SUFFICES ASSUME PagingInv, DeleteItem PROVE PagingInv'
  OBVIOUS
<1>0. /\ PagingRecords /\ IdsInOrder /\ BehindThePage /\ PagesAreFull
  BY DEF PagingInv
<1>1. PICK d \in 1..Len(collection) : collection' = RemoveAt(collection, d)
  BY DEF DeleteItem
<1>2. /\ pages.state = "next" /\ changes' = [changes EXCEPT !.deleted = @ + 1] /\ UNCHANGED pages
  BY DEF DeleteItem
<1> DEFINE n == Len(collection)
<1>3. /\ changes' \in [created : Nat, appended : Nat, deleted : Nat]
      /\ changes'.created = changes.created /\ changes'.appended = changes.appended
      /\ changes'.deleted = changes.deleted + 1 /\ changes.deleted \in Nat
  <2>1. changes \in [created : Nat, appended : Nat, deleted : Nat]
    BY <1>0 DEF PagingRecords
  <2>2. changes' = [created |-> changes.created, appended |-> changes.appended,
                    deleted |-> changes.deleted + 1]
    BY <1>2, <2>1
  <2> QED
    BY <2>1, <2>2
<1>4. /\ collection' \in Seq(Nat) /\ Len(collection') = n - 1 /\ n \in Nat
      /\ \A j \in 1..(n - 1) : collection'[j] = IF j < d THEN collection[j] ELSE collection[j + 1]
  <2>1. collection \in Seq(Nat) /\ Len(collection) \in Nat
    BY <1>0 DEF PagingRecords
  <2>2. /\ RemoveAt(collection, d) \in Seq(Nat)
        /\ Len(RemoveAt(collection, d)) = Len(collection) - 1
        /\ \A j \in 1..(Len(collection) - 1) :
              RemoveAt(collection, d)[j] = IF j < d THEN collection[j] ELSE collection[j + 1]
    BY <1>1, <2>1, RemoveAtIs
  <2> QED
    BY <1>1, <2>1, <2>2
<1>5. d \in 1..n
  BY <1>1
<1> DEFINE at(j) == IF j < d THEN j ELSE j + 1
<1>6. \A j \in 1..(n - 1) : at(j) \in 1..n /\ at(j) >= j /\ collection'[j] = collection[at(j)]
  BY <1>4, <1>5
<1>7. \A i, j \in 1..(n - 1) : i < j => at(i) < at(j)
  BY <1>5
<1>8. \A i, j \in 1..n : i < j => collection[i] < collection[j]
  BY <1>0 DEF IdsInOrder, Increasing
<1>9. \A i \in 1..n : 1 <= collection[i] /\ collection[i] <= changes.created
  BY <1>0 DEF IdsInOrder, UpTo
<1>10. \A j \in 1..n : j > PageEnd =>
          /\ \A i \in 1..Len(pages.yielded) : pages.yielded[i] < collection[j]
          /\ \A k \in 1..Len(pages.page.items) : pages.page.items[k] < collection[j]
  BY <1>0, <1>2 DEF BehindThePage
<1> HIDE DEF at, n
<1>11. PagingRecords'
  BY <1>0, <1>2, <1>3, <1>4 DEF PagingRecords
<1>12. IdsInOrder'
  <2>1. Increasing(collection')
    BY <1>4, <1>6, <1>7, <1>8 DEF Increasing
  <2>2. UpTo(collection', changes.created)
    BY <1>4, <1>6, <1>9 DEF UpTo
  <2> QED
    BY <1>0, <1>2, <1>3, <2>1, <2>2 DEF IdsInOrder
<1>13. Start' = Start /\ PageEnd' = PageEnd
  BY <1>2 DEF Start, PageStart, PageEnd
<1>14. BehindThePage'
  <2> SUFFICES ASSUME NEW j \in 1..(n - 1), j > PageEnd
               PROVE  /\ \A i \in 1..Len(pages.yielded) : pages.yielded[i] < collection'[j]
                      /\ \A k \in 1..Len(pages.page.items) : pages.page.items[k] < collection'[j]
    BY <1>2, <1>4, <1>13 DEF BehindThePage
  <2>1. PageEnd \in Int /\ at(j) \in Int
    <3>1. PageEnd \in Int
      BY <1>0 DEF PageEnd, Start, PageStart, PagingRecords, PageRecords
    <3> QED
      BY <1>6, <3>1
  <2>2. at(j) \in 1..n /\ at(j) > PageEnd /\ collection'[j] = collection[at(j)]
    BY <1>6, <2>1
  <2> QED
    BY <1>10, <2>2
<1>15. PagesAreFull' /\ FreshIterator' /\ StopsAtTheLast'
  BY <1>0, <1>2 DEF PagesAreFull, FreshIterator, StopsAtTheLast
<1>16. IdsArePositions'
  BY <1>3 DEF IdsArePositions
<1> QED
  BY <1>11, <1>12, <1>14, <1>15, <1>16 DEF PagingInv

LEMMA PagingStep == PagingInv /\ [PagingNext]_pagingVars => PagingInv'
<1> SUFFICES ASSUME PagingInv, [PagingNext]_pagingVars PROVE PagingInv'
  OBVIOUS
<1>1. CASE PagingNext
  BY <1>1, NewIteratorKeeps, FetchPageKeeps, YieldItemKeeps, StopKeeps, TurnPageKeeps,
     AppendItemKeeps, DeleteItemKeeps DEF PagingNext
<1>2. CASE UNCHANGED pagingVars
  BY <1>2 DEF PagingInv, PagingRecords, IdsInOrder, BehindThePage, PagesAreFull, FreshIterator,
              IdsArePositions, StopsAtTheLast, Start, PageStart, PageEnd, pagingVars
<1> QED
  BY <1>1, <1>2

LEMMA PagingInvMeans == PagingInv => PagesComplete
<1> SUFFICES ASSUME PagingInv PROVE PagesComplete
  OBVIOUS
<1>0. PagingRecords /\ IdsInOrder /\ IdsArePositions /\ StopsAtTheLast
  BY DEF PagingInv
<1>1. /\ pages.yielded \in Seq(Nat) /\ pages.page.items \in Seq(Nat) /\ pages.index \in Nat
      /\ Len(pages.page.items) \in Nat /\ Len(pages.yielded) \in Nat /\ pages.size \in Nat
      /\ collection \in Seq(Nat) /\ Len(collection) \in Nat /\ changes.created \in Nat
      /\ changes.appended \in Nat /\ changes.deleted \in Nat /\ changes.created <= MaxItems
      /\ DOMAIN collection = 1..Len(collection) /\ DOMAIN pages.yielded = 1..Len(pages.yielded)
  BY <1>0 DEF PagingRecords, PageRecords
<1>2. Range(pages.yielded) \cup Range(collection) \subseteq 1..MaxItems
  <2>1. /\ \A i \in 1..Len(collection) : collection[i] \in Nat
        /\ \A i \in 1..Len(pages.yielded) : pages.yielded[i] \in Nat
    BY <1>1, ElementOfSeq
  <2>2. /\ \A i \in 1..Len(collection) : collection[i] \in 1..MaxItems
        /\ \A i \in 1..Len(pages.yielded) : pages.yielded[i] \in 1..MaxItems
    BY <1>0, <1>1, <2>1, PagingAssumption, SMTT(20) DEF IdsInOrder, UpTo
  <2> QED
    BY <1>1, <2>2 DEF Range
<1>3. PagingTypeOK
  <2>1. pages.index \in 0..Len(pages.page.items)
    BY <1>0, <1>1 DEF PagingRecords
  <2> QED
    BY <1>0, <1>2, <2>1 DEF PagingTypeOK, PagingRecords
<1>4. NothingTwice
  BY <1>0 DEF IdsInOrder, Increasing, NothingTwice
<1>5. IndexErrorNeedsDeletion
  BY <1>0, <1>1 DEF IdsArePositions, IndexErrorNeedsDeletion
<1>6. ASSUME pages.state = "stopped", changes.deleted = 0
      PROVE  /\ Len(collection) = changes.created /\ \A i \in 1..Len(collection) : collection[i] = i
             /\ \A i \in 1..Len(pages.yielded) : pages.yielded[i] = i
             /\ Len(pages.yielded) <= Len(collection)
             /\ IF pages.api = "manager"
                THEN changes.created <= Len(pages.yielded) + pages.size + changes.appended
                ELSE changes.created <= Len(pages.yielded) + changes.appended
  <2>1. pages.page.last /\ Len(pages.yielded) = PageEnd
    BY <1>0, <1>6 DEF StopsAtTheLast, IdsArePositions, PageEnd
  <2> QED
    BY <1>0, <1>6, <2>1 DEF IdsArePositions
<1>7. OffsetPagesComplete
  <2> SUFFICES ASSUME pages.state = "stopped", pages.api # "manager", changes.deleted = 0
               PROVE  Range(collection) = Range(pages.yielded) \cup
                          {i \in Range(collection) : i > changes.created - changes.appended}
    BY DEF OffsetPagesComplete
  <2>1. Range(collection) = 1..Len(collection)
    BY <1>1, <1>6 DEF Range
  <2>2. Range(pages.yielded) = 1..Len(pages.yielded)
    <3>1. \A i \in 1..Len(pages.yielded) : pages.yielded[i] = i
      BY <1>6
    <3>2. DOMAIN pages.yielded = 1..Len(pages.yielded)
      BY <1>1
    <3>3. Range(pages.yielded) = {pages.yielded[i] : i \in 1..Len(pages.yielded)}
      BY <3>2 DEF Range
    <3> QED
      BY <3>1, <3>3
  <2>3. \A i \in 1..Len(pages.yielded) : i \in 1..Len(collection)
    BY <1>1, <1>6
  <2>4. \A i \in 1..Len(collection) :
            i \in 1..Len(pages.yielded) \/ i > changes.created - changes.appended
    BY <1>1, <1>6
  <2> QED
    BY <2>1, <2>2, <2>3, <2>4
<1>8. ManagerMissesAtMostAPage
  <2> SUFFICES ASSUME pages.state = "stopped", pages.api = "manager",
                      changes.appended + changes.deleted = 0
               PROVE  /\ IsPrefix(pages.yielded, collection)
                      /\ Len(collection) - Len(pages.yielded) <= pages.size
    BY DEF ManagerMissesAtMostAPage
  <2>1. changes.appended = 0 /\ changes.deleted = 0
    BY <1>1
  <2>2. Len(collection) - Len(pages.yielded) <= pages.size /\ Len(pages.yielded) <= Len(collection)
    BY <1>1, <1>6, <2>1
  <2> DEFINE m == Len(pages.yielded)
  <2>3. SubSeq(pages.yielded, 1, m) = pages.yielded
    BY <1>1, SubSeqFull
  <2>4. /\ SubSeq(collection, 1, m) \in Seq(Nat)
        /\ Len(SubSeq(collection, 1, m)) = (IF 1 <= m THEN m - 1 + 1 ELSE 0)
        /\ \A i \in 1..(m - 1 + 1) : SubSeq(collection, 1, m)[i] = collection[1 + i - 1]
    <3>1. \A i \in 1..m : collection[i] \in Nat
      <4>1. \A i \in 1..m : i \in 1..Len(collection)
        BY <1>1, <2>2
      <4> QED
        BY <1>1, <4>1, ElementOfSeq
    <3>2. 1 \in Int /\ m \in Int
      BY <1>1
    <3> QED
      BY <3>1, <3>2, SubSeqProperties
  <2>5. \A i \in 1..m : SubSeq(collection, 1, m)[i] = pages.yielded[i]
    <3> TAKE i \in 1..m
    <3>1. i \in 1..(m - 1 + 1) /\ 1 + i - 1 = i /\ i \in 1..Len(collection)
      BY <1>1, <2>2, SMTT(20)
    <3> QED
      BY <1>6, <2>1, <2>4, <3>1
  <2>6. Len(SubSeq(collection, 1, m)) = m
    BY <1>1, <2>4
  <2>7. SubSeq(collection, 1, m) = pages.yielded
    BY <1>1, <2>4, <2>5, <2>6, SeqEqual
  <2> QED
    BY <2>2, <2>3, <2>7 DEF IsPrefix
<1> QED
  BY <1>3, <1>4, <1>5, <1>7, <1>8 DEF PagesComplete

\* Iterating over a collection that others append to and delete from: no id comes twice and
\* all come in order; by offset nothing is missed that was there from the start unless
\* something was deleted; by page number at most the last page is missed; and the unchecked
\* first item of a page is only missing after a deletion.
THEOREM PagesAreComplete == PagingSpec => []PagesComplete
<1>1. PagingInit => PagingInv
  BY PagingInitial
<1>2. PagingInv /\ [PagingNext]_pagingVars => PagingInv'
  BY PagingStep
<1>3. PagingInv => PagesComplete
  BY PagingInvMeans
<1> QED
  BY <1>1, <1>2, <1>3, PTL DEF PagingSpec

-----------------------------------------------------------------------------
(***************************************************************************)
(* Scans of a table.  A row's rank is the number of rows before it: the    *)
(* lemmas say how the first n rows change when a row comes or goes, and    *)
(* when the next piece is read.                                            *)
(***************************************************************************)
Before(P, k) == {j \in P : j < k}

\* A set of naturals that is not empty has a least element ...
LEMMA HasLeast == ASSUME NEW S \in SUBSET Nat, S # {}
                  PROVE  \E m \in S : \A k \in S : m <= k
<1>1. PICK m \in S : \A k \in S : ~ (<<k, m>> \in OpToRel(<, Nat))
  BY NatLessThanWellFounded, WFMin
<1>2. \A k \in S : ~(k < m)
  BY <1>1 DEF OpToRel
<1> QED
  BY <1>2

\* ... and a finite one a greatest: the element with the fewest behind it.
LEMMA HasGreatest == ASSUME NEW S \in SUBSET Nat, IsFiniteSet(S), S # {}
                     PROVE  \E m \in S : \A k \in S : k <= m
<1> DEFINE Behind(k) == {j \in S : j > k}
           Counts == {Cardinality(Behind(k)) : k \in S}
<1>1. \A k \in S : Behind(k) \in SUBSET S /\ IsFiniteSet(Behind(k)) /\ Cardinality(Behind(k)) \in Nat
  BY FS_Subset, FS_CardinalityType
<1>2. Counts \in SUBSET Nat /\ Counts # {}
  BY <1>1
<1>3. PICK c \in Counts : \A d \in Counts : c <= d
  BY <1>2, HasLeast
<1>4. PICK m \in S : c = Cardinality(Behind(m))
  OBVIOUS
<1>5. ASSUME NEW k \in S, k > m PROVE FALSE
  <2>0. m \in S /\ m \in Nat /\ k \in Nat /\ \A j \in S : j \in Nat
    BY <1>4
  <2>1. Behind(k) \subseteq Behind(m) /\ k \in Behind(m) /\ k \notin Behind(k)
    <3>1. ASSUME NEW j \in Behind(k) PROVE j \in Behind(m)
      <4>1. j \in S /\ j \in Nat /\ j > k
        BY <2>0
      <4>2. j > m
        BY <1>5, <2>0, <4>1
      <4> QED
        BY <4>1, <4>2
    <3>2. k \in Behind(m)
      BY <1>5
    <3>3. ~(k > k)
      BY <2>0
    <3>4. k \notin Behind(k)
      BY <3>3
    <3> HIDE DEF Behind
    <3> QED
      BY <3>1, <3>2, <3>4
  <2>2. Cardinality(Behind(k)) <= Cardinality(Behind(m))
        /\ Cardinality(Behind(k)) # Cardinality(Behind(m))
    BY <1>1, <2>0, <2>1, FS_Subset
  <2>3. Cardinality(Behind(m)) <= Cardinality(Behind(k))
    BY <1>3, <1>4
  <2>4. Cardinality(Behind(m)) \in Nat /\ Cardinality(Behind(k)) \in Nat
    BY <1>1, <2>0
  <2> HIDE DEF Behind
  <2> QED
    BY <2>2, <2>3, <2>4
<1> QED
  BY <1>5

LEMMA MaxOfSet == ASSUME NEW S \in SUBSET Nat, IsFiniteSet(S), S # {}
                  PROVE  Max(S) \in S /\ \A k \in S : k <= Max(S)
<1>1. \E m \in S : \A k \in S : m >= k
  BY HasGreatest
<1> QED
  BY <1>1 DEF Max

LEMMA RankType == ASSUME NEW P \in SUBSET Nat, IsFiniteSet(P), NEW k
                  PROVE  /\ Before(P, k) \subseteq P /\ IsFiniteSet(Before(P, k))
                         /\ Cardinality(Before(P, k)) \in Nat
BY FS_Subset, FS_CardinalityType DEF Before

LEMMA SmallestDef == ASSUME NEW P, NEW n
                     PROVE  Smallest(P, n) = {k \in P : Cardinality(Before(P, k)) < n}
BY DEF Smallest, Before

LEMMA BeforeGrows == ASSUME NEW P \in SUBSET Nat, NEW a \in Nat, NEW b \in Nat, a <= b
                     PROVE  Before(P, a) \subseteq Before(P, b)
<1> SUFFICES ASSUME NEW j \in Before(P, a) PROVE j \in Before(P, b)
  OBVIOUS
<1>1. j \in P /\ j < a
  BY DEF Before
<1>2. j \in Nat
  BY <1>1
<1>3. j < b
  BY <1>1, <1>2
<1> QED
  BY <1>1, <1>3 DEF Before

\* A row before another has a smaller rank.
LEMMA RankGrows == ASSUME NEW P \in SUBSET Nat, IsFiniteSet(P), NEW a \in P, NEW b \in Nat, a < b
                   PROVE  Cardinality(Before(P, a)) + 1 <= Cardinality(Before(P, b))
<1>1. Before(P, a) \subseteq Before(P, b) /\ a \in Before(P, b) /\ a \notin Before(P, a)
  <2>1. a \in Before(P, b) /\ a \notin Before(P, a)
    BY DEF Before
  <2> QED
    BY <2>1, BeforeGrows
<1>2. Cardinality(Before(P, a)) <= Cardinality(Before(P, b))
      /\ Cardinality(Before(P, a)) # Cardinality(Before(P, b))
  BY <1>1, RankType, FS_Subset
<1> QED
  BY <1>2, RankType

\* What is before one of the first n rows is among them.
LEMMA SmallestIsPrefix == ASSUME NEW P \in SUBSET Nat, IsFiniteSet(P), NEW n \in Nat,
                                 NEW b \in Smallest(P, n), NEW a \in P, a <= b
                          PROVE  a \in Smallest(P, n)
<1>1. b \in P /\ Cardinality(Before(P, b)) < n
  BY SmallestDef
<1>2. a \in Nat /\ b \in Nat
  BY <1>1
<1>3. CASE a = b
  BY <1>3
<1>4. CASE a < b
  <2>1. Cardinality(Before(P, a)) + 1 <= Cardinality(Before(P, b))
    BY <1>2, <1>4, RankGrows
  <2> QED
    BY <1>1, <2>1, RankType, SmallestDef
<1> QED
  BY <1>2, <1>3, <1>4

\* The first n rows are at most n, and n if there are others.
LEMMA SmallestCount == ASSUME NEW P \in SUBSET Nat, IsFiniteSet(P), NEW n \in Nat
                       PROVE  /\ IsFiniteSet(Smallest(P, n)) /\ Cardinality(Smallest(P, n)) \in Nat
                              /\ Cardinality(Smallest(P, n)) <= n
                              /\ P \ Smallest(P, n) # {} => Cardinality(Smallest(P, n)) = n
<1> DEFINE S == Smallest(P, n)
<1>1. S \in SUBSET P /\ IsFiniteSet(S) /\ Cardinality(S) \in Nat
  BY SmallestDef, FS_Subset, FS_CardinalityType
<1>2. Cardinality(S) <= n
  <2>1. CASE S = {}
    BY <2>1, FS_EmptySet
  <2>2. CASE S # {}
    <3>1. PICK m \in S : \A k \in S : k <= m
      BY <1>1, <2>2, HasGreatest
    <3>2. m \in P /\ Cardinality(Before(P, m)) < n
      BY SmallestDef
    <3>3. S \subseteq Before(P, m) \cup {m}
      <4> SUFFICES ASSUME NEW k \in S, k # m PROVE k \in Before(P, m)
        OBVIOUS
      <4>1. k \in P /\ k <= m
        BY <1>1, <3>1
      <4>2. k \in Nat /\ m \in Nat
        BY <3>2, <4>1
      <4>3. k < m
        BY <4>1, <4>2
      <4> QED
        BY <4>1, <4>3 DEF Before
    <3>4. /\ IsFiniteSet(Before(P, m) \cup {m})
          /\ Cardinality(Before(P, m) \cup {m}) <= Cardinality(Before(P, m)) + 1
      BY RankType, FS_AddElement
    <3>5. Cardinality(S) <= Cardinality(Before(P, m) \cup {m})
      BY <3>3, <3>4, FS_Subset
    <3> HIDE DEF S
    <3>6. Cardinality(Before(P, m)) \in Nat /\ Cardinality(Before(P, m) \cup {m}) \in Nat
      BY <3>4, RankType, FS_CardinalityType
    <3> QED
      BY <1>1, <3>2, <3>4, <3>5, <3>6
  <2> QED
    BY <2>1, <2>2
<1>3. ASSUME P \ S # {} PROVE n <= Cardinality(S)
  <2>1. PICK m \in P \ S : \A k \in P \ S : m <= k
    BY <1>3, HasLeast
  <2>2. m \in Nat /\ ~(Cardinality(Before(P, m)) < n)
    BY <2>1, SmallestDef
  <2>3. Before(P, m) \subseteq S
    <3> SUFFICES ASSUME NEW k \in Before(P, m), k \notin S PROVE FALSE
      OBVIOUS
    <3>1. k \in P \ S /\ k < m
      BY DEF Before
    <3>2. m <= k /\ k \in Nat
      BY <2>1, <3>1
    <3> QED
      BY <2>2, <3>1, <3>2
  <2>4. Cardinality(Before(P, m)) <= Cardinality(S)
    BY <1>1, <2>3, FS_Subset
  <2> HIDE DEF S
  <2> QED
    BY <1>1, <2>2, <2>4, RankType
<1> QED
  BY <1>1, <1>2, <1>3

\* Behind the first n rows come the next m.
LEMMA SmallestNext == ASSUME NEW P \in SUBSET Nat, IsFiniteSet(P), NEW n \in Nat, NEW m \in Nat
                      PROVE  Smallest(P, n + m) = Smallest(P, n) \cup Smallest(P \ Smallest(P, n), m)
<1> DEFINE S == Smallest(P, n)
           Q == P \ S
<1>1. S \subseteq P /\ Q \in SUBSET Nat /\ IsFiniteSet(Q) /\ IsFiniteSet(S) /\ Cardinality(S) \in Nat
  <2>1. S \subseteq P
    BY SmallestDef
  <2>2. IsFiniteSet(S) /\ Cardinality(S) \in Nat
    BY SmallestCount
  <2>3. IsFiniteSet(Q)
    BY FS_Difference
  <2> QED
    BY <2>1, <2>2, <2>3
<1>2. \A k \in S : k \in Smallest(P, n + m)
  BY SmallestDef, RankType
<1>3. ASSUME NEW k \in Q
      PROVE  Cardinality(Before(P, k)) = n + Cardinality(Before(Q, k))
  <2>0. k \in P /\ k \notin S /\ k \in Nat /\ \A j \in P : j \in Nat
    BY <1>3
  <2>1. ASSUME NEW j \in S PROVE j < k
    <3>1. ~(k <= j)
      BY <2>0, SmallestIsPrefix
    <3>2. j \in Nat
      BY <1>1, <2>0
    <3> HIDE DEF S
    <3> QED
      BY <2>0, <3>1, <3>2
  <2>2. Before(P, k) = S \cup Before(Q, k) /\ S \cap Before(Q, k) = {}
    BY <1>1, <2>1 DEF Before
  <2>3. IsFiniteSet(Before(Q, k)) /\ Cardinality(Before(Q, k)) \in Nat
    BY <1>1, RankType
  <2>4. Cardinality(S) = n
    BY <1>3, SmallestCount
  <2>5. Cardinality(S \cup Before(Q, k))
            = Cardinality(S) + Cardinality(Before(Q, k)) - Cardinality(S \cap Before(Q, k))
    BY <1>1, <2>3, FS_Union
  <2>6. Cardinality(S \cap Before(Q, k)) = 0
    BY <2>2, FS_EmptySet
  <2> HIDE DEF S, Q
  <2> QED
    BY <1>1, <2>2, <2>3, <2>4, <2>5, <2>6
<1>4. \A k \in Q : k \in Smallest(P, n + m) <=> k \in Smallest(Q, m)
  <2> TAKE k \in Q
  <2>1. k \in P /\ Cardinality(Before(Q, k)) \in Nat
    BY <1>1, RankType
  <2>2. k \in Smallest(P, n + m) <=> Cardinality(Before(P, k)) < n + m
    BY <2>1, SmallestDef
  <2>3. k \in Smallest(Q, m) <=> Cardinality(Before(Q, k)) < m
    BY SmallestDef
  <2> HIDE DEF Q
  <2> QED
    BY <1>3, <2>1, <2>2, <2>3
<1>5. Smallest(P, n + m) \subseteq P /\ Smallest(Q, m) \subseteq Q
  BY SmallestDef
<1> QED
  BY <1>1, <1>2, <1>4, <1>5

\* A row that goes lets at most one into the first n rows, and puts none out but itself.
LEMMA SmallestWithout == ASSUME NEW P \in SUBSET Nat, IsFiniteSet(P), NEW n \in Nat, NEW x \in P
                         PROVE  /\ Smallest(P, n) \ {x} \subseteq Smallest(P \ {x}, n)
                                /\ \A a, b \in Smallest(P \ {x}, n) \ Smallest(P, n) : a = b
<1> DEFINE Q == P \ {x}
<1>1. Q \in SUBSET Nat /\ IsFiniteSet(Q)
  BY FS_RemoveElement
<1>2. ASSUME NEW k \in Q
      PROVE  /\ Cardinality(Before(Q, k)) <= Cardinality(Before(P, k))
             /\ Cardinality(Before(P, k)) <= Cardinality(Before(Q, k)) + 1
  <2>1. Before(Q, k) = Before(P, k) \ {x}
    BY DEF Before
  <2>2. IsFiniteSet(Before(P, k)) /\ Cardinality(Before(P, k)) \in Nat
    BY RankType
  <2>3. Cardinality(Before(P, k) \ {x})
            = IF x \in Before(P, k) THEN Cardinality(Before(P, k)) - 1 ELSE Cardinality(Before(P, k))
    BY <2>2, FS_RemoveElement
  <2>4. Cardinality(Before(Q, k)) = Cardinality(Before(P, k) \ {x})
    BY <2>1
  <2> HIDE DEF Q
  <2> QED
    BY <2>2, <2>3, <2>4
<1>3. ASSUME NEW k \in Smallest(P, n) \ {x} PROVE k \in Smallest(Q, n)
  <2>1. k \in Q /\ Cardinality(Before(P, k)) < n
    BY <1>3, SmallestDef
  <2>2. Cardinality(Before(Q, k)) \in Nat /\ Cardinality(Before(P, k)) \in Nat
    BY <1>1, RankType
  <2>3. Cardinality(Before(Q, k)) < n
    BY <1>2, <2>1, <2>2
  <2> QED
    BY <2>1, <2>3, SmallestDef
<1>4. ASSUME NEW a \in Smallest(Q, n) \ Smallest(P, n), NEW b \in Smallest(Q, n) \ Smallest(P, n), a < b
      PROVE  FALSE
  <2>1. a \in Q /\ b \in Q /\ Cardinality(Before(Q, b)) < n /\ ~(Cardinality(Before(P, a)) < n)
    BY <1>4, SmallestDef
  <2>2. Cardinality(Before(Q, a)) + 1 <= Cardinality(Before(Q, b))
    BY <1>1, <1>4, <2>1, RankGrows
  <2>3. /\ Cardinality(Before(P, a)) \in Nat /\ Cardinality(Before(Q, a)) \in Nat
        /\ Cardinality(Before(Q, b)) \in Nat
    BY <1>1, RankType
  <2>4. Cardinality(Before(P, a)) <= Cardinality(Before(Q, a)) + 1
    BY <1>2, <2>1
  <2> HIDE DEF Q
  <2> QED
    BY <2>1, <2>2, <2>3, <2>4
<1>5. \A a \in Smallest(Q, n) : a \in Nat
  BY <1>1, SmallestDef
<1> QED
  BY <1>3, <1>4, <1>5

\* A row that comes puts at most one out of the first n rows, and only when it is among them.
LEMMA SmallestWith == ASSUME NEW P \in SUBSET Nat, IsFiniteSet(P), NEW n \in Nat, NEW x \in Nat \ P
                      PROVE  /\ Smallest(P \cup {x}, n) \subseteq Smallest(P, n) \cup {x}
                             /\ \A a, b \in Smallest(P, n) \ Smallest(P \cup {x}, n) : a = b
                             /\ x \in Smallest(P \cup {x}, n)
                                \/ Smallest(P, n) \subseteq Smallest(P \cup {x}, n)
<1> DEFINE Q == P \cup {x}
<1>1. Q \in SUBSET Nat /\ IsFiniteSet(Q) /\ x \in Q
  BY FS_AddElement
<1>2. Q \ {x} = P
  OBVIOUS
<1>3. /\ Smallest(Q, n) \ {x} \subseteq Smallest(P, n)
      /\ \A a, b \in Smallest(P, n) \ Smallest(Q, n) : a = b
  <2> HIDE DEF Q
  <2>1. /\ Smallest(Q, n) \ {x} \subseteq Smallest(Q \ {x}, n)
        /\ \A a, b \in Smallest(Q \ {x}, n) \ Smallest(Q, n) : a = b
    BY <1>1, SmallestWithout
  <2> QED
    BY <1>2, <2>1
<1>4. ASSUME x \notin Smallest(Q, n), NEW k \in Smallest(P, n), k \notin Smallest(Q, n)
      PROVE  FALSE
  <2>1. k \in Q /\ k \in P /\ k # x /\ k \in Nat
    BY <1>4, SmallestDef
  <2>2. CASE k < x
    <3>1. Before(Q, k) = Before(P, k)
      BY <2>1, <2>2 DEF Before
    <3> QED
      BY <1>4, <2>1, <3>1, SmallestDef
  <2>3. CASE x < k
    <3>1. Before(P, x) = Before(Q, x)
      BY DEF Before
    <3>2. ~(Cardinality(Before(Q, x)) < n) /\ Cardinality(Before(P, k)) < n
      BY <1>1, <1>4, SmallestDef
    <3>3. Before(P, x) \subseteq Before(P, k)
      BY <2>1, <2>3, BeforeGrows
    <3>4. Cardinality(Before(P, x)) <= Cardinality(Before(P, k))
      BY <3>3, RankType, FS_Subset
    <3>5. Cardinality(Before(P, x)) \in Nat /\ Cardinality(Before(P, k)) \in Nat
      BY RankType
    <3> QED
      BY <3>1, <3>2, <3>4, <3>5
  <2> QED
    BY <2>1, <2>2, <2>3
<1> QED
  BY <1>3, <1>4

-----------------------------------------------------------------------------
\* By key: what was read lies up to the last key, and what lies there and was kept was read.
\* By offset: at most one kept row per edit is among those passed over and was not read, and
\* at most one row per edit was or will be read twice.
ScanRecords ==
    /\ present \subseteq Keys /\ edits \in 0 .. MaxEdits
    /\ scan \in [by : {"key", "offset"}, pc : {"reading", "ended"}, last : Keys \cup {0},
                 offset : Nat, seen : SUBSET Keys, again : SUBSET Keys, kept : SUBSET Keys]
    /\ scan.again \subseteq scan.seen /\ scan.kept \subseteq present

KeyScanInv ==
    scan.by = "key" =>
        /\ scan.again = {}
        /\ \A k \in scan.seen : k <= scan.last
        /\ \A k \in scan.kept : k <= scan.last => k \in scan.seen
        /\ scan.pc = "ended" => scan.kept \subseteq scan.seen

PassedOver == (Skipped \cap scan.kept) \ scan.seen
ToComeAgain == (scan.seen \cap present) \ Skipped

OffsetScanInv ==
    scan.by = "offset" =>
        /\ Cardinality(PassedOver) <= edits
        /\ Cardinality(scan.again) + Cardinality(ToComeAgain) <= edits
        /\ scan.pc = "ended" => Cardinality(scan.kept \ scan.seen) <= edits

ScanInv == ScanRecords /\ KeyScanInv /\ OffsetScanInv

LEMMA KeySets == ASSUME NEW S \in SUBSET Keys
                 PROVE  S \in SUBSET Nat /\ IsFiniteSet(S) /\ Cardinality(S) \in Nat
BY ScanAssumption, FS_Subset, FS_CardinalityType

\* A set of keys with at most one element outside another has at most one element more.
LEMMA OneMoreKey == ASSUME NEW S \in SUBSET Keys, NEW T \in SUBSET Keys,
                           \A a, b \in S \ T : a = b
                    PROVE  Cardinality(S) <= Cardinality(T) + 1
<1>1. IsFiniteSet(S) /\ IsFiniteSet(T) /\ Cardinality(S) \in Nat /\ Cardinality(T) \in Nat
  BY KeySets
<1>2. CASE S \subseteq T
  <2>1. Cardinality(S) <= Cardinality(T)
    BY <1>1, <1>2, FS_Subset
  <2> QED
    BY <1>1, <2>1
<1>3. CASE ~(S \subseteq T)
  <2>1. PICK a \in S : a \notin T
    BY <1>3
  <2>2. S \subseteq T \cup {a}
    BY <2>1
  <2>3. IsFiniteSet(T \cup {a}) /\ Cardinality(T \cup {a}) = Cardinality(T) + 1
    BY <1>1, <2>1, FS_AddElement
  <2>4. Cardinality(S) <= Cardinality(T \cup {a})
    BY <2>2, <2>3, FS_Subset
  <2> QED
    BY <2>3, <2>4
<1> QED
  BY <1>2, <1>3

LEMMA FewerKeys == ASSUME NEW S, NEW T \in SUBSET Keys, S \subseteq T
                   PROVE  Cardinality(S) <= Cardinality(T) /\ S \in SUBSET Keys
BY KeySets, FS_Subset

LEMMA ScanInitial == ScanInit => ScanInv
<1> SUFFICES ASSUME ScanInit PROVE ScanInv
  OBVIOUS
<1>1. PICK by \in {"key", "offset"} :
          scan = [by |-> by, pc |-> "reading", last |-> 0, offset |-> 0, seen |-> {},
                  again |-> {}, kept |-> present]
  BY DEF ScanInit
<1>2. present \subseteq Keys /\ edits = 0
  BY DEF ScanInit
<1>3. ScanRecords
  BY <1>1, <1>2, ScanAssumption DEF ScanRecords
<1>4. KeyScanInv
  <2>1. \A k \in scan.kept : k \in Nat \ {0}
    BY <1>1, <1>2, ScanAssumption
  <2>2. \A k \in scan.kept : ~(k <= scan.last)
    BY <1>1, <2>1
  <2> QED
    BY <1>1, <2>2 DEF KeyScanInv
<1>5. OffsetScanInv
  <2>1. present \in SUBSET Nat /\ IsFiniteSet(present)
    BY <1>2, KeySets
  <2>2. \A k \in present : ~(Cardinality(Before(present, k)) < 0)
    BY <2>1, RankType
  <2>3. Skipped = {}
    BY <1>1, <2>2, SmallestDef DEF Skipped
  <2>4. PassedOver = {} /\ ToComeAgain = {} /\ scan.again = {}
    BY <1>1, <2>3 DEF PassedOver, ToComeAgain
  <2> QED
    BY <1>1, <1>2, <2>4, FS_EmptySet DEF OffsetScanInv
<1> QED
  BY <1>3, <1>4, <1>5 DEF ScanInv

LEMMA SkippedAreKeys == ScanRecords => Skipped \subseteq present /\ Chunk \subseteq present
<1> SUFFICES ASSUME ScanRecords PROVE Skipped \subseteq present /\ Chunk \subseteq present
  OBVIOUS
<1>1. Skipped \subseteq present
  BY SmallestDef DEF Skipped
<1>2. Chunk \subseteq present
  BY SmallestDef DEF Chunk, Beyond
<1> QED
  BY <1>1, <1>2

LEMMA NextChunkByKey == ScanInv /\ NextChunk /\ scan.by = "key" => ScanInv'
<1> SUFFICES ASSUME ScanInv, NextChunk, scan.by = "key" PROVE ScanInv'
  OBVIOUS
<1>0. ScanRecords /\ KeyScanInv
  BY DEF ScanInv
<1> DEFINE m == Max(Chunk)
<1>1. UNCHANGED <<present, edits>>
  BY DEF NextChunk
<1>2. Beyond \in SUBSET Keys /\ Beyond \in SUBSET Nat /\ IsFiniteSet(Beyond)
  BY <1>0, KeySets DEF ScanRecords, Beyond
<1>3. Chunk = Smallest(Beyond, ChunkSize)
  BY DEF Chunk
<1>4. \A k \in Keys : k \in Nat
  BY ScanAssumption
<1>5. CASE Chunk = {}
  <2>1. scan' = [scan EXCEPT !.pc = "ended"]
    BY <1>5 DEF NextChunk
  <2>2. Beyond = {}
    <3> SUFFICES ASSUME Beyond # {} PROVE FALSE
      OBVIOUS
    <3>1. Beyond \ Smallest(Beyond, ChunkSize) # {}
      BY <1>3, <1>5
    <3>2. Cardinality(Smallest(Beyond, ChunkSize)) = ChunkSize
      BY <1>2, <3>1, SmallestCount, ScanAssumption
    <3> QED
      BY <1>3, <1>5, <3>2, FS_EmptySet, ScanAssumption
  <2>3. \A k \in scan.kept : k <= scan.last
    <3> SUFFICES ASSUME NEW k \in scan.kept PROVE k <= scan.last
      OBVIOUS
    <3>1. k \in present /\ k \in Nat /\ scan.last \in Nat
      BY <1>0, <1>4 DEF ScanRecords
    <3>2. ~(k > scan.last)
      BY <2>2, <3>1 DEF Beyond
    <3> QED
      BY <3>1, <3>2
  <2>4. ScanRecords'
    BY <1>0, <1>1, <2>1 DEF ScanRecords
  <2>5. KeyScanInv'
    BY <1>0, <2>1, <2>3 DEF KeyScanInv, ScanRecords
  <2>6. OffsetScanInv'
    BY <1>0, <2>1 DEF OffsetScanInv, ScanRecords
  <2> QED
    BY <2>4, <2>5, <2>6 DEF ScanInv
<1>6. CASE Chunk # {}
  <2>1. scan' = [scan EXCEPT !.last = m, !.offset = @, !.seen = @ \cup Chunk,
                             !.again = @ \cup (Chunk \cap scan.seen)]
    BY <1>6 DEF NextChunk
  <2>2. Chunk \subseteq Beyond /\ Chunk \in SUBSET Nat /\ IsFiniteSet(Chunk) /\ Chunk \subseteq Keys
    BY <1>0, <1>2, <1>3, SmallestDef, FS_Subset DEF Beyond, ScanRecords
  <2>3. m \in Chunk /\ \A k \in Chunk : k <= m
    BY <1>6, <2>2, MaxOfSet
  <2>4. m \in Keys /\ m \in Nat /\ m > scan.last /\ scan.last \in Nat
    <3>1. m \in Beyond
      BY <2>2, <2>3
    <3> HIDE DEF m
    <3>2. m \in Keys /\ m > scan.last
      BY <1>2, <3>1 DEF Beyond
    <3>3. scan.last \in Nat
      BY <1>0, <1>4 DEF ScanRecords
    <3> QED
      BY <1>4, <3>2, <3>3
  <2> HIDE DEF m
  <2>5. Chunk \cap scan.seen = {}
    <3> SUFFICES ASSUME NEW k \in Chunk, k \in scan.seen PROVE FALSE
      OBVIOUS
    <3>1. k > scan.last /\ k \in Nat
      BY <2>2 DEF Beyond
    <3>2. k <= scan.last
      BY <1>0 DEF KeyScanInv
    <3> QED
      BY <2>4, <3>1, <3>2
  <2>6. /\ scan'.last = m /\ scan'.seen = scan.seen \cup Chunk /\ scan'.again = scan.again
        /\ scan'.pc = scan.pc /\ scan'.kept = scan.kept /\ scan'.by = scan.by
        /\ scan'.offset = scan.offset
    BY <1>0, <2>1, <2>5 DEF ScanRecords
  <2>7. ScanRecords'
    <3>1. scan' \in [by : {"key", "offset"}, pc : {"reading", "ended"}, last : Keys \cup {0},
                 offset : Nat, seen : SUBSET Keys, again : SUBSET Keys, kept : SUBSET Keys]
      BY <1>0, <2>1, <2>2, <2>4 DEF ScanRecords
    <3> QED
      BY <1>0, <1>1, <2>6, <3>1 DEF ScanRecords
  <2>8. ASSUME NEW k \in scan'.kept, k <= m PROVE k \in scan'.seen
    <3>1. k \in scan.kept /\ k \in Nat /\ k \in present
      BY <1>0, <1>4, <2>6 DEF ScanRecords
    <3>2. CASE k <= scan.last
      BY <1>0, <2>6, <3>1, <3>2 DEF KeyScanInv
    <3>3. CASE k > scan.last
      <4>1. k \in Beyond
        BY <3>1, <3>3 DEF Beyond
      <4>2. k \in Smallest(Beyond, ChunkSize)
        BY <1>2, <1>3, <2>3, <2>8, <4>1, SmallestIsPrefix, ScanAssumption
      <4> QED
        BY <1>3, <2>6, <4>2
    <3> QED
      BY <2>4, <3>1, <3>2, <3>3
  <2>9. \A k \in scan'.seen : k <= m
    <3> SUFFICES ASSUME NEW k \in scan.seen PROVE k <= m
      BY <2>3, <2>6
    <3>1. k \in Nat /\ k <= scan.last
      BY <1>0, <1>4 DEF KeyScanInv, ScanRecords
    <3> QED
      BY <2>4, <3>1
  <2>10. scan.pc # "ended"
    BY DEF NextChunk
  <2>11. KeyScanInv'
    BY <1>0, <2>6, <2>8, <2>9, <2>10 DEF KeyScanInv
  <2>12. OffsetScanInv'
    BY <2>6 DEF OffsetScanInv
  <2> QED
    BY <2>7, <2>11, <2>12 DEF ScanInv
<1> QED
  BY <1>5, <1>6

LEMMA NextChunkByOffset == ScanInv /\ NextChunk /\ scan.by = "offset" => ScanInv'
<1> SUFFICES ASSUME ScanInv, NextChunk, scan.by = "offset" PROVE ScanInv'
  OBVIOUS
<1>0. ScanRecords /\ OffsetScanInv
  BY DEF ScanInv
<1>1. UNCHANGED <<present, edits>>
  BY DEF NextChunk
<1>2. present \in SUBSET Nat /\ IsFiniteSet(present) /\ scan.offset \in Nat
  BY <1>0, KeySets DEF ScanRecords
<1>3. Chunk = Smallest(present \ Skipped, ChunkSize)
  BY DEF Chunk
<1>4. Skipped \subseteq present /\ Chunk \subseteq present
  BY <1>0, SkippedAreKeys
<1>5. edits \in Nat
  BY <1>0, ScanAssumption DEF ScanRecords
<1>6. CASE Chunk = {}
  <2>1. scan' = [scan EXCEPT !.pc = "ended"]
    BY <1>6 DEF NextChunk
  <2>2. present \ Skipped = {}
    <3> DEFINE Q == present \ Skipped
    <3> SUFFICES ASSUME Q # {} PROVE FALSE
      OBVIOUS
    <3>1. Q \in SUBSET Nat /\ IsFiniteSet(Q)
      BY <1>2, FS_Difference
    <3>2. Q \ Smallest(Q, ChunkSize) # {}
      BY <1>3, <1>6
    <3> HIDE DEF Q
    <3>3. Cardinality(Smallest(Q, ChunkSize)) = ChunkSize
      BY <3>1, <3>2, SmallestCount, ScanAssumption
    <3>4. Smallest(Q, ChunkSize) = {}
      BY <1>3, <1>6 DEF Q
    <3> QED
      BY <3>3, <3>4, FS_EmptySet, ScanAssumption
  <2>3. scan.kept \ scan.seen = PassedOver
    BY <1>0, <1>4, <2>2 DEF PassedOver, ScanRecords
  <2>4. /\ scan'.by = scan.by /\ scan'.last = scan.last /\ scan'.offset = scan.offset
        /\ scan'.seen = scan.seen /\ scan'.again = scan.again /\ scan'.kept = scan.kept
    BY <1>0, <2>1 DEF ScanRecords
  <2>5. ScanRecords'
    BY <1>0, <1>1, <2>1 DEF ScanRecords
  <2>6. KeyScanInv'
    BY <2>4 DEF KeyScanInv
  <2>7. PassedOver' = PassedOver /\ ToComeAgain' = ToComeAgain
    BY <1>1, <2>4 DEF PassedOver, ToComeAgain, Skipped
  <2>8. OffsetScanInv'
    BY <1>0, <1>1, <2>3, <2>4, <2>7 DEF OffsetScanInv
  <2> QED
    BY <2>5, <2>6, <2>8 DEF ScanInv
<1>7. CASE Chunk # {}
  <2>1. scan' = [scan EXCEPT !.last = @, !.offset = @ + ChunkSize, !.seen = @ \cup Chunk,
                             !.again = @ \cup (Chunk \cap scan.seen)]
    BY <1>7 DEF NextChunk
  <2>2. /\ scan'.by = scan.by /\ scan'.last = scan.last /\ scan'.offset = scan.offset + ChunkSize
        /\ scan'.seen = scan.seen \cup Chunk /\ scan'.again = scan.again \cup (Chunk \cap scan.seen)
        /\ scan'.kept = scan.kept /\ scan'.pc = scan.pc
    BY <1>0, <2>1 DEF ScanRecords
  <2>3. ScanRecords'
    <3>1. scan.offset + ChunkSize \in Nat /\ Chunk \subseteq Keys
      BY <1>0, <1>2, <1>4, ScanAssumption DEF ScanRecords
    <3>2. scan' \in [by : {"key", "offset"}, pc : {"reading", "ended"}, last : Keys \cup {0},
                 offset : Nat, seen : SUBSET Keys, again : SUBSET Keys, kept : SUBSET Keys]
      BY <1>0, <2>1, <3>1 DEF ScanRecords
    <3> QED
      BY <1>0, <1>1, <2>2, <3>2 DEF ScanRecords
  <2>4. KeyScanInv'
    BY <2>2 DEF KeyScanInv
  <2>5. Skipped' = Skipped \cup Chunk
    <3>0. ChunkSize \in Nat
      BY ScanAssumption
    <3>1. Smallest(present, scan.offset + ChunkSize)
              = Smallest(present, scan.offset) \cup Smallest(present \ Smallest(present, scan.offset), ChunkSize)
      BY <1>2, <3>0, SmallestNext, ZenonT(30)
    <3>2. Skipped' = Smallest(present, scan.offset + ChunkSize)
      BY <1>1, <2>2 DEF Skipped
    <3> QED
      BY <1>3, <3>1, <3>2 DEF Skipped
  <2>6. PassedOver' \subseteq PassedOver
    BY <2>2, <2>5 DEF PassedOver
  <2> DEFINE repeats == Chunk \cap scan.seen
  <2>7. /\ ToComeAgain' \subseteq ToComeAgain \ repeats
        /\ repeats \subseteq ToComeAgain
    <3>1. Chunk \cap Skipped = {}
      BY <1>3, SmallestDef
    <3> QED
      BY <1>1, <1>4, <2>2, <2>5, <3>1 DEF ToComeAgain
  <2>8. PassedOver \in SUBSET Keys /\ ToComeAgain \in SUBSET Keys /\ scan.again \in SUBSET Keys
    BY <1>0, <1>4 DEF PassedOver, ToComeAgain, ScanRecords
  <2>9. /\ IsFiniteSet(ToComeAgain) /\ IsFiniteSet(scan.again)
        /\ Cardinality(ToComeAgain) \in Nat /\ Cardinality(scan.again) \in Nat
    BY <2>8, KeySets
  <2>10. repeats \in SUBSET Keys /\ IsFiniteSet(repeats) /\ Cardinality(repeats) \in Nat
    BY <2>7, <2>8, KeySets
  <2>11. Cardinality(scan'.again) <= Cardinality(scan.again) + Cardinality(repeats)
    <3> HIDE DEF repeats
    <3>1. Cardinality(scan.again \cup repeats)
            = Cardinality(scan.again) + Cardinality(repeats) - Cardinality(scan.again \cap repeats)
      BY <2>9, <2>10, FS_Union
    <3>2. Cardinality(scan.again \cap repeats) \in Nat
      BY <2>9, FS_Intersection, FS_CardinalityType
    <3> QED
      BY <2>2, <2>9, <2>10, <3>1, <3>2 DEF repeats
  <2>12. Cardinality(ToComeAgain') <= Cardinality(ToComeAgain) - Cardinality(repeats)
    <3> HIDE DEF repeats
    <3>1. Cardinality(ToComeAgain \ repeats)
              = Cardinality(ToComeAgain) - Cardinality(ToComeAgain \cap repeats)
      BY <2>9, FS_Difference
    <3>2. ToComeAgain \cap repeats = repeats
      BY <2>7
    <3>3. Cardinality(ToComeAgain') <= Cardinality(ToComeAgain \ repeats)
      BY <2>7, <2>9, FS_Difference, FS_Subset
    <3> QED
      BY <3>1, <3>2, <3>3
  <2>13. Cardinality(ToComeAgain') \in Nat /\ Cardinality(scan'.again) \in Nat
    <3>1. ToComeAgain' \in SUBSET Keys /\ scan'.again \in SUBSET Keys
      BY <2>2, <2>7, <2>8, <2>10
    <3> QED
      BY <3>1, KeySets
  <2>14. Cardinality(scan.again) + Cardinality(ToComeAgain) <= edits /\ Cardinality(PassedOver) <= edits
    BY <1>0 DEF OffsetScanInv
  <2>15. Cardinality(scan'.again) + Cardinality(ToComeAgain') <= edits
    <3> HIDE DEF repeats
    <3> QED
      BY <1>5, <2>9, <2>10, <2>11, <2>12, <2>13, <2>14
  <2>16. Cardinality(PassedOver') <= edits
    <3>1. Cardinality(PassedOver') <= Cardinality(PassedOver)
      BY <2>6, <2>8, FewerKeys
    <3>2. Cardinality(PassedOver') \in Nat /\ Cardinality(PassedOver) \in Nat
      BY <2>6, <2>8, KeySets
    <3> QED
      BY <1>5, <2>14, <3>1, <3>2
  <2>17. scan'.pc # "ended" /\ edits' = edits
    BY <1>1, <2>2 DEF NextChunk
  <2>18. OffsetScanInv'
    BY <2>15, <2>16, <2>17 DEF OffsetScanInv
  <2> QED
    BY <2>3, <2>4, <2>18 DEF ScanInv
<1> QED
  BY <1>6, <1>7

LEMMA AddRowKeeps == ASSUME NEW x \in Keys PROVE ScanInv /\ AddRow(x) => ScanInv'
<1> SUFFICES ASSUME ScanInv, AddRow(x) PROVE ScanInv'
  OBVIOUS
<1>0. ScanRecords /\ KeyScanInv /\ OffsetScanInv
  BY DEF ScanInv
<1>1. x \notin present /\ edits < MaxEdits /\ present' = present \cup {x} /\ edits' = edits + 1
      /\ scan' = scan
  BY DEF AddRow
<1>2. present \in SUBSET Nat /\ IsFiniteSet(present) /\ scan.offset \in Nat /\ x \in Nat \ present
  BY <1>0, <1>1, KeySets, ScanAssumption DEF ScanRecords
<1>3. edits \in Nat
  BY <1>0, ScanAssumption DEF ScanRecords
<1>4. ScanRecords'
  BY <1>0, <1>1, <1>3, ScanAssumption DEF ScanRecords
<1>5. KeyScanInv'
  BY <1>0, <1>1 DEF KeyScanInv
<1>6. /\ Skipped' \subseteq Skipped \cup {x}
      /\ \A a, b \in Skipped \ Skipped' : a = b
      /\ x \in Skipped' \/ Skipped \subseteq Skipped'
  <2>1. Skipped' = Smallest(present \cup {x}, scan.offset)
    BY <1>1 DEF Skipped
  <2>2. /\ Smallest(present \cup {x}, scan.offset) \subseteq Smallest(present, scan.offset) \cup {x}
        /\ \A a, b \in Smallest(present, scan.offset) \ Smallest(present \cup {x}, scan.offset) : a = b
        /\ x \in Smallest(present \cup {x}, scan.offset)
           \/ Smallest(present, scan.offset) \subseteq Smallest(present \cup {x}, scan.offset)
    BY <1>2, SmallestWith
  <2>3. Skipped = Smallest(present, scan.offset)
    BY DEF Skipped
  <2> QED
    BY <2>1, <2>2, <2>3
<1>7. Skipped \subseteq present
  BY <1>0, SkippedAreKeys
<1>8. PassedOver' \subseteq PassedOver
  BY <1>0, <1>1, <1>6 DEF PassedOver, ScanRecords
<1>9. \A a, b \in ToComeAgain' \ ToComeAgain : a = b
  BY <1>1, <1>6 DEF ToComeAgain
<1>10. PassedOver \in SUBSET Keys /\ ToComeAgain \in SUBSET Keys /\ ToComeAgain' \in SUBSET Keys
       /\ scan.again \in SUBSET Keys
  BY <1>0, <1>1, <1>7 DEF PassedOver, ToComeAgain, ScanRecords
<1>11. Cardinality(ToComeAgain') <= Cardinality(ToComeAgain) + 1
  BY <1>9, <1>10, OneMoreKey
<1>12. Cardinality(PassedOver') <= Cardinality(PassedOver) /\ PassedOver' \in SUBSET Keys
  BY <1>8, <1>10, FewerKeys
<1>13. /\ Cardinality(PassedOver) \in Nat /\ Cardinality(PassedOver') \in Nat
       /\ Cardinality(ToComeAgain) \in Nat /\ Cardinality(ToComeAgain') \in Nat
       /\ Cardinality(scan.again) \in Nat /\ Cardinality(scan.kept \ scan.seen) \in Nat
  <2>1. scan.kept \ scan.seen \in SUBSET Keys
    BY <1>0 DEF ScanRecords
  <2> QED
    BY <1>10, <1>12, <2>1, KeySets
<1>14. OffsetScanInv'
  <2> SUFFICES ASSUME scan.by = "offset"
               PROVE  /\ Cardinality(PassedOver') <= edits + 1
                      /\ Cardinality(scan.again) + Cardinality(ToComeAgain') <= edits + 1
                      /\ scan.pc = "ended" => Cardinality(scan.kept \ scan.seen) <= edits + 1
    BY <1>1 DEF OffsetScanInv
  <2>1. /\ Cardinality(PassedOver) <= edits
        /\ Cardinality(scan.again) + Cardinality(ToComeAgain) <= edits
        /\ scan.pc = "ended" => Cardinality(scan.kept \ scan.seen) <= edits
    BY <1>0 DEF OffsetScanInv
  <2> QED
    BY <1>3, <1>11, <1>12, <1>13, <2>1
<1> QED
  BY <1>4, <1>5, <1>14 DEF ScanInv

LEMMA RemoveRowKeeps == ASSUME NEW x \in Keys PROVE ScanInv /\ RemoveRow(x) => ScanInv'
<1> SUFFICES ASSUME ScanInv, RemoveRow(x) PROVE ScanInv'
  OBVIOUS
<1>0. ScanRecords /\ KeyScanInv /\ OffsetScanInv
  BY DEF ScanInv
<1>1. x \in present /\ edits < MaxEdits /\ present' = present \ {x} /\ edits' = edits + 1
      /\ scan' = [scan EXCEPT !.kept = @ \ {x}]
  BY DEF RemoveRow
<1>2. present \in SUBSET Nat /\ IsFiniteSet(present) /\ scan.offset \in Nat
  BY <1>0, KeySets DEF ScanRecords
<1>3. edits \in Nat
  BY <1>0, ScanAssumption DEF ScanRecords
<1>4. /\ scan'.by = scan.by /\ scan'.pc = scan.pc /\ scan'.last = scan.last
      /\ scan'.offset = scan.offset /\ scan'.seen = scan.seen /\ scan'.again = scan.again
      /\ scan'.kept = scan.kept \ {x}
  BY <1>0, <1>1 DEF ScanRecords
<1>5. ScanRecords'
  <2>1. scan' \in [by : {"key", "offset"}, pc : {"reading", "ended"}, last : Keys \cup {0},
                   offset : Nat, seen : SUBSET Keys, again : SUBSET Keys, kept : SUBSET Keys]
    BY <1>0, <1>1 DEF ScanRecords
  <2>2. scan'.kept \subseteq present' /\ scan'.again \subseteq scan'.seen
    BY <1>0, <1>1, <1>4 DEF ScanRecords
  <2> QED
    BY <1>0, <1>1, <1>3, <2>1, <2>2, ScanAssumption DEF ScanRecords
<1>6. KeyScanInv'
  BY <1>0, <1>4 DEF KeyScanInv
<1>7. /\ Skipped \ {x} \subseteq Skipped'
      /\ \A a, b \in Skipped' \ Skipped : a = b
  <2>1. Skipped' = Smallest(present \ {x}, scan.offset)
    BY <1>1, <1>4 DEF Skipped
  <2> QED
    BY <1>1, <1>2, <2>1, SmallestWithout DEF Skipped
<1>8. Skipped \subseteq present
  BY <1>0, SkippedAreKeys
<1>9. \A a, b \in PassedOver' \ PassedOver : a = b
  BY <1>4, <1>7 DEF PassedOver
<1>10. ToComeAgain' \subseteq ToComeAgain
  BY <1>1, <1>4, <1>7 DEF ToComeAgain
<1>11. PassedOver \in SUBSET Keys /\ PassedOver' \in SUBSET Keys /\ ToComeAgain \in SUBSET Keys
       /\ scan.again \in SUBSET Keys
  BY <1>0, <1>4, <1>8 DEF PassedOver, ToComeAgain, ScanRecords
<1>12. Cardinality(PassedOver') <= Cardinality(PassedOver) + 1
  BY <1>9, <1>11, OneMoreKey
<1>13. Cardinality(ToComeAgain') <= Cardinality(ToComeAgain) /\ ToComeAgain' \in SUBSET Keys
  BY <1>10, <1>11, FewerKeys
<1>14. Cardinality(scan'.kept \ scan.seen) <= Cardinality(scan.kept \ scan.seen)
       /\ scan'.kept \ scan.seen \in SUBSET Keys /\ scan.kept \ scan.seen \in SUBSET Keys
  <2>1. scan'.kept \ scan.seen \subseteq scan.kept \ scan.seen /\ scan.kept \ scan.seen \in SUBSET Keys
    BY <1>0, <1>4 DEF ScanRecords
  <2> QED
    BY <2>1, FewerKeys
<1>15. /\ Cardinality(PassedOver) \in Nat /\ Cardinality(PassedOver') \in Nat
       /\ Cardinality(ToComeAgain) \in Nat /\ Cardinality(ToComeAgain') \in Nat
       /\ Cardinality(scan.again) \in Nat /\ Cardinality(scan.kept \ scan.seen) \in Nat
       /\ Cardinality(scan'.kept \ scan.seen) \in Nat
  BY <1>11, <1>13, <1>14, KeySets
<1>16. OffsetScanInv'
  <2> SUFFICES ASSUME scan.by = "offset"
               PROVE  /\ Cardinality(PassedOver') <= edits + 1
                      /\ Cardinality(scan.again) + Cardinality(ToComeAgain') <= edits + 1
                      /\ scan.pc = "ended" => Cardinality(scan'.kept \ scan.seen) <= edits + 1
    BY <1>1, <1>4 DEF OffsetScanInv
  <2>1. /\ Cardinality(PassedOver) <= edits
        /\ Cardinality(scan.again) + Cardinality(ToComeAgain) <= edits
        /\ scan.pc = "ended" => Cardinality(scan.kept \ scan.seen) <= edits
    BY <1>0 DEF OffsetScanInv
  <2> QED
    BY <1>3, <1>12, <1>13, <1>14, <1>15, <2>1
<1> QED
  BY <1>5, <1>6, <1>16 DEF ScanInv

LEMMA ScanStep == ScanInv /\ [ScanNext]_scanVars => ScanInv'
<1> SUFFICES ASSUME ScanInv, [ScanNext]_scanVars PROVE ScanInv'
  OBVIOUS
<1>1. CASE NextChunk
  <2>1. scan.by \in {"key", "offset"}
    BY DEF ScanInv, ScanRecords
  <2> QED
    BY <1>1, <2>1, NextChunkByKey, NextChunkByOffset
<1>2. CASE \E k \in Keys : AddRow(k) \/ RemoveRow(k)
  BY <1>2, AddRowKeeps, RemoveRowKeeps
<1>3. CASE UNCHANGED scanVars
  BY <1>3 DEF ScanInv, ScanRecords, KeyScanInv, OffsetScanInv, PassedOver, ToComeAgain, Skipped,
              scanVars
<1> QED
  BY <1>1, <1>2, <1>3 DEF ScanNext

LEMMA ScanInvMeans == ScanInv => ScansComplete
<1> SUFFICES ASSUME ScanInv PROVE ScansComplete
  OBVIOUS
<1>0. ScanRecords /\ KeyScanInv /\ OffsetScanInv
  BY DEF ScanInv
<1>1. ScanTypeOK
  BY <1>0 DEF ScanRecords, ScanTypeOK
<1>2. KeyScanExact
  BY <1>0 DEF KeyScanInv, KeyScanExact
<1>3. OffsetScanErrs
  <2> SUFFICES ASSUME scan.by = "offset"
               PROVE  /\ scan.pc = "ended" => Cardinality(scan.kept \ scan.seen) <= edits
                      /\ Cardinality(scan.again) <= edits
    BY DEF OffsetScanErrs
  <2>1. scan.again \in SUBSET Keys /\ ToComeAgain \in SUBSET Keys /\ edits \in Nat
    BY <1>0, ScanAssumption DEF ScanRecords, ToComeAgain
  <2>2. Cardinality(scan.again) \in Nat /\ Cardinality(ToComeAgain) \in Nat
    BY <2>1, KeySets
  <2> QED
    BY <1>0, <2>1, <2>2 DEF OffsetScanInv
<1> QED
  BY <1>1, <1>2, <1>3 DEF ScansComplete

\* Reading a table while rows come and go: by key nothing that stays is missed and nothing is
\* read twice; by offset at most one row is missed and at most one repeated per edit.
THEOREM ScansAreComplete == ScanSpec => []ScansComplete
<1>1. ScanInit => ScanInv
  BY ScanInitial
<1>2. ScanInv /\ [ScanNext]_scanVars => ScanInv'
  BY ScanStep
<1>3. ScanInv => ScansComplete
  BY ScanInvMeans
<1> QED
  BY <1>1, <1>2, <1>3, PTL DEF ScanSpec

-----------------------------------------------------------------------------
\* ReadingsComplete: the pages and the pieces, as the services run.
THEOREM ReadingsAreComplete == ServicesSpec => []ReadingsComplete
<1>1. ServicesInit => PagingInv /\ ScanInv
  BY PagingInitial, ScanInitial DEF ServicesInit
<1>2. PagingInv /\ ScanInv /\ [ServicesNext]_servicesVars => (PagingInv /\ ScanInv)'
  <2>1. [ServicesNext]_servicesVars => [PagingNext]_pagingVars /\ [ScanNext]_scanVars
    BY DEF ServicesNext, servicesVars, Only
  <2> QED
    BY <2>1, PagingStep, ScanStep
<1>3. PagingInv /\ ScanInv => ReadingsComplete
  BY PagingInvMeans, ScanInvMeans DEF ReadingsComplete
<1> QED
  BY <1>1, <1>2, <1>3, PTL DEF ServicesSpec
=============================================================================
