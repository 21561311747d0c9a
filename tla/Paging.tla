------------------------------ MODULE Paging ------------------------------
(***************************************************************************)
(* QTestPaginatedIterator (ztoq/qtest_client.py) and PaginatedIterator     *)
(* (ztoq/zephyr_client.py): a caller iterates over a collection of the     *)
(* server page by page while other users of the server append to it and    *)
(* delete from it.  A collection is the sequence of ids in creation order; *)
(* the server cuts pages of it: by page number from 1 (qTest manager API), *)
(* or by offset (the other qTest APIs, and Zephyr, whose answers say       *)
(* themselves whether they are the last).                                  *)
(***************************************************************************)
EXTENDS Integers, Sequences, FiniteSets, SequencesExt

CONSTANTS
    PageSizes,     \* page_size of the iterator
    MaxItems,      \* bound on the ids ever created
    MaxChanges     \* bound on the changes of the collection while it is read

ASSUME PagingAssumption == PageSizes \subseteq Nat \ {0} /\ MaxItems \in Nat

VARIABLES
    pages,      \* the iterator: API, page size, current page, index, yielded items
    collection, \* ids on the server, in creation order
    changes     \* [created, appended, deleted] counts
pagingVars == <<pages, collection, changes>>

Apis == {"manager", "offset", "zephyr"}
NoPage == [items |-> <<>>, from |-> 0, last |-> FALSE]

PagingInit ==
    /\ pages = [state |-> "new", api |-> "manager", size |-> 1, page |-> NoPage,
                index |-> 0, yielded |-> <<>>]
    /\ collection = <<>>
    /\ changes = [created |-> 0, appended |-> 0, deleted |-> 0]

\* get_test_cases, get_modules, get_test_cycles, get_parameters, ...: an iterator
\* over a collection of some length.
NewIterator(api, size, n) ==
    /\ pages.state = "new"
    /\ pages' = [pages EXCEPT !.state = "fetch", !.api = api, !.size = size,
                              !.page.from = IF api = "manager" THEN 1 ELSE 0]
    /\ collection' = [i \in 1..n |-> i]
    /\ changes' = [changes EXCEPT !.created = n]

\* The answer of the server: the items behind an offset.
ServerItems(start) ==
    LET end == start + pages.size
    IN SubSeq(collection, start + 1, IF end < Len(collection) THEN end ELSE Len(collection))

\* QTestPaginatedIterator._fetch_next_page: is_last is computed from the answer.
ManagerPage(from) ==
    LET items == ServerItems((from - 1) * pages.size)
    IN [items |-> items, from |-> from,
        last |-> from * pages.size + Len(items) >= Len(collection)]

OffsetPage(from) ==
    LET items == ServerItems(from)
    IN [items |-> items, from |-> from, last |-> from + Len(items) >= Len(collection)]

\* PaginatedIterator._fetch_next_page: the server says whether more follows.
ZephyrPage(from) ==
    LET items == ServerItems(from)
    IN [items |-> items, from |-> from, last |-> from + pages.size >= Len(collection)]

PageFrom(from) ==
    CASE pages.api = "manager" -> ManagerPage(from)
      [] pages.api = "offset"  -> OffsetPage(from)
      [] pages.api = "zephyr"  -> ZephyrPage(from)

FetchPage ==
    /\ pages.state = "fetch"
    /\ pages' = [pages EXCEPT !.state = "next", !.index = 0,
                              !.page = PageFrom(pages.page.from)]
    /\ UNCHANGED <<collection, changes>>

\* __next__ on a page that still has items.
YieldItem ==
    /\ pages.state = "next" /\ pages.index < Len(pages.page.items)
    /\ pages' = [pages EXCEPT !.index = @ + 1,
                              !.yielded = Append(@, pages.page.items[pages.index + 1])]
    /\ UNCHANGED <<collection, changes>>

\* __next__ behind the last item: stop on the last page ...
StopIteration ==
    /\ pages.state = "next" /\ pages.index >= Len(pages.page.items)
    /\ pages.page.last
    /\ pages' = [pages EXCEPT !.state = "stopped"]
    /\ UNCHANGED <<collection, changes>>

\* ... else fetch the next one and take its first item without a further
\* test: an empty page raises IndexError.
TurnPage ==
    LET page == PageFrom(IF pages.api = "manager" THEN pages.page.from + 1
                         ELSE pages.page.from + Len(pages.page.items))
        empty == page.items = <<>>
    IN /\ pages.state = "next" /\ pages.index >= Len(pages.page.items)
       /\ ~pages.page.last
       /\ pages' = [pages EXCEPT
            !.page = page,
            !.state = IF empty THEN "indexError" ELSE "next",
            !.index = IF empty THEN 0 ELSE 1,
            !.yielded = IF empty THEN @ ELSE Append(@, Head(page.items))]
       /\ UNCHANGED <<collection, changes>>

\* Other users of the server, while the iterator is being read.
AppendItem ==
    /\ pages.state = "next" /\ changes.created < MaxItems
    /\ changes.appended + changes.deleted < MaxChanges
    /\ collection' = Append(collection, changes.created + 1)
    /\ changes' = [changes EXCEPT !.created = @ + 1, !.appended = @ + 1]
    /\ UNCHANGED pages

DeleteItem ==
    /\ pages.state = "next"
    /\ changes.appended + changes.deleted < MaxChanges
    /\ \E i \in 1..Len(collection) : collection' = RemoveAt(collection, i)
    /\ changes' = [changes EXCEPT !.deleted = @ + 1]
    /\ UNCHANGED pages

PagingNext ==
    \/ \E api \in Apis, size \in PageSizes, n \in 0..MaxItems :
          NewIterator(api, size, n)
    \/ FetchPage \/ YieldItem \/ StopIteration \/ TurnPage
    \/ AppendItem \/ DeleteItem

PagingSpec == PagingInit /\ [][PagingNext]_pagingVars

----------------------------------------------------------------------------
(***************************** Properties *********************************)

\* Types of the iterator and the collection.
PagingTypeOK ==
    /\ pages.state \in {"new", "fetch", "next", "stopped", "indexError"}
    /\ pages.api \in Apis
    /\ pages.index \in 0..Len(pages.page.items)
    /\ Range(pages.yielded) \cup Range(collection) \subseteq 1..MaxItems

\* Ids come in creation order and none comes twice, with pages of either kind,
\* whatever is appended or deleted between two pages.
NothingTwice ==
    \A i, j \in 1..Len(pages.yielded) : i < j => pages.yielded[i] < pages.yielded[j]

\* By offset, an item that was there from the first page on is only passed
\* over when the collection shrank under the iterator.
OffsetPagesComplete ==
    (pages.state = "stopped" /\ pages.api # "manager" /\ changes.deleted = 0) =>
        Range(collection) = Range(pages.yielded) \cup
            {i \in Range(collection) : i > changes.created - changes.appended}

\* The unchecked first item of a new page is missing only after a deletion.
IndexErrorNeedsDeletion == pages.state = "indexError" => changes.deleted > 0

\* By page number, is_last takes the page number for a page index from 0: the
\* items missed are the last ones, and never more than one page of them.
ManagerMissesAtMostAPage ==
    (pages.state = "stopped" /\ pages.api = "manager"
        /\ changes.appended + changes.deleted = 0) =>
    /\ IsPrefix(pages.yielded, collection)
    /\ Len(collection) - Len(pages.yielded) <= pages.size

\* What an iterator may miss, and when it may fail, whatever changes meanwhile.
PagesComplete ==
    /\ PagingTypeOK /\ NothingTwice /\ OffsetPagesComplete /\ IndexErrorNeedsDeletion
    /\ ManagerMissesAtMostAPage
=============================================================================
