------------------------------ MODULE Pagination ------------------------------
(***************************************************************************)
(* The pure functions of pagination.util.ts.  Number() makes of a query    *)
(* parameter NaN, an infinity, or a finite number, which may be a fraction *)
(* and is counted in grains: every double is a whole number of grains if   *)
(* these are small enough.                                                 *)
(***************************************************************************)
EXTENDS MongoPages

CONSTANTS
  Grain,        \* how many grains make 1
  NaN, Infinity, MinusInfinity

ASSUME QueryAssumption ==
  Grain \in Nat \ {0} /\ NaN \notin Int /\ Infinity \notin Int /\ MinusInfinity \notin Int

Query == Int \cup {NaN, Infinity, MinusInfinity}

\* Math.max(low, q) and Math.min(high, q); a falsy q, 0 or NaN, is replaced before.
AtLeast(low, q) ==
  IF q \in Int THEN IF q < low THEN low ELSE q
  ELSE IF q = Infinity THEN q ELSE low
AtMost(high, q) == IF q \in Int /\ q < high THEN q ELSE high
OrDefault(q, default) == IF q \in {0, NaN} THEN default ELSE q

\* normalizePagination, in grains.
MaxLimit == 100
NormalPage(q) == AtLeast(Grain, OrDefault(q, Grain))
NormalLimit(q) == AtMost(MaxLimit * Grain, AtLeast(Grain, OrDefault(q, 20 * Grain)))

\* (page - 1) * limit, in grains of a grain.
NormalSkip(page, limit) == IF page = Infinity THEN Infinity ELSE (page - Grain) * limit

\* buildPaginatedResult, of a whole page and limit.
AtLeastOne(n) == IF n >= 1 THEN n ELSE 1
Ceil(n, d) == IF n % d = 0 THEN n \div d ELSE n \div d + 1
TotalPages(total, limit) == AtLeastOne(Ceil(total, limit))
HasNext(page, total, limit) == page < TotalPages(total, limit)
HasPrev(page) == page > 1

\* The items, counted from 0, that a page shows.
OnPage(page, limit, total) == {k \in 0 .. total - 1 : SkipOf(page, limit) <= k /\ k < SkipOf(page, limit) + limit}

\* What a client that follows hasNext from page 1 relies on: the pages up to
\* totalPages show every item, and hasNext and hasPrev tell exactly that items
\* remain after and before the page.
PagesCover(total, limit) ==
  /\ \A k \in 0 .. total - 1 :
       \E page \in 1 .. TotalPages(total, limit) : k \in OnPage(page, limit, total)
  /\ \A page \in 1 .. TotalPages(total, limit) :
       /\ HasNext(page, total, limit) <=> SkipOf(page, limit) + limit < total
       /\ HasPrev(page) <=> SkipOf(page, limit) > 0

===============================================================================
