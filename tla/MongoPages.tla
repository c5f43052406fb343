------------------------------ MODULE MongoPages ------------------------------
(***************************************************************************)
(* Which page of a list a query returns, in numbers of documents.          *)
(***************************************************************************)
EXTENDS Integers

\* The skip that controllers compute of a page.
SkipOf(page, limit) == (page - 1) * limit

\* How many of n documents MongoDB returns after skipping some: to it a limit of 0 is
\* none, and a negative one counts by its absolute value.
PageSize(n, skip, limit) ==
  LET left == IF n > skip THEN n - skip ELSE 0
      most == IF limit < 0 THEN -limit ELSE limit
  IN  IF most = 0 \/ left < most THEN left ELSE most

===============================================================================
