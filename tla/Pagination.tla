----------------------------- MODULE Pagination -----------------------------
(***************************************************************************)
(* Page arithmetic (api/deps/pagination.py) and a client that walks the    *)
(* pages: it asks for page 1, then for the next one as long as the         *)
(* response says has_next.  The rows behind it do not change; the query    *)
(* that takes offset and limit is external.                                *)
(***************************************************************************)
EXTENDS Integers

CONSTANTS Totals,      \* numbers of items behind the list endpoint
          PageSizes    \* page_size, at least 1 (Query ge=1)

ASSUME PageAssumption == Totals \subseteq Nat /\ PageSizes \subseteq Nat \ {0}

VARIABLES
    walk,        \* "idle", "ask" a request is due, "done" the client stopped
    total, page_size,
    page,        \* the page asked for
    got,         \* items received so far
    repeated     \* an item arrived a second time

pageVars == <<walk, total, page_size, page, got, repeated>>

PageInit ==
    /\ walk = "idle"
    /\ total = 0 /\ page_size = 1 /\ page = 1
    /\ got = {}
    /\ repeated = FALSE

offset == (page - 1) * page_size

limit == page_size

\* Rows offset .. offset+limit-1 of the query, numbered from 1.
Rows == {n \in 1 .. total : offset < n /\ n <= offset + limit}

\* Mutant: no rounding up.
pagesFloor == IF total > 0 THEN total \div page_size ELSE 1

\* PaginatedResponse.create
pages == IF total > 0 THEN (total + page_size - 1) \div page_size ELSE 1

has_next == page < pages

StartWalk(n, size) ==
    /\ walk = "idle"
    /\ walk' = "ask"
    /\ total' = n /\ page_size' = size
    /\ UNCHANGED <<page, got, repeated>>

GetPage ==
    /\ walk = "ask"
    /\ got' = got \cup Rows
    /\ repeated' = (repeated \/ got \cap Rows # {})
    /\ \/ has_next /\ page' = page + 1 /\ UNCHANGED walk
       \/ ~has_next /\ walk' = "done" /\ UNCHANGED page
    /\ UNCHANGED <<total, page_size>>

PageNext ==
    \/ \E n \in Totals, size \in PageSizes : StartWalk(n, size)
    \/ GetPage

PageSpec == PageInit /\ [][PageNext]_pageVars

-----------------------------------------------------------------------------
\* The walk's state.
PageTypeOK ==
    /\ walk \in {"idle", "ask", "done"}
    /\ total \in Nat /\ page_size \in Nat \ {0} /\ page \in Nat \ {0}
    /\ got \in SUBSET (1 .. total)
    /\ repeated \in BOOLEAN

(***************************************************************************)
(* The pages partition the items (offset, pages and has_next agree, at     *)
(* zero items and at exact multiples too, lines 38-46 and 92-104): a       *)
(* client that follows has_next gets no item twice, and when it stops it   *)
(* has them all.                                                           *)
(***************************************************************************)
PagesPartition ==
    /\ ~repeated
    /\ walk = "done" => got = 1 .. total
=============================================================================
