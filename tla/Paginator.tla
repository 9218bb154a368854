------------------------------ MODULE Paginator ------------------------------
(***************************************************************************)
(* Cursor pagination (paginator.rs, sandbox/paginator.rs,                  *)
(* sandbox/snapshot_paginator.rs): one listing, page by page, of items     *)
(* that come and go on the control plane meanwhile.                        *)
(*                                                                         *)
(* An item is its place in the server's order, from 1; a page is the set   *)
(* of its items.  A token is the item a page ended with; 0 is the empty    *)
(* string, or no token.                                                    *)
(***************************************************************************)
EXTENDS Naturals, FiniteSets

CONSTANT Limit \* items on a page at most, 1 or more

VARIABLES
  present,   \* the items there are; nothing here changes it
  has_next, next_token, \* PaginationState
  page,      \* the future of next_items: [at, items, given, token], where at
             \* is "idle", "sent", "answered"; given and token are the
             \* response's x-next-token
  listed,    \* (history) what next_items has returned
  again,     \* (history) it has returned something a second time
  begun,     \* (history) a page has been asked for
  steady     \* (history) what has been there ever since

pager == <<has_next, next_token, page, listed, again, begun, steady>>

NoPage == [at |-> "idle", items |-> {}, given |-> FALSE, token |-> 0]

PagerInit == /\ has_next = TRUE /\ next_token = 0 /\ page = NoPage
             /\ listed = {} /\ again = FALSE /\ begun = FALSE /\ steady = {}

\* next_items; exhausted, it returns an empty page and changes nothing.
NextItems == /\ page.at = "idle" /\ has_next
             /\ page' = [NoPage EXCEPT !.at = "sent"]
             /\ begun' = TRUE
             /\ steady' = IF begun THEN steady ELSE present
             /\ UNCHANGED <<has_next, next_token, listed, again>>

After(t) == {i \in present : i > t}

\* The first items after the token.  There is a next token while items remain;
\* the end is an absent or an empty one.
ServePage ==
  /\ page.at = "sent"
  /\ \/ \E last \in After(next_token) :
          LET items == {i \in After(next_token) : i <= last}
          IN  /\ Cardinality(items) = Limit /\ items # After(next_token)
              /\ page' = [at |-> "answered", items |-> items,
                          given |-> TRUE, token |-> last]
     \/ /\ Cardinality(After(next_token)) <= Limit
        /\ \E given \in BOOLEAN :
             page' = [at |-> "answered", items |-> After(next_token),
                      given |-> given, token |-> 0]
  /\ UNCHANGED <<has_next, next_token, listed, again, begun, steady>>

\* Fault (mutant of UpdateFromToken): the cursor stays.
UpdateHasNextOnly(given, token) == /\ UNCHANGED next_token
                                   /\ has_next' = (given /\ token # 0)

UpdateFromToken(given, token) == /\ next_token' = token
                                 /\ has_next' = (given /\ token # 0)

ReturnPage == /\ page.at = "answered"
              /\ UpdateFromToken(page.given, page.token)
              /\ listed' = listed \union page.items
              /\ again' = (again \/ page.items \intersect listed # {})
              /\ page' = NoPage
              /\ UNCHANGED <<begun, steady>>

\* Fault (mutant of LosePage): the cursor has moved before the body is decoded.
MovesFirst == /\ page.at # "idle"
              /\ IF page.at = "answered"
                 THEN UpdateFromToken(page.given, page.token)
                 ELSE UNCHANGED <<has_next, next_token>>
              /\ page' = NoPage
              /\ UNCHANGED <<listed, again, begun, steady>>

\* The request fails, its body cannot be decoded, or the future is dropped.
LosePage == /\ page.at # "idle"
            /\ page' = NoPage
            /\ UNCHANGED <<has_next, next_token, listed, again, begun, steady>>

PagerNext == NextItems \/ ServePage \/ ReturnPage \/ LosePage

\* What everybody else does.
PagerRests == /\ steady' = steady \cap present'
              /\ UNCHANGED <<has_next, next_token, page, listed, again, begun>>

-----------------------------------------------------------------------------
PagerTypeOK ==
  /\ has_next \in BOOLEAN /\ next_token \in Nat
  /\ page \in [at : {"idle", "sent", "answered"}, items : SUBSET Nat,
              given : BOOLEAN, token : Nat]
  /\ listed \subseteq Nat /\ again \in BOOLEAN
  /\ begun \in BOOLEAN /\ steady \subseteq Nat

\* No item is listed twice, whatever pages failed and were asked for again,
\* and whatever came and went between two pages.
IsListedOnce == ~again

\* A listing that has come to its end has what was there all along.
IsComplete == ~has_next => steady \subseteq listed

\* The cursor parts what is listed from what is not, and a page under way is
\* what comes next, up to its token.
CursorInStep ==
  /\ steady \subseteq present
  /\ ~begun => next_token = 0 /\ listed = {} /\ has_next
  /\ page.at # "idle" => begun /\ has_next
  /\ has_next => /\ \A i \in listed : i <= next_token
                 /\ \A i \in steady : i <= next_token => i \in listed
  /\ page.at = "answered" =>
       /\ \A i \in page.items : i > next_token
       /\ page.token # 0 => page.given /\ \A i \in page.items : i <= page.token
       /\ page.token # 0 => page.token > next_token
       /\ \A i \in steady : i > next_token /\ (page.token = 0 \/ i <= page.token)
                             => i \in page.items
=============================================================================
