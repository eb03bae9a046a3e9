------------------------------- MODULE ApiPages -------------------------------
(***************************************************************************)
(* A client of the API walks through the pages of the transactions, or of  *)
(* the blocks, while rows are stored.  CacheInterceptor answers a request  *)
(* from Redis if another one for the same address was answered in the last *)
(* seconds; otherwise the page is queried and put into Redis afterwards.   *)
(* The rows are ordered by their time, the latest first; rows of the same  *)
(* time come in any order, and in another one at the next query.           *)
(***************************************************************************)
EXTENDS Integers, Sequences, FiniteSets, SequencesExt

CONSTANTS Time,        \* of each row: the transactions of a block share theirs
          Limit,       \* rows of a page
          MaxQueries,  \* bound on the queries
          NoPage       \* a page that is not in Redis

ApiPagesAssumption ==
    /\ Time \in Seq(Nat) /\ Limit \in Nat \ {0} /\ MaxQueries \in Nat

Rows == DOMAIN Time

VARIABLES
    stored,   \* the rows of the table
    cache,    \* Redis: the pages, and which query each is of
    filling,  \* answers that are on their way to Redis
    queries,  \* how many queries there were
    page,     \* page that the client asks for next; -1 when it has all
    got,      \* the rows that it was given
    began,    \* history: the rows that were stored when its first page was queried
    last,     \* history: the query of its last page
    stale     \* history: a page was of an earlier query than the one before it

vars == <<stored, cache, filling, queries, page, got, began, last, stale>>

Pages == 0..Len(Time)
\* of is history: all the rows at the time of the query.
Entry == [page : Pages, rows : SUBSET Rows, query : 1..MaxQueries, of : SUBSET Rows]

TypeOK ==
    /\ stored \subseteq Rows
    /\ cache \in [Pages -> Entry \cup {NoPage}] /\ filling \subseteq Entry
    /\ queries \in 0..MaxQueries
    /\ page \in Pages \cup {-1}
    /\ got \subseteq Rows /\ began \subseteq Rows
    /\ last \in 0..MaxQueries /\ stale \in BOOLEAN

Init ==
    /\ stored \in SUBSET Rows
    /\ cache = [k \in Pages |-> NoPage] /\ filling = {} /\ queries = 0
    /\ page = -1 /\ got = {} /\ began = {} /\ last = 0 /\ stale = FALSE

client == <<page, got, began, last, stale>>

\* A row is stored; those of older times may come later than newer ones.
Store(r) ==
    /\ r \notin stored
    /\ stored' = stored \cup {r}
    /\ UNCHANGED <<cache, filling, queries, client>>

\* What the order by time leaves open.
Orders == {s \in SetToSeqs(stored) : \A i, j \in 1..Len(s) : i < j => Time[s[i]] >= Time[s[j]]}

\* Mutant of Skip: the rows are counted from one.
SkipFromOne(k) == IF k = 0 THEN 0 ELSE k * Limit + 1

\* PaginationInterceptor and the query: skip page * limit rows, take limit.
Skip(k) == k * Limit
Page(s, k) == {s[i] : i \in {j \in 1..Len(s) : Skip(k) < j /\ j <= Skip(k) + Limit}}

\* What a query for a page may answer.
Answers(k) ==
    {[page |-> k, rows |-> Page(s, k), query |-> queries + 1, of |-> stored] : s \in Orders}

\* The query, whose answer is put into Redis afterwards.
Query(e) ==
    /\ queries < MaxQueries
    /\ queries' = queries + 1
    /\ filling' = filling \cup {e}

\* The key in Redis is the address of the request.
Key(k) == k

Fill(e) ==
    /\ cache' = [cache EXCEPT ![Key(e.page)] = e]
    /\ filling' = filling \ {e}
    /\ UNCHANGED <<stored, queries, client>>

\* The entry is older than the time to live.
Expire(k) ==
    /\ cache[k] # NoPage
    /\ cache' = [cache EXCEPT ![k] = NoPage]
    /\ UNCHANGED <<stored, filling, queries, client>>

\* Somebody else asks for a page that is not in Redis.
Other(k) ==
    /\ cache[Key(k)] = NoPage
    /\ \E e \in Answers(k) : Query(e)
    /\ UNCHANGED <<stored, cache, client>>

Begin ==
    /\ page = -1
    /\ page' = 0 /\ got' = {} /\ began' = {} /\ last' = 0 /\ stale' = FALSE
    /\ UNCHANGED <<stored, cache, filling, queries>>

\* The client is given e, and has all when the page is not full.
Given(e) ==
    /\ got' = got \cup e.rows
    /\ stale' = (stale \/ e.query < last)
    /\ last' = e.query
    /\ page' = IF Cardinality(e.rows) < Limit \/ page = Len(Time) THEN -1 ELSE page + 1
    /\ began' = IF page = 0 THEN e.of ELSE began

Hit ==
    /\ page # -1 /\ cache[Key(page)] # NoPage
    /\ Given(cache[Key(page)])
    /\ UNCHANGED <<stored, cache, filling, queries>>

Miss ==
    /\ page # -1 /\ cache[Key(page)] = NoPage
    /\ \E e \in Answers(page) : Query(e) /\ Given(e)
    /\ UNCHANGED <<stored, cache>>

Next ==
    \/ \E r \in Rows : Store(r)
    \/ \E k \in Pages : Expire(k) \/ Other(k)
    \/ \E e \in filling : Fill(e)
    \/ Begin \/ Hit \/ Miss

Spec == Init /\ [][Next]_vars

-----------------------------------------------------------------------------
(* Properties.                                                              *)

\* A client that walked through all pages was given every row that was there when
\* its first page was queried, although rows are stored before those that it has
\* still to read: they only move on to later pages.  It misses a row only if a page
\* came out of Redis that was queried before the page in front of it, or if another
\* row has the same time: a block's transactions that lie on two pages
\* (transaction.service.ts:21).
PagesMissNothing ==
    page = -1 /\ ~stale =>
        \A r \in began \ got : \E q \in stored \ {r} : Time[q] = Time[r]
===============================================================================
