------------------------------ MODULE Retrieval ------------------------------
(***************************************************************************)
(* The retrieval service of the recipe (retrieval_service/server.py): its  *)
(* endpoint, the search of one query, and the LRU cache between them.      *)
(*                                                                         *)
(* The endpoint awaits nothing, so requests are served one after another;  *)
(* a query is one step.  A document is its number in the corpus, the index *)
(* an external function from queries to the numbers it finds, best first.  *)
(* The search tool is a client that never asks for scores; others may.     *)
(***************************************************************************)
EXTENDS Integers, Sequences, FiniteSets, SequencesExt

CONSTANTS
  Queries,     \* queries, stripped
  Blank,       \* the query that strips to nothing
  Hits,        \* external: Hits[q] is what the index finds for q
  LastDoc,     \* number of the last document of the corpus
  Topks,       \* values of topk a request may carry; 0 for none
  DefaultTopk, \* topk of the retriever
  Chars,       \* values of max_doc_chars a request may carry
  Capacity,    \* capacity of the cache
  BatchSize,   \* bound on the queries of a request
  MaxAsked     \* bound on the queries answered in a behaviour

ASSUME RetrievalAssumption ==
  /\ Hits \in [Queries -> Seq(0 .. LastDoc)] /\ Blank \notin Queries
  /\ LastDoc \in Nat /\ Topks \subseteq Nat /\ DefaultTopk \in Nat \ {0}
  /\ Capacity \in Nat \ {0} /\ BatchSize \in Nat /\ MaxAsked \in Nat

Requests ==
  [queries : BoundedSeq(Queries \cup {Blank}, BatchSize), topk : Topks,
   return_scores : BOOLEAN, max_doc_chars : Chars]

VARIABLES
  cache,   \* entries of the cache, the least recently used first
  request, \* the request being served, or an empty sequence
  result,  \* result[i] answers queries[i] of the request
  asked    \* the queries answered so far, for the bound

retrievalVars == <<cache, request, result, asked>>

Idle == request = <<>>

RetrievalInit == cache = <<>> /\ request = <<>> /\ result = <<>> /\ asked = 0

-----------------------------------------------------------------------------
\* FAISS fills up with -1 what it does not find, and corpus[-1] is the last
\* document.
Doc(q, i) == IF i <= Len(Hits[q]) THEN Hits[q][i] ELSE LastDoc

\* search without the cache: the documents with their truncation and, if
\* asked for, their scores.  The index of a document stands for its score.
Search(key, return_score) ==
  [docs   |-> [i \in 1 .. key.num |->
                 [doc |-> Doc(key.query, i), chars |-> key.max_doc_chars, score |-> return_score]],
   scores |-> return_score]

\* cache_key: a colon cannot be part of the two numbers, so that no two
\* searches share a string; return_score is no part of it.
Key(q) ==
  [query |-> q,
   num   |-> IF request.topk = 0 THEN DefaultTopk ELSE request.topk,
   max_doc_chars |-> request.max_doc_chars]

\* LRUCache: the entry of a key is moved to the end when it is read or written.
Cached(key) == \E i \in DOMAIN cache : cache[i].key = key
Place(key) == CHOOSE i \in DOMAIN cache : cache[i].key = key
Entry(key) == cache[Place(key)]
Without(key) == IF Cached(key) THEN RemoveAt(cache, Place(key)) ELSE cache

Get(key) == cache' = Append(Without(key), Entry(key))

Put(key, value) ==
  LET c == Append(Without(key), [key |-> key, value |-> value]) IN
  cache' = IF Len(c) > Capacity THEN Tail(c) ELSE c

\* What the endpoint makes of the search of a query: zip(docs, None) of an
\* entry cached without scores raises, and the answer is empty.
Reply(value) ==
  IF ~request.return_scores THEN value.docs
  ELSE IF value.scores THEN value.docs ELSE <<>>

-----------------------------------------------------------------------------
Receive ==
  /\ Idle
  /\ \E r \in Requests :
       /\ asked + Len(r.queries) <= MaxAsked
       /\ request' = r
  /\ result' = <<>>
  /\ UNCHANGED <<cache, asked>>

Pending == ~Idle /\ Len(result) < Len(request.queries)
Query == request.queries[Len(result) + 1]

AnswerBlank ==
  /\ Pending /\ Query = Blank
  /\ result' = Append(result, <<>>)
  /\ UNCHANGED <<cache, request, asked>>

AnswerCached ==
  /\ Pending /\ Query # Blank
  /\ Cached(Key(Query))
  /\ Get(Key(Query))
  /\ result' = Append(result, Reply(Entry(Key(Query)).value))
  /\ asked' = asked + 1
  /\ UNCHANGED request

AnswerSearched ==
  /\ Pending /\ Query # Blank
  /\ ~Cached(Key(Query))
  /\ LET value == Search(Key(Query), request.return_scores) IN
       /\ Put(Key(Query), value)
       /\ result' = Append(result, Reply(value))
  /\ asked' = asked + 1
  /\ UNCHANGED request

\* Mutation of SearchFails: the empty answer is cached.
SearchFailsCached ==
  /\ Pending /\ Query # Blank
  /\ ~Cached(Key(Query))
  /\ Put(Key(Query), [docs |-> <<>>, scores |-> TRUE])
  /\ result' = Append(result, <<>>)
  /\ UNCHANGED <<request, asked>>

\* The encoder or the index raises: an empty answer, and nothing is cached.
SearchFails ==
  /\ Pending /\ Query # Blank
  /\ ~Cached(Key(Query))
  /\ result' = Append(result, <<>>)
  /\ UNCHANGED <<cache, request, asked>>

Respond ==
  /\ ~Idle /\ ~Pending
  /\ request' = <<>>
  /\ UNCHANGED <<cache, result, asked>>

RetrievalNext ==
  \/ Receive \/ AnswerBlank \/ AnswerCached \/ AnswerSearched \/ SearchFails \/ Respond

RetrievalSpec == RetrievalInit /\ [][RetrievalNext]_retrievalVars

-----------------------------------------------------------------------------
Documents == [doc : 0 .. LastDoc, chars : Chars, score : BOOLEAN]
Keys == [query : Queries, num : Nat, max_doc_chars : Chars]

RetrievalTypeOK ==
  /\ \A i \in DOMAIN cache :
       /\ cache[i].key \in Keys
       /\ \A d \in ToSet(cache[i].value.docs) : d \in Documents
       /\ \A j \in DOMAIN cache : cache[i].key = cache[j].key => i = j
  /\ Len(cache) <= Capacity
  /\ ~Idle => request \in Requests /\ Len(result) <= Len(request.queries)
  /\ asked \in 0 .. MaxAsked

\* As the search tool reads an answer: the documents, without their scores.
Read(docs) == [i \in DOMAIN docs |-> <<docs[i].doc, docs[i].chars>>]

\* A request without scores, as the search tool sends, reads from the cache the
\* documents a search would have found, whatever other clients have asked for.
ToolUnaffected ==
  [][AnswerCached /\ ~request.return_scores =>
       Read(Last(result')) = Read(Search(Key(Query), FALSE).docs)]_retrievalVars
=============================================================================
