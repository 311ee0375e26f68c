---------------------------- MODULE LoadBalancer ----------------------------
(***************************************************************************)
(* GlobalRequestLoadBalancer (workers/rollout/llm_server.py), the actor    *)
(* all agent loop workers ask which rollout server to use, and the clients *)
(* as it sees them: a request acquires a server, keeps it while the server *)
(* generates, and releases it with a message nobody awaits.  The actor     *)
(* runs one method at a time, and the calls of one client arrive in their  *)
(* order, so a request acquires again only after its release.              *)
(***************************************************************************)
EXTENDS Integers, Sequences, FiniteSets

CONSTANTS
  Servers,         (* the addresses servers may have                       *)
  Elastic,         (* those that are added and removed while requests run  *)
  Requests,        (* request ids: one per conversation                    *)
  CacheSize,       (* max_cache_size of the sticky sessions                *)
  NoServer         (* a request that holds no server                       *)

ASSUME BalancerAssumption ==
  /\ Elastic \subseteq Servers
  /\ IsFiniteSet(Requests)
  /\ CacheSize \in Nat \ {0}
  /\ NoServer \notin Servers

VARIABLES
  pool,      (* the keys of _inflight_requests and of _servers             *)
  inflight,  (* _inflight_requests; 0 for a server outside the pool        *)
  sticky,    (* _request_id_to_server, the least recently used entry first *)
  held       (* the server each request has acquired and not yet released  *)

balancerVars == <<pool, inflight, sticky, held>>

Holders(s) == {r \in Requests : held[r] = s}

Entry(r) == SelectSeq(sticky, LAMBDA e : e.request = r)

Without(r) == SelectSeq(sticky, LAMBDA e : e.request # r)

BalancerInit ==
  /\ pool = Servers
  /\ inflight = [s \in Servers |-> 0]
  /\ sticky = << >>
  /\ held = [r \in Requests |-> NoServer]

(* A hit on a server of the pool; the read makes the entry the newest.     *)
StickyHit(r, s) ==
  /\ Entry(r) # << >>
  /\ s = Entry(r)[1].server
  /\ s \in pool
  /\ sticky' = Append(Without(r), [request |-> r, server |-> s])

Candidates == {s \in pool : \A t \in pool : inflight[s] <= inflight[t]}

(* No entry, or an entry whose server is gone: take a least loaded server  *)
(* (the first of the dict, or by the hash of the request id: any of them)  *)
(* and remember it; a full cache forgets its least recently used entry.    *)
NewSelection(r, s) ==
  LET kept == Without(r) IN
  /\ Entry(r) # << >> => Entry(r)[1].server \notin pool
  /\ s \in Candidates
  /\ sticky' = Append(IF Len(kept) >= CacheSize THEN Tail(kept) ELSE kept,
                      [request |-> r, server |-> s])

(* acquire_server                                                          *)
Acquire(r, s) ==
  /\ held[r] = NoServer
  /\ StickyHit(r, s) \/ NewSelection(r, s)
  /\ inflight' = [inflight EXCEPT ![s] = @ + 1]
  /\ held' = [held EXCEPT ![r] = s]
  /\ UNCHANGED pool

(* release_server: ignored for a server that is gone, never below zero.    *)
Release(r) ==
  LET s == held[r] IN
  /\ s # NoServer
  /\ inflight' = IF s \in pool /\ inflight[s] > 0
                 THEN [inflight EXCEPT ![s] = @ - 1] ELSE inflight
  /\ held' = [held EXCEPT ![r] = NoServer]
  /\ UNCHANGED <<pool, sticky>>

(* Mutation of AddServers: a server that was there goes on counting.       *)
AddServersTwice(S) ==
  /\ pool' = pool \cup S
  /\ inflight' = [s \in Servers |-> IF s \in S THEN inflight[s] + 1 ELSE inflight[s]]
  /\ UNCHANGED <<sticky, held>>

(* add_servers: counts restart at zero.                                    *)
AddServers(S) ==
  /\ pool' = pool \cup S
  /\ inflight' = [s \in Servers |-> IF s \in S THEN 0 ELSE inflight[s]]
  /\ UNCHANGED <<sticky, held>>

(* remove_servers: the count goes with the server, the sticky entries stay.*)
RemoveServers(S) ==
  /\ pool' = pool \ S
  /\ inflight' = [s \in Servers |-> IF s \in S THEN 0 ELSE inflight[s]]
  /\ UNCHANGED <<sticky, held>>

(* Both callers keep track: they add servers that are out and remove       *)
(* servers that are in (HybridEngineMode, alive_replicas).                 *)
BalancerNext ==
  \/ \E r \in Requests, s \in Servers : Acquire(r, s)
  \/ \E r \in Requests : Release(r)
  \/ \E S \in SUBSET (Elastic \ pool) : S # {} /\ AddServers(S)
  \/ \E S \in SUBSET (Elastic \cap pool) : S # {} /\ RemoveServers(S)

BalancerSpec == BalancerInit /\ [][BalancerNext]_balancerVars

-----------------------------------------------------------------------------
(* The state is well typed; the cache holds each request once.             *)
BalancerTypeOK ==
  /\ pool \subseteq Servers
  /\ inflight \in [Servers -> Nat]
  /\ sticky \in Seq([request : Requests, server : Servers])
  /\ Len(sticky) <= CacheSize
  /\ \A i, j \in DOMAIN sticky : sticky[i].request = sticky[j].request => i = j
  /\ held \in [Requests -> Servers \cup {NoServer}]

(* No sequence of acquires, releases, removals and additions makes the     *)
(* balancer count requests that do not exist: a server never stays loaded  *)
(* for ever because of a request that is gone (release_server after        *)
(* remove_servers and add_servers).                                        *)
NeverOvercounts ==
  \A s \in Servers : inflight[s] <= Cardinality(Holders(s))

(* The count of a server that is never removed is exact.                   *)
PermanentExact ==
  \A s \in Servers \ Elastic : inflight[s] = Cardinality(Holders(s))
=============================================================================
