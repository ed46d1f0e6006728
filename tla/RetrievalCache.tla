--------------------------- MODULE RetrievalCache ----------------------------
(***************************************************************************)
(* The in-process caches of provider calls (app/retrieval_cache.py): an    *)
(* LRU of bounded size with a time to live, and one flight per key that is *)
(* being asked for, shared by threads.  CachedEmbedder looks up each text  *)
(* of its list under a lock of its own, asks the provider once for the     *)
(* texts it leads, and then waits for the flights of other threads;        *)
(* CachedReranker is the same with one key.                                *)
(*                                                                         *)
(* A key stands for the hash of model, versions and input.  A list of      *)
(* texts is a set of keys, worked off in any order.  Values and counters   *)
(* are left out: what matters is who asks, who waits, and what is kept.    *)
(***************************************************************************)
EXTENDS Naturals, Sequences, FiniteSets

CONSTANTS
  Thread,      \* threads that embed or rerank
  Key,         \* cache keys
  MaxEntries,  \* capacity of the LRU
  MaxCalls,    \* bound: calls of each thread
  NoFlight

ASSUME CapacityAssumption == MaxEntries \in Nat \ {0}
ASSUME CallsAssumption == MaxCalls \in Nat

\* A flight is an object: the key, and the call that made it.
Flight == [key: Key, leader: Thread, call: 1..MaxCalls]

ASSUME NoFlightAssumption == NoFlight \notin Flight

VARIABLES
  entry,       \* [Key -> {"none", "live", "expired"}], _entries
  recency,     \* the keys of _entries, least recently used first
  inflight,    \* _inflight: the flight of each key
  outcome,     \* what a flight was resolved with, under the lock
  landed,      \* the flights whose event is set
  call         \* the call each thread is in

cacheVars == <<entry, recency, inflight, outcome, landed, call>>

Call == [no: 0..MaxCalls,
         pc: {"idle", "look", "ask", "store", "fail", "signal", "wait"},
         asked: {"none", "answer", "error"},
         todo: SUBSET Key,       \* texts not looked up yet
         leads: SUBSET Key,      \* texts this call leads and has not resolved
         waits: SUBSET Flight,   \* flights of others it has not waited for
         last: Flight \cup {NoFlight}]  \* resolved, its event not set yet

CacheTypes ==
  /\ entry \in [Key -> {"none", "live", "expired"}]
  /\ inflight \in [Key -> Flight \cup {NoFlight}]
  /\ outcome \in [Flight -> {"open", "value", "error"}]
  /\ landed \subseteq Flight
  /\ call \in [Thread -> Call]

\* The recency order holds exactly the entries, each once.
CacheTypeOK ==
  /\ CacheTypes
  /\ recency \in Seq(Key)
  /\ \A i, j \in DOMAIN recency : recency[i] = recency[j] => i = j
  /\ \A k \in Key : entry[k] # "none" <=> \E i \in DOMAIN recency : recency[i] = k

CacheInit ==
  /\ entry = [k \in Key |-> "none"]
  /\ recency = <<>>
  /\ inflight = [k \in Key |-> NoFlight]
  /\ outcome = [f \in Flight |-> "open"]
  /\ landed = {}
  /\ call = [t \in Thread |-> [no |-> 0, pc |-> "idle", asked |-> "none",
               todo |-> {}, leads |-> {}, waits |-> {}, last |-> NoFlight]]

Without(s, k) == SelectSeq(s, LAMBDA x : x # k)

\* embed or rerank is called.  An empty list of texts returns at once.
Start(t) ==
  /\ call[t].pc = "idle"
  /\ call[t].no < MaxCalls
  /\ \E texts \in (SUBSET Key) \ {{}} :
       call' = [call EXCEPT ![t].no = @ + 1, ![t].pc = "look", ![t].todo = texts]
  /\ UNCHANGED <<entry, recency, inflight, outcome, landed>>

\* A call that returns, or raises.
Over(c) == [c EXCEPT !.pc = "idle", !.asked = "none", !.waits = {}]

\* What is left of a call: the flights of others, if any.
Waiting(c) == IF c.waits = {} THEN Over(c) ELSE [c EXCEPT !.pc = "wait"]

\* A lookup's effect on what is left to look up, leads and waits.
Taken(c, k, leads, waits) ==
  [c EXCEPT !.todo = c.todo \ {k}, !.leads = leads, !.waits = waits]

\* MUTATED: waits for the flights of others before it asks for its own texts.
AfterLookupWaits(c) ==
  IF c.todo # {} THEN c
  ELSE IF c.waits # {} THEN [c EXCEPT !.pc = "wait"]
  ELSE IF c.leads # {} THEN [c EXCEPT !.pc = "ask"]
  ELSE Over(c)

\* Then on to the next text, to the provider if the call leads any flight, or
\* to the flights of others.
AfterLookup(c) ==
  IF c.todo # {} THEN c
  ELSE IF c.leads # {} THEN [c EXCEPT !.pc = "ask"]
  ELSE Waiting(c)

Looked(c, k, leads, waits) == AfterLookup(Taken(c, k, leads, waits))

\* begin: a hit moves the entry to the recent end.
Hit(t, k) ==
  /\ call[t].pc = "look" /\ k \in call[t].todo
  /\ entry[k] = "live"
  /\ recency' = Append(Without(recency, k), k)
  /\ call' = [call EXCEPT ![t] = Looked(@, k, call[t].leads, call[t].waits)]
  /\ UNCHANGED <<entry, inflight, outcome, landed>>

\* An expired entry is dropped by the lookup that finds it.
Dropped(k) ==
  /\ entry' = [entry EXCEPT ![k] = "none"]
  /\ recency' = Without(recency, k)

\* MUTATED: asks for a key whatever flight there is.
JoinNever(t, k) ==
  /\ call[t].pc = "look" /\ k \in call[t].todo
  /\ entry[k] # "live"
  /\ inflight[k] # NoFlight
  /\ Dropped(k)
  /\ inflight' = [inflight EXCEPT ![k] = [key |-> k, leader |-> t, call |-> call[t].no]]
  /\ call' = [call EXCEPT ![t] = Looked(@, k, call[t].leads \cup {k}, call[t].waits)]
  /\ UNCHANGED <<outcome, landed>>

\* begin: a miss that finds a flight waits for it ...
Join(t, k) ==
  /\ call[t].pc = "look" /\ k \in call[t].todo
  /\ entry[k] # "live"
  /\ inflight[k] # NoFlight
  /\ Dropped(k)
  /\ call' = [call EXCEPT ![t] = Looked(@, k, call[t].leads, call[t].waits \cup {inflight[k]})]
  /\ UNCHANGED <<inflight, outcome, landed>>

\* ... and one that finds none makes it.
Lead(t, k) ==
  /\ call[t].pc = "look" /\ k \in call[t].todo
  /\ entry[k] # "live"
  /\ inflight[k] = NoFlight
  /\ Dropped(k)
  /\ inflight' = [inflight EXCEPT ![k] = [key |-> k, leader |-> t, call |-> call[t].no]]
  /\ call' = [call EXCEPT ![t] = Looked(@, k, call[t].leads \cup {k}, call[t].waits)]
  /\ UNCHANGED <<outcome, landed>>

\* The provider answers; or it raises, or answers with a wrong count.
ProviderAnswers(t) ==
  /\ call[t].pc = "ask"
  /\ call' = [call EXCEPT ![t].pc = "store", ![t].asked = "answer"]
  /\ UNCHANGED <<entry, recency, inflight, outcome, landed>>

ProviderRaises(t) ==
  /\ call[t].pc = "ask"
  /\ call' = [call EXCEPT ![t].pc = "fail", ![t].asked = "error"]
  /\ UNCHANGED <<entry, recency, inflight, outcome, landed>>

\* The entries that are kept of a recency order: the while loop of finish.
Kept(order) ==
  IF Len(order) > MaxEntries
    THEN SubSeq(order, Len(order) - MaxEntries + 1, Len(order))
    ELSE order

\* The locked part of finish and fail that they share.
Resolve(t, k, result) ==
  LET f == [key |-> k, leader |-> t, call |-> call[t].no] IN
  /\ inflight' = [inflight EXCEPT ![k] = NoFlight]
  /\ outcome' = [outcome EXCEPT ![f] = result]
  /\ call' = [call EXCEPT ![t].leads = @ \ {k}, ![t].pc = "signal", ![t].last = f]
  /\ UNCHANGED landed

Finish(t, k) ==
  /\ call[t].pc = "store" /\ k \in call[t].leads
  /\ recency' = Kept(Append(Without(recency, k), k))
  /\ entry' = [x \in Key |->
                 IF \E i \in DOMAIN recency' : recency'[i] = x
                   THEN IF x = k THEN "live" ELSE entry[x]
                   ELSE "none"]
  /\ Resolve(t, k, "value")

Fail(t, k) ==
  /\ call[t].pc = "fail" /\ k \in call[t].leads
  /\ Resolve(t, k, "error")
  /\ UNCHANGED <<entry, recency>>

\* The call after an event is set: the next flight, the waits, or the raise.
Signalled(c) ==
  LET landing == [c EXCEPT !.last = NoFlight] IN
  IF c.leads # {} THEN [landing EXCEPT !.pc = IF c.asked = "answer" THEN "store" ELSE "fail"]
  ELSE IF c.asked = "answer" THEN Waiting(landing)
  ELSE Over(landing)

\* event.set() follows after the lock is released.
Signal(t) ==
  /\ call[t].pc = "signal"
  /\ landed' = landed \cup {call[t].last}
  /\ call' = [call EXCEPT ![t] = Signalled(@)]
  /\ UNCHANGED <<entry, recency, inflight, outcome>>

\* An error of a flight is raised to the call that waits for it, too.
Waited(c, f) ==
  IF outcome[f] = "error" THEN Over(c) ELSE Waiting([c EXCEPT !.waits = c.waits \ {f}])

\* flight.event.wait() returns.
Wait(t, f) ==
  /\ call[t].pc = "wait" /\ f \in call[t].waits
  /\ f \in landed
  /\ call' = [call EXCEPT ![t] = Waited(@, f)]
  /\ UNCHANGED <<entry, recency, inflight, outcome, landed>>

\* The time to live of an entry passes.
Expire(k) ==
  /\ entry[k] = "live"
  /\ entry' = [entry EXCEPT ![k] = "expired"]
  /\ UNCHANGED <<recency, inflight, outcome, landed, call>>

Step(t) ==
  \/ \E k \in Key : Hit(t, k) \/ Join(t, k) \/ Lead(t, k) \/ Finish(t, k) \/ Fail(t, k)
  \/ ProviderAnswers(t) \/ ProviderRaises(t)
  \/ Signal(t)
  \/ \E f \in Flight : Wait(t, f)

CacheNext ==
  \/ \E t \in Thread : Start(t) \/ Step(t)
  \/ \E k \in Key : Expire(k)

CacheSpec == CacheInit /\ [][CacheNext]_cacheVars

\* A thread goes on, and a provider call ends, one way or the other: the
\* clients of both have timeouts.
FairCacheSpec == CacheSpec /\ \A t \in Thread : WF_cacheVars(Step(t))

(***************************************************************************)
(* Properties                                                              *)
(***************************************************************************)
\* A key is asked for by at most one thread at a time, and by none while an
\* answer is kept: what begin promises by looking up and taking the flight
\* under one lock.
SingleFlight ==
  \A k \in Key :
    /\ \A t, u \in Thread : k \in call[t].leads /\ k \in call[u].leads => t = u
    /\ \A t \in Thread : k \in call[t].leads => entry[k] = "none"

\* Nobody waits for a flight that nobody is going to land: it has landed, with
\* an outcome, or a call of its leader is under way that still holds it.
NoLostFlight ==
  \A t \in Thread : \A f \in call[t].waits :
    \/ f \in landed /\ outcome[f] # "open"
    \/ /\ call[f.leader].no = f.call
       /\ \/ call[f.leader].pc \in {"look", "ask", "store", "fail", "signal"}
               /\ f.key \in call[f.leader].leads
          \/ call[f.leader].pc = "signal" /\ call[f.leader].last = f

\* Calls that wait for each other's flights all return: a call lands its own
\* flights before it waits for those of others.
CallsReturn == \A t \in Thread : call[t].pc # "idle" ~> call[t].pc = "idle"
=============================================================================
