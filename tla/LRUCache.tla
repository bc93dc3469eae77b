----------------------------- MODULE LRUCache -----------------------------
(***************************************************************************)
(* What the parser's bounded caches promise (spec 4.C, 4.D): a cache of at *)
(* most Capacity keys; a lookup that finds its key makes it the most       *)
(* recently used; a key is added only when it is absent, and when the      *)
(* cache is full the least recently used key leaves it.  Nothing else      *)
(* removes a key.                                                          *)
(*                                                                         *)
(* The code keeps each cache as a dict plus an order list                  *)
(* (_resolve_cache / _resolve_cache_order, _inherit_resolved_cache /       *)
(* _inherit_resolved_order); Resolver and ClassResolve instantiate this    *)
(* one with cached <- the dict's keys and recency <- the order list.       *)
(***************************************************************************)
EXTENDS Naturals, FiniteSets, Sequences, SequencesExt

CONSTANTS
    Keys,       \* the keys the cache may hold
    Capacity    \* the bound on the number of keys

VARIABLES
    cached,     \* the keys in the cache
    recency     \* the cached keys, least recently used first

lruVars == <<cached, recency>>

Init == cached = {} /\ recency = <<>>

(* A lookup that finds k.                                                  *)
Use(k) ==
    /\ k \in cached
    /\ recency' = Append(Remove(recency, k), k)
    /\ UNCHANGED cached

(* A store of an absent key while there is room.                          *)
Insert(k) ==
    /\ k \notin cached /\ Cardinality(cached) < Capacity
    /\ cached' = cached \cup {k}
    /\ recency' = Append(recency, k)

(* A store of an absent key into a full cache: the least recently used    *)
(* key leaves.                                                             *)
Evict(k) ==
    /\ k \notin cached /\ Cardinality(cached) = Capacity
    /\ cached' = (cached \ {Head(recency)}) \cup {k}
    /\ recency' = Append(Tail(recency), k)

Next == \E k \in Keys : Use(k) \/ Insert(k) \/ Evict(k)

Spec == Init /\ [][Next]_lruVars
====
