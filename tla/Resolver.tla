----------------------------- MODULE Resolver -----------------------------
(***************************************************************************)
(* bb.parse.resolve_file with its process-wide LRU (_resolve_cache and     *)
(* _resolve_cache_order, capacity _RESOLVE_CACHE_MAX), mark_dependency and *)
(* the process-wide mtime cache (__mtime_cache) with cached_mtime_noerror, *)
(* check_mtime, update_cache and clear_cache.  Each call runs to           *)
(* completion before the next (the parser is single-threaded); the         *)
(* filesystem is an input that SpecChanging lets other processes modify    *)
(* between calls.                                                          *)
(***************************************************************************)
EXTENDS Naturals, Sequences, SequencesExt

CONSTANTS
    Dirs, Names, BBPaths, NoPath, ENOENT,
    ResolveMax,   \* _RESOLVE_CACHE_MAX
    MaxVer,       \* bound on the changes made to one path
    NoStamp,      \* path not in __mtime_cache
    NoEntry       \* key not in _resolve_cache

ASSUME ResolveMax \in Nat \ {0} /\ MaxVer \in Nat \ {0}

Paths == Dirs \X Names
Kinds == {"absent", "file", "dir"}
Keys == Names \X BBPaths    \* (fn, False, BBPATH) of the code

VARIABLES
    fs, deps, last,   \* as in ResolveSpec
    mtime,            \* __mtime_cache: path -> stamp, or NoStamp
    rcache,           \* _resolve_cache: key -> [found, attempts], or NoEntry
    order             \* _resolve_cache_order: keys, least recent first

vars == <<fs, deps, last, mtime, rcache, order>>

\* The uncached resolver: fs, __depends and the last answer are the same
\* variables; the LRU and the mtime cache have no abstract counterpart.
Abs == INSTANCE ResolveSpec WITH fs <- fs, deps <- deps, last <- last

Stamp(p) == Abs!Stamp(p)

TypeOK ==
    /\ fs \in [Paths -> [kind: Kinds, ver: 1..MaxVer]]
    /\ deps \in Seq(Paths \X Nat)
    /\ mtime \in [Paths -> (1..MaxVer) \cup {NoStamp}]
    /\ rcache \in [Keys -> [found: Paths \cup {NoPath}, attempts: Seq(Paths)]
                           \cup {NoEntry}]
    /\ order \in Seq(Keys)

Init ==
    /\ Abs!Init
    /\ mtime = [p \in Paths |-> NoStamp]
    /\ rcache = [k \in Keys |-> NoEntry]
    /\ order = <<>>

(* Variant of cached_mtime_noerror that caches the 0 stamp of a failed    *)
(* stat as if it were a stamp.                                            *)
CachedMtimeNoerrorCachesMiss(mt, p) ==
    IF mt[p] # NoStamp THEN [stamp |-> mt[p], mtime |-> mt]
    ELSE [stamp |-> Stamp(p), mtime |-> [mt EXCEPT ![p] = Stamp(p)]]

(* cached_mtime_noerror(f) over the mtime cache mt: the cached stamp, or  *)
(* a fresh stat that is cached when the path exists and stamps 0 when it  *)
(* does not.  Returns the stamp and the cache after the call.             *)
CachedMtimeNoerror(mt, p) ==
    IF mt[p] # NoStamp THEN [stamp |-> mt[p], mtime |-> mt]
    ELSE IF Stamp(p) = 0 THEN [stamp |-> 0, mtime |-> mt]
    ELSE [stamp |-> Stamp(p), mtime |-> [mt EXCEPT ![p] = Stamp(p)]]

(* mark_dependency(d, f), threaded through a record of __depends and the  *)
(* mtime cache: append (f, stamp) unless that pair is already recorded.   *)
MarkDependency(st, p) ==
    LET c == CachedMtimeNoerror(st.mtime, p) IN
    [deps |-> IF Contains(st.deps, <<p, c.stamp>>) THEN st.deps
              ELSE Append(st.deps, <<p, c.stamp>>),
     mtime |-> c.mtime]

(* The loop "for af in attempts: mark_dependency(d, af)".                 *)
MarkAll(ps) ==
    FoldLeft(MarkDependency, [deps |-> deps, mtime |-> mtime], ps)

(* Variant of ResolveHit that skips marking the cached attempts (lines   *)
(* 206-207 run only on a miss).                                           *)
ResolveHitNoMark(n, bp) ==
    LET key == <<n, bp>>
        e == rcache[key]
    IN
    /\ e # NoEntry
    /\ order' = Append(RemoveFirst(order, key), key)
    /\ last' = [rel |-> TRUE, name |-> n, bbpath |-> bp,
                result |-> Abs!Answer(e.found)]
    /\ UNCHANGED <<fs, rcache, deps, mtime>>

(* Variant of ResolveHit that appends the key without removing its older *)
(* position (line 186 dropped).                                          *)
ResolveHitNoRemove(n, bp) ==
    LET key == <<n, bp>>
        e == rcache[key]
        m == MarkAll(e.attempts)
    IN
    /\ e # NoEntry
    /\ order' = Append(order, key)
    /\ deps' = m.deps
    /\ mtime' = m.mtime
    /\ last' = [rel |-> TRUE, name |-> n, bbpath |-> bp,
                result |-> Abs!Answer(e.found)]
    /\ UNCHANGED <<fs, rcache>>

(* resolve_file for a name relative to BBPATH: on a hit, refresh the key  *)
(* in the LRU order; on a miss, run which(), store the result, append the *)
(* key and evict the oldest key past the capacity.  Then mark every       *)
(* attempt and fail with ENOENT unless a regular file was found.          *)
ResolveHit(n, bp) ==
    LET key == <<n, bp>>
        e == rcache[key]
        m == MarkAll(e.attempts)
    IN
    /\ e # NoEntry
    /\ order' = Append(RemoveFirst(order, key), key)
    /\ deps' = m.deps
    /\ mtime' = m.mtime
    /\ last' = [rel |-> TRUE, name |-> n, bbpath |-> bp,
                result |-> Abs!Answer(e.found)]
    /\ UNCHANGED <<fs, rcache>>

ResolveMiss(n, bp) ==
    LET key == <<n, bp>>
        w == Abs!Which(bp, n)
        grown == Append(order, key)
        full == Len(grown) > ResolveMax
        m == MarkAll(w.attempts)
    IN
    /\ rcache[key] = NoEntry
    /\ order' = IF full THEN Tail(grown) ELSE grown
    /\ rcache' = IF full THEN [rcache EXCEPT ![key] = w, ![Head(grown)] = NoEntry]
                 ELSE [rcache EXCEPT ![key] = w]
    /\ deps' = m.deps
    /\ mtime' = m.mtime
    /\ last' = [rel |-> TRUE, name |-> n, bbpath |-> bp,
                result |-> Abs!Answer(w.found)]
    /\ UNCHANGED fs

(* resolve_file for an absolute name: mark it and check it is a file.     *)
ResolveAbsolute(p) ==
    LET m == MarkDependency([deps |-> deps, mtime |-> mtime], p) IN
    /\ deps' = m.deps
    /\ mtime' = m.mtime
    /\ last' = [rel |-> FALSE, name |-> p, bbpath |-> <<>>,
                result |-> Abs!Answer(p)]
    /\ UNCHANGED <<fs, rcache, order>>

(* check_mtime(f, expected): re-stat, cache the stamp when f exists.      *)
CheckMtime(p) ==
    /\ mtime' = IF Stamp(p) # 0 THEN [mtime EXCEPT ![p] = Stamp(p)] ELSE mtime
    /\ UNCHANGED <<fs, deps, last, rcache, order>>

(* update_cache(f): for a cached path, update_mtime re-stats it and drops *)
(* the entry when the stat fails.                                         *)
UpdateCache(p) ==
    /\ mtime[p] # NoStamp
    /\ mtime' = [mtime EXCEPT ![p] = IF Stamp(p) # 0 THEN Stamp(p) ELSE NoStamp]
    /\ UNCHANGED <<fs, deps, last, rcache, order>>

(* clear_cache(): empty __mtime_cache; the resolve LRU is kept.           *)
ClearCache ==
    /\ mtime' = [p \in Paths |-> NoStamp]
    /\ UNCHANGED <<fs, deps, last, rcache, order>>

(* The caller moves on to a new datastore (another recipe or config).     *)
NewDatastore ==
    /\ deps' = <<>>
    /\ last' = Abs!NoCall
    /\ UNCHANGED <<fs, mtime, rcache, order>>

Next ==
    \/ \E n \in Names, bp \in BBPaths : ResolveHit(n, bp) \/ ResolveMiss(n, bp)
    \/ \E p \in Paths : ResolveAbsolute(p)
    \/ \E p \in Paths : CheckMtime(p)
    \/ \E p \in Paths : UpdateCache(p)
    \/ ClearCache
    \/ NewDatastore

Spec == Init /\ [][Next]_vars

(* Another process creates, removes, replaces or touches a path between   *)
(* two calls.                                                             *)
FsChange(p) ==
    /\ fs[p].ver < MaxVer
    /\ \E k \in Kinds : fs' = [fs EXCEPT ![p] = [kind |-> k, ver |-> @.ver + 1]]
    /\ UNCHANGED <<deps, last, mtime, rcache, order>>

SpecChanging == Init /\ [][Next \/ \E p \in Paths : FsChange(p)]_vars

-----------------------------------------------------------------------------
(* Properties *)

(* Over a filesystem that does not change, the cached resolver is         *)
(* indistinguishable from the uncached walk: every call returns which()'s *)
(* answer and leaves on __depends exactly the attempts, in order, with    *)
(* their current stamps, whether it hit or missed the LRU and whatever    *)
(* the mtime cache held.                                                  *)
Refinement == Abs!Spec

\* _resolve_cache seen as a bounded LRU: its keys are the dict's keys, its
\* recency the order list.
ResolveLRU == INSTANCE LRUCache
    WITH Keys <- Keys, Capacity <- ResolveMax,
         cached <- {k \in Keys : rcache[k] # NoEntry}, recency <- order

(* _resolve_cache is the bounded LRU spec 4.C describes: a hit makes its   *)
(* key the most recent, a miss adds its key, and past _RESOLVE_CACHE_MAX   *)
(* the least recently used key, and only it, leaves the dict and the       *)
(* order together.                                                         *)
ResolveCacheIsLRU == ResolveLRU!Spec

(* Spec 4.C step 4: marking every attempt keeps the dependency record    *)
(* correct when the filesystem changes between builds.  Stated as: if the *)
(* last relative resolution no longer agrees with which() on the current *)
(* filesystem, some entry of __depends has a stamp that differs from the  *)
(* path's current one, so check_mtime would notice.                      *)
DependencySound ==
    last.rel /\ last.result # Abs!Answer(Abs!Which(last.bbpath, last.name).found)
    => \E k \in 1..Len(deps) : deps[k][2] # Stamp(deps[k][1])
====
