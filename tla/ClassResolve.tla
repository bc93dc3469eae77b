---------------------------- MODULE ClassResolve ----------------------------
(***************************************************************************)
(* Class resolution for inherit (BBHandler._resolve_inherit_file): the     *)
(* process-wide inherit memo (_inherit_resolved_cache/_order), the class   *)
(* index per BBPATH (_class_index_cache/_order) with its directory         *)
(* fingerprint, and the which() fallback used for names containing '/'     *)
(* and under BB_OPT_DISABLE_CLASS_INDEX.  __bbclasstype is fixed, so the   *)
(* two directories of a layer p are <<p, "typed">> (p/classes-{classtype}) *)
(* and <<p, "plain">> (p/classes).  A candidate file is <<dir, name>>.     *)
(*                                                                         *)
(* A resolve call runs to completion except for a rebuild of the index,    *)
(* split into its scan (BuildScan) and its fingerprint (BuildFinish) so    *)
(* that another process may change the layers in between.                 *)
(***************************************************************************)
EXTENDS Naturals, Sequences, SequencesExt

CONSTANTS
    Layers,         \* the layer directories of BBPATH
    Names,          \* class names inherited
    SlashNames,     \* those containing '/': resolved by which(), never indexed
    BBPaths,        \* the values BBPATH takes: sequences of Layers
    DisableIndex,   \* BB_OPT_DISABLE_CLASS_INDEX is set
    ClassIndexMax,  \* _class_index_max
    InheritMax,     \* _inherit_resolved_max
    MaxVer,         \* bound on the changes made to one directory
    AbsPaths,       \* the absolute /.bbclass paths inherited
    NoPath, NoEntry, NoBuild

ASSUME SlashNames \subseteq Names /\ DisableIndex \in BOOLEAN

ASSUME AbsPaths \subseteq (Layers \X {"typed", "plain"}) \X Names

ClassDirs == Layers \X {"typed", "plain"}
Cands == ClassDirs \X Names
IndexNames == Names \ SlashNames

VARIABLES
    fs,       \* fs[d]: does d exist, the .bbclass names in it, its version
    cidx,     \* _class_index_cache: BBPATH -> [fp, map], or NoEntry
    corder,   \* _class_index_order (a list; it may repeat a key)
    memo,     \* _inherit_resolved_cache: <<name, BBPATH>> -> value, or NoEntry
    morder,   \* _inherit_resolved_order
    building, \* a rebuild between its scan and its fingerprint, or NoBuild
    last      \* the value the last resolve call returned, and for what

vars == <<fs, cidx, corder, memo, morder, building, last>>

Exists(c) == fs[c[1]].isdir /\ c[2] \in fs[c[1]].files

(* The directories the index probes, in order: p/classes-t then p/classes *)
(* for each layer p.                                                      *)
Probed(bp) == FlattenSeq([i \in 1..Len(bp) |-> <<<<bp[i], "typed">>, <<bp[i], "plain">>>>])

(* The attempts list lines 194-199 generate for an indexed name.          *)
IndexAttempts(n, bp) == [i \in 1..Len(Probed(bp)) |-> <<Probed(bp)[i], n>>]

(* _bbpath_dirs_for_classes: the probed directories that exist.           *)
BbpathDirsForClasses(bp) == SelectSeq(Probed(bp), LAMBDA d : fs[d].isdir)

(* Variant of _dirs_fingerprint that records only the directory names    *)
(* (st_mtime_ns and st_ino dropped from the tuple).                       *)
DirsFingerprintNoStat(ds) == [i \in 1..Len(ds) |-> <<ds[i], 0>>]

(* _dirs_fingerprint: (dir, mtime, inode) per directory, (dir, 0, 0) when *)
(* the stat fails; a change of a directory bumps its version.            *)
DirsFingerprint(ds) ==
    [i \in 1..Len(ds) |-> <<ds[i], IF fs[ds[i]].isdir THEN fs[ds[i]].ver ELSE 0>>]

(* The scan of _build_class_index: each name maps to the first directory  *)
(* in order that lists it; a directory that has vanished is skipped.     *)
ScanMapping(ds) ==
    [n \in IndexNames |->
        LET k == SelectInSeq(ds, LAMBDA d : Exists(<<d, n>>))
        IN IF k = 0 THEN NoPath ELSE <<ds[k], n>>]

(* bb.utils.which(bbpath, t/name.bbclass, history=True).                  *)
WhichIn(bp, t, n) ==
    LET k == SelectInSeq(bp, LAMBDA p : Exists(<<<<p, t>>, n>>))
        upto(j) == [i \in 1..j |-> <<<<bp[i], t>>, n>>]
    IN IF k = 0 THEN [resolved |-> NoPath, attempts |-> upto(Len(bp))]
       ELSE [resolved |-> <<<<bp[k], t>>, n>>, attempts |-> upto(k)]

(* Lines 164-170 / 175-181: which() over classes-t, then over classes.    *)
Fallback(n, bp) ==
    LET a == WhichIn(bp, "typed", n)
        b == WhichIn(bp, "plain", n)
    IN IF a.resolved # NoPath THEN a
       ELSE [resolved |-> b.resolved, attempts |-> a.attempts \o b.attempts]

TypeOK ==
    /\ fs \in [ClassDirs -> [isdir : BOOLEAN, files : SUBSET Names, ver : 1..MaxVer]]
    /\ \A k \in BBPaths : cidx[k] = NoEntry \/ DOMAIN cidx[k].map = IndexNames
    /\ corder \in Seq(BBPaths) /\ Len(corder) <= ClassIndexMax
    /\ \A k \in Names \X BBPaths :
          memo[k] = NoEntry \/ memo[k].resolved \in Cands \cup {NoPath}
    /\ morder \in Seq(Names \X BBPaths)
    /\ building = NoBuild \/ building.bp \in BBPaths

Init ==
    /\ fs \in [ClassDirs -> {[isdir |-> e, files |-> f, ver |-> 1] :
                               e \in BOOLEAN, f \in SUBSET Names}]
    /\ \A d \in ClassDirs : ~fs[d].isdir => fs[d].files = {}
    /\ cidx = [k \in BBPaths |-> NoEntry]
    /\ corder = <<>>
    /\ memo = [k \in Names \X BBPaths |-> NoEntry]
    /\ morder = <<>>
    /\ building = NoBuild
    /\ last = NoEntry

Idle == building = NoBuild

(* _get_class_index's test: an index is cached for this BBPATH and its    *)
(* fingerprint equals that of the directories as they are now.            *)
IndexCurrent(bp) ==
    /\ cidx[bp] # NoEntry
    /\ cidx[bp].fp = DirsFingerprint(BbpathDirsForClasses(bp))

(* _inherit_cache_put: append and evict the least recent key past        *)
(* _inherit_resolved_max; the caller returns the value.                  *)
InheritCachePut(key, val) ==
    LET grown == Append(morder, key) IN
    /\ morder' = IF Len(grown) > InheritMax THEN Tail(grown) ELSE grown
    /\ memo' = IF Len(grown) > InheritMax
               THEN [memo EXCEPT ![key] = val, ![Head(grown)] = NoEntry]
               ELSE [memo EXCEPT ![key] = val]
    /\ last' = [name |-> key[1], bbpath |-> key[2]] @@ val

(* Variant of _inherit_cache_get that appends the key on a hit without    *)
(* removing its older position (line 118 dropped).                        *)
InheritCacheGetNoRemove(n, bp) ==
    LET key == <<n, bp>> IN
    /\ Idle
    /\ memo[key] # NoEntry
    /\ morder' = Append(morder, key)
    /\ last' = [name |-> n, bbpath |-> bp] @@ memo[key]
    /\ UNCHANGED <<fs, cidx, corder, memo, building>>

(* _resolve_inherit_file, inherit memo hit (_inherit_cache_get): move the *)
(* key to the most recent end and return the memoised value.             *)
InheritCacheGet(n, bp) ==
    LET key == <<n, bp>> IN
    /\ Idle
    /\ memo[key] # NoEntry
    /\ morder' = Append(RemoveFirst(morder, key), key)
    /\ last' = [name |-> n, bbpath |-> bp] @@ memo[key]
    /\ UNCHANGED <<fs, cidx, corder, memo, building>>

(* Memo miss for a name with '/' or with the class index disabled:        *)
(* which() over classes-t then classes, memoise, return.                  *)
ResolveByWhich(n, bp) ==
    /\ Idle
    /\ memo[<<n, bp>>] = NoEntry
    /\ n \in SlashNames \/ DisableIndex
    /\ InheritCachePut(<<n, bp>>, Fallback(n, bp))
    /\ UNCHANGED <<fs, cidx, corder, building>>

(* Memo miss, _get_class_index finds the index of this BBPATH with a      *)
(* fingerprint equal to the current one: refresh its LRU position, look   *)
(* the name up, memoise the value with every probed path as attempts.     *)
ResolveByIndex(n, bp) ==
    /\ Idle
    /\ memo[<<n, bp>>] = NoEntry
    /\ n \notin SlashNames /\ ~DisableIndex
    /\ IndexCurrent(bp)
    /\ corder' = Append(RemoveFirst(corder, bp), bp)
    /\ InheritCachePut(<<n, bp>>, [resolved |-> cidx[bp].map[n],
                                   attempts |-> IndexAttempts(n, bp)])
    /\ UNCHANGED <<fs, cidx, building>>

(* Memo miss, no index or a stale fingerprint: _build_class_index lists   *)
(* the existing directories and scans them.                               *)
BuildScan(n, bp) ==
    LET ds == BbpathDirsForClasses(bp) IN
    /\ Idle
    /\ memo[<<n, bp>>] = NoEntry
    /\ n \notin SlashNames /\ ~DisableIndex
    /\ ~IndexCurrent(bp)
    /\ building' = [name |-> n, bp |-> bp, dirs |-> ds, map |-> ScanMapping(ds)]
    /\ UNCHANGED <<fs, cidx, corder, memo, morder, last>>

(* Variant of BuildFinish that tests the length of the order before the  *)
(* append (an off-by-one in line 111).                                    *)
BuildFinishEvictLate ==
    LET b == building
        grown == Append(corder, b.bp)
        stored == [cidx EXCEPT ![b.bp] = [fp |-> DirsFingerprint(b.dirs), map |-> b.map]]
    IN
    /\ ~Idle
    /\ corder' = IF Len(corder) > ClassIndexMax THEN Tail(grown) ELSE grown
    /\ cidx' = IF Len(corder) > ClassIndexMax
               THEN [stored EXCEPT ![Head(grown)] = NoEntry] ELSE stored
    /\ building' = NoBuild
    /\ InheritCachePut(<<b.name, b.bp>>, [resolved |-> b.map[b.name],
                                          attempts |-> IndexAttempts(b.name, b.bp)])
    /\ UNCHANGED fs

(* The rest of the rebuild: fingerprint the scanned directories, store    *)
(* the index, append its key to the order (no removal of an older         *)
(* position), evict the first key past _class_index_max, then look the   *)
(* name up and memoise as in ResolveByIndex.                              *)
BuildFinish ==
    LET b == building
        grown == Append(corder, b.bp)
        stored == [cidx EXCEPT ![b.bp] = [fp |-> DirsFingerprint(b.dirs), map |-> b.map]]
    IN
    /\ ~Idle
    /\ corder' = IF Len(grown) > ClassIndexMax THEN Tail(grown) ELSE grown
    /\ cidx' = IF Len(grown) > ClassIndexMax
               THEN [stored EXCEPT ![Head(grown)] = NoEntry] ELSE stored
    /\ building' = NoBuild
    /\ InheritCachePut(<<b.name, b.bp>>, [resolved |-> b.map[b.name],
                                          attempts |-> IndexAttempts(b.name, b.bp)])
    /\ UNCHANGED fs

(* Lines 205-206: an absolute path or a name ending in .bbclass is only   *)
(* checked for existence, with no BBPATH search, no attempts and no memo. *)
ResolveAbsolute(c) ==
    /\ Idle
    /\ last' = [name |-> c, resolved |-> IF Exists(c) THEN c ELSE NoPath,
                attempts |-> <<>>]
    /\ UNCHANGED <<fs, cidx, corder, memo, morder, building>>

Next ==
    \/ \E c \in AbsPaths : ResolveAbsolute(c)
    \/ \E n \in Names, bp \in BBPaths :
          \/ InheritCacheGet(n, bp)
          \/ ResolveByWhich(n, bp)
          \/ ResolveByIndex(n, bp)
          \/ BuildScan(n, bp)
    \/ BuildFinish

(* Another process creates, removes or changes a class directory.         *)
FsChange(d) ==
    /\ fs[d].ver < MaxVer
    /\ \E e \in BOOLEAN, f \in SUBSET Names :
          /\ e \/ f = {}
          /\ fs' = [fs EXCEPT ![d] = [isdir |-> e, files |-> f, ver |-> @.ver + 1]]
    /\ UNCHANGED <<cidx, corder, memo, morder, building, last>>

(* Layers change only between resolve calls: the quiescence spec 9        *)
(* assumes for a parse cycle.                                             *)
Spec == Init /\ [][Next \/ (Idle /\ \E d \in ClassDirs : FsChange(d))]_vars

(* Layers may change at any moment, also in the middle of a rebuild.      *)
SpecConcurrent == Init /\ [][Next \/ \E d \in ClassDirs : FsChange(d)]_vars

-----------------------------------------------------------------------------
(* Properties *)

(* Spec 4.D/8.5: an index whose fingerprint matches the layers as they    *)
(* are now maps every class name to the first probed directory holding    *)
(* it, i.e. to what a fresh scan would give: a layer change is never     *)
(* missed by _get_class_index's fingerprint comparison.                   *)
IndexFresh ==
    \A bp \in BBPaths :
        IndexCurrent(bp) => cidx[bp].map = ScanMapping(BbpathDirsForClasses(bp))

\* The inherit memo seen as a bounded LRU.
MemoLRU == INSTANCE LRUCache
    WITH Keys <- Names \X BBPaths, Capacity <- InheritMax,
         cached <- {k \in Names \X BBPaths : memo[k] # NoEntry},
         recency <- morder

(* The inherit memo (_inherit_resolved_cache / _order) is the bounded LRU *)
(* spec 4.H describes: _inherit_cache_get makes its key the most recent,  *)
(* _inherit_cache_put adds an absent key, and past _inherit_resolved_max  *)
(* only the least recently used key leaves the dict and the list.         *)
MemoIsLRU == MemoLRU!Spec

(* The class index order lists each cached index once and nothing else,   *)
(* within _class_index_max.                                               *)
(* Spec 8.4: of N+1 distinct keys the least recently used one is evicted *)
(* and the most recent N remain.                                           *)
ClassIndexLRUConsistent ==
    /\ Len(corder) <= ClassIndexMax
    /\ IsInjective(corder)
    /\ ToSet(corder) = {k \in BBPaths : cidx[k] # NoEntry}

(* Spec 4.D: "fingerprinting preserves correctness when layers are       *)
(* mutated mid-session": the class inherit returns is the first one in   *)
(* the index's search order on the layers as they are now.              *)
IndexOrderFirst(n, bp) ==
    LET k == SelectInSeq(Probed(bp), LAMBDA d : Exists(<<d, n>>))
    IN IF k = 0 THEN NoPath ELSE <<Probed(bp)[k], n>>

ResolvesCurrent ==
    last # NoEntry /\ last.name \in IndexNames
    => last.resolved = IndexOrderFirst(last.name, last.bbpath)

(* Spec 6: BB_OPT_DISABLE_CLASS_INDEX only disables a cache layer, so     *)
(* the which() fallback it selects (lines 175-181) picks, on any layers,  *)
(* the class the index would have picked.                                 *)
SwitchTransparent ==
    \A nm \in IndexNames, bp \in BBPaths :
        Fallback(nm, bp).resolved = IndexOrderFirst(nm, bp)
====
