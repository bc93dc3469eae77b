--------------------------- MODULE IncludeResolve ---------------------------
(***************************************************************************)
(* ConfHandler.include_single_file: how a relative include/require name is *)
(* turned into the file that bb.parse.handle() then parses.  The include   *)
(* LRU (_include_resolve_cache / _include_resolve_order) is consulted      *)
(* first; on a miss a basename is looked up in the include index           *)
(* (_include_index_cache / _include_index_order, fingerprinted by the      *)
(* search directories' stat) and a name with '/' goes to bb.utils.which    *)
(* over dname:BBPATH.  Every attempt is marked; handle() re-resolves the   *)
(* name with resolve_file() when nothing was found, and resolve_file()     *)
(* refuses a candidate that is not a regular file.                         *)
(*                                                                         *)
(* The filesystem is one entry per (directory, name); a directory's stat   *)
(* version changes whenever one of its entries does.  Directories always  *)
(* exist.  The resolve_file LRU is left out (Resolver shows it answers as  *)
(* which() does), and so are the stamps __depends records (Resolver).      *)
(***************************************************************************)
EXTENDS Naturals, Sequences, SequencesExt

CONSTANTS
    Dirs,          \* directories
    Names,         \* relative names that are included
    SlashNames,    \* those that contain '/'
    Parents,       \* dirname(parentfn) of the including files
    BBPaths,       \* values of BBPATH: sequences of directories
    DisableIndex,  \* BB_OPT_DISABLE_INCLUDE_INDEX is set
    IncludeMax,    \* _include_resolve_max
    IndexMax,      \* _include_index_max
    MaxVer,        \* bound on the changes made to one directory
    NoPath, NoEntry, NoBuild, NoCall, ENOENT

ASSUME /\ SlashNames \subseteq Names /\ Parents \subseteq Dirs
       /\ \A bp \in BBPaths : bp \in Seq(Dirs)

Kinds == {"absent", "file", "dir"}
Paths == Dirs \X Names
Basenames == Names \ SlashNames
LRUKeys == Names \X Parents \X BBPaths      \* (fn, dname, BBPATH)
IndexKeys == Parents \X BBPaths             \* (dname, bbpath)

VARIABLES
    fs,        \* fs[d]: [ents: name -> kind, ver: stat version of d]
    rcache,    \* _include_resolve_cache: key -> [found, attempts] or NoEntry
    rorder,    \* _include_resolve_order
    icache,    \* _include_index_cache: key -> [fp, map] or NoEntry
    iorder,    \* _include_index_order
    building,  \* a rebuild whose scan is done and fingerprint not yet taken
    deps,      \* the paths marked on the datastore's __depends
    last       \* the last include: its name, dname, BBPATH and outcome

vars == <<fs, rcache, rorder, icache, iorder, building, deps, last>>

Kind(p) == fs[p[1]].ents[p[2]]

(* _include_search_dirs(dname, bbpath): dname first, then BBPATH.         *)
IncludeSearchDirs(dn, bp) == <<dn>> \o bp

(* bb.utils.which(path, fn, history=True): the first candidate that       *)
(* exists, of any kind, and the candidates tried up to it.                *)
Which(ds, n) ==
    LET k == SelectInSeq(ds, LAMBDA d : fs[d].ents[n] # "absent") IN
    IF k = 0 THEN [found |-> NoPath, attempts |-> [i \in 1..Len(ds) |-> <<ds[i], n>>]]
    ELSE [found |-> <<ds[k], n>>, attempts |-> [i \in 1..k |-> <<ds[i], n>>]]

(* Variant of _dirs_fingerprint taken over BBPATH only, leaving out the   *)
(* including file's directory.                                            *)
DirsFingerprintNoDname(ds) ==
    [i \in 1..Len(ds) - 1 |-> <<ds[i + 1], fs[ds[i + 1]].ver>>]

(* _dirs_fingerprint(dirs): (dir, mtime, inode) of every search dir.      *)
DirsFingerprint(ds) == [i \in 1..Len(ds) |-> <<ds[i], fs[ds[i]].ver>>]

(* Variant of ScanMapping that maps a name to the directory holding it,  *)
(* without os.path.join.                                                  *)
ScanMappingNoJoin(ds) ==
    [n \in Basenames |->
        LET k == SelectInSeq(ds, LAMBDA d : fs[d].ents[n] = "file") IN
        IF k = 0 THEN NoPath ELSE ds[k]]

(* The mapping _build_include_index scans: for each basename, the first   *)
(* search dir holding a regular file of that name.                        *)
ScanMapping(ds) ==
    [n \in Basenames |->
        LET k == SelectInSeq(ds, LAMBDA d : fs[d].ents[n] = "file") IN
        IF k = 0 THEN NoPath ELSE <<ds[k], n>>]

IndexCurrent(key) ==
    /\ icache[key] # NoEntry
    /\ icache[key].fp = DirsFingerprint(IncludeSearchDirs(key[1], key[2]))

(* bb.parse.handle(fn) -> resolve_file(fn): an absolute candidate is      *)
(* marked and must be a regular file; a name nothing was found for is     *)
(* searched again over BBPATH, every attempt marked.  Returns the         *)
(* outcome and the paths marked.                                          *)
Handle(found, n, bp) ==
    IF found # NoPath
    THEN [result |-> IF Kind(found) = "file" THEN found ELSE ENOENT,
          marks |-> {found}]
    ELSE LET w == Which(bp, n) IN
         [result |-> IF w.found # NoPath /\ Kind(w.found) = "file"
                     THEN w.found ELSE ENOENT,
          marks |-> ToSet(w.attempts)]

TypeOK ==
    /\ fs \in [Dirs -> [ents: [Names -> Kinds], ver: 1..MaxVer]]
    /\ rcache \in [LRUKeys -> [found: Paths \cup {NoPath}, attempts: Seq(Paths)]
                              \cup {NoEntry}]
    /\ rorder \in Seq(LRUKeys)
    /\ icache \in [IndexKeys -> [fp: Seq(Dirs \X Nat),
                                 map: [Basenames -> Paths \cup {NoPath}]]
                                \cup {NoEntry}]
    /\ iorder \in Seq(IndexKeys)
    /\ building \in {NoBuild} \cup
           [key: IndexKeys, name: Basenames, map: [Basenames -> Paths \cup {NoPath}]]
    /\ deps \in SUBSET Paths

Init ==
    /\ fs \in [Dirs -> [ents: [Names -> Kinds], ver: {1}]]
    /\ rcache = [k \in LRUKeys |-> NoEntry]
    /\ rorder = <<>>
    /\ icache = [k \in IndexKeys |-> NoEntry]
    /\ iorder = <<>>
    /\ building = NoBuild
    /\ deps = {}
    /\ last = NoCall

Idle == building = NoBuild

(* The LRU store of a miss: _include_resolve_cache[key] = (abs_fn,        *)
(* attempts), append the key, and past _include_resolve_max pop the       *)
(* oldest key from the order and the cache.                               *)
IncludeCachePut(key, r) ==
    LET grown == Append(rorder, key)
        full == Len(grown) > IncludeMax
    IN
    /\ rorder' = IF full THEN Tail(grown) ELSE grown
    /\ rcache' = IF full THEN [rcache EXCEPT ![key] = r, ![Head(grown)] = NoEntry]
                 ELSE [rcache EXCEPT ![key] = r]

(* After the lookup: mark every attempt, then handle() the file found, or *)
(* the bare name when nothing was.                                        *)
Conclude(n, dn, bp, r) ==
    LET h == Handle(r.found, n, bp) IN
    /\ deps' = deps \cup ToSet(r.attempts) \cup h.marks
    /\ last' = [rel |-> TRUE, name |-> n, dname |-> dn, bbpath |-> bp,
                result |-> h.result]

(* LRU hit: move the key to the end of the order and reuse the cached     *)
(* (abs_fn, attempts).                                                    *)
IncludeHit(n, dn, bp) ==
    LET key == <<n, dn, bp>> IN
    /\ Idle /\ rcache[key] # NoEntry
    /\ rorder' = Append(RemoveFirst(rorder, key), key)
    /\ Conclude(n, dn, bp, rcache[key])
    /\ UNCHANGED <<fs, rcache, icache, iorder, building>>

(* LRU miss for a name with '/', or with the index disabled:              *)
(* bb.utils.which over dname:BBPATH.                                      *)
IncludeWhich(n, dn, bp) ==
    LET key == <<n, dn, bp>>
        r == Which(IncludeSearchDirs(dn, bp), n)
    IN
    /\ Idle /\ rcache[key] = NoEntry
    /\ n \in SlashNames \/ DisableIndex
    /\ IncludeCachePut(key, r)
    /\ Conclude(n, dn, bp, r)
    /\ UNCHANGED <<fs, icache, iorder, building>>

(* _include_index_resolve: the mapping's entry for the name; the attempts *)
(* are the name joined to every search dir.                               *)
IndexResolve(map, n, ds) ==
    [found |-> map[n], attempts |-> [i \in 1..Len(ds) |-> <<ds[i], n>>]]

(* LRU miss for a basename whose index is current: refresh the index key  *)
(* in _include_index_order and resolve from the cached mapping.           *)
IncludeIndexHit(n, dn, bp) ==
    LET key == <<n, dn, bp>>
        ikey == <<dn, bp>>
        r == IndexResolve(icache[ikey].map, n, IncludeSearchDirs(dn, bp))
    IN
    /\ Idle /\ rcache[key] = NoEntry
    /\ n \notin SlashNames /\ ~DisableIndex
    /\ IndexCurrent(ikey)
    /\ iorder' = Append(RemoveFirst(iorder, ikey), ikey)
    /\ IncludeCachePut(key, r)
    /\ Conclude(n, dn, bp, r)
    /\ UNCHANGED <<fs, icache, building>>

(* LRU miss for a basename whose index is missing or stale: the scan of   *)
(* _build_include_index ...                                               *)
IncludeIndexScan(n, dn, bp) ==
    /\ Idle /\ rcache[<<n, dn, bp>>] = NoEntry
    /\ n \notin SlashNames /\ ~DisableIndex
    /\ ~IndexCurrent(<<dn, bp>>)
    /\ building' = [key |-> <<dn, bp>>, name |-> n,
                    map |-> ScanMapping(IncludeSearchDirs(dn, bp))]
    /\ UNCHANGED <<fs, rcache, rorder, icache, iorder, deps, last>>

(* ... then its fingerprint, taken after the scan; _get_include_index     *)
(* stores the index and appends its key without removing an older        *)
(* position, evicting the oldest past _include_index_max; the include     *)
(* then goes on as on an index hit.                                       *)
IncludeIndexBuilt ==
    LET b == building
        dn == b.key[1]
        bp == b.key[2]
        ds == IncludeSearchDirs(dn, bp)
        grown == Append(iorder, b.key)
        full == Len(grown) > IndexMax
        entry == [fp |-> DirsFingerprint(ds), map |-> b.map]
        r == IndexResolve(b.map, b.name, ds)
    IN
    /\ ~Idle
    /\ iorder' = IF full THEN Tail(grown) ELSE grown
    /\ icache' = IF full THEN [icache EXCEPT ![b.key] = entry, ![Head(grown)] = NoEntry]
                 ELSE [icache EXCEPT ![b.key] = entry]
    /\ building' = NoBuild
    /\ IncludeCachePut(<<b.name, dn, bp>>, r)
    /\ Conclude(b.name, dn, bp, r)
    /\ UNCHANGED fs

(* An absolute include: handle(fn) marks it and parses it if it is a      *)
(* regular file.                                                          *)
IncludeAbsolute(p) ==
    /\ Idle
    /\ deps' = deps \cup {p}
    /\ last' = [rel |-> FALSE, name |-> p[2], dname |-> p[1], bbpath |-> <<>>,
                result |-> IF Kind(p) = "file" THEN p ELSE ENOENT]
    /\ UNCHANGED <<fs, rcache, rorder, icache, iorder, building>>

(* The process goes on with another datastore.                            *)
NewDatastore ==
    /\ Idle
    /\ deps' = {} /\ last' = NoCall
    /\ UNCHANGED <<fs, rcache, rorder, icache, iorder, building>>

Next ==
    \/ \E n \in Names, dn \in Parents, bp \in BBPaths :
          \/ IncludeHit(n, dn, bp) \/ IncludeWhich(n, dn, bp)
          \/ IncludeIndexHit(n, dn, bp) \/ IncludeIndexScan(n, dn, bp)
    \/ IncludeIndexBuilt
    \/ \E p \in Paths : IncludeAbsolute(p)
    \/ NewDatastore

(* Another process creates, removes or replaces an entry of a directory,  *)
(* which changes the directory's stat.                                    *)
FsChange(d) ==
    /\ fs[d].ver < MaxVer
    /\ \E n \in Names, k \in Kinds :
          /\ k # fs[d].ents[n]
          /\ fs' = [fs EXCEPT ![d] = [ents |-> [@.ents EXCEPT ![n] = k],
                                      ver |-> @.ver + 1]]
    /\ UNCHANGED <<rcache, rorder, icache, iorder, building, deps, last>>

(* Between two includes.                                                  *)
Spec == Init /\ [][Next \/ (Idle /\ \E d \in Dirs : FsChange(d))]_vars

(* At any time, during a scan too.                                        *)
SpecConcurrent == Init /\ [][Next \/ \E d \in Dirs : FsChange(d)]_vars

-----------------------------------------------------------------------------
(* Properties *)

(* The outcome an include would have with every cache empty: the index   *)
(* (or which() for a name with '/' or with the index disabled) over the   *)
(* current filesystem, then handle().                                     *)
UncachedOutcome(n, dn, bp) ==
    LET ds == IncludeSearchDirs(dn, bp)
        r == IF n \in SlashNames \/ DisableIndex THEN Which(ds, n)
             ELSE IndexResolve(ScanMapping(ds), n, ds)
    IN Handle(r.found, n, bp).result

(* Spec 4.D: an index whose fingerprint matches the search dirs' current  *)
(* stat maps every basename to the first regular file of that name in     *)
(* dname:BBPATH as the directories are now, whatever includes, rebuilds,  *)
(* evictions and changes between includes came before.                    *)
IndexFresh ==
    \A k \in IndexKeys :
        IndexCurrent(k) => icache[k].map = ScanMapping(IncludeSearchDirs(k[1], k[2]))


(* Spec 4.D "Bounded LRU (256 for IncludeIndex)": the include index order *)
(* lists each cached index exactly once and nothing else, also after an   *)
(* index is rebuilt because its fingerprint changed.                      *)
IndexLRUConsistent ==
    /\ Len(iorder) <= IndexMax
    /\ IsInjective(iorder)
    /\ ToSet(iorder) = {k \in IndexKeys : icache[k] # NoEntry}

(* An include answered by the include LRU parses the file it would parse *)
(* with every cache empty: the LRU, which has no fingerprint, never       *)
(* answers with a file that has since gone or misses one that has since   *)
(* appeared.                                                              *)
IncludeResolvesCurrent ==
    [][\A n \in Names, dn \in Parents, bp \in BBPaths :
          IncludeHit(n, dn, bp) => last'.result = UncachedOutcome(n, dn, bp)]_vars

(* Setting BB_OPT_DISABLE_INCLUDE_INDEX changes no include's outcome: the *)
(* index (regular files only) and which() (any existing path) pick the   *)
(* same file, or both fail.                                               *)
IndexTransparent ==
    \A n \in Basenames, dn \in Parents, bp \in BBPaths :
        LET ds == IncludeSearchDirs(dn, bp) IN
        Handle(ScanMapping(ds)[n], n, bp).result = Handle(Which(ds, n).found, n, bp).result
====
