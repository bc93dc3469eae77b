---------------------------- MODULE ResolveSpec ----------------------------
(***************************************************************************)
(* What resolve_file promises (spec 4.C): a name relative to BBPATH is     *)
(* the first path of bb.utils.which's walk that exists, every path the     *)
(* walk tested is marked on the datastore's dependency record (__depends)  *)
(* with the stamp the file has now, and a result that is not a regular     *)
(* file fails with ENOENT.  An absolute name is marked and checked.  No    *)
(* cache appears here: Resolver.tla is the cached implementation and is    *)
(* checked to refine this module.                                          *)
(*                                                                         *)
(* A path is a pair <<directory, name>>; a stamp (mtime_ns, size, inode)   *)
(* is abstracted to a version number that every change of the path bumps, *)
(* and an absent path stamps as 0.                                         *)
(***************************************************************************)
EXTENDS Naturals, Sequences, SequencesExt

CONSTANTS
    Dirs,      \* layer directories
    Names,     \* file names looked up
    BBPaths,   \* the values BBPATH takes: sequences of Dirs
    NoPath,    \* which() found nothing / no call yet
    ENOENT     \* the IOError(errno.ENOENT) resolve_file raises

Paths == Dirs \X Names
Kinds == {"absent", "file", "dir"}

VARIABLES
    fs,     \* fs[p]: kind and version of path p
    deps,   \* datastore variable __depends: sequence of <<path, stamp>>
    last    \* the last call and what it returned

Stamp(p) == IF fs[p].kind = "absent" THEN 0 ELSE fs[p].ver

(* bb.utils.which(bbpath, name, history=True): test join(dir, name) for   *)
(* each directory in order, stop at the first that exists; every tested   *)
(* path is in the history.                                                *)
Which(bp, n) ==
    LET tested == {k \in 1..Len(bp) :
                     \A j \in 1..k - 1 : fs[<<bp[j], n>>].kind = "absent"}
        stop == CHOOSE k \in tested : \A j \in tested : j <= k
    IN IF tested = {} THEN [found |-> NoPath, attempts |-> <<>>]
       ELSE [found |-> IF fs[<<bp[stop], n>>].kind # "absent"
                       THEN <<bp[stop], n>> ELSE NoPath,
             attempts |-> [k \in 1..stop |-> <<bp[k], n>>]]

(* resolve_file's answer for a candidate: the path if it is a regular     *)
(* file, else the ENOENT error.                                           *)
Answer(p) == IF p # NoPath /\ fs[p].kind = "file" THEN p ELSE ENOENT

(* mark_dependency with a freshly taken stamp, for each path in order.    *)
MarkFresh(ds, ps) ==
    FoldLeft(LAMBDA acc, p : IF Contains(acc, <<p, Stamp(p)>>) THEN acc
                             ELSE Append(acc, <<p, Stamp(p)>>),
             ds, ps)

NoCall == [rel |-> FALSE, name |-> NoPath, bbpath |-> <<>>, result |-> NoPath]

Init ==
    /\ fs \in [Paths -> [kind: Kinds, ver: {1}]]
    /\ deps = <<>>
    /\ last = NoCall

ResolveRelative(n, bp) ==
    LET w == Which(bp, n) IN
    /\ deps' = MarkFresh(deps, w.attempts)
    /\ last' = [rel |-> TRUE, name |-> n, bbpath |-> bp, result |-> Answer(w.found)]
    /\ UNCHANGED fs

ResolveAbsolute(p) ==
    /\ deps' = MarkFresh(deps, <<p>>)
    /\ last' = [rel |-> FALSE, name |-> p, bbpath |-> <<>>, result |-> Answer(p)]
    /\ UNCHANGED fs

NewDatastore ==
    /\ deps' = <<>>
    /\ last' = NoCall
    /\ UNCHANGED fs

Next ==
    \/ \E n \in Names, bp \in BBPaths : ResolveRelative(n, bp)
    \/ \E p \in Paths : ResolveAbsolute(p)
    \/ NewDatastore

Spec == Init /\ [][Next]_<<fs, deps, last>>
====
