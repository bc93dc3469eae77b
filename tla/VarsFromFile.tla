---------------------------- MODULE VarsFromFile ----------------------------
(***************************************************************************)
(* bb.parse.vars_from_file(mypkg, d) and its process-wide memo            *)
(* __pkgsplit_cache__: the base name of a .bb or .bbappend file, without  *)
(* its extension, is split on '_' into at most three parts (PN, PV, PR),  *)
(* padded with None.                                                       *)
(*                                                                         *)
(* A path is abstracted to what the function reads of it: whether it ends *)
(* in .bb or .bbappend, and the characters of                              *)
(* os.path.splitext(os.path.basename(mypkg))[0], over '_' and one other.  *)
(*                                                                         *)
(* The code stores the list split() returned in the memo and then pads    *)
(* that same list in place, so the memo sees the padding; a list with too *)
(* many parts is stored before the length check raises.                   *)
(***************************************************************************)
EXTENDS Naturals, Sequences

CONSTANTS
    Pkgs,       \* the paths vars_from_file is called with
    Stem,       \* Stem[p]: splitext(basename(p))[0], a sequence of characters
    IsRecipe,   \* IsRecipe[p]: p ends with ".bb" or ".bbappend"
    NoPart,     \* None, as a padding element
    NoEntry     \* no memo entry / no call yet

ASSUME IsRecipe \in [Pkgs -> BOOLEAN]

Under == "_"

RECURSIVE SplitUnderscore(_)
(* str.split('_'): the runs between separators, empty ones included;     *)
(* "" splits into [""].                                                    *)
SplitUnderscore(s) ==
    IF s = <<>> THEN <<<<>>>>
    ELSE LET rest == SplitUnderscore(Tail(s)) IN
         IF Head(s) = Under THEN <<<<>>>> \o rest
         ELSE <<<<Head(s)>> \o Head(rest)>> \o Tail(rest)

(* parts.extend([None] * (3 - len(parts))), written as the while loop.    *)
Pad(parts) == parts \o [k \in 1..(3 - Len(parts)) |-> NoPart]

VARIABLES
    pkgcache,  \* __pkgsplit_cache__: p -> the stored list, or NoEntry
    last       \* the last call: the path, whether it raised, the list returned

vars == <<pkgcache, last>>

Parts == Seq(Seq({Under, "a"}) \cup {NoPart})

TypeOK ==
    /\ pkgcache \in [Pkgs -> Parts \cup {NoEntry}]
    /\ last \in [pkg : Pkgs, raised : BOOLEAN, out : Parts] \cup {NoEntry}

Init ==
    /\ pkgcache = [p \in Pkgs |-> NoEntry]
    /\ last = NoEntry

Returns(p, l) == [pkg |-> p, raised |-> FALSE, out |-> l]
Raises(p) == [pkg |-> p, raised |-> TRUE, out |-> <<>>]

(* (None, None, None)                                                      *)
NoneTriple == <<NoPart, NoPart, NoPart>>

(* Not a .bb/.bbappend path: (None, None, None), nothing stored.          *)
NotARecipe(p) ==
    /\ ~IsRecipe[p]
    /\ last' = Returns(p, NoneTriple)
    /\ UNCHANGED pkgcache

(* Variant of MemoHit that returns __pkgsplit_cache__.get(mypkg) without  *)
(* testing that the key is there.                                         *)
MemoHitNoGuard(p) ==
    /\ IsRecipe[p]
    /\ last' = Returns(p, pkgcache[p])
    /\ UNCHANGED pkgcache

(* mypkg in __pkgsplit_cache__: the stored list is returned.              *)
MemoHit(p) ==
    /\ IsRecipe[p] /\ pkgcache[p] # NoEntry
    /\ last' = Returns(p, pkgcache[p])
    /\ UNCHANGED pkgcache

(* Miss, more than three parts: the list is stored, then ParseError       *)
(* "too many underscores".                                                 *)
TooManyParts(p) ==
    LET parts == SplitUnderscore(Stem[p]) IN
    /\ IsRecipe[p] /\ pkgcache[p] = NoEntry
    /\ Len(parts) > 3
    /\ pkgcache' = [pkgcache EXCEPT ![p] = parts]
    /\ last' = Raises(p)

(* Variant of SplitStored that stores a copy of the list, so the padding *)
(* added after the store does not reach the memo.                         *)
SplitStoredCopy(p) ==
    LET parts == SplitUnderscore(Stem[p]) IN
    /\ IsRecipe[p] /\ pkgcache[p] = NoEntry
    /\ Len(parts) <= 3
    /\ pkgcache' = [pkgcache EXCEPT ![p] = parts]
    /\ last' = Returns(p, Pad(parts))

(* Miss, at most three parts: the list is stored, padded in place and    *)
(* returned, so the memo holds the padded list.                           *)
SplitStored(p) ==
    LET parts == SplitUnderscore(Stem[p]) IN
    /\ IsRecipe[p] /\ pkgcache[p] = NoEntry
    /\ Len(parts) <= 3
    /\ pkgcache' = [pkgcache EXCEPT ![p] = Pad(parts)]
    /\ last' = Returns(p, Pad(parts))

VarsFromFileCall(p) ==
    \/ NotARecipe(p) \/ MemoHit(p) \/ TooManyParts(p) \/ SplitStored(p)

Next == \E p \in Pkgs : VarsFromFileCall(p)

Spec == Init /\ [][Next]_vars

-----------------------------------------------------------------------------
(* Properties *)

(* What one call without the memo returns for p.                          *)
Uncached(p) ==
    IF ~IsRecipe[p] THEN Returns(p, NoneTriple)
    ELSE IF Len(SplitUnderscore(Stem[p])) > 3 THEN Raises(p)
    ELSE Returns(p, Pad(SplitUnderscore(Stem[p])))

(* For a path whose name has at most three parts, every call, the first  *)
(* and every memo hit after it, returns the padded (PN, PV, PR) list: the *)
(* memo holds the list the padding was applied to.                         *)
VarsFromFileStable ==
    last # NoEntry /\ ~Uncached(last.pkg).raised => last = Uncached(last.pkg)

(* Every call returns what a call without the memo would: also a path    *)
(* with too many underscores raises each time (spec 7: failures are      *)
(* ParseError).                                                            *)
VarsFromFileCacheTransparent ==
    last # NoEntry => last = Uncached(last.pkg)
====
