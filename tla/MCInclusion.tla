---------------------------- MODULE MCInclusion ----------------------------
(* Instantiation of Inclusion for TLC: one recipe r, two classes c1 and   *)
(* c2 (c2 listed in BB_DEFER_BBCLASSES), one include file i.  Every file  *)
(* text of up to two statements over the alphabet below is explored.      *)
EXTENDS Inclusion, SequencesExt

CONSTANTS r, c1, c2, i

MCRecipes == {r}
MCClasses == {c1, c2}
MCIncs == {i}
MCDeferred == {c2}

RecipeStmts == {Inherit(c1), Inherit(c2), Inherit(Missing),
                Include(i, FALSE, FALSE), Include(Missing, FALSE, FALSE),
                Include(Missing, FALSE, TRUE), Skip}
ClassStmts == {Include(i, FALSE, FALSE), Inherit(c1), Skip}
IncStmts == {Inherit(c1), Include(i, TRUE, FALSE), Include(i, FALSE, FALSE),
             Assign, Skip}

\* The deferred class is empty or inherits itself, which defers it again
\* during the second pass.
DeferredTexts == {<<>>, <<Inherit(c2)>>}

MCTexts ==
    {[f \in {r, c1, c2, i} |-> CASE f = r -> x [] f = c1 -> y [] f = i -> z
                                 [] f = c2 -> w] :
        x \in BoundedSeq(RecipeStmts, 2), y \in BoundedSeq(ClassStmts, 2),
        z \in BoundedSeq(IncStmts, 2), w \in DeferredTexts}

MCTails ==
    {[f \in {r, c1, c2, i} |-> CASE f = r -> x [] f = c1 -> y [] f = i -> z
                                 [] OTHER -> "ok"] :
        x \in {"ok", "openfunc", "error"}, y \in {"ok", "openfunc"},
        z \in {"ok", "openfunc"}}
=============================================================================
