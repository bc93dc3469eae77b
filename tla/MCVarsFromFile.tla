--------------------------- MODULE MCVarsFromFile ---------------------------
EXTENDS VarsFromFile, TLC

CONSTANTS q0, q1, q2, q3, q4, q5, q6

\* The paths: q0 .. q5 end in .bb or .bbappend, q6 in .inc.  Their names:
\* "_" (/x/_.bb: two empty parts), "a", "a_a", "_a", "a__" (three parts,
\* the last two empty) and "___" (four parts).
MCPkgs == {q0, q1, q2, q3, q4, q5, q6}
MCStem == (q0 :> <<"_">>) @@ (q1 :> <<"a">>) @@ (q2 :> <<"a", "_", "a">>)
          @@ (q3 :> <<"_", "a">>) @@ (q4 :> <<"a", "_", "_">>)
          @@ (q5 :> <<"_", "_", "_">>) @@ (q6 :> <<"a", "_", "a">>)
MCIsRecipe == [p \in MCPkgs |-> p # q6]
====
