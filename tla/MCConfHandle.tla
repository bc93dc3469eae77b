--------------------------- MODULE MCConfHandle ---------------------------
EXTENDS ConfHandle

CONSTANTS a, b, c, m, d

\* a includes c, and c includes itself by its absolute path; b includes m,
\* a file named Makefile that no handler takes.
MCFiles == {a, b, c, m}
MCIncludes == (a :> c) @@ (b :> m) @@ (c :> c) @@ (m :> NoFile)
\* os.path.splitext and fn[-5:] of /x/a.conf, /x/b.conf, /x/c.conf and
\* /x/Makefile.
MCExt == [f \in MCFiles |-> IF f = m THEN "" ELSE ".conf"]
MCConfTail == [f \in MCFiles |-> f # m]

\* The same, with d: a file named /x/.conf (splitext gives no extension,
\* its last five characters are ".conf").
MCFilesDot == MCFiles \cup {d}
MCIncludesDot == MCIncludes @@ (d :> NoFile)
MCExtDot == [f \in MCFilesDot |-> IF f \in {m, d} THEN "" ELSE ".conf"]
MCConfTailDot == [f \in MCFilesDot |-> f # m]
====
