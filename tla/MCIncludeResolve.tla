------------------------- MODULE MCIncludeResolve -------------------------
EXTENDS IncludeResolve

CONSTANTS d1, d2, n, s

\* The including file lives in d1; BBPATH is d2.  n is a basename (the
\* index resolves it), s a name with '/' (which() resolves it).
MCDirs == {d1, d2}
MCNames == {n, s}
MCSlashNames == {s}
MCParents == {d1}
MCBBPaths == {<<d2>>}
====
