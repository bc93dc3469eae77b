--------------------------- MODULE MCClassResolve ---------------------------
(* Two layers p1, p2; one plain class name n and one name s containing    *)
(* '/'; one absolute path, to n in p1/classes-t; BBPATH is p1:p2 or p2:p1, *)
(* so both layer orders are searched.                                      *)
EXTENDS ClassResolve

CONSTANTS p1, p2, n, s

MCLayers == {p1, p2}
MCNames == {n, s}
MCSlashNames == {s}
MCBBPaths == {<<p1, p2>>}
MCAbsPaths == {<<<<p1, "typed">>, n>>}
MCBBPaths2 == {<<p1, p2>>, <<p2, p1>>}
====
