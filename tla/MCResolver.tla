---------------------------- MODULE MCResolver ----------------------------
(* Three layer directories, one file name, BBPATH values that share and   *)
(* reorder directories, and an LRU of two keys for four BBPATH values.    *)
EXTENDS Resolver

CONSTANTS a, b, c, n

MCDirs == {a, b, c}
MCNames == {n}
MCBBPaths == {<<a, b>>, <<b, c>>, <<a, b, c>>, <<>>}
=============================================================================
