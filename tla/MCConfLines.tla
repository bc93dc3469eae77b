--------------------------- MODULE MCConfLines ---------------------------
EXTENDS ConfLines
====
