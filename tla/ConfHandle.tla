----------------------------- MODULE ConfHandle -----------------------------
(***************************************************************************)
(* ConfHandler.handle over one datastore: FILE is saved when include is    *)
(* non-zero, the statement tree comes from _conf_statements_cache (keyed   *)
(* on (abs_fn, baseconfig), never invalidated) or a fresh parse, FILE is   *)
(* set to the file, the tree is evaluated (an include statement runs a     *)
(* nested handle(fn, d, True) through include_single_file), and FILE is    *)
(* restored when the saved value is truthy.                                *)
(*                                                                         *)
(* A file's text is abstracted to what its evaluation does: include the    *)
(* file Includes[f], if any, then make one assignment that records the     *)
(* version of f it was parsed from.  Name resolution is taken as given     *)
(* (IncludeResolve models it).                                             *)
(*                                                                         *)
(* Every handle() is entered through bb.parse.handle, which picks the     *)
(* handler by _get_handler: _supports_cache keyed on the extension        *)
(* os.path.splitext gives, else a walk of the handler registry.  A file   *)
(* name is abstracted to the two facts the supports tests read: that      *)
(* extension, and whether its last five characters are ".conf".          *)
(***************************************************************************)
EXTENDS Naturals, Sequences, SequencesExt

CONSTANTS
    Files,      \* absolute paths of the files handed to bb.parse.handle
    Ext,        \* Ext[f]: os.path.splitext(f)[1]
    ConfTail,   \* ConfTail[f]: f[-5:] == ".conf"
    Includes,   \* Includes[f]: the file f includes, or NoFile
    MaxVer,     \* bound on the edits of one file
    NoFile,     \* FILE unset / no include
    NoEntry     \* key not in _conf_statements_cache

ASSUME Includes \in [Files -> Files \cup {NoFile}]
ASSUME ConfTail \in [Files -> BOOLEAN]

Exts == {Ext[f] : f \in Files}

(* The handler list in import order: parse_py imports ConfHandler, then  *)
(* BBHandler, and each appends itself.                                    *)
Registry == <<"conf", "bb">>

(* ConfHandler.supports and BBHandler.supports.                           *)
Supports(h, f) ==
    IF h = "conf" THEN ConfTail[f] ELSE Ext[f] \in {".bb", ".bbclass", ".inc"}

(* The loop of _get_handler: the first handler whose supports accepts f,  *)
(* or None.                                                               *)
WalkHandlers(f) ==
    LET k == SelectInSeq(Registry, LAMBDA h : Supports(h, f))
    IN IF k = 0 THEN "none" ELSE Registry[k]

Stmt == [kind: {"include"}, target: Files] \cup
        [kind: {"set"}, file: Files, ver: 1..MaxVer]

(* The tree feeder() builds from version v of file f.                     *)
Text(f, v) ==
    (IF Includes[f] # NoFile THEN <<[kind |-> "include", target |-> Includes[f]]>>
     ELSE <<>>)
    \o <<[kind |-> "set", file |-> f, ver |-> v]>>

Frame == [file: Files, stmts: Seq(Stmt), oldfile: Files \cup {NoFile},
          inc: BOOLEAN]

VARIABLES
    fs,     \* fs[f]: the version of f on disk
    cache,  \* _conf_statements_cache: (abs_fn, baseconfig) -> tree or NoEntry
    FILE,   \* the datastore's FILE
    vals,   \* the datastore's assignments: file -> version evaluated, or 0
    stack,  \* the handle() calls in progress, innermost last
    scache  \* _supports_cache: extension -> handler, "none", or NoEntry

vars == <<fs, cache, FILE, vals, stack, scache>>

TypeOK ==
    /\ fs \in [Files -> 1..MaxVer]
    /\ cache \in [Files \X BOOLEAN -> Seq(Stmt) \cup {NoEntry}]
    /\ FILE \in Files \cup {NoFile}
    /\ vals \in [Files -> 0..MaxVer]
    /\ stack \in Seq(Frame) /\ Len(stack) <= Cardinality(Files)
    /\ scache \in [Exts -> {"conf", "bb", "none", NoEntry}]

Init ==
    /\ fs = [f \in Files |-> 1]
    /\ cache = [k \in Files \X BOOLEAN |-> NoEntry]
    /\ FILE = NoFile
    /\ vals = [f \in Files |-> 0]
    /\ stack = <<>>
    /\ scache = [e \in Exts |-> NoEntry]

(* _get_handler(fn): the cached entry for the extension, else the walk.  *)
GetHandler(f) ==
    IF scache[Ext[f]] # NoEntry THEN scache[Ext[f]] ELSE WalkHandlers(f)

(* _get_handler's stores: the handler found, or None, under the          *)
(* extension; a hit stores nothing (the same value).                      *)
SupportsCachePut(f) == scache' = [scache EXCEPT ![Ext[f]] = GetHandler(f)]

(* _get_conf_statements(abs_fn, baseconfig): the cached tree, or the file *)
(* parsed now.                                                            *)
GetConfStatements(f, base) ==
    IF cache[<<f, base>>] # NoEntry THEN cache[<<f, base>>] ELSE Text(f, fs[f])

(* handle(fn, data, include, baseconfig) up to statements.eval: save FILE *)
(* when include is non-zero, get the tree and store it in the cache, set  *)
(* FILE to the file.  below: the calls the new one runs inside.          *)
Enter(f, inc, base, below) ==
    LET oldfile == IF inc THEN FILE ELSE NoFile
        st == GetConfStatements(f, base)
    IN
    /\ cache' = [cache EXCEPT ![<<f, base>>] = st]
    /\ FILE' = f
    /\ stack' = Append(below, [file |-> f, stmts |-> st, oldfile |-> oldfile,
                               inc |-> inc])
    /\ UNCHANGED <<fs, vals>>

(* bb.parse.handle(fn, data, include, baseconfig): _get_handler, then    *)
(* the ConfHandler's handle(), or ParseError "not a BitBake file" when no *)
(* handler takes fn; the error unwinds every handle() in progress.  A     *)
(* file BBHandler takes is parsed as a recipe (Inclusion models that).    *)
Dispatch(f, inc, base, below) ==
    /\ SupportsCachePut(f)
    /\ \/ GetHandler(f) = "conf" /\ Enter(f, inc, base, below)
       \/ GetHandler(f) = "none" /\ stack' = <<>>
                                /\ UNCHANGED <<fs, cache, FILE, vals>>

(* A caller outside the parser (cookerdata) calls bb.parse.handle on the  *)
(* datastore, with include 0 or 1 and either baseconfig.                  *)
Handle(f, inc, base) == stack = <<>> /\ Dispatch(f, inc, base, <<>>)

(* bb.parse.supports(fn, data): _get_handler for its answer and its      *)
(* cache store.                                                           *)
SupportsCall(f) ==
    /\ stack = <<>>
    /\ SupportsCachePut(f)
    /\ UNCHANGED <<fs, cache, FILE, vals, stack>>

Top == stack[Len(stack)]

Running == stack # <<>> /\ Top.stmts # <<>>

(* statements.eval: an assignment.                                        *)
EvalSet ==
    /\ Running /\ Head(Top.stmts).kind = "set"
    /\ vals' = [vals EXCEPT ![Head(Top.stmts).file] = Head(Top.stmts).ver]
    /\ stack' = [stack EXCEPT ![Len(stack)].stmts = Tail(@)]
    /\ UNCHANGED <<fs, cache, FILE, scache>>

(* Variant of EvalInclude without the self-include test.                 *)
EvalIncludeNoSelfCheck ==
    /\ Running /\ Head(Top.stmts).kind = "include"
    /\ Dispatch(Head(Top.stmts).target, TRUE, FALSE,
                [stack EXCEPT ![Len(stack)].stmts = Tail(@)])

(* statements.eval: include -> include_single_file ->                      *)
(* bb.parse.handle(fn, d, True), with baseconfig False.  A file including its  *)
(* own absolute path is skipped (parentfn == fn).                         *)
EvalSelfInclude ==
    /\ Running /\ Head(Top.stmts).kind = "include"
    /\ Head(Top.stmts).target = Top.file
    /\ stack' = [stack EXCEPT ![Len(stack)].stmts = Tail(@)]
    /\ UNCHANGED <<fs, cache, FILE, vals, scache>>

EvalInclude ==
    /\ Running /\ Head(Top.stmts).kind = "include"
    /\ Head(Top.stmts).target # Top.file
    /\ Dispatch(Head(Top.stmts).target, TRUE, FALSE,
                [stack EXCEPT ![Len(stack)].stmts = Tail(@)])

(* Variant of Return that never restores FILE.                           *)
ReturnKeepsFile ==
    /\ stack # <<>> /\ Top.stmts = <<>>
    /\ stack' = Front(stack)
    /\ UNCHANGED <<fs, cache, FILE, vals, scache>>

(* statements.eval returns: restore FILE if oldfile is truthy; the       *)
(* metrics flush of a top-level (include == 0) call changes nothing here. *)
Return ==
    /\ stack # <<>> /\ Top.stmts = <<>>
    /\ FILE' = IF Top.oldfile # NoFile THEN Top.oldfile ELSE FILE
    /\ stack' = Front(stack)
    /\ UNCHANGED <<fs, cache, vals, scache>>

(* The next configuration parse starts on a new datastore.               *)
NewDatastore ==
    /\ stack = <<>>
    /\ FILE' = NoFile /\ vals' = [f \in Files |-> 0]
    /\ UNCHANGED <<fs, cache, stack, scache>>

(* The steps of a handle() call in progress.                              *)
ParserStep == EvalSet \/ EvalSelfInclude \/ EvalInclude \/ Return

Next ==
    \/ \E f \in Files, inc, base \in BOOLEAN : Handle(f, inc, base)
    \/ \E f \in Files : SupportsCall(f)
    \/ ParserStep
    \/ NewDatastore

(* A .conf file is edited between two parses in the same process (a      *)
(* memory-resident server reparsing its configuration).                  *)
Edit(f) ==
    /\ stack = <<>> /\ fs[f] < MaxVer
    /\ fs' = [fs EXCEPT ![f] = @ + 1]
    /\ UNCHANGED <<cache, FILE, vals, stack, scache>>

Spec == Init /\ [][Next \/ \E f \in Files : Edit(f)]_vars

-----------------------------------------------------------------------------
(* Properties *)

(* While a tree is evaluated, FILE names the file that tree came from,   *)
(* however deep the includes: every nested handle() gives FILE back to   *)
(* its includer before the includer's next statement runs.               *)
FileTracksInnermost == stack # <<>> => FILE = Top.file

(* Spec 4.J step 4: a handle() with include non-zero restores the FILE   *)
(* it found, also when FILE was unset.                                   *)
FileRestored ==
    [][stack # <<>> /\ Top.stmts = <<>> /\ Top.inc => FILE' = Top.oldfile]_vars

(* Every handle() evaluates the tree of the file as it is on disk when   *)
(* the call is made.                                                     *)
ConfTreeCurrent ==
    [][\A f \in Files, inc, base \in BOOLEAN :
          Handle(f, inc, base) /\ stack' # <<>>
          => stack'[1].stmts = Text(f, fs[f])]_vars

(* The supports cache never answers for a file differently from the      *)
(* registry walk: an entry stored under an extension by _get_handler is   *)
(* what the walk gives for every file with that extension, so             *)
(* BB_OPT_DISABLE_SUPPORTS_CACHE changes nothing (spec 4.I, 6).           *)
SupportsCacheSound ==
    \A f \in Files : scache[Ext[f]] \in {NoEntry, WalkHandlers(f)}
====
