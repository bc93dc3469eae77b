----------------------------- MODULE Inclusion -----------------------------
(***************************************************************************)
(* The inclusion engine of bb.parse: the recursion between                 *)
(* bb.parse.handle, BBHandler.handle, BBHandler.inherit and                *)
(* ConfHandler.include_single_file over one datastore, with the            *)
(* process-wide statement cache (BBHandler.cached_statements) and the      *)
(* module-global parser state (__infunc__) that every handle() resets.     *)
(*                                                                         *)
(* A file is abstracted to the statements its tree evaluates (assignment,  *)
(* include/require, inherit, and a statement whose evaluation raises       *)
(* SkipRecipe) and to how its text ends: cleanly, inside a shell function  *)
(* opened on its last line ("openfunc"), or with a grammar error           *)
(* ("error").  Name resolution is abstracted to "the target file" or       *)
(* Missing; Resolver.tla models it.                                        *)
(***************************************************************************)
EXTENDS Naturals, Sequences, FiniteSets

CONSTANTS
    Recipes,      \* .bb files, parsed top-level by the cooker
    Classes,      \* .bbclass files
    Incs,         \* .inc files
    Missing,      \* a name that resolve_file cannot find
    NoFile,       \* FILE unset / no shell function open
    Deferred,     \* classes listed in BB_DEFER_BBCLASSES
    MaxDepth,     \* nesting of handle() at which Python raises RecursionError
    Texts,        \* the possible statement lists of the files
    Tails         \* the possible ends of the files' text

Files == Recipes \cup Classes \cup Incs

ASSUME /\ Deferred \subseteq Classes
       /\ MaxDepth \in Nat \ {0}
       /\ Missing \notin Files /\ NoFile \notin Files \cup {Missing}

TailKind == {"ok", "openfunc", "error"}

(* A statement of an evaluated tree; arg is the include target or the    *)
(* inherited class, abs says whether an include names an absolute path.  *)
Stmt == [op: {"assign", "skip", "include", "inherit"},
         arg: Files \cup {Missing, NoFile}, abs: BOOLEAN, required: BOOLEAN]
Assign == [op |-> "assign", arg |-> NoFile, abs |-> FALSE, required |-> FALSE]
Skip == [op |-> "skip", arg |-> NoFile, abs |-> FALSE, required |-> FALSE]
Include(t, a, r) == [op |-> "include", arg |-> t, abs |-> a, required |-> r]
Inherit(c) == [op |-> "inherit", arg |-> c, abs |-> FALSE, required |-> FALSE]

Frame == [file: Files, pc: Nat \ {0}, include: BOOLEAN,
          oldfile: Files \cup {NoFile}]

VARIABLES
    body,          \* body[f]: statements of f's tree (input, fixed)
    tail,          \* tail[f]: how f's text ends (input, fixed)
    stack,         \* the nested handle() calls; the last frame is running
    FILE,          \* datastore variable FILE
    inheritCache,  \* datastore variable __inherit_cache
    defer,         \* datastore variable __BBDEFINHERITS
    skipped,       \* datastore variable __SKIPPED
    stmtCache,     \* BBHandler.cached_statements (process-wide)
    infunc,        \* BBHandler.__infunc__ (module global): the file whose
                   \* shell function is open, or NoFile
    entered,       \* history: handle() entries per file in this datastore
    status         \* "fresh", "running", "finalizing", "finalized",
                   \* "skipwrap", "error"

vars == <<body, tail, stack, FILE, inheritCache, defer, skipped, stmtCache,
          infunc, entered, status>>
datastore == <<FILE, inheritCache, defer, skipped, entered>>

Top == stack[Len(stack)]
TopStmt == body[Top.file][Top.pc]

TypeOK ==
    /\ body \in [Files -> Seq(Stmt)]
    /\ tail \in [Files -> TailKind]
    /\ stack \in Seq(Frame)
    /\ FILE \in Files \cup {NoFile}
    /\ inheritCache \subseteq Classes
    /\ defer \in Seq(Deferred)
    /\ skipped \in BOOLEAN
    /\ stmtCache \subseteq Classes \cup Incs
    /\ infunc \in Files \cup {NoFile}
    /\ entered \in [Files -> Nat]
    /\ status \in {"fresh", "running", "finalizing", "finalized", "skipwrap", "error"}

Init ==
    /\ body \in Texts
    /\ tail \in Tails
    /\ stack = <<>>
    /\ FILE = NoFile
    /\ inheritCache = {}
    /\ defer = <<>>
    /\ skipped = FALSE
    /\ stmtCache = {}
    /\ infunc = NoFile
    /\ entered = [f \in Files |-> 0]
    /\ status = "fresh"

(* A ParseError, or any exception but IOError/OSError, unwinds every      *)
(* handle() of the parse.  The caller says what becomes of skipped and   *)
(* __BBDEFINHERITS.                                                       *)
Fail ==
    /\ status' = "error"
    /\ stack' = <<>>
    /\ UNCHANGED <<body, tail, FILE, inheritCache, stmtCache, infunc,
                   entered>>

(* Completion of the include/inherit statement of the caller's frame.     *)
PopToCaller ==
    [SubSeq(stack, 1, Len(stack) - 1) EXCEPT ![Len(stack) - 1].pc = @ + 1]

Advance == stack' = [stack EXCEPT ![Len(stack)].pc = @ + 1]

(* Variant of GetStatements without the extension test of line 278: the *)
(* tree of every file, a recipe's included, is cached.                    *)
GetStatementsCachesAll(f) ==
    LET cached == f \in stmtCache IN
    [raises |-> ~cached /\ tail[f] = "error",
     infunc |-> IF ~cached /\ tail[f] = "openfunc" THEN f ELSE NoFile,
     cache  |-> IF ~cached THEN stmtCache \cup {f} ELSE stmtCache]

(* BBHandler.get_statements(fn, abs_fn): the cached tree of a .bbclass   *)
(* or .inc, else a parse that raises on leftover residue or body lines,   *)
(* leaves __infunc__ set when the text ends on a function's opening line, *)
(* and caches the tree of a .bbclass or .inc.                             *)
GetStatements(f) ==
    LET cached == f \in stmtCache IN
    [raises |-> ~cached /\ tail[f] = "error",
     infunc |-> IF ~cached /\ tail[f] = "openfunc" THEN f ELSE NoFile,
     cache  |-> IF ~cached /\ f \in Classes \cup Incs
                THEN stmtCache \cup {f} ELSE stmtCache]

(* Variant of Enter in which handle() does not reset __infunc__ (line    *)
(* 285 dropped): a file without an open function inherits the caller's.  *)
EnterKeepsInfunc(f, inc, ic) ==
    LET oldfile == IF inc THEN FILE ELSE NoFile
        g == GetStatements(f)
    IN
    \/ /\ Len(stack) >= MaxDepth
       /\ Fail /\ UNCHANGED skipped
    \/ /\ Len(stack) < MaxDepth
       /\ g.raises
       /\ Fail /\ UNCHANGED skipped
    \/ /\ Len(stack) < MaxDepth
       /\ ~g.raises
       /\ infunc' = IF g.infunc # NoFile THEN g.infunc ELSE infunc
       /\ inheritCache' = IF f \in Classes THEN ic \cup {f} ELSE ic
       /\ stmtCache' = g.cache
       /\ FILE' = IF f \notin Classes /\ f # oldfile THEN f ELSE FILE
       /\ entered' = [entered EXCEPT ![f] = @ + 1]
       /\ stack' = Append(stack, [file |-> f, pc |-> 1, include |-> inc,
                                  oldfile |-> oldfile])
       /\ status' = "running"
       /\ UNCHANGED <<body, tail, skipped>>

(* bb.parse.handle -> BBHandler.handle up to statements.eval: reset the   *)
(* parser globals, record a class in __inherit_cache, save FILE,          *)
(* get_statements, then set FILE for a non-class.  A handle() nested      *)
(* past MaxDepth raises RecursionError.  ic is the __inherit_cache at     *)
(* the call.                                                              *)
Enter(f, inc, ic) ==
    LET oldfile == IF inc THEN FILE ELSE NoFile
        g == GetStatements(f)
    IN
    \/ /\ Len(stack) >= MaxDepth
       /\ Fail /\ UNCHANGED skipped
    \/ /\ Len(stack) < MaxDepth
       /\ g.raises
       /\ Fail /\ UNCHANGED skipped
    \/ /\ Len(stack) < MaxDepth
       /\ ~g.raises
       /\ infunc' = g.infunc
       /\ inheritCache' = IF f \in Classes THEN ic \cup {f} ELSE ic
       /\ stmtCache' = g.cache
       /\ FILE' = IF f \notin Classes /\ f # oldfile THEN f ELSE FILE
       /\ entered' = [entered EXCEPT ![f] = @ + 1]
       /\ stack' = Append(stack, [file |-> f, pc |-> 1, include |-> inc,
                                  oldfile |-> oldfile])
       /\ status' = "running"
       /\ UNCHANGED <<body, tail, skipped>>


(* Variant of AfterEval that never restores the caller's FILE (lines     *)
(* 345-346 dropped).                                                      *)
AfterEvalKeepsFile(t) ==
    \/ /\ infunc # NoFile
       /\ Fail /\ UNCHANGED defer
    \/ /\ infunc = NoFile
       /\ t.file \notin Classes /\ ~t.include
       /\ status' = "finalizing"
       /\ UNCHANGED <<stack, FILE, inheritCache, defer, stmtCache, infunc, entered>>
    \/ /\ infunc = NoFile
       /\ t.file \in Classes \/ t.include
       /\ stack' = PopToCaller
       /\ UNCHANGED <<FILE, inheritCache, defer, stmtCache, infunc, entered,
                      status>>

(* BBHandler.handle after statements.eval (or after a SkipRecipe caught   *)
(* in an included file): report a still-open shell function, go on to    *)
(* ast.multi_finalize for a top-level recipe, else restore FILE and       *)
(* return to the caller.  The caller says what becomes of body, tail and *)
(* skipped.                                                               *)
AfterEval(t) ==
    \/ /\ infunc # NoFile
       /\ Fail /\ UNCHANGED defer
    \/ /\ infunc = NoFile
       /\ t.file \notin Classes /\ ~t.include
       /\ status' = "finalizing"
       /\ UNCHANGED <<stack, FILE, inheritCache, defer, stmtCache, infunc, entered>>
    \/ /\ infunc = NoFile
       /\ t.file \in Classes \/ t.include
       /\ FILE' = IF t.file \notin Classes /\ t.oldfile # NoFile
                     /\ t.file # t.oldfile
                  THEN t.oldfile ELSE FILE
       /\ stack' = PopToCaller
       /\ UNCHANGED <<inheritCache, defer, stmtCache, infunc, entered, status>>

(* The cooker starts a parse: a new datastore, then                       *)
(* bb.parse.handle(fn, d, include=0) for a recipe.                        *)
NewDatastore ==
    /\ status \in {"finalized", "skipwrap", "error"}
    /\ FILE' = NoFile
    /\ inheritCache' = {}
    /\ defer' = <<>>
    /\ skipped' = FALSE
    /\ entered' = [f \in Files |-> 0]
    /\ status' = "fresh"
    /\ UNCHANGED <<body, tail, stack, stmtCache, infunc>>

Parse(r) ==
    /\ status = "fresh"
    /\ Enter(r, FALSE, inheritCache) /\ UNCHANGED defer

(* The running handle() has a statement left to evaluate.                *)
Running ==
    /\ status = "running"
    /\ Top.pc <= Len(body[Top.file])

(* Evaluation of an assignment node: the datastore is abstracted away.    *)
EvalAssign ==
    /\ Running
    /\ TopStmt.op = "assign"
    /\ Advance
    /\ UNCHANGED <<body, tail, FILE, inheritCache, defer, skipped, stmtCache,
                   infunc, entered, status>>

(* The evaluator raises SkipRecipe; the running handle() catches it.  A   *)
(* top-level recipe returns {"": d}; an included file falls through to   *)
(* the checks after statements.eval and returns d to its caller.         *)
EvalSkip ==
    /\ Running
    /\ TopStmt.op = "skip"
    /\ skipped' = TRUE
    /\ \/ /\ ~Top.include
          /\ status' = "skipwrap"
          /\ stack' = <<>>
          /\ UNCHANGED <<FILE, inheritCache, defer, stmtCache, infunc, entered>>
       \/ /\ Top.include
          /\ AfterEval(Top)
    /\ UNCHANGED <<body, tail>>

(* ConfHandler.include_single_file for one expanded name.  A name equal   *)
(* to the including file's own name is ignored; a name that does not     *)
(* resolve enters handle() (which resets the parser globals) and raises  *)
(* IOError(ENOENT) from resolve_file: a ParseError for require, ignored   *)
(* for include.                                                           *)
EvalInclude ==
    LET s == TopStmt IN
    /\ Running
    /\ s.op = "include"
    /\ \/ /\ s.abs /\ s.arg = Top.file
          /\ Advance
          /\ UNCHANGED <<body, tail, FILE, inheritCache, defer, skipped,
                         stmtCache, infunc, entered, status>>
       \/ /\ s.arg = Missing
          /\ infunc' = NoFile
          /\ IF s.required
             THEN /\ status' = "error" /\ stack' = <<>>
             ELSE /\ Advance /\ UNCHANGED status
          /\ UNCHANGED <<body, tail, FILE, inheritCache, defer, skipped,
                         stmtCache, entered>>
       \/ /\ s.arg \in Files
          /\ ~(s.abs /\ s.arg = Top.file)
          /\ Enter(s.arg, TRUE, inheritCache) /\ UNCHANGED defer

(* Variant of EvalInherit without the __inherit_cache test of line 245:  *)
(* every inherit handles the class again.                                *)
EvalInheritNoCacheTest ==
    LET c == TopStmt.arg IN
    /\ Running
    /\ TopStmt.op = "inherit"
    /\ \/ /\ c \in Deferred
          /\ defer' = Append(defer, c)
          /\ Advance
          /\ UNCHANGED <<body, tail, FILE, inheritCache, skipped, stmtCache,
                         infunc, entered, status>>
       \/ /\ c \notin Deferred
          /\ c = Missing
          /\ Fail /\ UNCHANGED <<skipped, defer>>
       \/ /\ c \notin Deferred /\ c \in Classes
          /\ Enter(c, TRUE, inheritCache \cup {c}) /\ UNCHANGED defer

(* BBHandler.inherit for one expanded class name: a class listed in      *)
(* BB_DEFER_BBCLASSES is appended to __BBDEFINHERITS; an unresolved name  *)
(* is a ParseError; a class not yet in __inherit_cache is appended and    *)
(* handled with include=True.                                             *)
EvalInherit ==
    LET c == TopStmt.arg IN
    /\ Running
    /\ TopStmt.op = "inherit"
    /\ \/ /\ c \in Deferred
          /\ defer' = Append(defer, c)
          /\ Advance
          /\ UNCHANGED <<body, tail, FILE, inheritCache, skipped, stmtCache,
                         infunc, entered, status>>
       \/ /\ c \notin Deferred
          /\ c = Missing
          /\ Fail /\ UNCHANGED <<skipped, defer>>
       \/ /\ c \notin Deferred /\ c \in Classes
          /\ c \in inheritCache
          /\ Advance
          /\ UNCHANGED <<body, tail, FILE, inheritCache, defer, skipped,
                         stmtCache, infunc, entered, status>>
       \/ /\ c \notin Deferred /\ c \in Classes
          /\ c \notin inheritCache
          /\ Enter(c, TRUE, inheritCache \cup {c}) /\ UNCHANGED defer

(* The running handle() has evaluated its last statement.                *)
Return ==
    /\ status = "running"
    /\ Top.pc > Len(body[Top.file])
    /\ AfterEval(Top)
    /\ UNCHANGED <<body, tail, skipped>>

(* Variant of FinalizeDeferred that does not pop a deferred class that   *)
(* is already in __inherit_cache.                                         *)
FinalizeDeferredNoPop ==
    /\ status = "finalizing"
    /\ \/ /\ defer = <<>>
          /\ status' = "finalized" /\ stack' = <<>>
          /\ UNCHANGED <<body, tail, FILE, inheritCache, defer, skipped, stmtCache,
                         infunc, entered>>
       \/ /\ defer # <<>> /\ Head(defer) \in inheritCache
          /\ UNCHANGED <<body, tail, stack, FILE, inheritCache, defer, skipped,
                         stmtCache, infunc, entered, status>>
       \/ /\ defer # <<>> /\ Head(defer) \notin inheritCache
          /\ defer' = Tail(defer)
          /\ Enter(Head(defer), TRUE, inheritCache \cup {Head(defer)})

(* ast.multi_finalize -> finalize, still inside the recipe's handle():    *)
(* while __BBDEFINHERITS is not empty, pop its first entry and call       *)
(* BBHandler.inherit(name, deferred=True), which skips a class already in *)
(* __inherit_cache and appends and handles (include=True) any other; a    *)
(* class handled here may defer more.  Then the recipe is finalized.      *)
FinalizeDeferred ==
    /\ status = "finalizing"
    /\ \/ /\ defer = <<>>
          /\ status' = "finalized" /\ stack' = <<>>
          /\ UNCHANGED <<body, tail, FILE, inheritCache, defer, skipped, stmtCache,
                         infunc, entered>>
       \/ /\ defer # <<>> /\ Head(defer) \in inheritCache
          /\ defer' = Tail(defer)
          /\ UNCHANGED <<body, tail, stack, FILE, inheritCache, skipped, stmtCache,
                         infunc, entered, status>>
       \/ /\ defer # <<>> /\ Head(defer) \notin inheritCache
          /\ defer' = Tail(defer)
          /\ Enter(Head(defer), TRUE, inheritCache \cup {Head(defer)})

Step ==
    \/ NewDatastore
    \/ \E r \in Recipes : Parse(r)
    \/ EvalAssign
    \/ EvalSkip
    \/ EvalInclude
    \/ EvalInherit
    \/ Return
    \/ FinalizeDeferred

Next == Step

Spec == Init /\ [][Next]_vars

(* The steps of a recipe parse in progress, after bb.parse.handle(r).    *)
ParseStep ==
    \/ EvalAssign \/ EvalSkip \/ EvalInclude \/ EvalInherit \/ Return
    \/ FinalizeDeferred

(* The parse is one synchronous call on the parsing thread: once made,   *)
(* its next step is always taken.  Nothing is assumed of the cooker      *)
(* (Parse, NewDatastore).                                                  *)
FairSpec == Spec /\ WF_vars(ParseStep)

-----------------------------------------------------------------------------
(* Properties *)

(* The frame whose file FILE should name: the innermost frame that is not *)
(* a class (a .bbclass never sets FILE).                                  *)
InnermostNonClass ==
    LET ks == {k \in 1..Len(stack) : stack[k].file \notin Classes}
    IN stack[CHOOSE k \in ks : \A j \in ks : j <= k].file

(* A class is evaluated at most once per datastore, however many recipes, *)
(* includes and classes inherit it (BBHandler.inherit's __inherit_cache   *)
(* test together with handle()'s own append for a .bbclass).              *)
InheritOnce == \A c \in Classes : entered[c] <= 1

(* While a parse runs, FILE names the innermost recipe or .inc being      *)
(* evaluated: every nested handle() of a non-class sets it and restores   *)
(* the caller's value on return, and a class leaves it alone.             *)
FileTracksInnermost == status = "running" => FILE = InnermostNonClass

(* Spec S6 and section 3: a file ending inside an unclosed shell function *)
(* makes the parse fail, and the statement cache holds only trees parsed  *)
(* without error.  Stated as: a recipe that is finalized evaluated no     *)
(* such file.                                                             *)
UnclosedFunctionReported ==
    status = "finalized" => \A f \in Files : entered[f] > 0 => tail[f] # "openfunc"

(* Spec section 3: a file's own path is never included from itself.       *)
SelfIncludeIsNoop ==
    \A k \in 2..Len(stack) : stack[k].include => stack[k].file # stack[k - 1].file

(* Every recipe parse ends: finalized, or SkipRecipe raised out of the    *)
(* recipe's handle(), or a ParseError.  Nested handle() calls are bounded *)
(* by the recursion limit, a relative self-include included, and the     *)
(* finalize loop pops __BBDEFINHERITS until it is empty, also when a     *)
(* deferred class defers more.                                            *)
ParseEnds == status = "running" ~> status \in {"finalized", "skipwrap", "error"}
====
